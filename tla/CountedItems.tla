---------------------------- MODULE CountedItems ---------------------------
(***************************************************************************)
(* examples/counted_items/gen: a count, and that many items, counted down   *)
(* in metadata.                                                             *)
(***************************************************************************)
EXTENDS ShippedCore

count_t == [n |-> 8]
counted_item_t == [v |-> 8]

CountedZero == ZeroOut([count |-> count_t, item |-> counted_item_t], {})

CountedStart == input.parser = "counted_items" /\ state = "parse_count" /\ out = CountedZero

CountedReasonStr(reason) ==
  CASE reason = 1 -> "out of bounds"          [] reason = 2 -> "max depth exceeded"
    [] reason = 3 -> "no matching select arm" [] reason = 4 -> "out of region bounds"
    [] reason = 5 -> "region out of bounds"   [] reason = 6 -> "region not exhausted"
    [] OTHER -> ""

CountedIn(s) == input.parser = "counted_items" /\ state = s /\ depth < 8

\* out->m_remaining = v & 0xff
SetRemaining(v) ==
  /\ out' = [out EXCEPT !.m_remaining = v % 256]
  /\ line' = line + 1
  /\ UNCHANGED <<input, state, depth, off>>

\* The select of both counting states.
UntilZero == Goto(IF out.m_remaining = 0 THEN "mark_done" ELSE "parse_item") /\ UNCHANGED out

ParseCount ==
  /\ CountedIn("parse_count")
  /\ \/ line = 1 /\ FixedField("count", Whole("n", 8), count_t.n)
     \/ line = 2 /\ SetRemaining(Member("count", "n"))
     \/ line = 3 /\ UntilZero
  /\ UNCHANGED <<pk_region_end, pk_rsp>>

ParseCounted ==
  /\ CountedIn("parse_item")
  /\ \/ line = 1 /\ FixedField("item", Whole("v", 8), counted_item_t.v)
     \/ line = 2 /\ SetRemaining(Minus(out.m_remaining, 1))
     \/ line = 3 /\ UntilZero
  /\ UNCHANGED <<pk_region_end, pk_rsp>>

\* m_done = 1 & 1, then accept.
MarkDone ==
  /\ CountedIn("mark_done")
  /\ Return(0, PK_R_NONE, [out EXCEPT !.m_done = 1])
  /\ UNCHANGED <<pk_region_end, pk_rsp>>

CountedStep == ParseCount \/ ParseCounted \/ MarkDone
=============================================================================

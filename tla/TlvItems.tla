------------------------------ MODULE TlvItems -----------------------------
(***************************************************************************)
(* examples/tlv_items/gen: a length, and items inside the region it opens.  *)
(***************************************************************************)
EXTENDS ShippedCore

total_len_t == [total |-> 8]
tlv_item_t == [kind |-> 8, ln |-> 8]

TlvZero == ZeroOut([total_len |-> total_len_t, item |-> tlv_item_t], {<<"item", "val">>})

TlvStart == input.parser = "tlv_items" /\ state = "parse_total" /\ out = TlvZero

TlvReasonStr(reason) ==
  CASE reason = 1 -> "out of bounds"          [] reason = 2 -> "max depth exceeded"
    [] reason = 3 -> "no matching select arm" [] reason = 4 -> "out of region bounds"
    [] reason = 5 -> "region out of bounds"   [] reason = 6 -> "region not exhausted"
    [] OTHER -> ""

\* Mutant of TlvIn: one state too many.
TlvInOneMore(s) == input.parser = "tlv_items" /\ state = s /\ depth <= 8

TlvIn(s) == input.parser = "tlv_items" /\ state = s /\ depth < 8

PK_RMASK == 0

\* if (pk_rsp && off + n > pk_region_end[..]) reject; then as anywhere.
FieldInRegion(h, f, type) ==
  \/ /\ pk_rsp # 0 /\ Plus(off, f.bits) > pk_region_end
     /\ Rejected(PK_R_OUT_OF_REGION_BOUNDS, Present(h))
  \/ /\ ~(pk_rsp # 0 /\ Plus(off, f.bits) > pk_region_end)
     /\ FixedField(h, f, type)

\* The same for a run, by subtraction.
RunInRegion(h, name, vlen) ==
  \/ /\ pk_rsp # 0 /\ vlen > Minus(pk_region_end, off)
     /\ Reject(PK_R_OUT_OF_REGION_BOUNDS)
  \/ /\ ~(pk_rsp # 0 /\ vlen > Minus(pk_region_end, off))
     /\ RunField(h, name, vlen)

\* Mutant of PushRegion: the slot is not written.
PushNothing(rlen) ==
  /\ pk_rsp' = pk_rsp + 1
  /\ line' = line + 1
  /\ UNCHANGED <<input, state, depth, off, pk_region_end, out>>

\* The three tests of a push, the slot, the counter.
PushRegion(rlen) ==
  LET lies == \/ pk_rsp # 0 /\ rlen > Minus(pk_region_end, off)
              \/ pk_rsp = 0 /\ rlen > WordSize - 1 - off
              \/ pk_rsp > PK_RMASK
  IN \/ /\ lies
        /\ Reject(PK_R_REGION_OUT_OF_BOUNDS)
        /\ UNCHANGED <<pk_region_end, pk_rsp>>
     \/ /\ ~lies
        /\ pk_region_end' = Plus(off, rlen)
        /\ pk_rsp' = pk_rsp + 1
        /\ line' = line + 1
        /\ UNCHANGED <<input, state, depth, off, out>>

ParseTotal ==
  /\ TlvIn("parse_total")
  /\ \/ /\ line = 1
        /\ FieldInRegion("total_len", Whole("total", 8), total_len_t.total)
        /\ UNCHANGED <<pk_region_end, pk_rsp>>
     \/ line = 2 /\ PushRegion(Member("total_len", "total") * 8)
     \/ line = 3 /\ Goto("tlv_loop") /\ UNCHANGED <<pk_region_end, pk_rsp, out>>

\* remaining(), in bytes.
TlvLoop ==
  /\ TlvIn("tlv_loop")
  /\ Goto(IF Minus(pk_region_end, off) \div 8 = 0 THEN "close" ELSE "parse_item")
  /\ UNCHANGED <<pk_region_end, pk_rsp, out>>

TlvItemFields == <<Whole("kind", 8), Whole("ln", 8)>>

ParseItem ==
  /\ TlvIn("parse_item")
  /\ \/ /\ line <= Len(TlvItemFields)
        /\ FieldInRegion("item", TlvItemFields[line], tlv_item_t[TlvItemFields[line].name])
     \/ line = 3 /\ RunInRegion("item", "val", Member("item", "ln") * 8)
     \/ line = 4 /\ Goto("tlv_loop") /\ UNCHANGED out
  /\ UNCHANGED <<pk_region_end, pk_rsp>>

\* The pop, then accept.
Close ==
  /\ TlvIn("close")
  /\ \/ /\ pk_rsp = 0
        /\ Reject(PK_R_REGION_NOT_EXHAUSTED)
        /\ UNCHANGED pk_rsp
     \/ /\ pk_rsp # 0
        /\ pk_rsp' = pk_rsp - 1
        /\ IF off < pk_region_end THEN Reject(PK_R_REGION_NOT_EXHAUSTED) ELSE Accept
  /\ UNCHANGED pk_region_end

TlvStep == ParseTotal \/ TlvLoop \/ ParseItem \/ Close
=============================================================================

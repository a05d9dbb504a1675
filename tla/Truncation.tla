---------------------------- MODULE Truncation -----------------------------
(***************************************************************************)
(* The two classes of reject reasons (docs/reference/ir-semantics.md,       *)
(* section 1): "out of bounds" says that the input ended before consistent  *)
(* content did, every other reason that the content is inconsistent.  So a  *)
(* caller may retry after "out of bounds" with more bits, and only then.    *)
(*                                                                          *)
(* Two calls of run_bits on one parser, on a packet and on an extension of  *)
(* it.  They share nothing, so their steps may be taken side by side.       *)
(***************************************************************************)
EXTENDS InterpProperties

VARIABLES   \* of the run on the extension
  packet2, pc2, ix2, fx2, current2, depth2, cursor_bits2, entry_cursor2, regions2, env2, meta2,
  headers2, trace2, result2

machine2 == <<pc2, ix2, fx2, current2, depth2, cursor_bits2, entry_cursor2, regions2,
              env2, meta2, headers2, trace2, result2>>
runs == <<vars, packet2, machine2>>

More == INSTANCE InterpProperties WITH
  packet <- packet2, pc <- pc2, ix <- ix2, fx <- fx2, current <- current2, depth <- depth2,
  cursor_bits <- cursor_bits2, entry_cursor <- entry_cursor2, regions <- regions2, env <- env2,
  meta <- meta2, headers <- headers2, trace <- trace2, result <- result2

Report == [result |-> result, headers |-> headers, meta |-> meta, trace |-> trace]
Report2 == [result |-> result2, headers |-> headers2, meta |-> meta2, trace |-> trace2]

TruncationInit ==
  /\ Init
  /\ packet2 \in {p \in Packets : IsPrefix(packet, p)}
  /\ pc2 = "enter"
  /\ More!Fresh(ir)

\* Each takes its next step; one that has ended waits.  Neither holds the other
\* back: a run has a next step until it ends (the run has no deadlock).
TruncationNext == Next /\ More!Next

TruncationSpec == TruncationInit /\ [][TruncationNext]_runs

----------------------------------------------------------------------------
Truncated == result.reason = "out of bounds"

\* A verdict that is not truncation is final: a run that sees more bits ends at
\* the same step with the same report (interp/mod.rs oob_reason: "crossing the
\* innermost region is structural regardless of the buffer"; ir-semantics, reject
\* classes).
OtherVerdictsAreFinal ==
  (pc = "done" /\ ~Truncated) => pc2 = "done" /\ Report2 = Report

\* A truncated run is the beginning of the run on more bits: what it extracted
\* and the states it went through come first, and no bit is given back.
TruncatedRunIsAPrefix ==
  (pc = "done" /\ pc2 = "done" /\ Truncated) =>
    /\ Len(headers) <= Len(headers2)
    /\ \A k \in DOMAIN headers :
         /\ IsPrefix(headers[k].fields, headers2[k].fields)
         /\ k < Len(headers) => headers[k] = headers2[k]
    /\ Len(trace) <= Len(trace2)
    /\ \A k \in DOMAIN trace : trace[k].state = trace2[k].state
    /\ result2.consumed_bits >= result.consumed_bits
=============================================================================

--------------------------- MODULE MCConformance ---------------------------
(* The example programs through validation, the interpreter and C.         *)
EXTENDS Conformance, Families

\* The region programs that assign remaining() in their middle state and read
\* in their last.
MCPrograms ==
  ZooPrograms \cup {p \in RegionPrograms : /\ p.states[1].assigns = <<>>
                                           /\ p.states[2].assigns # <<>>
                                           /\ p.states[3].extracts # <<>>}
MCExprs == ZooExprs \cup RegionExprs
MCReasons == {"unknown"}
MCPackets == BitStrings(8)
SixBits == BitStrings(6)
MCDepth == 6
MCGarbage == {0, 15}
=============================================================================

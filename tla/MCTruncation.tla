---------------------------- MODULE MCTruncation ---------------------------
(* The example programs, every packet and every extension of it.          *)
EXTENDS Truncation, Zoo

MCPrograms == ZooPrograms
MCExprs == ZooExprs
MCReasons == {"unknown"}
MCPackets == BitStrings(7)
=============================================================================

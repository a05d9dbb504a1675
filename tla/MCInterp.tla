----------------------------- MODULE MCInterp ------------------------------
(* The example programs, and two kinds whose runs may leave with Err, on    *)
(* every input of a few bits, words of four bits.                           *)
EXTENDS InterpProperties, Families

MCPrograms == ZooPrograms \cup ForwardPrograms \cup RunKeyPrograms
MCExprs == ZooExprs \cup ForwardExprs \cup RunKeyExprs
MCReasons == {"unknown"}
MCPackets == BitStrings(8)
=============================================================================

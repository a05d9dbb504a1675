----------------------------- MODULE MCPipeline -----------------------------
(* Families of small programs through validation, analysis and execution.  *)
EXTENDS AlignedRuns, Families

MCPrograms == UsePrograms \cup LoosePrograms \cup AlignPrograms
MCExprs == UseExprs \cup LooseExprs \cup AlignExprs
MCReasons == {"unknown"}
MCPackets == BitStrings(4)
MCDepth == 4
=============================================================================

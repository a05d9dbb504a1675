---------------------------- MODULE AlignedRuns ----------------------------
(***************************************************************************)
(* A validated program, the alignment analysis on it, then its runs: what   *)
(* the analysis says of the cursor is compared with the cursor.             *)
(***************************************************************************)
EXTENDS Pipeline, Alignment

AlignedInit == PipelineInit /\ AlignInit

Analyse ==
  /\ vpc = "valid"
  /\ AlignState
  /\ UNCHANGED <<packet, machine, validator>>

AlignedNext ==
  \/ Validate /\ UNCHANGED alignment
  \/ Analyse
  \/ Aligned /\ StartRun /\ UNCHANGED alignment
  \/ Run /\ UNCHANGED alignment
  \/ Finished /\ UNCHANGED alignment

AlignedSpec == AlignedInit /\ [][AlignedNext]_<<pipeline, alignment>>
FairAligned ==
  /\ AlignedSpec
  /\ WF_<<pipeline, alignment>>(Validate /\ UNCHANGED alignment)
  /\ WF_<<pipeline, alignment>>(Run /\ UNCHANGED alignment)

----------------------------------------------------------------------------
\* Residues with which the walks of the state graph arrive at a state.
Arrivals ==
  LET step(S) == S \cup UNION {Successors(ir.states[a[1]]) \X {ExitOf(a[1], a[2])} : a \in S}
      reach[n \in 0..(Len(ir.states) * (ByteBits + 1))] ==
        IF n = 0 THEN {<<ir.start_state, 0>>} ELSE step(reach[n - 1])
  IN reach[Len(ir.states) * (ByteBits + 1)]

\* The residue of a state is known exactly when every walk arrives with it,
\* whatever the order of the worklist and however often a state is redone
\* (entry_alignments: "every entry arrives with cursor = a (mod 8)").
AlignmentIsExact ==
  (vpc = "valid" /\ Aligned /\ pc = "idle") =>
    \A q \in DOMAIN ir.states :
      LET residues == {a[2] : a \in {a \in Arrivals : a[1] = q}}
      IN IF residues = {} THEN q \notin DOMAIN align
         ELSE align[q] = IF Cardinality(residues) = 1 THEN CHOOSE r \in residues : TRUE
                         ELSE Unknown

\* The analysis looks an instance up by name: its first extract in the state.
FirstInState ==
  \A k \in 1..(ix - 1) : InstanceOf(St.extracts[k]) # InstanceOf(Ex)

\* No run contradicts the analysis, lengths that wrap included: it enters a
\* state with the residue announced (expr_mod8: "sound even over expressions
\* that wrap"), a field read for the first time in its state lies where the
\* analysis says, and a run it calls a range of bytes is one (field_alignment,
\* misaligned_var_runs).
AlignmentHolds ==
  /\ (vpc = "valid" /\ Aligned /\ pc = "enter") =>
       /\ current \in DOMAIN align
       /\ align[current] \in {Unknown, cursor_bits % ByteBits}
  /\ (pc = "field" /\ fx <= Len(Fields) /\ FirstInState) =>
       /\ FieldAlignment(current, InstanceOf(Ex), fx) \in {Unknown, cursor_bits % ByteBits}
       /\ (AtRun /\ RunOfBytes(current, InstanceOf(Ex), fx) /\ RunLength # Undef) =>
            RunLength % ByteBits = 0

\* How much is left to do: facts to lose, known states to visit, the stack.
FactsLeft == 2 * Len(ir.states) - MapThenSumSet(LAMBDA q : IF align[q] = Unknown THEN 2 ELSE 1,
                                                DOMAIN align)
KnownToVisit == Cardinality({q \in ToSet(todo) : align[q] # Unknown})

\* The worklist empties on every valid program: a visit that teaches nothing
\* new leaves fewer known states to visit, or a shorter stack, though a state
\* in conflict is pushed again each time a known residue arrives
\* (entry_alignments).
AnalysisEnds ==
  [][todo' # todo =>
       \/ FactsLeft' < FactsLeft
       \/ /\ FactsLeft' = FactsLeft
          /\ \/ KnownToVisit' < KnownToVisit
             \/ KnownToVisit' = KnownToVisit /\ Len(todo') < Len(todo)]_<<pipeline, alignment>>
=============================================================================

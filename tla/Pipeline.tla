----------------------------- MODULE Pipeline ------------------------------
(***************************************************************************)
(* Validation, then execution: the only way a program reaches the           *)
(* interpreter.  ValidatedIr (rust/pakeles/src/ir/mod.rs) can only be made  *)
(* by the validator, and run_bits takes a ValidatedIr; so the interpreter   *)
(* relies on what the validator established.                                *)
(***************************************************************************)
EXTENDS InterpProperties, Validator

pipeline == <<vars, validator>>

PipelineInit ==
  /\ ir \in Programs
  /\ packet = <<>>
  /\ pc = "idle"
  /\ Fresh(ir)
  /\ ValidatorInit

Validate ==
  /\ ValidateStep
  /\ UNCHANGED <<packet, machine>>

\* run_bits on a validated program.
StartRun ==
  /\ vpc = "valid"
  /\ pc = "idle"
  /\ pc' = "enter"
  /\ packet' \in Packets
  /\ UNCHANGED <<ir, ix, fx, current, depth, cursor_bits, entry_cursor, regions, env, meta,
                 headers, trace, result, validator>>

Run == Step /\ UNCHANGED validator

Finished == (vpc = "invalid" \/ pc = "done") /\ UNCHANGED pipeline

PipelineNext ==
  \/ Validate
  \/ StartRun
  \/ Run
  \/ Finished

PipelineSpec == PipelineInit /\ [][PipelineNext]_pipeline

----------------------------------------------------------------------------
\* The type of the validator's variables.
ValidatorTypeOK ==
  /\ vpc \in Stages
  /\ si \in 1..(Len(ir.states) + 1)
  /\ changed \in BOOLEAN
  /\ DOMAIN inset \subseteq DOMAIN ir.states
  /\ \A q \in DOMAIN inset : inset[q] \subseteq Instances
  /\ DOMAIN region_depth \subseteq DOMAIN ir.states
  /\ \A q \in DOMAIN region_depth : region_depth[q] \in Nat
  /\ work \subseteq DOMAIN region_depth

\* States reachable from the start through states that do not extract i.
ReachedWithout(i) ==
  LET step(S) == S \cup UNION {Successors(ir.states[q]) :
                                 q \in {q \in S : i \notin StateInstances(ir.states[q])}}
      reach[n \in 0..Len(ir.states)] ==
        IF n = 0 THEN {ir.start_state} ELSE step(reach[n - 1])
  IN reach[Len(ir.states)]

\* The sweeps stop at the exact answer: an instance is in a state's set iff no
\* path of the state graph reaches the state without extracting it
\* (validate.rs: "in(s) = intersection over predecessors", ir-semantics W7).
InsetIsExact ==
  vpc = "uses" =>
    \A q \in DOMAIN ir.states :
      inset[q] = {i \in Instances : q \notin ReachedWithout(i)}

\* What validation concluded holds of every run: a state is entered at its one
\* region depth, with every instance of its set extracted.
EntryFactsHold ==
  (pc = "enter" /\ current \in DOMAIN ir.states) =>
    /\ current \in DOMAIN region_depth
    /\ Len(regions) = region_depth[current]
    /\ \A i \in inset[current] : \E k \in DOMAIN headers : headers[k].instance = i

\* Region depths by paths: the pairs of a state and a depth that the state
\* graph allows, up to paths twice as long as the parser has states.
DepthsOnPaths ==
  LET step(S) == S \cup UNION {Successors(ir.states[c[1]]) \X {DepthAtExit(c[1], c[2])} : c \in S}
      reach[n \in 0..(2 * Len(ir.states))] ==
        IF n = 0 THEN {<<ir.start_state, 0>>} ELSE step(reach[n - 1])
  IN reach[2 * Len(ir.states)]
RegionsConsistent ==
  /\ \A c, d \in DepthsOnPaths : c[1] = d[1] => c = d
  /\ \A c \in DepthsOnPaths : DepthFits(c[1], c[2])

\* The worklist gives the verdict the paths give, whatever the order it visits
\* states in (validate.rs region_depth_errors; ir-semantics W8: every state has
\* one region-stack depth).
RegionVerdictIsExact ==
  (pc = "idle" /\ DOMAIN region_depth # {}) =>
    /\ vpc = "valid" => RegionsConsistent
    /\ vpc = "invalid" => ~RegionsConsistent

\* In a validated program the pushes bound the region stack, cycles included
\* (codegen/c.rs region_cap: "a sound (if loose) bound on the nesting depth";
\* ir-semantics W8: depth consistency implies the region stack is bounded).
RegionStackFitsCap == Len(regions) <= RegionCap

\* A validated program never leaves the interpreter with Err: evaluation is
\* total and the machine never sticks (ir-semantics section 5, totality;
\* interp/mod.rs: "Err means the IR itself is malformed").
ValidatedNeverErrs == result.outcome # "err"

\* Where a validated run does leave with Err, validation did not look: a push
\* length that refers to a header not extracted on this path, or a reference to
\* a variable-length field, or to a later field of the header being read.
ExprsHere ==
  CASE AtRun -> {Width.expr}
    [] AtAssign -> {AssignOp.value}
    [] AtRegionOp /\ Op.kind = "push" -> {Op.len}
    [] AtTransition -> ToSet(KeysOf(St))
    [] OTHER -> {}
BindsNoValue(r) ==
  \E ex \in Extracts :
    InstanceOf(ex) = r.header /\ ir.header_types[ex.header_type][r.field].kind = "bit_len"
ErrsOnlyWhereUnchecked ==
  (vpc = "valid" /\ StepMalformed) =>
    \E e \in ExprsHere : \E r \in FieldRefs(e) :
      \/ AtRegionOp
      \/ AtRun /\ r.header = InstanceOf(Ex) /\ r.field > fx
      \/ BindsNoValue(r)

\* Validation ends with an answer, and so does every run it licenses, cyclic
\* state graphs and states that read nothing included.
StagesEnd == <>[](vpc = "invalid" \/ (vpc = "valid" /\ pc \in {"idle", "done"}))
=============================================================================

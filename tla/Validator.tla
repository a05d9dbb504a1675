----------------------------- MODULE Validator -----------------------------
(***************************************************************************)
(* Well-formedness validation: validate_with_limits of                      *)
(* rust/pakeles/src/ir/validate.rs.  The structural checks come first; if   *)
(* they find nothing, a must-analysis over the state graph decides which    *)
(* instances are extracted on every path to each state, every use point is  *)
(* checked against it, and a worklist gives every reachable state one       *)
(* region-stack depth.                                                      *)
(*                                                                          *)
(* Not modelled: names as strings (portable identifiers, collisions of      *)
(* generated identifiers, display labels) and the size limits other than    *)
(* max_parse_depth; no later stage depends on them.                         *)
(***************************************************************************)
EXTENDS Structure

VARIABLES
  vpc,            \* the stage, "valid" or "invalid" at the end
  si,             \* the state the sweep is at
  changed,        \* did this sweep narrow anything
  inset,          \* state -> instances extracted on every path to it
  region_depth,   \* state -> region-stack depth at entry, for the states seen
  work            \* states whose successors are still to be visited

validator == <<vpc, si, changed, inset, region_depth, work>>

Stages == {"structure", "sweep", "uses", "regions", "valid", "invalid"}

----------------------------------------------------------------------------
(* Structural checks.                                                      *)

\* Mutant of CheckStructure: the start state is taken for one with predecessors only.
CheckStructureFullStart ==
  /\ vpc = "structure"
  /\ IF StructureOk
     THEN vpc' = "sweep" /\ inset' = [q \in DOMAIN ir.states |-> Instances]
     ELSE vpc' = "invalid" /\ UNCHANGED inset
  /\ UNCHANGED <<ir, si, changed, region_depth, work>>

CheckStructure ==
  /\ vpc = "structure"
  /\ IF StructureOk
     THEN /\ vpc' = "sweep"
          /\ inset' = [q \in DOMAIN ir.states |->
                         IF q = ir.start_state THEN {} ELSE Instances]
     ELSE /\ vpc' = "invalid"
          /\ UNCHANGED inset
  /\ UNCHANGED <<ir, si, changed, region_depth, work>>

----------------------------------------------------------------------------
(* Definite extraction: narrow until a whole sweep changes nothing.        *)

SweepState ==
  /\ vpc = "sweep"
  /\ si \in DOMAIN ir.states
  /\ LET out == inset[si] \cup StateInstances(ir.states[si])
     IN inset' = [q \in DOMAIN inset |->
                    IF q \in Successors(ir.states[si]) THEN inset[q] \cap out ELSE inset[q]]
  /\ changed' = (changed \/ inset' # inset)
  /\ si' = si + 1
  /\ UNCHANGED <<ir, vpc, region_depth, work>>

\* Mutants of EndSweep: a single sweep; the flag is not reset for the next.
EndOnlySweep ==
  /\ vpc = "sweep"
  /\ si = Len(ir.states) + 1
  /\ si' = 1
  /\ changed' = FALSE
  /\ vpc' = "uses"
  /\ UNCHANGED <<ir, inset, region_depth, work>>
EndSweepKeepFlag ==
  /\ vpc = "sweep"
  /\ si = Len(ir.states) + 1
  /\ si' = 1
  /\ vpc' = IF changed THEN "sweep" ELSE "uses"
  /\ UNCHANGED <<ir, changed, inset, region_depth, work>>

EndSweep ==
  /\ vpc = "sweep"
  /\ si = Len(ir.states) + 1
  /\ si' = 1
  /\ changed' = FALSE
  /\ vpc' = IF changed THEN "sweep" ELSE "uses"
  /\ UNCHANGED <<ir, inset, region_depth, work>>

\* The instances available in state q once its first n extracts have begun.
Available(q, n) ==
  inset[q] \cup {InstanceOf(ir.states[q].extracts[k]) : k \in 1..n}

RefersWithin(e, instances) == \A r \in FieldRefs(e) : r.header \in instances

\* Mutant of UsesOk: select keys are not looked at.
UsesOkButKeys ==
  \A q \in DOMAIN ir.states :
    LET s == ir.states[q]
    IN /\ \A k \in DOMAIN s.extracts :
            \A w \in RunWidths(ir.header_types[s.extracts[k].header_type]) :
              RefersWithin(w.expr, Available(q, k))
       /\ \A a \in ToSet(s.assigns) : RefersWithin(a.value, Available(q, Len(s.extracts)))

\* Widths, assigned values and select keys; push lengths are not looked at.
UsesOk ==
  \A q \in DOMAIN ir.states :
    LET s == ir.states[q]
        atEnd == Available(q, Len(s.extracts))
    IN /\ \A k \in DOMAIN s.extracts :
            \A w \in RunWidths(ir.header_types[s.extracts[k].header_type]) :
              RefersWithin(w.expr, Available(q, k))
       /\ \A a \in ToSet(s.assigns) : RefersWithin(a.value, atEnd)
       /\ \A k \in ToSet(KeysOf(s)) : RefersWithin(k, atEnd)

CheckUses ==
  /\ vpc = "uses"
  /\ IF UsesOk
     THEN /\ vpc' = "regions"
          /\ region_depth' = [q \in {ir.start_state} |-> 0]
          /\ work' = {ir.start_state}
     ELSE /\ vpc' = "invalid"
          /\ UNCHANGED <<region_depth, work>>
  /\ UNCHANGED <<ir, si, changed, inset>>

----------------------------------------------------------------------------
(* Region depths: the source pops the state pushed last, here any is next. *)

\* What the first n region ops of state q add to the depth.
NetOps(q, n) ==
  LET ops(kind) == {j \in 1..n : ir.states[q].region_ops[j].kind = kind}
  IN Cardinality(ops("push")) - Cardinality(ops("pop"))
DepthAtExit(q, d) == d + NetOps(q, Len(ir.states[q].region_ops))

\* Mutants of DepthFits: pops may underflow; remaining() as a key is not looked at.
DepthFitsUnderflow(q, d) ==
  /\ d = 0 => \A a \in ToSet(ir.states[q].assigns) : ~ContainsRemaining(a.value)
  /\ DepthAtExit(q, d) = 0 => \A k \in ToSet(KeysOf(ir.states[q])) : ~ContainsRemaining(k)
DepthFitsAnyKey(q, d) ==
  /\ d = 0 => \A a \in ToSet(ir.states[q].assigns) : ~ContainsRemaining(a.value)
  /\ \A j \in DOMAIN ir.states[q].region_ops : d + NetOps(q, j) >= 0

\* State q entered at depth d: no underflow, and remaining() inside a region.
DepthFits(q, d) ==
  LET s == ir.states[q]
  IN /\ d = 0 => \A a \in ToSet(s.assigns) : ~ContainsRemaining(a.value)
     /\ \A j \in DOMAIN s.region_ops : d + NetOps(q, j) >= 0
     /\ DepthAtExit(q, d) = 0 => \A k \in ToSet(KeysOf(s)) : ~ContainsRemaining(k)

\* Mutant of DepthsOk: a state seen before is not compared.
DepthsOkOnce(q) == DepthFits(q, region_depth[q])

DepthsOk(q) ==
  /\ DepthFits(q, region_depth[q])
  /\ \A t \in Successors(ir.states[q]) \cap DOMAIN region_depth :
       region_depth[t] = DepthAtExit(q, region_depth[q])

\* Mutant of VisitState: successors get the depth at entry.
VisitStateAtEntry(q) ==
  /\ vpc = "regions"
  /\ q \in work
  /\ LET unseen == Successors(ir.states[q]) \ DOMAIN region_depth
     IN IF DepthsOk(q)
        THEN /\ region_depth' = [t \in DOMAIN region_depth \cup unseen |->
                                   IF t \in unseen THEN region_depth[q] ELSE region_depth[t]]
             /\ work' = (work \ {q}) \cup unseen
             /\ UNCHANGED vpc
        ELSE /\ vpc' = "invalid"
             /\ UNCHANGED <<region_depth, work>>
  /\ UNCHANGED <<ir, si, changed, inset>>

VisitState(q) ==
  /\ vpc = "regions"
  /\ q \in work
  /\ LET unseen == Successors(ir.states[q]) \ DOMAIN region_depth
     IN IF DepthsOk(q)
        THEN /\ region_depth' = [t \in DOMAIN region_depth \cup unseen |->
                                   IF t \in unseen THEN DepthAtExit(q, region_depth[q])
                                   ELSE region_depth[t]]
             /\ work' = (work \ {q}) \cup unseen
             /\ UNCHANGED vpc
        ELSE /\ vpc' = "invalid"
             /\ UNCHANGED <<region_depth, work>>
  /\ UNCHANGED <<ir, si, changed, inset>>

AcceptProgram ==
  /\ vpc = "regions"
  /\ work = {}
  /\ vpc' = "valid"
  /\ UNCHANGED <<ir, si, changed, inset, region_depth, work>>

ValidateStep ==
  \/ CheckStructure
  \/ SweepState
  \/ EndSweep
  \/ CheckUses
  \/ \E q \in work : VisitState(q)
  \/ AcceptProgram

ValidatorInit ==
  /\ vpc = "structure"
  /\ si = 1
  /\ changed = FALSE
  /\ inset = [q \in {} |-> {}]
  /\ region_depth = [q \in {} |-> 0]
  /\ work = {}
=============================================================================

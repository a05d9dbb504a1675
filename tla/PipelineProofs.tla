--------------------------- MODULE PipelineProofs ---------------------------
(***************************************************************************)
(* What validation establishes holds of every run it licenses, for every    *)
(* set of programs and packets, every word size and every order in which    *)
(* the validator visits states: the region depth and the extracted          *)
(* instances of each state entered, the bound on the region stack, and the  *)
(* three places from which a validated run can still leave with Err.  And   *)
(* what it establishes is exact: the sweeps and the worklist answer what    *)
(* the paths of the state graph answer.                                     *)
(***************************************************************************)
EXTENDS Pipeline, InterpProofs, FiniteSetTheorems

----------------------------------------------------------------------------
(* Counting region operations.                                             *)

\* The operations of one kind among the first n of state q.
OpsUpTo(q, n, kind) == {j \in 1..n : ir.states[q].region_ops[j].kind = kind}

LEMMA NetOpsSplit ==
  ASSUME NEW q, NEW n
  PROVE  NetOps(q, n) = Cardinality(OpsUpTo(q, n, "push")) - Cardinality(OpsUpTo(q, n, "pop"))
BY DEF NetOps, OpsUpTo

LEMMA OpsUpToFinite ==
  ASSUME NEW q, NEW n \in Nat, NEW kind
  PROVE  /\ IsFiniteSet(OpsUpTo(q, n, kind))
         /\ Cardinality(OpsUpTo(q, n, kind)) \in Nat
<1>1. IsFiniteSet(1..n) /\ OpsUpTo(q, n, kind) \in SUBSET (1..n)
  BY FS_Interval DEF OpsUpTo
<1>2. IsFiniteSet(OpsUpTo(q, n, kind))
  BY <1>1, FS_Subset
<1> QED BY <1>2, FS_CardinalityType

\* One more operation is counted by its kind.
LEMMA OpsUpToNext ==
  ASSUME NEW q, NEW n \in Nat, NEW kind
  PROVE  Cardinality(OpsUpTo(q, n + 1, kind)) =
           IF ir.states[q].region_ops[n + 1].kind = kind
           THEN Cardinality(OpsUpTo(q, n, kind)) + 1 ELSE Cardinality(OpsUpTo(q, n, kind))
<1>1. CASE ir.states[q].region_ops[n + 1].kind = kind
  <2>1. OpsUpTo(q, n + 1, kind) = OpsUpTo(q, n, kind) \cup {n + 1} /\ n + 1 \notin OpsUpTo(q, n, kind)
    BY <1>1 DEF OpsUpTo
  <2> QED BY <1>1, <2>1, OpsUpToFinite, FS_AddElement
<1>2. CASE ir.states[q].region_ops[n + 1].kind # kind
  <2>1. OpsUpTo(q, n + 1, kind) = OpsUpTo(q, n, kind)
    BY <1>2 DEF OpsUpTo
  <2> QED BY <1>2, <2>1
<1> QED BY <1>1, <1>2

\* What the first operations add to the depth: nothing before the first, one
\* more for a push, one less for a pop.
LEMMA NetOpsProperties ==
  ASSUME NEW q, NEW n \in Nat
  PROVE  /\ NetOps(q, n) \in Int
         /\ NetOps(q, 0) = 0
         /\ ir.states[q].region_ops[n + 1].kind = "push" => NetOps(q, n + 1) = NetOps(q, n) + 1
         /\ ir.states[q].region_ops[n + 1].kind = "pop" => NetOps(q, n + 1) = NetOps(q, n) - 1
<1>1. NetOps(q, n) \in Int
  BY OpsUpToFinite, NetOpsSplit
<1>2. NetOps(q, 0) = 0
  <2>1. OpsUpTo(q, 0, "push") = {} /\ OpsUpTo(q, 0, "pop") = {}
    BY DEF OpsUpTo
  <2> QED BY <2>1, NetOpsSplit, FS_EmptySet
<1> DEFINE count(m, kind) == Cardinality(OpsUpTo(q, m, kind))
<1>3. /\ NetOps(q, n) = count(n, "push") - count(n, "pop")
      /\ NetOps(q, n + 1) = count(n + 1, "push") - count(n + 1, "pop")
  BY NetOpsSplit
<1>4. count(n, "push") \in Nat /\ count(n, "pop") \in Nat
  BY OpsUpToFinite
<1>5. \A kind : count(n + 1, kind) = IF ir.states[q].region_ops[n + 1].kind = kind
                                    THEN count(n, kind) + 1 ELSE count(n, kind)
  BY OpsUpToNext
<1> HIDE DEF count
<1> QED BY <1>1, <1>2, <1>3, <1>4, <1>5

\* The pushes of a set of states.
PushesOfAll(Q) == UNION {PushesOf(q) : q \in Q}

\* There are as many pairs in PushesOf as pushes in the state.
LEMMA PushesOfCount ==
  ASSUME NEW q, NEW n \in Nat, DOMAIN ir.states[q].region_ops = 1..n
  PROVE  /\ IsFiniteSet(PushesOf(q))
         /\ Cardinality(PushesOf(q)) = Cardinality(OpsUpTo(q, n, "push"))
<1> DEFINE S == OpsUpTo(q, n, "push")
           f == [j \in S |-> <<q, j>>]
<1>1. PushesOf(q) = {<<q, j>> : j \in S}
  BY DEF PushesOf, OpsUpTo
<1>2. IsFiniteSet(S)
  BY OpsUpToFinite
<1> HIDE DEF S
<1>3. f \in Surjection(S, PushesOf(q))
  BY <1>1 DEF Surjection
<1>4. f \in Injection(S, PushesOf(q))
  BY <1>1 DEF Injection, IsInjective
<1> HIDE DEF f
<1>5. /\ IsFiniteSet(PushesOf(q))
      /\ Cardinality(PushesOf(q)) = Cardinality(S)
  BY <1>2, <1>3, <1>4, FS_Surjection
<1> QED BY <1>5 DEF S

\* The pushes of finitely many states are finitely many, and those of different
\* states are different.
LEMMA PushesOfAllFinite ==
  ASSUME NEW Q, IsFiniteSet(Q), \A q \in Q : \E n \in Nat : DOMAIN ir.states[q].region_ops = 1..n
  PROVE  /\ IsFiniteSet(PushesOfAll(Q))
         /\ Cardinality(PushesOfAll(Q)) \in Nat
<1> DEFINE T == {PushesOf(q) : q \in Q}
           f == [q \in Q |-> PushesOf(q)]
<1>1. f \in Surjection(Q, T)
  BY DEF Surjection
<1>2. \A t \in T : IsFiniteSet(t)
  BY PushesOfCount
<1>3. PushesOfAll(Q) = UNION T
  BY DEF PushesOfAll
<1> HIDE DEF T, f
<1>4. IsFiniteSet(T)
  BY <1>1, FS_Surjection
<1>5. IsFiniteSet(PushesOfAll(Q))
  BY <1>2, <1>3, <1>4, FS_UNION
<1> QED BY <1>5, FS_CardinalityType

LEMMA PushesOfAllMonotone ==
  ASSUME NEW Q, IsFiniteSet(Q), \A q \in Q : \E n \in Nat : DOMAIN ir.states[q].region_ops = 1..n,
         NEW R \in SUBSET Q
  PROVE  Cardinality(PushesOfAll(R)) <= Cardinality(PushesOfAll(Q))
<1>1. PushesOfAll(R) \in SUBSET PushesOfAll(Q)
  BY DEF PushesOfAll
<1> QED BY <1>1, PushesOfAllFinite, FS_Subset

LEMMA PushesOfAllAdd ==
  ASSUME NEW Q, IsFiniteSet(Q), NEW p, p \notin Q,
         \A q \in Q \cup {p} : \E n \in Nat : DOMAIN ir.states[q].region_ops = 1..n
  PROVE  /\ Cardinality(PushesOfAll(Q \cup {p})) =
              Cardinality(PushesOfAll(Q)) + Cardinality(PushesOf(p))
         /\ Cardinality(PushesOf(p)) \in Nat
<1>1. PushesOfAll(Q \cup {p}) = PushesOfAll(Q) \cup PushesOf(p)
  BY DEF PushesOfAll
<1>2. PushesOfAll(Q) \cap PushesOf(p) = {}
  BY DEF PushesOfAll, PushesOf
<1>3. IsFiniteSet(PushesOfAll(Q)) /\ Cardinality(PushesOfAll(Q)) \in Nat
  BY PushesOfAllFinite
<1>4. IsFiniteSet(PushesOf(p))
  BY PushesOfCount
<1>5. Cardinality(PushesOf(p)) \in Nat
  BY <1>4, FS_CardinalityType
<1>6. Cardinality(PushesOfAll(Q) \cup PushesOf(p)) =
        Cardinality(PushesOfAll(Q)) + Cardinality(PushesOf(p)) - Cardinality({})
  BY <1>2, <1>3, <1>4, FS_Union
<1>7. Cardinality({}) = 0
  BY FS_EmptySet
<1>8. Cardinality(PushesOfAll(Q \cup {p})) = Cardinality(PushesOfAll(Q)) + Cardinality(PushesOf(p)) - 0
  BY <1>1, <1>6, <1>7
<1> QED BY <1>3, <1>5, <1>8

\* The first operations of a state add at most its pushes.
LEMMA NetOpsBound ==
  ASSUME NEW q, NEW n \in Nat, DOMAIN ir.states[q].region_ops = 1..n, NEW m \in 0..n
  PROVE  NetOps(q, m) <= Cardinality(PushesOf(q))
<1>1. OpsUpTo(q, m, "push") \in SUBSET OpsUpTo(q, n, "push")
  BY DEF OpsUpTo
<1>2. Cardinality(OpsUpTo(q, m, "push")) <= Cardinality(PushesOf(q))
  BY <1>1, OpsUpToFinite, FS_Subset, PushesOfCount
<1>3. /\ Cardinality(OpsUpTo(q, m, "push")) \in Nat
      /\ Cardinality(OpsUpTo(q, m, "pop")) \in Nat
      /\ Cardinality(PushesOf(q)) \in Nat
  BY OpsUpToFinite, PushesOfCount
<1> QED BY <1>2, <1>3, NetOpsSplit
----------------------------------------------------------------------------
(* The invariant of the validator.                                         *)

\* The sets of the successors of a state hold nothing that it does not hand on.
Closed(q) ==
  \A t \in Successors(ir.states[q]) : inset[t] \subseteq inset[q] \cup StateInstances(ir.states[q])

\* A state whose successors have been visited fits its depth, and they are at
\* the depth it leaves with.
Settled(q) ==
  /\ DepthFits(q, region_depth[q])
  /\ \A t \in Successors(ir.states[q]) :
       t \in DOMAIN region_depth /\ region_depth[t] = DepthAtExit(q, region_depth[q])
SettledStates == DOMAIN region_depth \ work

StructureFacts ==
  vpc \in {"sweep", "uses", "regions", "valid"} =>
    /\ StructureOk
    /\ DOMAIN inset = DOMAIN ir.states
    /\ inset[ir.start_state] = {}

\* A sweep that has narrowed nothing so far leaves the states behind it closed.
SweepFacts ==
  /\ vpc = "structure" => si = 1
  /\ vpc = "sweep" /\ ~changed => \A q \in DOMAIN ir.states : q < si => Closed(q)
  /\ vpc \in {"uses", "regions", "valid"} => \A q \in DOMAIN ir.states : Closed(q)

\* The depth of a state is at most the pushes of the other states settled.
DepthFacts ==
  vpc \in {"regions", "valid"} =>
    /\ UsesOk
    /\ ir.start_state \in DOMAIN region_depth /\ region_depth[ir.start_state] = 0
    /\ \A q \in SettledStates : Settled(q)
    /\ \A q \in DOMAIN region_depth :
         region_depth[q] <= Cardinality(PushesOfAll(SettledStates \ {q}))
    /\ vpc = "valid" => work = {}

VInv ==
  /\ ir \in Programs
  /\ ValidatorTypeOK
  /\ StructureFacts
  /\ SweepFacts
  /\ DepthFacts

\* The sequences of a program of the schema.
LEMMA ProgramTypes ==
  ASSUME ir \in Programs
  PROVE  /\ ir \in Parser
         /\ ir.states \in Seq(State)
         /\ Len(ir.states) \in Nat /\ DOMAIN ir.states = 1..Len(ir.states)
         /\ ir.header_types \in Seq(HeaderType)
         /\ IsFiniteSet(DOMAIN ir.states)
         /\ \A q \in DOMAIN ir.states :
              /\ ir.states[q] \in State
              /\ ir.states[q].region_ops \in Seq(RegionOp)
              /\ Len(ir.states[q].region_ops) \in Nat
              /\ DOMAIN ir.states[q].region_ops = 1..Len(ir.states[q].region_ops)
<1>1. ir \in Parser
  BY ProgramsAssumption
<1>2. ir.states \in Seq(State) /\ ir.header_types \in Seq(HeaderType)
  BY <1>1 DEF Parser
<1>3. Len(ir.states) \in Nat /\ DOMAIN ir.states = 1..Len(ir.states)
  BY <1>2
<1>4. \A q \in DOMAIN ir.states : ir.states[q] \in State
  BY <1>2
<1>5. \A q \in DOMAIN ir.states : ir.states[q].region_ops \in Seq(RegionOp)
  BY <1>4 DEF State
<1>6. IsFiniteSet(DOMAIN ir.states)
  BY <1>3, FS_Interval
<1> QED BY <1>1, <1>2, <1>3, <1>4, <1>5, <1>6

\* A target that names a state names one that is there.
LEMMA SuccessorsExist ==
  ASSUME StructureOk, NEW q \in DOMAIN ir.states
  PROVE  Successors(ir.states[q]) \subseteq DOMAIN ir.states
<1>1. ir.states[q] \in ToSet(ir.states)
  BY DEF ToSet
<1>2. \A t \in TargetsOf(ir.states[q]) : TargetOk(t)
  BY <1>1 DEF StructureOk, TransitionsOk
<1> QED BY <1>2 DEF Successors, TargetOk

LEMMA StateInstancesKnown ==
  ASSUME NEW q \in DOMAIN ir.states
  PROVE  StateInstances(ir.states[q]) \subseteq Instances
BY DEF StateInstances, Instances, Extracts, ToSet

LEMMA InitVInv == PipelineInit => VInv
<1> SUFFICES ASSUME PipelineInit PROVE VInv
  OBVIOUS
<1>1. ir \in Programs /\ vpc = "structure" /\ si = 1 /\ changed = FALSE /\ inset = [q \in {} |-> {}]
      /\ region_depth = [q \in {} |-> 0] /\ work = {}
  BY DEF PipelineInit, ValidatorInit
<1>2. ValidatorTypeOK
  <2>1. DOMAIN inset = {} /\ DOMAIN region_depth = {}
    BY <1>1
  <2>2. si \in 1..(Len(ir.states) + 1)
    BY <1>1, ProgramTypes
  <2> QED BY <1>1, <2>1, <2>2 DEF ValidatorTypeOK, Stages
<1> QED BY <1>1, <1>2 DEF VInv, StructureFacts, SweepFacts, DepthFacts

\* What depends on the program, or on the sets, is the same where they are.
LEMMA StableFacts ==
  ASSUME UNCHANGED ir
  PROVE  /\ StructureOk' = StructureOk
         /\ Instances' = Instances
         /\ RegionCap' = RegionCap
         /\ \A q, n : NetOps(q, n)' = NetOps(q, n)
         /\ \A Q : PushesOfAll(Q)' = PushesOfAll(Q)
         /\ \A q, d : DepthFits(q, d)' = DepthFits(q, d)
         /\ \A q, d : DepthAtExit(q, d)' = DepthAtExit(q, d)
         /\ UNCHANGED inset => UsesOk' = UsesOk /\ \A q : Closed(q)' = Closed(q)
         /\ UNCHANGED region_depth => \A q : Settled(q)' = Settled(q)
<1>1. StructureOk' = StructureOk
  BY DEF StructureOk, BudgetOk, WidthsOk, InstancesOk, LookaheadsOk, LengthsOk, AssignsOk,
         TransitionsOk, LengthOk, FieldRefsResolve, MetadataRefsResolve, Extracts, RunWidths,
         Pushes, TargetOk, SelectOk, EntryOk, KeyWidth
<1>2. Instances' = Instances
  BY DEF Instances, Extracts
<1>3. RegionCap' = RegionCap
  BY DEF RegionCap, PushesOf
<1>4. \A q, n : NetOps(q, n)' = NetOps(q, n)
  BY DEF NetOps
<1>5. \A Q : PushesOfAll(Q)' = PushesOfAll(Q)
  BY DEF PushesOfAll, PushesOf
<1>6. \A q, d : DepthFits(q, d)' = DepthFits(q, d)
  BY DEF DepthFits, DepthAtExit, NetOps
<1>7. \A q, d : DepthAtExit(q, d)' = DepthAtExit(q, d)
  BY DEF DepthAtExit, NetOps
<1>8. ASSUME UNCHANGED inset PROVE UsesOk' = UsesOk /\ \A q : Closed(q)' = Closed(q)
  BY <1>8 DEF UsesOk, Available, Closed
<1>9. ASSUME UNCHANGED region_depth PROVE \A q : Settled(q)' = Settled(q)
  BY <1>9 DEF Settled, DepthFits, DepthAtExit, NetOps
<1> QED BY <1>1, <1>2, <1>3, <1>4, <1>5, <1>6, <1>7, <1>8, <1>9, Zenon

LEMMA CheckStructureVInv ==
  ASSUME VInv, CheckStructure
  PROVE  VInv'
<1>1. vpc = "structure" /\ UNCHANGED <<ir, si, changed, region_depth, work>>
  BY DEF CheckStructure
<1>2. CASE /\ StructureOk /\ vpc' = "sweep"
           /\ inset' = [q \in DOMAIN ir.states |-> IF q = ir.start_state THEN {} ELSE Instances]
  <2>1. ValidatorTypeOK'
    BY <1>1, <1>2, StableFacts DEF VInv, ValidatorTypeOK, Stages
  <2>2. StructureFacts'
    <3>1. StructureOk' /\ ir' = ir
      BY <1>1, <1>2, StableFacts
    <3>2. ir.start_state \in DOMAIN ir.states
      BY <1>2 DEF StructureOk
    <3> QED BY <1>2, <3>1, <3>2 DEF StructureFacts
  <2>3. SweepFacts'
    <3>1. si' = 1
      BY <1>1 DEF VInv, SweepFacts
    <3>2. DOMAIN ir'.states = 1..Len(ir'.states)
      BY <1>1, ProgramTypes DEF VInv
    <3> QED BY <1>1, <1>2, <3>1, <3>2 DEF VInv, SweepFacts
  <2> QED BY <1>1, <1>2, <2>1, <2>2, <2>3 DEF VInv, DepthFacts
<1>3. CASE vpc' = "invalid" /\ UNCHANGED inset
  <2>1. ValidatorTypeOK'
    BY <1>1, <1>3, StableFacts DEF VInv, ValidatorTypeOK, Stages
  <2> QED BY <1>1, <1>3, <2>1 DEF VInv, StructureFacts, SweepFacts, DepthFacts
<1> QED BY <1>2, <1>3, Zenon DEF CheckStructure

LEMMA SweepStateVInv ==
  ASSUME VInv, SweepState
  PROVE  VInv'
<1> DEFINE s == ir.states[si]
           out == inset[si] \cup StateInstances(s)
<1>1. /\ vpc = "sweep" /\ si \in DOMAIN ir.states
      /\ inset' = [q \in DOMAIN inset |-> IF q \in Successors(s) THEN inset[q] \cap out ELSE inset[q]]
      /\ changed' = (changed \/ inset' # inset)
      /\ si' = si + 1
      /\ UNCHANGED <<ir, vpc, region_depth, work>>
  BY Zenon DEF SweepState
<1>2. /\ StructureOk /\ DOMAIN inset = DOMAIN ir.states /\ inset[ir.start_state] = {}
      /\ ir \in Programs /\ ValidatorTypeOK
  BY <1>1 DEF VInv, StructureFacts
<1>3. /\ DOMAIN inset' = DOMAIN ir.states
      /\ \A q \in DOMAIN ir.states : inset'[q] \subseteq inset[q]
  BY <1>1, <1>2
<1>4. ValidatorTypeOK'
  <2>1. changed' \in BOOLEAN
    BY <1>1
  <2>2. si' \in 1..(Len(ir.states) + 1)
    BY <1>1, <1>2, ProgramTypes
  <2>3. \A q \in DOMAIN inset' : inset'[q] \subseteq Instances
    BY <1>2, <1>3 DEF ValidatorTypeOK
  <2> QED BY <1>1, <1>2, <1>3, <2>1, <2>2, <2>3, StableFacts DEF ValidatorTypeOK
<1>5. StructureFacts'
  <2>1. ir.start_state \in DOMAIN ir.states
    BY <1>2 DEF StructureOk
  <2>2. inset'[ir.start_state] = {}
    BY <1>2, <1>3, <2>1
  <2> QED BY <1>1, <1>2, <1>3, <2>2, StableFacts DEF StructureFacts
<1>6. SweepFacts'
  <2> SUFFICES ASSUME ~changed', NEW q \in DOMAIN ir.states, q < si + 1
               PROVE  Closed(q)'
    BY <1>1 DEF SweepFacts
  <2>1. ~changed /\ inset' = inset
    BY <1>1
  <2>2. CASE q < si
    BY <1>1, <2>1, <2>2, StableFacts DEF VInv, SweepFacts
  <2>3. CASE q = si
    <3>1. \A t \in Successors(s) : t \in DOMAIN inset /\ inset[t] = inset[t] \cap out
      BY <1>1, <1>2, <2>1, SuccessorsExist
    <3>2. Closed(q)
      BY <2>3, <3>1 DEF Closed
    <3> QED BY <1>1, <2>1, <3>2, StableFacts
  <2> QED BY <1>1, <1>2, <2>2, <2>3, ProgramTypes
<1> QED BY <1>1, <1>2, <1>4, <1>5, <1>6 DEF VInv, DepthFacts

LEMMA EndSweepVInv ==
  ASSUME VInv, EndSweep
  PROVE  VInv'
<1>1. /\ vpc = "sweep" /\ si = Len(ir.states) + 1 /\ si' = 1 /\ changed' = FALSE
      /\ vpc' = IF changed THEN "sweep" ELSE "uses"
      /\ UNCHANGED <<ir, inset, region_depth, work>>
  BY Zenon DEF EndSweep
<1>2. /\ StructureOk /\ DOMAIN inset = DOMAIN ir.states /\ inset[ir.start_state] = {}
      /\ ir \in Programs /\ ValidatorTypeOK /\ changed \in BOOLEAN
  BY <1>1 DEF VInv, StructureFacts, ValidatorTypeOK
<1>3. vpc' \in {"sweep", "uses"}
  BY <1>1
<1>4. ValidatorTypeOK'
  <2>1. si' \in 1..(Len(ir'.states) + 1)
    BY <1>1, <1>2, ProgramTypes
  <2> QED BY <1>1, <1>2, <1>3, <2>1, StableFacts DEF ValidatorTypeOK, Stages
<1>5. StructureFacts'
  BY <1>1, <1>2, StableFacts DEF StructureFacts
<1>6. SweepFacts'
  <2>1. \A q \in DOMAIN ir.states : ~(q < si')
    BY <1>1, <1>2, ProgramTypes
  <2>2. ~changed => \A q \in DOMAIN ir.states : Closed(q)
    BY <1>1, <1>2, ProgramTypes DEF VInv, SweepFacts
  <2>3. vpc' = "uses" => \A q \in DOMAIN ir.states : Closed(q)'
    BY <1>1, <2>2, StableFacts
  <2> QED BY <1>1, <1>3, <2>1, <2>3 DEF SweepFacts
<1> QED BY <1>1, <1>2, <1>3, <1>4, <1>5, <1>6 DEF VInv, DepthFacts

LEMMA CheckUsesVInv ==
  ASSUME VInv, CheckUses
  PROVE  VInv'
<1>1. vpc = "uses" /\ UNCHANGED <<ir, si, changed, inset>>
  BY DEF CheckUses
<1>2. /\ StructureOk /\ DOMAIN inset = DOMAIN ir.states /\ inset[ir.start_state] = {}
      /\ ir \in Programs /\ ValidatorTypeOK
      /\ \A q \in DOMAIN ir.states : Closed(q)
  BY <1>1 DEF VInv, StructureFacts, SweepFacts
<1>3. ir.start_state \in DOMAIN ir.states
  BY <1>2 DEF StructureOk
<1>4. CASE /\ UsesOk /\ vpc' = "regions"
           /\ region_depth' = [q \in {ir.start_state} |-> 0]
           /\ work' = {ir.start_state}
  <2>1. DOMAIN region_depth' = {ir.start_state} /\ region_depth'[ir.start_state] = 0
    BY <1>4
  <2>2. ValidatorTypeOK'
    BY <1>1, <1>2, <1>3, <1>4, <2>1, StableFacts DEF ValidatorTypeOK, Stages
  <2>3. StructureFacts' /\ SweepFacts'
    BY <1>1, <1>2, <1>4, StableFacts DEF StructureFacts, SweepFacts
  <2>4. DepthFacts'
    <3>1. SettledStates' = {}
      BY <1>4, <2>1 DEF SettledStates
    <3>2. UsesOk'
      BY <1>1, <1>4, StableFacts
    <3>3. Cardinality(PushesOfAll({} \ {ir.start_state})) \in Nat
      <4>1. IsFiniteSet({} \ {ir.start_state})
        BY FS_EmptySet
      <4> QED BY <4>1, PushesOfAllFinite
    <3>4. Cardinality(PushesOfAll({} \ {ir.start_state}))' \in Nat
      BY <1>1, <3>3, StableFacts
    <3>5. \A q \in DOMAIN region_depth' :
            region_depth'[q] <= Cardinality(PushesOfAll(SettledStates \ {q}))'
      BY <1>1, <2>1, <3>1, <3>4
    <3> QED BY <1>1, <1>4, <2>1, <3>1, <3>2, <3>5 DEF DepthFacts
  <2> QED BY <1>1, <1>2, <2>2, <2>3, <2>4 DEF VInv
<1>5. CASE vpc' = "invalid" /\ UNCHANGED <<region_depth, work>>
  <2>1. ValidatorTypeOK'
    BY <1>1, <1>2, <1>5, StableFacts DEF ValidatorTypeOK, Stages
  <2> QED BY <1>1, <1>2, <1>5, <2>1 DEF VInv, StructureFacts, SweepFacts, DepthFacts
<1> QED BY <1>4, <1>5, Zenon DEF CheckUses

LEMMA AcceptProgramVInv ==
  ASSUME VInv, AcceptProgram
  PROVE  VInv'
<1>1. /\ vpc = "regions" /\ work = {} /\ vpc' = "valid"
      /\ UNCHANGED <<ir, si, changed, inset, region_depth, work>>
  BY DEF AcceptProgram
<1>2. ValidatorTypeOK'
  BY <1>1, StableFacts DEF VInv, ValidatorTypeOK, Stages
<1>3. StructureFacts' /\ SweepFacts'
  BY <1>1, StableFacts DEF VInv, StructureFacts, SweepFacts
<1>4. DepthFacts'
  BY <1>1, StableFacts DEF VInv, DepthFacts, SettledStates
<1> QED BY <1>1, <1>2, <1>3, <1>4 DEF VInv

\* The depth a state leaves with is a number and at most its own pushes more.
LEMMA DepthAtExitType ==
  ASSUME ir \in Programs, NEW q \in DOMAIN ir.states, NEW d \in Nat, DepthFits(q, d)
  PROVE  /\ DepthAtExit(q, d) \in Nat
         /\ DepthAtExit(q, d) <= d + Cardinality(PushesOf(q))
         /\ Cardinality(PushesOf(q)) \in Nat
<1> DEFINE n == Len(ir.states[q].region_ops)
<1>1. n \in Nat /\ DOMAIN ir.states[q].region_ops = 1..n
  BY ProgramTypes
<1>2. DepthAtExit(q, d) = d + NetOps(q, n)
  BY DEF DepthAtExit
<1>3. NetOps(q, n) \in Int /\ NetOps(q, 0) = 0
  BY <1>1, NetOpsProperties
<1>4. n > 0 => d + NetOps(q, n) >= 0
  BY <1>1 DEF DepthFits
<1>5. NetOps(q, n) <= Cardinality(PushesOf(q))
  BY <1>1, NetOpsBound
<1>6. Cardinality(PushesOf(q)) \in Nat
  BY <1>1, PushesOfCount, FS_CardinalityType
<1> HIDE DEF n
<1> QED BY <1>1, <1>2, <1>3, <1>4, <1>5, <1>6

LEMMA VisitStateVInv ==
  ASSUME VInv, NEW q \in work, VisitState(q)
  PROVE  VInv'
<1> DEFINE unseen == Successors(ir.states[q]) \ DOMAIN region_depth
           exit == DepthAtExit(q, region_depth[q])
<1>1. vpc = "regions" /\ UNCHANGED <<ir, si, changed, inset>>
  BY DEF VisitState
<1>2. /\ StructureOk /\ DOMAIN inset = DOMAIN ir.states /\ inset[ir.start_state] = {}
      /\ ir \in Programs /\ ValidatorTypeOK
  BY <1>1 DEF VInv, StructureFacts
<1>3. /\ UsesOk
      /\ ir.start_state \in DOMAIN region_depth /\ region_depth[ir.start_state] = 0
      /\ \A p \in SettledStates : Settled(p)
      /\ \A p \in DOMAIN region_depth :
           region_depth[p] <= Cardinality(PushesOfAll(SettledStates \ {p}))
  BY <1>1 DEF VInv, DepthFacts
<1>4. /\ q \in DOMAIN region_depth /\ q \in DOMAIN ir.states /\ region_depth[q] \in Nat
      /\ DOMAIN region_depth \subseteq DOMAIN ir.states
  BY <1>2 DEF ValidatorTypeOK
<1>5. CASE /\ DepthsOk(q)
           /\ region_depth' = [t \in DOMAIN region_depth \cup unseen |->
                                IF t \in unseen THEN exit ELSE region_depth[t]]
           /\ work' = (work \ {q}) \cup unseen
           /\ UNCHANGED vpc
  <2>1. DepthFits(q, region_depth[q])
    BY <1>5 DEF DepthsOk
  <2>2. exit \in Nat /\ exit <= region_depth[q] + Cardinality(PushesOf(q))
                    /\ Cardinality(PushesOf(q)) \in Nat
    BY <1>2, <1>4, <2>1, DepthAtExitType
  <2>3. unseen \subseteq DOMAIN ir.states /\ unseen \cap DOMAIN region_depth = {}
    BY <1>2, <1>4, SuccessorsExist
  <2> DEFINE now == SettledStates \cup {q}
  <2>4. \A t \in Successors(ir.states[q]) \cap DOMAIN region_depth : region_depth[t] = exit
    BY <1>5 DEF DepthsOk
  <2>5. Successors(ir.states[q]) \subseteq DOMAIN region_depth \cup unseen
    OBVIOUS
  <2> HIDE DEF unseen, exit
  <2>6. /\ DOMAIN region_depth' = DOMAIN region_depth \cup unseen
        /\ \A t \in unseen : region_depth'[t] = exit
        /\ \A t \in DOMAIN region_depth : region_depth'[t] = region_depth[t]
    BY <1>5, <2>3
  <2>7. SettledStates' = now
    BY <1>2, <1>4, <1>5, <2>3, <2>6 DEF SettledStates, ValidatorTypeOK
  <2>8. ValidatorTypeOK'
    <3>1. work' \subseteq DOMAIN region_depth'
      BY <1>2, <1>5, <2>6 DEF ValidatorTypeOK
    <3>2. \A t \in DOMAIN region_depth' : region_depth'[t] \in Nat /\ t \in DOMAIN ir.states
      BY <1>2, <1>4, <2>2, <2>3, <2>6 DEF ValidatorTypeOK
    <3> QED BY <1>1, <1>2, <1>5, <3>1, <3>2, StableFacts DEF ValidatorTypeOK, Stages
  <2>9. StructureFacts' /\ SweepFacts'
    BY <1>1, <1>5, StableFacts DEF VInv, StructureFacts, SweepFacts
  <2>10. \A p \in now : Settled(p)'
    <3>1. ASSUME NEW p \in SettledStates
          PROVE  Settled(p)'
      <4>1. Settled(p) /\ p \in DOMAIN region_depth
        BY <1>3 DEF SettledStates
      <4> QED BY <1>1, <2>6, <4>1 DEF Settled, DepthFits, DepthAtExit, NetOps
    <3>2. Settled(q)'
      BY <1>1, <1>4, <2>1, <2>4, <2>5, <2>6 DEF Settled, exit, DepthFits, DepthAtExit, NetOps
    <3> QED BY <3>1, <3>2
  <2>11. \A p \in DOMAIN region_depth' :
           region_depth'[p] <= Cardinality(PushesOfAll(now \ {p}))
    <3>1. /\ now \subseteq DOMAIN ir.states /\ IsFiniteSet(now) /\ q \notin SettledStates
          /\ IsFiniteSet(SettledStates)
      <4>1. now \subseteq DOMAIN ir.states /\ SettledStates \subseteq DOMAIN ir.states
        BY <1>4 DEF SettledStates
      <4> HIDE DEF now
      <4> QED BY <1>2, <4>1, ProgramTypes, FS_Subset DEF SettledStates
    <3>2. \A p \in DOMAIN ir.states : \E n \in Nat : DOMAIN ir.states[p].region_ops = 1..n
      BY <1>2, ProgramTypes
    <3>3. ASSUME NEW p \in DOMAIN region_depth
          PROVE  region_depth'[p] <= Cardinality(PushesOfAll(now \ {p}))
      <4>1. SettledStates \ {p} \in SUBSET (now \ {p})
        OBVIOUS
      <4>2. IsFiniteSet(now \ {p}) /\ now \ {p} \subseteq DOMAIN ir.states
        BY <3>1, FS_Subset
      <4> HIDE DEF now
      <4>3. Cardinality(PushesOfAll(SettledStates \ {p})) <= Cardinality(PushesOfAll(now \ {p}))
        BY <3>2, <4>1, <4>2, PushesOfAllMonotone
      <4>4. Cardinality(PushesOfAll(now \ {p})) \in Nat
        BY <3>2, <4>2, PushesOfAllFinite
      <4>5. Cardinality(PushesOfAll(SettledStates \ {p})) \in Nat
        <5>1. IsFiniteSet(SettledStates \ {p}) /\ SettledStates \ {p} \subseteq DOMAIN ir.states
          BY <4>1, <4>2, FS_Subset
        <5> QED BY <3>2, <5>1, PushesOfAllFinite
      <4>6. region_depth[p] \in Nat
        BY <1>2 DEF ValidatorTypeOK
      <4> QED BY <1>3, <2>6, <4>3, <4>4, <4>5, <4>6
    <3>4. ASSUME NEW p \in unseen
          PROVE  region_depth'[p] <= Cardinality(PushesOfAll(now \ {p}))
      <4>1. now \ {p} = SettledStates \cup {q} /\ SettledStates \ {q} = SettledStates
        BY <1>4, <2>3, <3>1 DEF SettledStates
      <4>2. Cardinality(PushesOfAll(SettledStates \cup {q})) =
              Cardinality(PushesOfAll(SettledStates)) + Cardinality(PushesOf(q))
        BY <3>1, <3>2, PushesOfAllAdd
      <4>3. region_depth[q] <= Cardinality(PushesOfAll(SettledStates))
        BY <1>3, <1>4, <4>1
      <4>4. Cardinality(PushesOfAll(SettledStates)) \in Nat
        <5>1. SettledStates \subseteq DOMAIN ir.states
          BY <3>1
        <5> QED BY <3>1, <3>2, <5>1, PushesOfAllFinite
      <4> QED BY <1>4, <2>2, <2>6, <4>1, <4>2, <4>3, <4>4
    <3> QED BY <2>6, <3>3, <3>4
  <2>12. DepthFacts'
    <3>1. UsesOk'
      BY <1>1, <1>3, StableFacts
    <3>2. \A p : Cardinality(PushesOfAll(SettledStates \ {p}))' = Cardinality(PushesOfAll(now \ {p}))
      <4> HIDE DEF now
      <4> QED BY <1>1, <2>7 DEF PushesOfAll, PushesOf
    <3>3. ir'.start_state \in DOMAIN region_depth' /\ region_depth'[ir'.start_state] = 0
      BY <1>1, <1>3, <2>6
    <3>4. \A p \in DOMAIN region_depth' :
            region_depth'[p] <= Cardinality(PushesOfAll(SettledStates \ {p}))'
      BY <2>11, <3>2
    <3>5. \A p \in SettledStates' : Settled(p)'
      BY <2>7, <2>10
    <3> QED BY <1>1, <1>5, <3>1, <3>3, <3>4, <3>5 DEF DepthFacts
  <2> QED BY <1>1, <1>2, <2>8, <2>9, <2>12 DEF VInv
<1>6. CASE vpc' = "invalid" /\ UNCHANGED <<region_depth, work>>
  <2>1. ValidatorTypeOK'
    BY <1>1, <1>2, <1>6, StableFacts DEF ValidatorTypeOK, Stages
  <2> QED BY <1>1, <1>2, <1>6, <2>1 DEF VInv, StructureFacts, SweepFacts, DepthFacts
<1> QED BY <1>5, <1>6, Zenon DEF VisitState

\* Every step of the validator preserves its invariant, and so does a step that
\* leaves the program and the validator alone.
LEMMA ValidateStepVInv ==
  ASSUME VInv, ValidateStep
  PROVE  VInv'
<1>1. CASE CheckStructure BY <1>1, CheckStructureVInv
<1>2. CASE SweepState BY <1>2, SweepStateVInv
<1>3. CASE EndSweep BY <1>3, EndSweepVInv
<1>4. CASE CheckUses BY <1>4, CheckUsesVInv
<1>5. CASE \E q \in work : VisitState(q) BY <1>5, VisitStateVInv
<1>6. CASE AcceptProgram BY <1>6, AcceptProgramVInv
<1> QED BY <1>1, <1>2, <1>3, <1>4, <1>5, <1>6, Zenon DEF ValidateStep

LEMMA UnchangedVInv ==
  ASSUME VInv, UNCHANGED <<ir, validator>>
  PROVE  VInv'
<1>1. UNCHANGED <<ir, vpc, si, changed, inset, region_depth, work>>
  BY DEF validator
<1>2. ValidatorTypeOK'
  BY <1>1, StableFacts DEF VInv, ValidatorTypeOK
<1>3. StructureFacts' /\ SweepFacts'
  BY <1>1, StableFacts DEF VInv, StructureFacts, SweepFacts
<1>4. DepthFacts'
  BY <1>1, StableFacts DEF VInv, DepthFacts, SettledStates
<1> QED BY <1>1, <1>2, <1>3, <1>4 DEF VInv

----------------------------------------------------------------------------
(* The invariant of the runs.                                              *)

\* How many extracts of the state have been read, or begun; how many region
\* operations are done.
ExtractsRead == IF pc = "enter" THEN 0 ELSE IF ix <= NExtracts THEN ix - 1 ELSE NExtracts
ExtractsBegun == IF pc = "field" THEN ix ELSE ExtractsRead
OpsDone == IF pc = "body" /\ ix > NExtracts + NAssigns THEN ix - NExtracts - NAssigns - 1 ELSE 0

Live == pc \in {"enter", "body", "field"}

\* The run is at a position of a state that validation reached.
PositionOK ==
  /\ Live => current \in DOMAIN region_depth
  /\ pc = "body" => ix <= NExtracts + NAssigns + NOps + 1
  /\ pc = "field" => fx <= Len(Fields) + 1

\* The stack is as deep as validation says, and the operations done since.
DepthKept == Live => Len(regions) = region_depth[current] + NetOps(current, OpsDone)

\* Every instance validation takes for extracted has a header.
InstancesTaken ==
  Live => \A i \in Available(current, ExtractsBegun) :
            \E k \in DOMAIN headers : headers[k].instance = i

\* The fixed fields of the instances read have a value, and so have those of
\* the header being read before the field it is at.
Bound(ex, n) ==
  \A f \in 1..n : ir.header_types[ex.header_type][f].kind = "bits" =>
                    <<InstanceOf(ex), f>> \in DOMAIN env
FieldsBound ==
  /\ Live => \A ex \in Extracts :
       InstanceOf(ex) \in Available(current, ExtractsRead) =>
         Bound(ex, Len(ir.header_types[ex.header_type]))
  /\ pc = "field" => Bound(Ex, fx - 1)

RegionWords == \A i \in DOMAIN regions : regions[i] \in Word

RunInv ==
  /\ IInv
  /\ PositionOK
  /\ DepthKept
  /\ InstancesTaken
  /\ FieldsBound
  /\ RegionWords
  /\ RegionStackFitsCap

PInv ==
  /\ VInv
  /\ vpc # "valid" => pc = "idle"
  /\ pc = "idle" => Fresh(ir) /\ packet = <<>>
  /\ pc # "idle" => RunInv

\* What validation says of the states it reached, once it has accepted.
LEMMA Licensed ==
  ASSUME VInv, vpc = "valid"
  PROVE  /\ StructureOk /\ UsesOk /\ DOMAIN inset = DOMAIN ir.states
         /\ inset[ir.start_state] = {}
         /\ ir.start_state \in DOMAIN region_depth /\ region_depth[ir.start_state] = 0
         /\ \A q \in DOMAIN region_depth :
              /\ q \in DOMAIN ir.states /\ region_depth[q] \in Nat
              /\ Settled(q) /\ Closed(q)
BY DEF VInv, StructureFacts, SweepFacts, DepthFacts, ValidatorTypeOK, SettledStates

\* The bound on the stack: no depth that validation allows passes it.
LEMMA DepthFitsCap ==
  ASSUME VInv, vpc = "valid", NEW q \in DOMAIN region_depth,
         NEW m \in 0..Len(ir.states[q].region_ops)
  PROVE  region_depth[q] + NetOps(q, m) <= RegionCap
<1> DEFINE others == DOMAIN region_depth \ {q}
           all == DOMAIN ir.states
<1>1. /\ q \in all /\ others \subseteq all /\ region_depth[q] \in Nat /\ IsFiniteSet(all)
      /\ \A p \in all : \E n \in Nat : DOMAIN ir.states[p].region_ops = 1..n
  BY Licensed, ProgramTypes DEF VInv
<1>2. RegionCap = Cardinality(PushesOfAll(all))
  BY DEF RegionCap, PushesOfAll
<1>3. region_depth[q] <= Cardinality(PushesOfAll(others))
  BY DEF VInv, DepthFacts, SettledStates
<1>4. NetOps(q, m) \in Int /\ NetOps(q, m) <= Cardinality(PushesOf(q))
  <2>1. /\ Len(ir.states[q].region_ops) \in Nat
        /\ DOMAIN ir.states[q].region_ops = 1..Len(ir.states[q].region_ops)
    BY <1>1, ProgramTypes DEF VInv
  <2> QED BY <2>1, NetOpsBound, NetOpsProperties
<1>5. IsFiniteSet(others) /\ q \notin others /\ others \cup {q} \in SUBSET all
  BY <1>1, FS_Subset
<1> HIDE DEF others, all
<1>6. /\ Cardinality(PushesOfAll(others \cup {q})) =
           Cardinality(PushesOfAll(others)) + Cardinality(PushesOf(q))
      /\ Cardinality(PushesOf(q)) \in Nat
  BY <1>1, <1>5, PushesOfAllAdd
<1>7. Cardinality(PushesOfAll(others \cup {q})) <= Cardinality(PushesOfAll(all))
  BY <1>1, <1>5, PushesOfAllMonotone
<1>8. Cardinality(PushesOfAll(others)) \in Nat /\ Cardinality(PushesOfAll(all)) \in Nat
  <2>1. \A p \in others : \E n \in Nat : DOMAIN ir.states[p].region_ops = 1..n
    BY <1>1
  <2> QED BY <1>1, <1>5, <2>1, PushesOfAllFinite
<1> QED BY <1>1, <1>2, <1>3, <1>4, <1>6, <1>7, <1>8

\* The state a run is in.
LEMMA LiveState ==
  ASSUME VInv, vpc = "valid", RunInv, Live
  PROVE  /\ current \in DOMAIN region_depth /\ current \in DOMAIN ir.states
         /\ St \in State
         /\ NExtracts \in Nat /\ NAssigns \in Nat /\ NOps \in Nat
         /\ DOMAIN St.extracts = 1..NExtracts
         /\ DOMAIN St.assigns = 1..NAssigns
         /\ DOMAIN St.region_ops = 1..NOps
         /\ \A k \in 1..NExtracts : St.extracts[k] \in Extracts
         /\ ix \in Nat \ {0} /\ fx \in Nat \ {0}
         /\ region_depth[current] \in Nat
         /\ pc = "field" => ix <= NExtracts
<1>1. current \in DOMAIN region_depth
  BY DEF RunInv, PositionOK
<1>2. current \in DOMAIN ir.states /\ region_depth[current] \in Nat
  BY <1>1, Licensed
<1>3. TypeOK /\ ControlOK
  BY DEF RunInv, IInv
<1>4. /\ St \in State
      /\ NExtracts \in Nat /\ NAssigns \in Nat /\ NOps \in Nat
  BY <1>2, <1>3, StType
<1>5. /\ DOMAIN St.extracts = 1..NExtracts
      /\ DOMAIN St.assigns = 1..NAssigns
      /\ DOMAIN St.region_ops = 1..NOps
  BY <1>4 DEF State, NExtracts, NAssigns, NOps
<1>6. \A k \in 1..NExtracts : St.extracts[k] \in Extracts
  <2>1. St \in ToSet(ir.states)
    BY <1>2 DEF St, ToSet
  <2>2. \A k \in 1..NExtracts : St.extracts[k] \in ToSet(St.extracts)
    BY <1>5 DEF ToSet
  <2> QED BY <2>1, <2>2 DEF Extracts
<1>7. pc = "field" => ix <= NExtracts
  BY <1>3, <1>5 DEF ControlOK, TypeOK
<1> QED BY <1>1, <1>2, <1>3, <1>4, <1>5, <1>6, <1>7 DEF TypeOK

LEMMA RegionCapType ==
  ASSUME ir \in Programs
  PROVE  RegionCap \in Nat
<1>1. RegionCap = Cardinality(PushesOfAll(DOMAIN ir.states))
  BY DEF RegionCap, PushesOfAll
<1>2. \A q \in DOMAIN ir.states : \E n \in Nat : DOMAIN ir.states[q].region_ops = 1..n
  BY ProgramTypes
<1> QED BY <1>1, <1>2, ProgramTypes, PushesOfAllFinite

\* The end of a run: the stack is no deeper than before.
LEMMA EndsRunInv ==
  ASSUME RunInv, UNCHANGED <<ir, validator>>, IInv', pc' = "done", RegionWords',
         Len(regions') <= Len(regions)
  PROVE  RunInv'
<1>1. regions \in Seq(Nat) /\ regions' \in Seq(Nat) /\ ir \in Programs
  BY DEF RunInv, IInv, TypeOK
<1>2. ~Live'
  BY DEF Live
<1>3. RegionStackFitsCap'
  BY <1>1, RegionCapType, StableFacts DEF RunInv, RegionStackFitsCap
<1> QED BY <1>2, <1>3 DEF RunInv, PositionOK, DepthKept, InstancesTaken, FieldsBound

LEMMA RejectsRunInv ==
  ASSUME RunInv, UNCHANGED <<ir, validator, regions>>, IInv', pc' = "done"
  PROVE  RunInv'
<1>1. regions \in Seq(Nat) /\ RegionWords /\ RegionWords'
  BY DEF RunInv, RegionWords, IInv, TypeOK
<1> QED BY <1>1, EndsRunInv

\* A step within a state leaves what the state says alone.
LEMMA SameState ==
  ASSUME UNCHANGED <<ir, current, validator>>
  PROVE  /\ UNCHANGED <<St, NExtracts, NAssigns, NOps, Extracts, region_depth, RegionCap>>
         /\ \A n : Available(current, n)' = Available(current, n)
         /\ \A n : NetOps(current, n)' = NetOps(current, n)
         /\ DOMAIN env \subseteq DOMAIN env' =>
              \A ex, n : Bound(ex, n) => Bound(ex, n)'
<1>1. UNCHANGED <<ir, current, vpc, si, changed, inset, region_depth, work>>
  BY DEF validator
<1>2. UNCHANGED <<St, NExtracts, NAssigns, NOps, Extracts, RegionCap>>
  BY <1>1, StableFacts DEF St, NExtracts, NAssigns, NOps, Extracts
<1>3. \A n : Available(current, n)' = Available(current, n)
  BY <1>1 DEF Available
<1>4. \A n : NetOps(current, n)' = NetOps(current, n)
  BY <1>1 DEF NetOps
<1>5. DOMAIN env \subseteq DOMAIN env' => \A ex, n : Bound(ex, n) => Bound(ex, n)'
  BY <1>1 DEF Bound
<1> QED BY <1>1, <1>2, <1>3, <1>4, <1>5

\* A step within a state that begins, reads and does as many of its parts as
\* before, takes no value and no header away, and does not touch the stack.
LEMMA StaysRunInv ==
  ASSUME VInv, vpc = "valid", RunInv, Live, Live', IInv', PositionOK',
         UNCHANGED <<ir, current, validator, regions>>,
         UNCHANGED <<ExtractsRead, ExtractsBegun, OpsDone>>,
         DOMAIN env \subseteq DOMAIN env',
         DOMAIN headers \subseteq DOMAIN headers',
         \A k \in DOMAIN headers : headers'[k].instance = headers[k].instance,
         pc' = "field" => Bound(Ex, fx - 1)'
  PROVE  RunInv'
<1>1. DepthKept'
  BY SameState DEF RunInv, DepthKept
<1>2. InstancesTaken'
  BY SameState DEF RunInv, InstancesTaken
<1>3. FieldsBound'
  <2> SUFFICES ASSUME NEW ex \in Extracts, InstanceOf(ex) \in Available(current, ExtractsRead)
               PROVE  Bound(ex, Len(ir.header_types[ex.header_type]))'
    BY SameState DEF FieldsBound
  <2> QED BY SameState DEF RunInv, FieldsBound
<1>4. RegionWords' /\ RegionStackFitsCap'
  BY SameState DEF RunInv, RegionWords, RegionStackFitsCap
<1> QED BY <1>1, <1>2, <1>3, <1>4 DEF RunInv

LEMMA EnterStateRunInv ==
  ASSUME VInv, vpc = "valid", RunInv, UNCHANGED validator, EnterState, IInv'
  PROVE  RunInv'
<1>1. /\ pc = "enter"
      /\ UNCHANGED <<ir, packet, fx, current, cursor_bits, entry_cursor, regions, env, meta, headers>>
  BY DEF EnterState
<1>2. CASE RejectHere("max depth exceeded")
  BY <1>1, <1>2, RejectsRunInv DEF RejectHere, Finish
<1>3. CASE pc' = "body" /\ ix' = 1
  <2>1. UNCHANGED <<NExtracts, NAssigns, NOps, region_depth>>
    BY <1>1, SameState
  <2>2. NExtracts \in Nat /\ NAssigns \in Nat /\ NOps \in Nat
    BY <1>1, LiveState DEF Live
  <2>3. UNCHANGED <<ExtractsRead, ExtractsBegun, OpsDone>>
    BY <1>1, <1>3, <2>1, <2>2 DEF ExtractsRead, ExtractsBegun, OpsDone
  <2>4. PositionOK'
    BY <1>1, <1>3, <2>1, <2>2 DEF RunInv, PositionOK, Live
  <2> QED BY <1>1, <1>3, <2>3, <2>4, StaysRunInv DEF Live
<1> QED BY <1>2, <1>3, Zenon DEF EnterState

LEMMA BeginExtractRunInv ==
  ASSUME VInv, vpc = "valid", RunInv, UNCHANGED validator, BeginExtract, IInv'
  PROVE  RunInv'
<1> DEFINE header == [instance |-> InstanceOf(Ex), header_type |-> Ex.header_type,
                      start_bit |-> cursor_bits, fields |-> <<>>]
<1>1. /\ pc = "body" /\ ix <= NExtracts /\ pc' = "field" /\ fx' = 1
      /\ headers' = Append(headers, header)
      /\ UNCHANGED <<ir, packet, ix, current, depth, cursor_bits, regions, env, meta, trace, result>>
  BY DEF BeginExtract, AtExtract
<1>2. /\ UNCHANGED <<St, NExtracts, NAssigns, NOps, Extracts, region_depth, RegionCap>>
      /\ \A n : Available(current, n)' = Available(current, n)
      /\ \A n : NetOps(current, n)' = NetOps(current, n)
      /\ \A ex, n : Bound(ex, n) => Bound(ex, n)'
  BY <1>1, SameState
<1>3. /\ NExtracts \in Nat /\ NAssigns \in Nat /\ ix \in Nat \ {0}
      /\ current \in DOMAIN region_depth /\ DOMAIN St.extracts = 1..NExtracts
  BY <1>1, LiveState DEF Live
<1>4. /\ ExtractsRead = ix - 1 /\ ExtractsRead' = ix - 1 /\ ExtractsBegun = ix - 1
      /\ ExtractsBegun' = ix /\ OpsDone = 0 /\ OpsDone' = 0
  BY <1>1, <1>2, <1>3 DEF ExtractsRead, ExtractsBegun, OpsDone
<1>5. PositionOK'
  <2>1. TypeOK' /\ ControlOK'
    BY DEF IInv
  <2>2. Fields' \in HeaderType
    <3>1. ir' \in Parser
      BY <2>1, ProgramsAssumption DEF TypeOK
    <3> QED BY <1>1, <2>1, <3>1 DEF ControlOK, Fields, Parser
  <2>3. fx' <= Len(Fields') + 1
    BY <1>1, <2>2 DEF HeaderType
  <2> QED BY <1>1, <1>2, <1>3, <2>3 DEF PositionOK, Live
<1>6. DepthKept'
  BY <1>1, <1>2, <1>4 DEF RunInv, DepthKept, Live
<1>7. InstancesTaken'
  <2>1. headers \in Seq(ParsedHeader)
    BY DEF RunInv, IInv, TypeOK
  <2> HIDE DEF header
  <2>2. /\ DOMAIN headers \subseteq DOMAIN headers'
        /\ \A k \in DOMAIN headers : headers'[k] = headers[k]
        /\ \E k \in DOMAIN headers' : headers'[k] = header
    BY <1>1, <2>1
  <2>3. header.instance = InstanceOf(St.extracts[ix])
    BY DEF header, Ex
  <2>4. \A i \in Available(current, ix) :
          i \in Available(current, ix - 1) \/ i = InstanceOf(St.extracts[ix])
    BY <1>3 DEF Available, St
  <2>5. \A i \in Available(current, ix) : \E k \in DOMAIN headers' : headers'[k].instance = i
    <3>1. \A i \in Available(current, ix - 1) : \E k \in DOMAIN headers : headers[k].instance = i
      BY <1>1, <1>4 DEF RunInv, InstancesTaken, Live
    <3> QED BY <2>2, <2>3, <2>4, <3>1
  <2> QED BY <1>2, <1>4, <2>5 DEF InstancesTaken
<1>8. FieldsBound'
  <2>1. Bound(Ex, fx - 1)'
    BY <1>1 DEF Bound
  <2>2. ASSUME NEW ex \in Extracts, InstanceOf(ex) \in Available(current, ExtractsRead)
        PROVE  Bound(ex, Len(ir.header_types[ex.header_type]))'
    <3>1. Bound(ex, Len(ir.header_types[ex.header_type]))
      BY <1>1, <2>2 DEF RunInv, FieldsBound, Live
    <3> QED BY <1>1, <1>2, <3>1
  <2> QED BY <1>2, <1>4, <2>1, <2>2 DEF FieldsBound
<1> QED BY <1>1, <1>2, <1>5, <1>6, <1>7, <1>8 DEF RunInv, RegionWords, RegionStackFitsCap

LEMMA EndExtractRunInv ==
  ASSUME VInv, vpc = "valid", RunInv, UNCHANGED validator, EndExtract, IInv'
  PROVE  RunInv'
<1>1. /\ pc = "field" /\ fx = Len(Fields) + 1 /\ pc' = "body" /\ ix' = ix + 1
      /\ UNCHANGED <<ir, packet, fx, current, depth, entry_cursor, regions, env, meta, headers,
                     trace, result>>
  BY DEF EndExtract
<1>2. /\ UNCHANGED <<St, NExtracts, NAssigns, NOps, Extracts, region_depth, RegionCap>>
      /\ \A n : Available(current, n)' = Available(current, n)
      /\ \A n : NetOps(current, n)' = NetOps(current, n)
      /\ \A ex, n : Bound(ex, n) => Bound(ex, n)'
  BY <1>1, SameState
<1>3. /\ NExtracts \in Nat /\ NAssigns \in Nat /\ NOps \in Nat /\ ix \in Nat \ {0}
      /\ current \in DOMAIN region_depth /\ DOMAIN St.extracts = 1..NExtracts /\ ix <= NExtracts
      /\ \A k \in 1..NExtracts : St.extracts[k] \in Extracts
      /\ StructureOk
  BY <1>1, LiveState, Licensed DEF Live
<1>4. /\ ExtractsRead = ix - 1 /\ ExtractsRead' = ix /\ ExtractsBegun = ix
      /\ ExtractsBegun' = ix /\ OpsDone = 0 /\ OpsDone' = 0
  BY <1>1, <1>2, <1>3 DEF ExtractsRead, ExtractsBegun, OpsDone
<1>5. PositionOK'
  BY <1>1, <1>2, <1>3 DEF PositionOK, Live
<1>6. DepthKept' /\ InstancesTaken'
  BY <1>1, <1>2, <1>4 DEF RunInv, DepthKept, InstancesTaken, Live
<1>7. FieldsBound'
  <2> SUFFICES ASSUME NEW ex \in Extracts, InstanceOf(ex) \in Available(current, ix)
               PROVE  Bound(ex, Len(ir.header_types[ex.header_type]))
    BY <1>1, <1>2, <1>4 DEF FieldsBound
  <2>1. CASE InstanceOf(ex) \in Available(current, ix - 1)
    BY <1>1, <1>4, <2>1 DEF RunInv, FieldsBound, Live
  <2>2. CASE InstanceOf(ex) = InstanceOf(Ex)
    <3>1. Ex \in Extracts
      BY <1>3 DEF Ex
    <3>2. ex.header_type = Ex.header_type
      BY <1>3, <2>2, <3>1 DEF StructureOk, InstancesOk
    <3>3. Bound(Ex, fx - 1)
      BY <1>1 DEF RunInv, FieldsBound
    <3>4. Len(Fields) \in Nat
      BY <1>1, FieldTypes DEF RunInv, IInv, HeaderType
    <3> QED BY <1>1, <2>2, <3>2, <3>3, <3>4 DEF Bound, Fields
  <2>3. InstanceOf(ex) \in Available(current, ix - 1) \/ InstanceOf(ex) = InstanceOf(Ex)
    BY <1>3 DEF Available, St, Ex
  <2> QED BY <2>1, <2>2, <2>3
<1> QED BY <1>1, <1>2, <1>5, <1>6, <1>7 DEF RunInv, RegionWords, RegionStackFitsCap

\* Recording a field changes no header's instance.
LEMMA RecordFieldInstances ==
  ASSUME TypeOK, headers # <<>>, NEW len, NEW value, RecordField(len, value)
  PROVE  /\ DOMAIN headers' = DOMAIN headers
         /\ \A k \in DOMAIN headers : headers'[k].instance = headers[k].instance
<1>1. headers \in Seq(ParsedHeader)
  BY DEF TypeOK
<1>2. \A k \in DOMAIN headers : headers[k] \in ParsedHeader
  BY <1>1
<1> QED BY <1>2 DEF RecordField, ParsedHeader

LEMMA ReadFixedRunInv ==
  ASSUME VInv, vpc = "valid", RunInv, UNCHANGED validator, ReadFixed, IInv'
  PROVE  RunInv'
<1> DEFINE name == <<InstanceOf(Ex), fx>>
           v == ReadBits(cursor_bits, Width.bits)
<1>1. /\ pc = "field" /\ fx <= Len(Fields) /\ Width.kind = "bits"
      /\ UNCHANGED <<ir, packet, ix, current, depth, entry_cursor, regions, meta, trace>>
  BY DEF ReadFixed, AtFixed
<1>2. CASE /\ env' = [r \in DOMAIN env \cup {name} |-> IF r = name THEN v ELSE env[r]]
           /\ RecordField(Width.bits, [uint |-> v])
           /\ fx' = fx + 1
           /\ UNCHANGED <<pc, result>>
  <2>1. TypeOK /\ headers # <<>> /\ fx \in Nat \ {0}
    BY <1>1 DEF RunInv, IInv, TypeOK, ControlOK
  <2>2. /\ DOMAIN headers' = DOMAIN headers
        /\ \A k \in DOMAIN headers : headers'[k].instance = headers[k].instance
    BY <1>2, <2>1, RecordFieldInstances
  <2>3. DOMAIN env' = DOMAIN env \cup {name}
    BY <1>2
  <2>4. UNCHANGED <<St, NExtracts, NAssigns, NOps, Ex, Fields, region_depth>>
    BY <1>1, SameState DEF Ex, Fields, St
  <2>5. UNCHANGED <<ExtractsRead, ExtractsBegun, OpsDone>>
    BY <1>1, <1>2, <2>4 DEF ExtractsRead, ExtractsBegun, OpsDone
  <2>6. Len(Fields) \in Nat
    BY <1>1, FieldTypes DEF RunInv, IInv, HeaderType
  <2>7. PositionOK'
    BY <1>1, <1>2, <2>1, <2>4, <2>6 DEF RunInv, PositionOK, Live
  <2>8. Bound(Ex, fx - 1)'
    <3>1. Bound(Ex, fx - 1)
      BY <1>1 DEF RunInv, FieldsBound
    <3>2. ASSUME NEW f \in 1..fx, Fields[f].kind = "bits"
          PROVE  <<InstanceOf(Ex), f>> \in DOMAIN env'
      <4>1. CASE f = fx
        BY <2>3, <4>1
      <4>2. CASE f \in 1..(fx - 1)
        BY <2>3, <3>1, <3>2, <4>2 DEF Bound, Fields
      <4> QED BY <2>1, <4>1, <4>2
    <3> HIDE DEF name, v
    <3>3. fx' - 1 = fx
      BY <1>2, <2>1
    <3> QED BY <2>4, <3>2, <3>3 DEF Bound, Fields
  <2> HIDE DEF name, v
  <2> QED BY <1>1, <1>2, <2>2, <2>3, <2>5, <2>7, <2>8, StaysRunInv DEF Live
<1>3. CASE pc' = "done"
  BY <1>1, <1>3, RejectsRunInv
<1> QED BY <1>2, <1>3, Zenon DEF ReadFixed, Finish

LEMMA ReadRunFieldRunInv ==
  ASSUME VInv, vpc = "valid", RunInv, UNCHANGED validator, ReadRunField, IInv'
  PROVE  RunInv'
<1> DEFINE value == [bits |-> ReadRun(cursor_bits, RunLength)]
<1>1. /\ pc = "field" /\ fx <= Len(Fields) /\ Width.kind = "bit_len"
      /\ UNCHANGED <<ir, packet, ix, current, depth, entry_cursor, regions, env, meta, trace>>
  BY Zenon DEF ReadRunField, AtRun
<1>2. CASE RecordField(RunLength, value) /\ fx' = fx + 1 /\ UNCHANGED <<pc, result>>
  <2>1. TypeOK /\ headers # <<>> /\ fx \in Nat \ {0}
    BY <1>1 DEF RunInv, IInv, TypeOK, ControlOK
  <2>2. /\ DOMAIN headers' = DOMAIN headers
        /\ \A k \in DOMAIN headers : headers'[k].instance = headers[k].instance
    BY <1>2, <2>1, RecordFieldInstances
  <2>3. UNCHANGED <<St, NExtracts, NAssigns, NOps, Ex, Fields, region_depth>>
    BY <1>1, SameState DEF Ex, Fields, St
  <2>4. UNCHANGED <<ExtractsRead, ExtractsBegun, OpsDone>>
    BY <1>1, <1>2, <2>3 DEF ExtractsRead, ExtractsBegun, OpsDone
  <2>5. Len(Fields) \in Nat
    BY <1>1, FieldTypes DEF RunInv, IInv, HeaderType
  <2>6. PositionOK'
    BY <1>1, <1>2, <2>1, <2>3, <2>5 DEF RunInv, PositionOK, Live
  <2>7. Bound(Ex, fx - 1)'
    <3>1. Bound(Ex, fx - 1)
      BY <1>1 DEF RunInv, FieldsBound
    <3>2. \A f \in 1..fx : f \in 1..(fx - 1) \/ Fields[f].kind # "bits"
      BY <1>1, <2>1 DEF Width
    <3>3. fx' - 1 = fx
      BY <1>2, <2>1
    <3> QED BY <1>1, <2>3, <3>1, <3>2, <3>3 DEF Bound, Fields
  <2> QED BY <1>1, <1>2, <2>2, <2>4, <2>6, <2>7, StaysRunInv DEF Live
<1>3. CASE pc' = "done"
  BY <1>1, <1>3, RejectsRunInv
<1> QED BY <1>2, <1>3, Zenon DEF ReadRunField, Finish

LEMMA AssignMetadataRunInv ==
  ASSUME VInv, vpc = "valid", RunInv, UNCHANGED validator, AssignMetadata, IInv'
  PROVE  RunInv'
<1>1. /\ pc = "body" /\ ix \in (NExtracts + 1)..(NExtracts + NAssigns) /\ ix' = ix + 1
      /\ UNCHANGED <<ir, packet, pc, fx, current, depth, cursor_bits, entry_cursor, regions, env,
                     headers, trace, result>>
  BY DEF AssignMetadata, AtAssign
<1>2. UNCHANGED <<St, NExtracts, NAssigns, NOps, region_depth>>
  BY <1>1, SameState
<1>3. NExtracts \in Nat /\ NAssigns \in Nat /\ NOps \in Nat
  BY <1>1, LiveState DEF Live
<1>4. UNCHANGED <<ExtractsRead, ExtractsBegun, OpsDone>>
  BY <1>1, <1>2, <1>3 DEF ExtractsRead, ExtractsBegun, OpsDone
<1>5. PositionOK'
  BY <1>1, <1>2, <1>3 DEF RunInv, PositionOK, Live
<1> QED BY <1>1, <1>4, <1>5, StaysRunInv DEF Live

\* A region operation done: the stack is as deep as the depth of the state and
\* the operations done say.
LEMMA RegionOpRunInv ==
  ASSUME VInv, vpc = "valid", RunInv, UNCHANGED validator, AtRegionOp, IInv',
         UNCHANGED <<ir, pc, fx, current, env, headers>>, ix' = ix + 1, RegionWords',
         Len(regions') = region_depth[current] + NetOps(current, OpsDone + 1)
  PROVE  RunInv'
<1>1. pc = "body" /\ ix \in (NExtracts + NAssigns + 1)..(NExtracts + NAssigns + NOps) /\ Live /\ Live'
  BY DEF AtRegionOp, Live
<1>2. /\ UNCHANGED <<St, NExtracts, NAssigns, NOps, Extracts, region_depth, RegionCap>>
      /\ \A n : Available(current, n)' = Available(current, n)
      /\ \A n : NetOps(current, n)' = NetOps(current, n)
      /\ \A ex, n : Bound(ex, n) => Bound(ex, n)'
  BY SameState
<1>3. NExtracts \in Nat /\ NAssigns \in Nat /\ NOps \in Nat /\ current \in DOMAIN region_depth
  BY <1>1, LiveState
<1>4. /\ UNCHANGED <<ExtractsRead, ExtractsBegun>>
      /\ OpsDone' = OpsDone + 1 /\ OpsDone + 1 \in 0..NOps
  BY <1>1, <1>2, <1>3 DEF ExtractsRead, ExtractsBegun, OpsDone
<1>5. PositionOK'
  BY <1>1, <1>2, <1>3 DEF PositionOK, Live
<1>6. DepthKept'
  BY <1>1, <1>2, <1>4 DEF DepthKept
<1>7. InstancesTaken' /\ FieldsBound'
  BY <1>1, <1>2, <1>4 DEF RunInv, InstancesTaken, FieldsBound
<1>8. RegionStackFitsCap'
  <2>1. OpsDone + 1 \in 0..Len(ir.states[current].region_ops)
    BY <1>4 DEF NOps, St
  <2>2. Len(regions') <= RegionCap
    BY <1>3, <2>1, DepthFitsCap
  <2> QED BY <1>2, <2>2 DEF RegionStackFitsCap
<1> QED BY <1>5, <1>6, <1>7, <1>8 DEF RunInv

\* Where the run is among the region operations.
LEMMA RegionOpHere ==
  ASSUME VInv, vpc = "valid", RunInv, AtRegionOp
  PROVE  /\ OpsDone \in Nat /\ OpsDone + 1 \in 1..NOps
         /\ Op = ir.states[current].region_ops[OpsDone + 1]
         /\ Len(regions) = region_depth[current] + NetOps(current, OpsDone)
         /\ NetOps(current, OpsDone) \in Int
         /\ Op.kind = "push" => NetOps(current, OpsDone + 1) = NetOps(current, OpsDone) + 1
         /\ Op.kind = "pop" => NetOps(current, OpsDone + 1) = NetOps(current, OpsDone) - 1
<1>1. pc = "body" /\ ix \in (NExtracts + NAssigns + 1)..(NExtracts + NAssigns + NOps) /\ Live
  BY DEF AtRegionOp, Live
<1>2. NExtracts \in Nat /\ NAssigns \in Nat /\ NOps \in Nat
  BY <1>1, LiveState
<1>3. /\ OpsDone \in Nat /\ OpsDone + 1 \in 1..NOps
      /\ OpsDone + 1 = ix - NExtracts - NAssigns
  BY <1>1, <1>2 DEF OpsDone
<1>4. Op = ir.states[current].region_ops[OpsDone + 1]
  BY <1>3 DEF Op, St
<1>5. Len(regions) = region_depth[current] + NetOps(current, OpsDone)
  BY <1>1 DEF RunInv, DepthKept
<1> QED BY <1>3, <1>4, <1>5, NetOpsProperties

LEMMA PushRegionRunInv ==
  ASSUME VInv, vpc = "valid", RunInv, UNCHANGED validator, PushRegion, IInv'
  PROVE  RunInv'
<1> DEFINE end == CheckedAdd(PushLength, cursor_bits)
<1>1. /\ AtRegionOp /\ pc = "body" /\ Op.kind = "push" /\ PushLength # Undef
      /\ UNCHANGED <<ir, packet, fx, current, depth, cursor_bits, entry_cursor, env, meta, headers,
                     trace>>
  BY DEF PushRegion, AtRegionOp
<1>2. CASE end # Undef /\ regions' = Append(regions, end) /\ ix' = ix + 1 /\ UNCHANGED <<pc, result>>
  <2>1. end \in Word
    <3>1. PushLength \in Word /\ cursor_bits \in Nat
      BY <1>1, EvalExprType DEF PushLength, RunInv, IInv, TypeOK
    <3> QED BY <1>2, <3>1, CheckedAddProperties
  <2> HIDE DEF end
  <2>2. regions \in Seq(Nat) /\ \A i \in DOMAIN regions : regions[i] \in Word
    BY DEF RunInv, IInv, TypeOK, RegionWords
  <2>3. RegionWords' /\ Len(regions') = Len(regions) + 1
    BY <1>2, <2>1, <2>2, WordProperties DEF RegionWords
  <2>4. Len(regions') = region_depth[current] + NetOps(current, OpsDone + 1)
    <3>1. region_depth[current] \in Nat
      BY <1>1, LiveState DEF Live
    <3> QED BY <1>1, <2>3, <3>1, RegionOpHere
  <2> QED BY <1>1, <1>2, <2>3, <2>4, RegionOpRunInv
<1>3. CASE pc' = "done" /\ UNCHANGED regions
  BY <1>1, <1>3, RejectsRunInv
<1> QED BY <1>2, <1>3, Zenon DEF PushRegion, RejectHere, Finish

LEMMA PopRegionRunInv ==
  ASSUME VInv, vpc = "valid", RunInv, UNCHANGED validator, PopRegion, IInv'
  PROVE  RunInv'
<1> DEFINE n == Len(regions)
<1>1. /\ AtRegionOp /\ pc = "body" /\ Op.kind = "pop" /\ regions # <<>>
      /\ regions' = SubSeq(regions, 1, n - 1)
      /\ UNCHANGED <<ir, packet, fx, current, depth, cursor_bits, entry_cursor, env, meta, headers,
                     trace>>
  BY DEF PopRegion, AtRegionOp
<1>2. /\ regions \in Seq(Nat) /\ n \in Nat /\ DOMAIN regions = 1..n
      /\ \A i \in DOMAIN regions : regions[i] \in Word
  BY DEF RunInv, IInv, TypeOK, RegionWords
<1>3. /\ regions' \in Seq(Nat) /\ Len(regions') = n - 1
      /\ \A i \in 1..(n - 1) : regions'[i] = regions[i]
  BY <1>1, <1>2, AllButLast
<1>4. RegionWords'
  BY <1>2, <1>3, SMTT(30) DEF RegionWords
<1>5. CASE ix' = ix + 1 /\ UNCHANGED <<pc, result>>
  <2>1. Len(regions') = region_depth[current] + NetOps(current, OpsDone + 1)
    <3>1. region_depth[current] \in Nat
      BY <1>1, LiveState DEF Live
    <3> QED BY <1>1, <1>3, <3>1, RegionOpHere
  <2> QED BY <1>1, <1>4, <1>5, <2>1, RegionOpRunInv
<1>6. CASE pc' = "done"
  BY <1>1, <1>2, <1>3, <1>4, <1>6, EndsRunInv
<1> QED BY <1>5, <1>6, Zenon DEF PopRegion, RejectHere, Finish

\* The transition: the state entered next is a successor, so validation has it
\* at the depth the run leaves with, and its instances are handed on.
LEMMA GotoRunInv ==
  ASSUME VInv, vpc = "valid", RunInv, UNCHANGED validator, AtTransition, IInv',
         UNCHANGED <<ir, ix, fx, regions, env, headers>>,
         NEW t \in TargetsOf(St), Goto(t)
  PROVE  RunInv'
<1> DEFINE n == Len(ir.states[current].region_ops)
<1>1. pc = "body" /\ ix = NExtracts + NAssigns + NOps + 1 /\ Live
  BY DEF AtTransition, Live
<1>2. /\ NExtracts \in Nat /\ NAssigns \in Nat /\ NOps \in Nat
      /\ current \in DOMAIN region_depth /\ current \in DOMAIN ir.states
      /\ region_depth[current] \in Nat
  BY <1>1, LiveState
<1>3. CASE t.kind = "state" /\ current' = t.name /\ pc' = "enter"
  <2>1. t.name \in Successors(ir.states[current])
    BY <1>3 DEF Successors, St
  <2>2. /\ t.name \in DOMAIN region_depth
        /\ region_depth[t.name] = region_depth[current] + NetOps(current, NOps)
        /\ inset[t.name] \subseteq inset[current] \cup StateInstances(ir.states[current])
    BY <1>2, <2>1, Licensed DEF Settled, Closed, DepthAtExit, NOps, St
  <2>3. UNCHANGED <<ir, region_depth, inset>> /\ Extracts' = Extracts /\ RegionCap' = RegionCap
    BY StableFacts DEF validator, Extracts
  <2>4. /\ OpsDone = NOps /\ ExtractsRead = NExtracts /\ ExtractsBegun = NExtracts
        /\ OpsDone' = 0 /\ ExtractsRead' = 0 /\ ExtractsBegun' = 0
    BY <1>1, <1>2, <1>3 DEF OpsDone, ExtractsRead, ExtractsBegun
  <2>5. PositionOK'
    BY <1>3, <2>2, <2>3 DEF PositionOK
  <2>6. DepthKept'
    <3>1. Len(regions) = region_depth[t.name]
      BY <1>1, <2>2, <2>4 DEF RunInv, DepthKept
    <3>2. NetOps(t.name, 0)' = 0
      BY StableFacts, NetOpsProperties
    <3>3. region_depth[t.name] \in Nat
      BY <2>2, Licensed
    <3> QED BY <1>3, <2>3, <2>4, <3>1, <3>2, <3>3 DEF DepthKept
  <2>7. Available(current, 0)' \subseteq Available(current, NExtracts)
    <3>1. DOMAIN St.extracts = 1..NExtracts
      BY <1>1, LiveState
    <3>2. StateInstances(ir.states[current]) =
            {InstanceOf(ir.states[current].extracts[k]) : k \in 1..NExtracts}
      BY <3>1 DEF StateInstances, St
    <3>3. Available(current, 0)' = inset[t.name]
      BY <1>3, <2>3 DEF Available
    <3> QED BY <2>2, <3>2, <3>3 DEF Available
  <2>8. InstancesTaken'
    BY <1>1, <2>4, <2>7 DEF RunInv, InstancesTaken
  <2>9. FieldsBound'
    <3> SUFFICES ASSUME NEW ex \in Extracts, InstanceOf(ex) \in Available(current, 0)'
                 PROVE  Bound(ex, Len(ir.header_types[ex.header_type]))'
      BY <1>3, <2>3, <2>4 DEF FieldsBound
    <3>1. Bound(ex, Len(ir.header_types[ex.header_type]))
      BY <1>1, <2>4, <2>7 DEF RunInv, FieldsBound
    <3> QED BY <3>1 DEF Bound
  <2> QED BY <2>3, <2>5, <2>6, <2>8, <2>9 DEF RunInv, RegionWords, RegionStackFitsCap
<1>4. CASE pc' = "done"
  BY <1>4, RejectsRunInv
<1> QED BY <1>3, <1>4, Zenon DEF Goto, RejectHere, Finish

LEMMA TakeDirectRunInv ==
  ASSUME VInv, vpc = "valid", RunInv, UNCHANGED validator, TakeDirect, IInv'
  PROVE  RunInv'
<1>1. /\ AtTransition /\ Goto(St.transition.next)
      /\ UNCHANGED <<ir, packet, ix, fx, depth, cursor_bits, entry_cursor, regions, env, meta, headers>>
  BY DEF TakeDirect
<1>2. St.transition.next \in TargetsOf(St)
  BY DEF TakeDirect, TargetsOf
<1> QED BY <1>1, <1>2, GotoRunInv

LEMMA TakeSelectRunInv ==
  ASSUME VInv, vpc = "valid", RunInv, UNCHANGED validator, TakeSelect, IInv'
  PROVE  RunInv'
<1>1. /\ AtTransition /\ St.transition.kind = "select"
      /\ UNCHANGED <<ir, packet, ix, fx, depth, cursor_bits, entry_cursor, regions, env, meta, headers>>
  BY DEF TakeSelect
<1>2. CASE MatchingArms # {} /\ Goto(St.transition.arms[Min(MatchingArms)].next)
  <2>1. St \in State
    BY <1>1, LiveState DEF AtTransition, Live
  <2>2. MatchingArms \in SUBSET Nat /\ MatchingArms \subseteq DOMAIN St.transition.arms
    BY <1>1, <2>1 DEF MatchingArms, State, Transition
  <2>3. Min(MatchingArms) \in DOMAIN St.transition.arms
    BY <1>2, <2>2, MinIn
  <2>4. St.transition.arms[Min(MatchingArms)].next \in TargetsOf(St)
    BY <1>1, <2>3 DEF TargetsOf
  <2> QED BY <1>1, <1>2, <2>4, GotoRunInv
<1>3. CASE RejectHere("no matching select arm")
  BY <1>1, <1>3, RejectsRunInv DEF RejectHere, Finish
<1>4. CASE Goto(St.transition.default_target)
  <2>1. St.transition.default_target \in TargetsOf(St)
    BY <1>1 DEF TargetsOf
  <2> QED BY <1>1, <1>4, <2>1, GotoRunInv
<1> QED BY <1>2, <1>3, <1>4, Zenon DEF TakeSelect

LEMMA StepRunInv ==
  ASSUME VInv, vpc = "valid", RunInv, UNCHANGED validator, Step
  PROVE  RunInv'
<1>1. IInv'
  BY NextIInv DEF RunInv, Next
<1>2. CASE EnterState BY <1>1, <1>2, EnterStateRunInv
<1>3. CASE BeginExtract BY <1>1, <1>3, BeginExtractRunInv
<1>4. CASE ReadFixed BY <1>1, <1>4, ReadFixedRunInv
<1>5. CASE ReadRunField BY <1>1, <1>5, ReadRunFieldRunInv
<1>6. CASE EndExtract BY <1>1, <1>6, EndExtractRunInv
<1>7. CASE AssignMetadata BY <1>1, <1>7, AssignMetadataRunInv
<1>8. CASE PushRegion BY <1>1, <1>8, PushRegionRunInv
<1>9. CASE PopRegion BY <1>1, <1>9, PopRegionRunInv
<1>10. CASE TakeDirect BY <1>1, <1>10, TakeDirectRunInv
<1>11. CASE TakeSelect BY <1>1, <1>11, TakeSelectRunInv
<1>12. CASE Malformed
  BY <1>1, <1>12, RejectsRunInv DEF Malformed, Finish
<1> QED BY <1>2, <1>3, <1>4, <1>5, <1>6, <1>7, <1>8, <1>9, <1>10, <1>11, <1>12, Zenon DEF Step

----------------------------------------------------------------------------
(* The invariant of the pipeline.                                          *)

LEMMA NextInitIInv == Init' => IInv'
BY InitIInv, PTL

LEMMA StartRunPInv ==
  ASSUME PInv, StartRun
  PROVE  PInv'
<1>1. /\ vpc = "valid" /\ pc = "idle" /\ pc' = "enter" /\ packet' \in Packets
      /\ UNCHANGED <<ir, ix, fx, current, depth, cursor_bits, entry_cursor, regions, env, meta,
                     headers, trace, result, validator>>
  BY DEF StartRun
<1>2. VInv /\ Fresh(ir)
  BY <1>1 DEF PInv
<1>3. VInv' /\ vpc' = "valid"
  BY <1>1, <1>2, UnchangedVInv DEF validator
<1>4. IInv'
  <2>1. Fresh(ir)' /\ ir' \in Programs
    BY <1>1, <1>2 DEF Fresh, VInv
  <2> QED BY <1>1, <2>1, NextInitIInv DEF Init
<1>5. /\ current' = ir'.start_state /\ regions' = <<>> /\ headers' = <<>> /\ ExtractsRead' = 0
      /\ ExtractsBegun' = 0 /\ OpsDone' = 0
  BY <1>1, <1>2 DEF Fresh, ExtractsRead, ExtractsBegun, OpsDone
<1>6. /\ current' \in DOMAIN region_depth' /\ region_depth'[current'] = 0
      /\ Available(current, 0)' = {}
  <2>1. /\ ir.start_state \in DOMAIN region_depth /\ region_depth[ir.start_state] = 0
        /\ inset[ir.start_state] = {}
    BY <1>1, <1>2, Licensed
  <2>2. UNCHANGED <<region_depth, inset, ir>>
    BY <1>1 DEF validator
  <2> QED BY <1>5, <2>1, <2>2 DEF Available
<1>7. PositionOK' /\ DepthKept'
  <2>1. NetOps(current, 0)' = 0 /\ Len(regions') = 0
    <3>1. \A q : NetOps(q, 0) = 0
      BY NetOpsProperties
    <3>2. NetOps(current, 0)' = NetOps(current', 0)
      BY <1>1 DEF NetOps
    <3> QED BY <1>5, <3>1, <3>2
  <2> QED BY <1>1, <1>5, <1>6, <2>1 DEF PositionOK, DepthKept
<1>8. InstancesTaken' /\ FieldsBound'
  BY <1>1, <1>5, <1>6 DEF InstancesTaken, FieldsBound
<1>9. RegionWords' /\ RegionStackFitsCap'
  <2>1. RegionCap' \in Nat
    BY <1>1, <1>2, RegionCapType, StableFacts DEF VInv
  <2> QED BY <1>5, <2>1 DEF RegionWords, RegionStackFitsCap
<1>10. RunInv'
  BY <1>4, <1>7, <1>8, <1>9 DEF RunInv
<1> QED BY <1>1, <1>3, <1>10 DEF PInv

\* Every step of the pipeline preserves its invariant.
LEMMA NextPInv ==
  ASSUME PInv, [PipelineNext]_pipeline
  PROVE  PInv'
<1>1. CASE Validate
  <2>1. vpc # "valid" /\ ValidateStep /\ UNCHANGED <<packet, machine, ir>>
    BY <1>1 DEF Validate, ValidateStep, CheckStructure, SweepState, EndSweep, CheckUses, VisitState,
                AcceptProgram
  <2>2. VInv'
    BY <2>1, ValidateStepVInv DEF PInv
  <2>3. pc' = "idle" /\ packet' = <<>> /\ Fresh(ir)'
    BY <2>1 DEF PInv, Fresh, machine
  <2> QED BY <2>2, <2>3 DEF PInv
<1>2. CASE StartRun
  BY <1>2, StartRunPInv
<1>3. CASE Run
  <2>1. Step /\ UNCHANGED validator
    BY <1>3 DEF Run
  <2>2. pc # "idle" /\ pc' # "idle" /\ UNCHANGED ir
    BY <2>1 DEF Step, EnterState, BeginExtract, ReadFixed, ReadRunField, EndExtract, AssignMetadata,
                PushRegion, PopRegion, TakeDirect, TakeSelect, Malformed, StepMalformed, AtExtract,
                AtFixed, AtRun, AtAssign, AtRegionOp, AtTransition, Finish, RejectHere, Goto
  <2>3. vpc = "valid" /\ VInv /\ RunInv
    BY <2>2 DEF PInv
  <2>4. VInv' /\ vpc' = "valid"
    BY <2>1, <2>2, <2>3, UnchangedVInv DEF validator
  <2>5. RunInv'
    BY <2>1, <2>3, StepRunInv
  <2> QED BY <2>2, <2>4, <2>5 DEF PInv
<1>4. CASE UNCHANGED pipeline
  <2>1. UNCHANGED <<vars, validator>>
    BY <1>4 DEF pipeline
  <2>2. /\ UNCHANGED <<ir, packet, pc, ix, fx, current, depth, cursor_bits, entry_cursor, regions,
                       env, meta, headers, trace, result>>
        /\ UNCHANGED <<vpc, si, changed, inset, region_depth, work>>
    BY <2>1 DEF vars, machine, validator
  <2>3. PInv => VInv'
    BY <2>1, <2>2, UnchangedVInv DEF PInv
  <2>4. UNCHANGED <<St, NExtracts, NAssigns, NOps, Ex, Fields, Extracts, Live, RegionCap>>
    BY <2>2, StableFacts DEF St, NExtracts, NAssigns, NOps, Ex, Fields, Extracts, Live
  <2>5. UNCHANGED <<ExtractsRead, ExtractsBegun, OpsDone>>
    BY <2>2, <2>4 DEF ExtractsRead, ExtractsBegun, OpsDone
  <2>6. ASSUME RunInv PROVE RunInv'
    <3>1. IInv'
      BY <2>1, <2>6, NextIInv DEF RunInv
    <3>2. PositionOK' /\ DepthKept'
      BY <2>2, <2>4, <2>5, <2>6 DEF RunInv, PositionOK, DepthKept, NetOps
    <3>3. InstancesTaken' /\ FieldsBound'
      BY <2>2, <2>4, <2>5, <2>6 DEF RunInv, InstancesTaken, FieldsBound, Available, Bound
    <3>4. RegionWords' /\ RegionStackFitsCap'
      BY <2>2, <2>4, <2>6 DEF RunInv, RegionWords, RegionStackFitsCap
    <3> QED BY <3>1, <3>2, <3>3, <3>4 DEF RunInv
  <2> QED BY <2>2, <2>3, <2>6 DEF PInv, Fresh
<1> QED BY <1>1, <1>2, <1>3, <1>4, Zenon DEF PipelineNext, Finished

LEMMA InitPInv == PipelineInit => PInv
BY InitVInv DEF PipelineInit, PInv, ValidatorInit

----------------------------------------------------------------------------
(* The theorems.                                                           *)

\* The invariant of the pipeline holds in every state of every validation and
\* of every run it licenses.
THEOREM PipelineInvariance == PipelineSpec => []PInv
BY InitPInv, NextPInv, PTL DEF PipelineSpec

\* The type of the validator's variables holds throughout validation and in
\* every run: depths are numbers, and only states and instances that the
\* program has are recorded.
THEOREM ValidatorTypes == PipelineSpec => []ValidatorTypeOK
<1>1. PInv => ValidatorTypeOK
  BY DEF PInv, VInv
<1> QED BY <1>1, PipelineInvariance, PTL

\* Whatever path a run of a validated program takes, it enters each state at
\* the one region depth validation computed for it, and with every instance
\* extracted that the sweeps found to be extracted on every path.
THEOREM EntryFacts == PipelineSpec => []EntryFactsHold
<1>1. ASSUME PInv PROVE EntryFactsHold
  <2> SUFFICES ASSUME pc = "enter"
               PROVE  /\ current \in DOMAIN region_depth
                      /\ Len(regions) = region_depth[current]
                      /\ \A i \in inset[current] : \E k \in DOMAIN headers : headers[k].instance = i
    BY DEF EntryFactsHold
  <2>1. VInv /\ vpc = "valid" /\ RunInv /\ Live
    BY <1>1 DEF PInv, Live
  <2>2. ExtractsBegun = 0 /\ OpsDone = 0
    BY DEF ExtractsBegun, ExtractsRead, OpsDone
  <2>3. current \in DOMAIN region_depth /\ region_depth[current] \in Nat
    BY <2>1, LiveState
  <2>4. Len(regions) = region_depth[current]
    BY <2>1, <2>2, <2>3, NetOpsProperties DEF RunInv, DepthKept
  <2>5. \A i \in inset[current] : \E k \in DOMAIN headers : headers[k].instance = i
    BY <2>1, <2>2 DEF RunInv, InstancesTaken, Available
  <2> QED BY <2>3, <2>4, <2>5
<1> QED BY <1>1, PipelineInvariance, PTL

\* The region stack of a run of a validated program is never deeper than the
\* number of pushes in the program, on cycles too, so the array the generated C
\* parser allocates for it (region_cap) is large enough.
THEOREM RegionStackBounded == PipelineSpec => []RegionStackFitsCap
<1>1. ASSUME PInv PROVE RegionStackFitsCap
  <2>1. CASE pc = "idle"
    <3>1. regions = <<>> /\ RegionCap \in Nat
      BY <1>1, <2>1, RegionCapType DEF PInv, VInv, Fresh
    <3> QED BY <3>1 DEF RegionStackFitsCap
  <2>2. CASE pc # "idle"
    BY <1>1, <2>2 DEF PInv, RunInv
  <2> QED BY <2>1, <2>2
<1> QED BY <1>1, PipelineInvariance, PTL

----------------------------------------------------------------------------
(* Where a validated run can leave with Err.                               *)

\* remaining() has a word for a value, or none.
LEMMA RemainingType ==
  ASSUME RunInv
  PROVE  /\ RemainingHere \in Word \cup {Undef}
         /\ regions # <<>> => RemainingHere # Undef
<1>1. /\ regions \in Seq(Nat) /\ cursor_bits \in Nat
      /\ \A i \in DOMAIN regions : regions[i] \in Word
  BY DEF RunInv, IInv, TypeOK, RegionWords
<1>2. CASE regions = <<>>
  BY <1>2 DEF RemainingHere
<1>3. CASE regions # <<>>
  <2>1. Top \in Word
    BY <1>1, <1>3 DEF Top
  <2> QED BY <1>1, <1>3, <2>1, WordProperties DEF RemainingHere, Word, Undef
<1> QED BY <1>2, <1>3

\* A reference to an instance read, that resolves but has no value, is to a
\* variable-length field.
LEMMA UnboundRef ==
  ASSUME VInv, vpc = "valid", RunInv, Live, NEW e, FieldRefsResolve(e),
         NEW r \in FieldRefs(e), r.header \in Available(current, ExtractsRead),
         <<r.header, r.field>> \notin DOMAIN env
  PROVE  BindsNoValue(r)
<1>1. PICK ex \in Extracts : InstanceOf(ex) = r.header
                               /\ r.field \in DOMAIN ir.header_types[ex.header_type]
  BY DEF FieldRefsResolve
<1>2. Bound(ex, Len(ir.header_types[ex.header_type]))
  BY <1>1 DEF RunInv, FieldsBound
<1>3. ir.header_types[ex.header_type] \in Seq(FieldWidth)
  <2>1. ex.header_type \in DOMAIN ir.header_types
    BY Licensed DEF StructureOk, InstancesOk
  <2> QED BY <2>1, ProgramTypes DEF VInv, HeaderType
<1>4. ir.header_types[ex.header_type][r.field].kind # "bits"
  BY <1>1, <1>2, <1>3 DEF Bound
<1>5. ir.header_types[ex.header_type][r.field] \in FieldWidth
  BY <1>1, <1>3
<1>6. ir.header_types[ex.header_type][r.field].kind = "bit_len"
  BY <1>4, <1>5 DEF FieldWidth
<1> QED BY <1>1, <1>6 DEF BindsNoValue

\* An expression without a value refers to a field without one, where its
\* metadata exists and a region is open for its remaining().
LEMMA UndefinedValue ==
  ASSUME RunInv, NEW e \in Exprs, NEW rem \in Word \cup {Undef},
         MetadataRefsResolve(e), ContainsRemaining(e) => rem # Undef,
         EvalExpr(e, env, meta, rem) = Undef
  PROVE  \E r \in FieldRefs(e) : <<r.header, r.field>> \notin DOMAIN env
<1>1. /\ \A r \in DOMAIN env : env[r] \in Word
      /\ \A m \in DOMAIN meta : meta[m] \in Word
      /\ DOMAIN meta = DOMAIN ir.metadata
  BY DEF RunInv, IInv, TypeOK
<1>2. \A r \in MetadataRefs(e) : r.name \in DOMAIN meta
  BY <1>1 DEF MetadataRefsResolve
<1>3. Undef \notin Word
  BY WordProperties DEF Undef, Word
<1> QED BY <1>1, <1>2, <1>3, EvalExprDefined

\* What validation says of the assignments, the region operations and the
\* select keys of the state a run is in.
AssignChecked(a) ==
  /\ a.value \in Exprs /\ a.metadata \in DOMAIN ir.metadata
  /\ FieldRefsResolve(a.value) /\ MetadataRefsResolve(a.value)
  /\ RefersWithin(a.value, Available(current, NExtracts))
  /\ region_depth[current] = 0 => ~ContainsRemaining(a.value)
OpChecked(k) ==
  /\ St.region_ops[k].kind = "push" =>
       St.region_ops[k].len \in Exprs /\ LengthOk(St.region_ops[k].len)
  /\ region_depth[current] + NetOps(current, k) >= 0
KeyChecked(key) ==
  /\ key \in Exprs
  /\ FieldRefsResolve(key) /\ MetadataRefsResolve(key)
  /\ RefersWithin(key, Available(current, NExtracts))
  /\ region_depth[current] + NetOps(current, NOps) = 0 => ~ContainsRemaining(key)

LEMMA StateChecked ==
  ASSUME VInv, vpc = "valid", RunInv, Live
  PROVE  /\ \A k \in 1..NExtracts : St.extracts[k].header_type \in DOMAIN ir.header_types
         /\ \A k \in 1..NAssigns : AssignChecked(St.assigns[k])
         /\ \A k \in 1..NOps : OpChecked(k)
         /\ \A k \in DOMAIN KeysOf(St) : KeyChecked(KeysOf(St)[k])
<1>1. /\ current \in DOMAIN region_depth /\ current \in DOMAIN ir.states /\ St \in State
      /\ DOMAIN St.extracts = 1..NExtracts /\ DOMAIN St.assigns = 1..NAssigns
      /\ DOMAIN St.region_ops = 1..NOps
      /\ \A k \in 1..NExtracts : St.extracts[k] \in Extracts
  BY LiveState
<1>2. StructureOk /\ UsesOk /\ DepthFits(current, region_depth[current])
  BY <1>1, Licensed DEF Settled
<1>3. St \in ToSet(ir.states)
  BY <1>1 DEF St, ToSet
<1>4. \A k \in 1..NExtracts : St.extracts[k].header_type \in DOMAIN ir.header_types
  BY <1>1, <1>2 DEF StructureOk, InstancesOk
<1>5. ASSUME NEW k \in 1..NAssigns PROVE AssignChecked(St.assigns[k])
  <2>1. St.assigns[k] \in ToSet(St.assigns) /\ St.assigns[k] \in Assign
    <3>1. St.assigns \in Seq(Assign)
      BY <1>1 DEF State
    <3>2. k \in DOMAIN St.assigns
      BY <1>1, <1>5
    <3> QED BY <3>1, <3>2 DEF ToSet
  <2>2. St.assigns[k].value \in Exprs
    BY <2>1 DEF Assign
  <2>3. /\ St.assigns[k].metadata \in DOMAIN ir.metadata
        /\ FieldRefsResolve(St.assigns[k].value) /\ MetadataRefsResolve(St.assigns[k].value)
    BY <1>2, <1>3, <2>1 DEF StructureOk, AssignsOk
  <2>4. RefersWithin(St.assigns[k].value, Available(current, NExtracts))
    BY <1>1, <1>2, <2>1 DEF UsesOk, NExtracts, St
  <2>5. region_depth[current] = 0 => ~ContainsRemaining(St.assigns[k].value)
    BY <1>2, <2>1 DEF DepthFits, St
  <2> QED BY <2>2, <2>3, <2>4, <2>5 DEF AssignChecked
<1>6. ASSUME NEW k \in 1..NOps PROVE OpChecked(k)
  <2>1. St.region_ops[k] \in ToSet(St.region_ops) /\ St.region_ops[k] \in RegionOp
    <3>1. St.region_ops \in Seq(RegionOp)
      BY <1>1 DEF State
    <3>2. k \in DOMAIN St.region_ops
      BY <1>1, <1>6
    <3> QED BY <3>1, <3>2 DEF ToSet
  <2>2. St.region_ops[k].kind = "push" => St.region_ops[k].len \in Exprs
    BY <2>1 DEF RegionOp
  <2>3. St.region_ops[k].kind = "push" => LengthOk(St.region_ops[k].len)
    BY <1>2, <1>3, <2>1 DEF StructureOk, LengthsOk, Pushes
  <2>4. region_depth[current] + NetOps(current, k) >= 0
    BY <1>1, <1>2, <1>6 DEF DepthFits, St
  <2> QED BY <2>2, <2>3, <2>4 DEF OpChecked
<1>7. ASSUME NEW k \in DOMAIN KeysOf(St) PROVE KeyChecked(KeysOf(St)[k])
  <2>1. St.transition.kind = "select" /\ KeysOf(St) = St.transition.keys
    BY <1>7 DEF KeysOf
  <2>2. KeysOf(St)[k] \in ToSet(KeysOf(St)) /\ KeysOf(St)[k] \in Exprs
    BY <1>1, <1>7, <2>1 DEF ToSet, State, Transition
  <2>3. FieldRefsResolve(KeysOf(St)[k]) /\ MetadataRefsResolve(KeysOf(St)[k])
    BY <1>2, <1>3, <2>1, <2>2 DEF StructureOk, TransitionsOk, SelectOk
  <2>4. RefersWithin(KeysOf(St)[k], Available(current, NExtracts))
    BY <1>1, <1>2, <2>2 DEF UsesOk, NExtracts, St
  <2>5. region_depth[current] + NetOps(current, NOps) = 0 => ~ContainsRemaining(KeysOf(St)[k])
    BY <1>2, <2>2 DEF DepthFits, DepthAtExit, NOps, St
  <2> QED BY <2>2, <2>3, <2>4, <2>5 DEF KeyChecked
<1> QED BY <1>4, <1>5, <1>6, <1>7

\* A variable-length field whose length has no value refers to a field that
\* binds none, or to a later field of its own header.
LEMMA RunLengthUnchecked ==
  ASSUME VInv, vpc = "valid", RunInv, AtRun, RunLength = Undef
  PROVE  \E r \in FieldRefs(Width.expr) :
           (r.header = InstanceOf(Ex) /\ r.field > fx) \/ BindsNoValue(r)
<1>1. /\ pc = "field" /\ Live /\ fx <= Len(Fields) /\ Width.kind = "bit_len"
  BY DEF AtRun, Live
<1>2. /\ current \in DOMAIN ir.states /\ ix \in 1..NExtracts /\ ExtractsRead = ix - 1
      /\ Ex \in Extracts /\ Ex = St.extracts[ix]
      /\ DOMAIN St.extracts = 1..NExtracts /\ fx \in Nat \ {0}
  BY <1>1, LiveState DEF ExtractsRead, Ex
<1>3. StructureOk /\ UsesOk
  BY Licensed
<1>4. Fields \in Seq(FieldWidth) /\ Fields \in ToSet(ir.header_types)
  <2>1. Ex.header_type \in DOMAIN ir.header_types
    BY <1>2, <1>3 DEF StructureOk, InstancesOk
  <2> QED BY <2>1, ProgramTypes DEF VInv, HeaderType, Fields, ToSet
<1>5. Width \in RunWidths(Fields) /\ Width.expr \in Exprs
  <2>1. Width \in ToSet(Fields) /\ Width \in FieldWidth
    BY <1>1, <1>2, <1>4 DEF Width, ToSet
  <2> QED BY <1>1, <2>1 DEF RunWidths, FieldWidth
<1>6. LengthOk(Width.expr)
  BY <1>3, <1>4, <1>5 DEF StructureOk, LengthsOk
<1>7. RefersWithin(Width.expr, Available(current, ix))
  BY <1>2, <1>3, <1>5 DEF UsesOk, Fields, St
<1>8. PICK r \in FieldRefs(Width.expr) : <<r.header, r.field>> \notin DOMAIN env
  BY <1>5, <1>6, UndefinedValue DEF RunLength, LengthOk, MetadataRefsResolve
<1>9. CASE r.header \in Available(current, ix - 1)
  BY <1>1, <1>2, <1>6, <1>8, <1>9, UnboundRef DEF LengthOk
<1>10. CASE r.header = InstanceOf(Ex)
  <2>1. PICK ex \in Extracts : InstanceOf(ex) = r.header
                                 /\ r.field \in DOMAIN ir.header_types[ex.header_type]
    BY <1>6, <1>8 DEF LengthOk, FieldRefsResolve
  <2>2. r.field \in DOMAIN Fields
    BY <1>2, <1>3, <1>10, <2>1 DEF StructureOk, InstancesOk, Fields
  <2>3. Bound(Ex, fx - 1)
    BY <1>1 DEF RunInv, FieldsBound
  <2>4. CASE Fields[r.field].kind = "bits"
    <3>1. r.field \notin 1..(fx - 1)
      BY <1>8, <1>10, <2>3, <2>4 DEF Bound, Fields
    <3>2. r.field # fx
      BY <1>1, <2>4 DEF Width
    <3>3. r.field > fx
      BY <1>2, <1>4, <2>2, <3>1, <3>2
    <3> QED BY <1>10, <3>3
  <2>5. CASE Fields[r.field].kind # "bits"
    <3>1. Fields[r.field].kind = "bit_len"
      BY <1>4, <2>2, <2>5 DEF FieldWidth
    <3> QED BY <1>2, <1>10, <3>1 DEF BindsNoValue, Fields
  <2> QED BY <2>4, <2>5
<1>11. r.header \in Available(current, ix - 1) \/ r.header = InstanceOf(Ex)
  BY <1>2, <1>7, <1>8 DEF RefersWithin, Available, St
<1> QED BY <1>9, <1>10, <1>11

\* A validated run leaves with Err only where validation does not look: at a
\* push whose length refers to a header that need not have been extracted, or
\* at an expression that refers to a field that binds no value, or at a length
\* that refers to a later field of its own header.  Every name it meets
\* resolves, every pop has its region and every remaining() an open one.
THEOREM ErrsWhereUnchecked == PipelineSpec => []ErrsOnlyWhereUnchecked
<1>1. ASSUME PInv PROVE ErrsOnlyWhereUnchecked
  <2> SUFFICES ASSUME vpc = "valid", StepMalformed
               PROVE  \E e \in ExprsHere : \E r \in FieldRefs(e) :
                        \/ AtRegionOp
                        \/ AtRun /\ r.header = InstanceOf(Ex) /\ r.field > fx
                        \/ BindsNoValue(r)
    BY DEF ErrsOnlyWhereUnchecked
  <2>1. pc \in {"enter", "body", "field"}
    BY DEF StepMalformed, AtExtract, AtRun, AtAssign, AtRegionOp, AtTransition
  <2>2. VInv /\ RunInv /\ Live
    BY <1>1, <2>1 DEF PInv, Live
  <2>3. /\ current \in DOMAIN ir.states /\ NExtracts \in Nat /\ NAssigns \in Nat /\ NOps \in Nat
        /\ ix \in Nat \ {0} /\ region_depth[current] \in Nat
    BY <2>2, LiveState
  <2>4. /\ \A k \in 1..NExtracts : St.extracts[k].header_type \in DOMAIN ir.header_types
        /\ \A k \in 1..NAssigns : AssignChecked(St.assigns[k])
        /\ \A k \in 1..NOps : OpChecked(k)
        /\ \A k \in DOMAIN KeysOf(St) : KeyChecked(KeysOf(St)[k])
    BY <2>2, StateChecked
  <2>5. RemainingHere \in Word \cup {Undef} /\ (Len(regions) # 0 => RemainingHere # Undef)
    BY <2>2, RemainingType
  <2>6. CASE AtExtract /\ Ex.header_type \notin DOMAIN ir.header_types
    BY <2>3, <2>4, <2>6 DEF AtExtract, Ex
  <2>7. CASE AtRun /\ RunLength = Undef
    <3>1. ExprsHere = {Width.expr}
      BY <2>7 DEF ExprsHere, AtRun, AtAssign, AtRegionOp, AtTransition
    <3> QED BY <2>2, <2>7, <3>1, RunLengthUnchecked
  <2>8. CASE AtAssign /\ (AssignedValue = Undef \/ AssignOp.metadata \notin DOMAIN meta)
    <3>1. pc = "body" /\ ix \in (NExtracts + 1)..(NExtracts + NAssigns)
      BY <2>8 DEF AtAssign
    <3>2. ExprsHere = {AssignOp.value} /\ AssignChecked(AssignOp)
      <4>1. ~AtRun /\ ~AtRegionOp /\ ~AtTransition
        BY <2>3, <3>1 DEF AtRun, AtRegionOp, AtTransition
      <4>2. AssignChecked(AssignOp)
        BY <2>3, <2>4, <3>1 DEF AssignOp
      <4>3. ExprsHere = {AssignOp.value}
        BY <2>8, <4>1, Zenon DEF ExprsHere
      <4> QED BY <4>2, <4>3
    <3>3. ExtractsRead = NExtracts /\ OpsDone = 0
      BY <2>3, <3>1 DEF ExtractsRead, OpsDone
    <3>4. Len(regions) = region_depth[current]
      BY <2>2, <2>3, <3>3, NetOpsProperties DEF RunInv, DepthKept
    <3>5. AssignedValue = Undef
      BY <2>2, <2>8, <3>2 DEF RunInv, IInv, TypeOK, AssignChecked
    <3>6. PICK r \in FieldRefs(AssignOp.value) : <<r.header, r.field>> \notin DOMAIN env
      BY <2>2, <2>5, <3>2, <3>4, <3>5, UndefinedValue DEF AssignChecked, AssignedValue
    <3>7. BindsNoValue(r)
      BY <2>2, <3>2, <3>3, <3>6, UnboundRef DEF AssignChecked, RefersWithin
    <3> QED BY <3>2, <3>7
  <2>9. CASE AtRegionOp /\ Op.kind = "push" /\ PushLength = Undef
    <3>1. ix - NExtracts - NAssigns \in 1..NOps /\ pc = "body" /\ ~AtAssign
      BY <2>3, <2>9 DEF AtRegionOp, AtAssign
    <3>2. Op.len \in Exprs /\ LengthOk(Op.len)
      BY <2>4, <2>9, <3>1 DEF OpChecked, Op
    <3>3. PICK r \in FieldRefs(Op.len) : <<r.header, r.field>> \notin DOMAIN env
      BY <2>2, <2>5, <2>9, <3>2, UndefinedValue DEF LengthOk, MetadataRefsResolve, PushLength
    <3>4. ExprsHere = {Op.len}
      <4>1. ~AtRun /\ ~AtTransition
        BY <2>3, <3>1 DEF AtRun, AtTransition
      <4> QED BY <2>9, <3>1, <4>1, Zenon DEF ExprsHere
    <3> QED BY <2>9, <3>3, <3>4
  <2>10. CASE AtRegionOp /\ Op.kind = "pop" /\ regions = <<>>
    <3>1. /\ OpsDone + 1 \in 1..NOps /\ NetOps(current, OpsDone) \in Int
          /\ 0 = region_depth[current] + NetOps(current, OpsDone)
          /\ NetOps(current, OpsDone + 1) = NetOps(current, OpsDone) - 1
      BY <2>2, <2>10, RegionOpHere
    <3> QED BY <2>3, <2>4, <3>1 DEF OpChecked
  <2>11. CASE AtTransition /\ \E j \in DOMAIN KeyValues : KeyValues[j] = Undef
    <3>1. pc = "body" /\ ix = NExtracts + NAssigns + NOps + 1
      BY <2>11 DEF AtTransition
    <3>2. ExprsHere = ToSet(KeysOf(St))
      BY <2>3, <2>11, <3>1 DEF ExprsHere, AtRun, AtAssign, AtRegionOp
    <3>3. ExtractsRead = NExtracts /\ OpsDone = NOps
      BY <2>3, <3>1 DEF ExtractsRead, OpsDone
    <3>4. Len(regions) = region_depth[current] + NetOps(current, NOps)
      BY <2>2, <3>3 DEF RunInv, DepthKept
    <3>5. PICK j \in DOMAIN KeysOf(St) : EvalExpr(KeysOf(St)[j], env, meta, RemainingHere) = Undef
      BY <2>11 DEF KeyValues
    <3>6. KeyChecked(KeysOf(St)[j]) /\ KeysOf(St)[j] \in ToSet(KeysOf(St))
      BY <2>4 DEF ToSet
    <3>7. PICK r \in FieldRefs(KeysOf(St)[j]) : <<r.header, r.field>> \notin DOMAIN env
      BY <2>2, <2>5, <3>4, <3>5, <3>6, UndefinedValue DEF KeyChecked
    <3>8. BindsNoValue(r)
      BY <2>2, <3>3, <3>6, <3>7, UnboundRef DEF KeyChecked, RefersWithin
    <3> QED BY <3>2, <3>6, <3>7, <3>8
  <2> QED BY <2>3, <2>6, <2>7, <2>8, <2>9, <2>10, <2>11 DEF StepMalformed
<1> QED BY <1>1, PipelineInvariance, PTL

----------------------------------------------------------------------------
(* Reachability: the sets that grow by their successors.                   *)

Reaches(f, n, U, base, succ) ==
  /\ f \in [0..n -> SUBSET U]
  /\ f[0] = base
  /\ \A k \in 1..n : f[k] = f[k - 1] \cup UNION {succ[x] : x \in f[k - 1]}

LEMMA ReachExists ==
  ASSUME NEW n \in Nat, NEW U, NEW base \in SUBSET U, NEW succ \in [U -> SUBSET U]
  PROVE  \E f : Reaches(f, n, U, base, succ)
<1> DEFINE V == SUBSET U
           step == [c \in (1..n) \X V |-> c[2] \cup UNION {succ[x] : x \in c[2]}]
<1>1. step \in [(1..n) \X V -> V]
  <2>1. \A S \in V : S \cup UNION {succ[x] : x \in S} \in V
    OBVIOUS
  <2> QED BY <2>1
<1>2. \A k \in 1..n : \A S \in V : step[<<k, S>>] = S \cup UNION {succ[x] : x \in S}
  OBVIOUS
<1>3. PICK f : Follows(f, n, V, base, step)
  <2> HIDE DEF step, V
  <2>1. base \in V
    BY DEF V
  <2> QED BY <1>1, <2>1, Recursion
<1> HIDE DEF step
<1>4. \A k \in 1..n : f[k] = f[k - 1] \cup UNION {succ[x] : x \in f[k - 1]}
  <2> TAKE k \in 1..n
  <2>1. k - 1 \in 0..n /\ f[k - 1] \in V
    BY <1>3 DEF Follows
  <2> QED BY <1>2, <1>3, <2>1 DEF Follows
<1> QED BY <1>3, <1>4 DEF Follows, Reaches

\* What satisfies the equations is in the universe.
LEMMA ReachTypes ==
  ASSUME NEW n \in Nat, NEW U, NEW base \in SUBSET U, NEW succ \in [U -> SUBSET U],
         NEW f, f = [k \in 0..n |-> f[k]], f[0] = base,
         \A k \in 1..n : f[k - 1] \in SUBSET U =>
           f[k] = f[k - 1] \cup UNION {succ[x] : x \in f[k - 1]}
  PROVE  Reaches(f, n, U, base, succ)
<1> DEFINE S == {k \in 0..n : f[k] \in SUBSET U}
<1>1. 0 \in S
  OBVIOUS
<1>2. ASSUME NEW k \in 1..n, k - 1 \in S PROVE k \in S
  <2>1. f[k - 1] \in SUBSET U
    BY <1>2
  <2>2. f[k] = f[k - 1] \cup UNION {succ[x] : x \in f[k - 1]}
    BY <2>1
  <2>3. \A x \in f[k - 1] : succ[x] \in SUBSET U
    BY <2>1
  <2> QED BY <2>1, <2>2, <2>3
<1> HIDE DEF S
<1>3. \A k \in 0..n : k \in S
  BY <1>1, <1>2, Induction
<1>4. \A k \in 0..n : f[k] \in SUBSET U
  BY <1>3 DEF S
<1>5. \A k \in 1..n : k - 1 \in 0..n
  OBVIOUS
<1> QED BY <1>4, <1>5 DEF Reaches

LEMMA ReachGrows ==
  ASSUME NEW n \in Nat, NEW U, NEW base, NEW succ, NEW f, Reaches(f, n, U, base, succ),
         NEW m \in 0..n
  PROVE  \A k \in 0..n : m <= k => f[m] \subseteq f[k]
<1> DEFINE S == {k \in 0..n : m <= k => f[m] \subseteq f[k]}
<1>1. 0 \in S
  OBVIOUS
<1>2. ASSUME NEW k \in 1..n, k - 1 \in S PROVE k \in S
  <2>1. f[k - 1] \subseteq f[k]
    BY DEF Reaches
  <2>2. m <= k => m = k \/ m <= k - 1
    OBVIOUS
  <2> QED BY <1>2, <2>1, <2>2
<1> HIDE DEF S
<1>3. \A k \in 0..n : k \in S
  BY <1>1, <1>2, Induction
<1> QED BY <1>3 DEF S

\* As many steps as there are elements find everything.
LEMMA ReachCloses ==
  ASSUME NEW n \in Nat, NEW U, IsFiniteSet(U), Cardinality(U) <= n,
         NEW base, base # {}, NEW succ, NEW f, Reaches(f, n, U, base, succ)
  PROVE  \A x \in f[n] : succ[x] \subseteq f[n]
<1> DEFINE Shut(k) == \A x \in f[k] : succ[x] \subseteq f[k]
           S == {k \in 0..n : Shut(k) \/ Cardinality(f[k]) >= k + 1}
<1>1. \A k \in 0..n : /\ f[k] \in SUBSET U /\ IsFiniteSet(f[k])
                      /\ Cardinality(f[k]) \in Nat /\ Cardinality(f[k]) <= Cardinality(U)
  BY FS_Subset, FS_CardinalityType DEF Reaches
<1>2. 0 \in S
  <2>1. f[0] # {}
    BY DEF Reaches
  <2>2. Cardinality(f[0]) # 0 /\ Cardinality(f[0]) \in Nat
    BY <1>1, <2>1, FS_EmptySet
  <2> QED BY <2>2
<1>3. ASSUME NEW k \in 1..n, k - 1 \in S PROVE k \in S
  <2>1. k - 1 \in 0..n /\ k \in 0..n
    OBVIOUS
  <2>2. f[k] = f[k - 1] \cup UNION {succ[x] : x \in f[k - 1]}
    BY DEF Reaches
  <2>3. CASE Shut(k - 1)
    <3>1. f[k] = f[k - 1]
      BY <2>2, <2>3
    <3> QED BY <2>1, <2>3, <3>1
  <2>4. CASE ~Shut(k - 1)
    <3>1. f[k - 1] \in SUBSET f[k] /\ f[k - 1] # f[k]
      BY <2>2, <2>4
    <3>2. Cardinality(f[k - 1]) <= Cardinality(f[k]) /\ Cardinality(f[k - 1]) # Cardinality(f[k])
      BY <1>1, <2>1, <3>1, FS_Subset
    <3>3. Cardinality(f[k - 1]) >= (k - 1) + 1
      BY <1>3, <2>4
    <3>4. Cardinality(f[k]) >= k + 1
      BY <1>1, <2>1, <3>2, <3>3
    <3> QED BY <2>1, <3>4
  <2> QED BY <2>3, <2>4
<1> HIDE DEF S
<1>4. \A k \in 0..n : k \in S
  BY <1>2, <1>3, Induction
<1>5. n \in S /\ n \in 0..n
  BY <1>4
<1>6. ~(Cardinality(f[n]) >= n + 1)
  <2>1. Cardinality(U) \in Nat
    BY FS_CardinalityType
  <2> QED BY <1>1, <1>5, <2>1
<1> QED BY <1>5, <1>6 DEF S

----------------------------------------------------------------------------
(* The sweeps and the worklist against the paths of the state graph.        *)

\* A state hands on the absence of what it does not extract itself.
SuccessorsWithout(i) ==
  [q \in DOMAIN ir.states |->
     IF i \in StateInstances(ir.states[q]) THEN {} ELSE Successors(ir.states[q])]
WithoutChain(f, i) ==
  Reaches(f, Len(ir.states), DOMAIN ir.states, {ir.start_state}, SuccessorsWithout(i))

StateDepths == (DOMAIN ir.states) \X Int
SuccessorDepths ==
  [c \in StateDepths |-> Successors(ir.states[c[1]]) \X {DepthAtExit(c[1], c[2])}]
DepthChain(f) ==
  Reaches(f, 2 * Len(ir.states), StateDepths, {<<ir.start_state, 0>>}, SuccessorDepths)

LEMMA WithoutTypes ==
  ASSUME ir \in Programs, StructureOk, NEW i
  PROVE  /\ SuccessorsWithout(i) \in [DOMAIN ir.states -> SUBSET DOMAIN ir.states]
         /\ {ir.start_state} \in SUBSET DOMAIN ir.states
         /\ Len(ir.states) \in Nat
<1>1. \A q \in DOMAIN ir.states : Successors(ir.states[q]) \in SUBSET DOMAIN ir.states
  BY SuccessorsExist
<1> QED BY <1>1, ProgramTypes DEF SuccessorsWithout, StructureOk

\* The recursive function of the definition is such a chain.
LEMMA ReachedWithoutIs ==
  ASSUME ir \in Programs, StructureOk, NEW i
  PROVE  \E f : WithoutChain(f, i) /\ ReachedWithout(i) = f[Len(ir.states)]
<1> DEFINE L == Len(ir.states)
           U == DOMAIN ir.states
           step(S) == S \cup UNION {Successors(ir.states[q]) :
                                      q \in {q \in S : i \notin StateInstances(ir.states[q])}}
           chosen == CHOOSE f : f = [n \in 0..L |-> IF n = 0 THEN {ir.start_state} ELSE step(f[n - 1])]
           succ == SuccessorsWithout(i)
           base == {ir.start_state}
<1>1. succ \in [U -> SUBSET U] /\ base \in SUBSET U /\ L \in Nat
  BY WithoutTypes
<1>2. \A S \in SUBSET U : step(S) = S \cup UNION {succ[q] : q \in S}
  BY DEF SuccessorsWithout
<1>3. ReachedWithout(i) = chosen[L]
  BY DEF ReachedWithout
<1> HIDE DEF succ, step, U, L
<1>4. PICK g : Reaches(g, L, U, base, succ)
  BY <1>1, ReachExists
<1>5. g = [n \in 0..L |-> IF n = 0 THEN {ir.start_state} ELSE step(g[n - 1])]
  <2>1. g = [n \in 0..L |-> g[n]] /\ g[0] = {ir.start_state}
    BY <1>4 DEF Reaches
  <2>2. \A n \in 0..L : n # 0 => n \in 1..L /\ n - 1 \in 0..L
    BY <1>1
  <2>3. \A n \in 0..L : n # 0 => g[n] = step(g[n - 1])
    BY <1>2, <1>4, <2>2 DEF Reaches
  <2> QED BY <2>1, <2>3
<1>6. chosen = [n \in 0..L |-> IF n = 0 THEN {ir.start_state} ELSE step(chosen[n - 1])]
  BY <1>5
<1> HIDE DEF chosen
<1>7. Reaches(chosen, L, U, base, succ)
  <2>1. chosen = [n \in 0..L |-> chosen[n]] /\ chosen[0] = base
    BY <1>1, <1>6
  <2>2. \A n \in 1..L : n \in 0..L /\ n # 0
    BY <1>1
  <2>3. \A n \in 1..L : chosen[n] = step(chosen[n - 1])
    BY <1>6, <2>2
  <2>4. \A n \in 1..L : chosen[n - 1] \in SUBSET U =>
          chosen[n] = chosen[n - 1] \cup UNION {succ[x] : x \in chosen[n - 1]}
    BY <1>2, <2>3
  <2> QED BY <1>1, <2>1, <2>4, ReachTypes
<1> QED BY <1>3, <1>7 DEF WithoutChain, succ, U, L

LEMMA StateDepthParts ==
  ASSUME NEW c \in StateDepths
  PROVE  c[1] \in DOMAIN ir.states /\ c[2] \in Int /\ c = <<c[1], c[2]>>
BY DEF StateDepths

LEMMA DepthTypes ==
  ASSUME ir \in Programs, StructureOk
  PROVE  /\ SuccessorDepths \in [StateDepths -> SUBSET StateDepths]
         /\ {<<ir.start_state, 0>>} \in SUBSET StateDepths
         /\ 2 * Len(ir.states) \in Nat
<1>1. \A c \in StateDepths :
        /\ c[1] \in DOMAIN ir.states /\ c[2] \in Int
        /\ Successors(ir.states[c[1]]) \in SUBSET DOMAIN ir.states
  BY StateDepthParts, SuccessorsExist
<1>2. \A c \in StateDepths : DepthAtExit(c[1], c[2]) \in Int
  <2> TAKE c \in StateDepths
  <2> DEFINE n == Len(ir.states[c[1]].region_ops)
  <2>1. n \in Nat /\ DOMAIN ir.states[c[1]].region_ops = 1..n
    BY <1>1, ProgramTypes
  <2>2. n \in 0..n
    BY <2>1
  <2> HIDE DEF n
  <2>3. NetOps(c[1], n) \in Int
    BY <2>1, NetOpsProperties
  <2> QED BY <1>1, <2>3 DEF DepthAtExit, n
<1>3. \A c \in StateDepths :
        Successors(ir.states[c[1]]) \X {DepthAtExit(c[1], c[2])} \in SUBSET StateDepths
  <2> TAKE c \in StateDepths
  <2> DEFINE A == Successors(ir.states[c[1]])
             d == DepthAtExit(c[1], c[2])
             B == DOMAIN ir.states
  <2>1. A \in SUBSET B /\ d \in Int
    BY <1>1, <1>2
  <2> HIDE DEF A, B, d
  <2>2. A \X {d} \in SUBSET (B \X Int)
    BY <2>1
  <2> QED BY <2>2 DEF A, B, d, StateDepths
<1>4. SuccessorDepths \in [StateDepths -> SUBSET StateDepths]
  <2> HIDE DEF StateDepths
  <2> QED BY <1>3 DEF SuccessorDepths
<1>5. ir.start_state \in DOMAIN ir.states /\ 2 * Len(ir.states) \in Nat
  BY ProgramTypes DEF StructureOk
<1>6. <<ir.start_state, 0>> \in StateDepths
  BY <1>5 DEF StateDepths
<1> QED BY <1>4, <1>5, <1>6

LEMMA DepthsOnPathsIs ==
  ASSUME ir \in Programs, StructureOk
  PROVE  \E f : DepthChain(f) /\ DepthsOnPaths = f[2 * Len(ir.states)]
<1> DEFINE L == 2 * Len(ir.states)
           U == StateDepths
           step(S) == S \cup UNION {Successors(ir.states[c[1]]) \X {DepthAtExit(c[1], c[2])} : c \in S}
           base == {<<ir.start_state, 0>>}
           chosen == CHOOSE f : f = [n \in 0..L |-> IF n = 0 THEN base ELSE step(f[n - 1])]
           succ == SuccessorDepths
<1>1. succ \in [U -> SUBSET U] /\ base \in SUBSET U /\ L \in Nat
  BY DepthTypes
<1>2. \A S \in SUBSET U : step(S) = S \cup UNION {succ[c] : c \in S}
  BY DEF SuccessorDepths
<1>3. DepthsOnPaths = chosen[L]
  BY DEF DepthsOnPaths
<1> HIDE DEF succ, step, U, L, base
<1>4. PICK g : Reaches(g, L, U, base, succ)
  BY <1>1, ReachExists
<1>5. g = [n \in 0..L |-> IF n = 0 THEN base ELSE step(g[n - 1])]
  <2>1. g = [n \in 0..L |-> g[n]] /\ g[0] = base
    BY <1>4 DEF Reaches
  <2>2. \A n \in 0..L : n # 0 => n \in 1..L /\ n - 1 \in 0..L
    BY <1>1
  <2>3. \A n \in 0..L : n # 0 => g[n] = step(g[n - 1])
    BY <1>2, <1>4, <2>2 DEF Reaches
  <2> QED BY <2>1, <2>3
<1>6. chosen = [n \in 0..L |-> IF n = 0 THEN base ELSE step(chosen[n - 1])]
  BY <1>5
<1> HIDE DEF chosen
<1>7. Reaches(chosen, L, U, base, succ)
  <2>1. chosen = [n \in 0..L |-> chosen[n]] /\ chosen[0] = base
    BY <1>1, <1>6
  <2>2. \A n \in 1..L : n \in 0..L /\ n # 0
    BY <1>1
  <2>3. \A n \in 1..L : chosen[n] = step(chosen[n - 1])
    BY <1>6, <2>2
  <2>4. \A n \in 1..L : chosen[n - 1] \in SUBSET U =>
          chosen[n] = chosen[n - 1] \cup UNION {succ[x] : x \in chosen[n - 1]}
    BY <1>2, <2>3
  <2> QED BY <1>1, <2>1, <2>4, ReachTypes
<1> QED BY <1>3, <1>7 DEF DepthChain, succ, U, L, base

\* An instance that is not in the set of a state was not extracted on some path
\* to it.
SweepWitnessed ==
  vpc \in {"sweep", "uses"} =>
    \A i \in Instances : \A f : WithoutChain(f, i) =>
      \A q \in DOMAIN ir.states : i \notin inset[q] => q \in f[Len(ir.states)]

Consistent(pairs) ==
  /\ \A c, d \in pairs : c[1] = d[1] => c = d
  /\ \A c \in pairs : DepthFits(c[1], c[2])

\* The depth of a state is one that a path gives it, no longer than there are
\* states with a depth.
DepthsWitnessed ==
  /\ vpc \in {"structure", "sweep", "uses"} => DOMAIN region_depth = {}
  /\ vpc = "regions" =>
       \A f : DepthChain(f) => \A q \in DOMAIN region_depth :
         <<q, region_depth[q]>> \in f[Cardinality(DOMAIN region_depth) - 1]
  /\ vpc = "invalid" /\ DOMAIN region_depth # {} =>
       StructureOk /\ \A f : DepthChain(f) => ~Consistent(f[2 * Len(ir.states)])

WInv == PInv /\ SweepWitnessed /\ DepthsWitnessed

\* The chains are of the program.
LEMMA StableChains ==
  ASSUME UNCHANGED ir
  PROVE  /\ \A f, i : WithoutChain(f, i)' = WithoutChain(f, i)
         /\ \A f : DepthChain(f)' = DepthChain(f)
         /\ \A S : Consistent(S)' = Consistent(S)
<1>1. \A f, i : WithoutChain(f, i)' = WithoutChain(f, i)
  BY DEF WithoutChain, SuccessorsWithout, Reaches
<1>2. \A f : DepthChain(f)' = DepthChain(f)
  <2>1. StateDepths' = StateDepths
    BY DEF StateDepths
  <2>2. SuccessorDepths' = SuccessorDepths
    BY <2>1 DEF SuccessorDepths, DepthAtExit, NetOps
  <2> QED BY <2>1, <2>2 DEF DepthChain, Reaches
<1>3. \A S : Consistent(S)' = Consistent(S)
  BY StableFacts DEF Consistent
<1> QED BY <1>1, <1>2, <1>3

\* Only the start state starts out with nothing.
LEMMA CheckStructureWitnessed ==
  ASSUME WInv, CheckStructure
  PROVE  SweepWitnessed' /\ DepthsWitnessed'
<1>1. /\ vpc = "structure" /\ UNCHANGED <<ir, region_depth>> /\ ir \in Programs
      /\ DOMAIN region_depth = {}
  BY DEF CheckStructure, WInv, PInv, VInv, DepthsWitnessed
<1>2. \/ /\ StructureOk /\ vpc' = "sweep"
         /\ inset' = [q \in DOMAIN ir.states |-> IF q = ir.start_state THEN {} ELSE Instances]
      \/ vpc' = "invalid"
  BY DEF CheckStructure
<1>3. DepthsWitnessed'
  BY <1>1, <1>2 DEF DepthsWitnessed
<1>4. SweepWitnessed'
  <2> SUFFICES ASSUME vpc' = "sweep", NEW i \in Instances, NEW f, WithoutChain(f, i),
                      NEW q \in DOMAIN ir.states, i \notin inset'[q]
               PROVE  q \in f[Len(ir.states)]
    BY <1>1, <1>2, StableChains, StableFacts DEF SweepWitnessed
  <2>1. q = ir.start_state /\ StructureOk
    BY <1>2
  <2>2. 0 \in 0..Len(ir.states) /\ Len(ir.states) \in 0..Len(ir.states)
    BY <1>1, ProgramTypes
  <2>3. f[0] \subseteq f[Len(ir.states)]
    BY <1>1, <2>2, ProgramTypes, ReachGrows DEF WithoutChain
  <2> QED BY <2>1, <2>3 DEF WithoutChain, Reaches
<1> QED BY <1>3, <1>4

\* What a sweep takes from a set, a path lacks: the path to the state behind it.
LEMMA SweepStateWitnessed ==
  ASSUME WInv, SweepState
  PROVE  SweepWitnessed' /\ DepthsWitnessed'
<1> DEFINE s == ir.states[si]
           out == inset[si] \cup StateInstances(s)
           L == Len(ir.states)
<1>1. /\ vpc = "sweep" /\ si \in DOMAIN ir.states
      /\ inset' = [q \in DOMAIN inset |-> IF q \in Successors(s) THEN inset[q] \cap out ELSE inset[q]]
      /\ UNCHANGED <<ir, vpc, region_depth>>
  BY Zenon DEF SweepState
<1>2. /\ StructureOk /\ DOMAIN inset = DOMAIN ir.states /\ ir \in Programs /\ ValidatorTypeOK
      /\ SweepWitnessed /\ DepthsWitnessed
  BY <1>1 DEF WInv, PInv, VInv, StructureFacts
<1>3. DepthsWitnessed'
  BY <1>1, <1>2 DEF DepthsWitnessed
<1>4. SweepWitnessed'
  <2> SUFFICES ASSUME NEW i \in Instances, NEW f, WithoutChain(f, i),
                      NEW q \in DOMAIN ir.states, i \notin inset'[q]
               PROVE  q \in f[L]
    BY <1>1, StableChains, StableFacts DEF SweepWitnessed
  <2>1. \A p \in DOMAIN ir.states : i \notin inset[p] => p \in f[L]
    BY <1>1, <1>2 DEF SweepWitnessed
  <2>2. CASE i \notin inset[q]
    BY <2>1, <2>2
  <2>3. CASE q \in Successors(s) /\ i \notin out
    <3>1. si \in f[L]
      BY <1>1, <2>1, <2>3
    <3>2. SuccessorsWithout(i)[si] = Successors(s)
      BY <1>1, <2>3 DEF SuccessorsWithout
    <3>3. \A p \in f[L] : SuccessorsWithout(i)[p] \subseteq f[L]
      <4>1. L \in Nat /\ IsFiniteSet(DOMAIN ir.states) /\ Cardinality(DOMAIN ir.states) <= L
        BY <1>2, ProgramTypes, FS_Interval
      <4>2. {ir.start_state} # {}
        OBVIOUS
      <4>3. Reaches(f, L, DOMAIN ir.states, {ir.start_state}, SuccessorsWithout(i))
        BY DEF WithoutChain
      <4> HIDE DEF L
      <4> QED BY <4>1, <4>2, <4>3, ReachCloses
    <3> QED BY <2>3, <3>1, <3>2, <3>3
  <2> QED BY <1>1, <1>2, <2>2, <2>3
<1> QED BY <1>3, <1>4

LEMMA EndSweepWitnessed ==
  ASSUME WInv, EndSweep
  PROVE  SweepWitnessed' /\ DepthsWitnessed'
<1>1. vpc = "sweep" /\ vpc' \in {"sweep", "uses"} /\ UNCHANGED <<ir, inset, region_depth>>
  BY DEF EndSweep
<1> QED BY <1>1, StableChains, StableFacts DEF WInv, SweepWitnessed, DepthsWitnessed

LEMMA CheckUsesWitnessed ==
  ASSUME WInv, CheckUses
  PROVE  SweepWitnessed' /\ DepthsWitnessed'
<1>1. vpc = "uses" /\ UNCHANGED ir /\ ir \in Programs /\ DOMAIN region_depth = {}
  BY DEF CheckUses, WInv, PInv, VInv, DepthsWitnessed
<1>2. CASE /\ vpc' = "regions"
           /\ region_depth' = [q \in {ir.start_state} |-> 0]
  <2>1. DOMAIN region_depth' = {ir.start_state} /\ region_depth'[ir.start_state] = 0
    BY <1>2
  <2>2. Cardinality(DOMAIN region_depth') - 1 = 0
    <3>1. Cardinality({ir.start_state}) = 1
      BY FS_Singleton, Zenon
    <3> QED BY <2>1, <3>1
  <2>3. \A f : DepthChain(f) => f[0] = {<<ir.start_state, 0>>}
    BY DEF DepthChain, Reaches
  <2>4. \A f : DepthChain(f)' => \A q \in DOMAIN region_depth' :
          <<q, region_depth'[q]>> \in f[Cardinality(DOMAIN region_depth') - 1]
    BY <1>1, <2>1, <2>2, <2>3, StableChains
  <2> QED BY <1>2, <2>4 DEF SweepWitnessed, DepthsWitnessed
<1>3. CASE vpc' = "invalid" /\ UNCHANGED region_depth
  BY <1>1, <1>3 DEF SweepWitnessed, DepthsWitnessed
<1> QED BY <1>2, <1>3, Zenon DEF CheckUses

LEMMA AcceptProgramWitnessed ==
  ASSUME WInv, AcceptProgram
  PROVE  SweepWitnessed' /\ DepthsWitnessed'
BY DEF AcceptProgram, SweepWitnessed, DepthsWitnessed

\* A visit reaches what it has not seen one step further; a conflict is one of
\* the paths.
LEMMA VisitStateWitnessed ==
  ASSUME WInv, NEW q \in work, VisitState(q)
  PROVE  SweepWitnessed' /\ DepthsWitnessed'
<1> DEFINE unseen == Successors(ir.states[q]) \ DOMAIN region_depth
           exit == DepthAtExit(q, region_depth[q])
           m == Cardinality(DOMAIN region_depth) - 1
           L == Len(ir.states)
<1>1. vpc = "regions" /\ UNCHANGED <<ir, si, changed, inset>>
  BY DEF VisitState
<1>2. /\ StructureOk /\ ir \in Programs /\ ValidatorTypeOK
      /\ \A f : DepthChain(f) => \A p \in DOMAIN region_depth : <<p, region_depth[p]>> \in f[m]
  BY <1>1 DEF WInv, PInv, VInv, StructureFacts, DepthsWitnessed
<1>3. /\ q \in DOMAIN region_depth /\ q \in DOMAIN ir.states
      /\ DOMAIN region_depth \subseteq DOMAIN ir.states
      /\ region_depth[q] \in Int
  BY <1>2 DEF ValidatorTypeOK
<1>4. /\ IsFiniteSet(DOMAIN region_depth) /\ Cardinality(DOMAIN region_depth) \in Nat
      /\ Cardinality(DOMAIN region_depth) <= L /\ L \in Nat
      /\ Cardinality(DOMAIN region_depth) # 0
  <2>1. IsFiniteSet(DOMAIN ir.states) /\ Cardinality(DOMAIN ir.states) = L /\ L \in Nat
    BY <1>2, ProgramTypes, FS_Interval
  <2>2. IsFiniteSet(DOMAIN region_depth) /\ Cardinality(DOMAIN region_depth) <= L
    BY <1>3, <2>1, FS_Subset
  <2> QED BY <1>3, <2>1, <2>2, FS_CardinalityType, FS_EmptySet
<1>5. m \in 0..(2 * L) /\ m + 1 \in 1..(2 * L) /\ 2 * L \in 0..(2 * L)
  BY <1>4
<1> HIDE DEF m, L
<1>6. ASSUME NEW f, DepthChain(f)
      PROVE  /\ \A p \in DOMAIN region_depth : <<p, region_depth[p]>> \in f[m]
             /\ \A t \in Successors(ir.states[q]) : <<t, exit>> \in f[m + 1]
             /\ \A k, l \in 0..(2 * L) : k <= l => f[k] \subseteq f[l]
  <2>1. \A p \in DOMAIN region_depth : <<p, region_depth[p]>> \in f[m]
    BY <1>2, <1>6
  <2>2. f[m + 1] = f[(m + 1) - 1] \cup UNION {SuccessorDepths[c] : c \in f[(m + 1) - 1]}
    BY <1>5, <1>6 DEF DepthChain, Reaches, L
  <2>3. (m + 1) - 1 = m
    BY <1>5
  <2>4. \A t \in Successors(ir.states[q]) : <<t, exit>> \in SuccessorDepths[<<q, region_depth[q]>>]
    <3> DEFINE c == <<q, region_depth[q]>>
    <3>1. c \in StateDepths /\ c[1] = q /\ c[2] = region_depth[q]
      BY <1>3 DEF StateDepths
    <3> HIDE DEF c
    <3>2. SuccessorDepths[c] = Successors(ir.states[q]) \X {exit}
      BY <3>1 DEF SuccessorDepths
    <3> HIDE DEF exit
    <3> QED BY <3>2 DEF c
  <2>5. 2 * L \in Nat
    BY <1>4 DEF L
  <2> QED BY <1>3, <1>6, <2>1, <2>2, <2>3, <2>4, <2>5, ReachGrows DEF DepthChain, L
<1>7. CASE /\ region_depth' = [t \in DOMAIN region_depth \cup unseen |->
                                IF t \in unseen THEN exit ELSE region_depth[t]]
           /\ UNCHANGED vpc
  <2>1. /\ DOMAIN region_depth' = DOMAIN region_depth \cup unseen
        /\ \A t \in unseen : region_depth'[t] = exit
        /\ \A t \in DOMAIN region_depth : region_depth'[t] = region_depth[t]
    BY <1>7
  <2> DEFINE n == Cardinality(DOMAIN region_depth') - 1
  <2>2. /\ IsFiniteSet(DOMAIN region_depth') /\ Cardinality(DOMAIN region_depth') \in Nat
        /\ Cardinality(DOMAIN region_depth') <= L
    <3>1. IsFiniteSet(DOMAIN ir.states) /\ Cardinality(DOMAIN ir.states) = L /\ L \in Nat
      BY <1>2, ProgramTypes, FS_Interval DEF L
    <3>2. DOMAIN region_depth' \in SUBSET DOMAIN ir.states
      BY <1>2, <1>3, <2>1, SuccessorsExist
    <3> QED BY <3>1, <3>2, FS_Subset, FS_CardinalityType
  <2>3. CASE unseen = {}
    <3>1. n = m
      BY <2>1, <2>3 DEF m
    <3> HIDE DEF n, exit
    <3>2. \A f : DepthChain(f) => \A p \in DOMAIN region_depth' : <<p, region_depth'[p]>> \in f[n]
      BY <1>6, <2>1, <2>3, <3>1
    <3> QED BY <1>1, <1>7, <3>2, StableChains DEF SweepWitnessed, DepthsWitnessed, n
  <2>4. CASE unseen # {}
    <3>1. n >= m + 1 /\ n \in 0..(2 * L)
      <4>1. DOMAIN region_depth \in SUBSET DOMAIN region_depth' /\ DOMAIN region_depth # DOMAIN region_depth'
        BY <2>1, <2>4
      <4>2. /\ Cardinality(DOMAIN region_depth) <= Cardinality(DOMAIN region_depth')
            /\ Cardinality(DOMAIN region_depth) # Cardinality(DOMAIN region_depth')
        BY <2>2, <4>1, FS_Subset
      <4> QED BY <1>4, <2>2, <4>2 DEF m, L
    <3> HIDE DEF n, exit, unseen
    <3>2. \A f : DepthChain(f) => \A p \in DOMAIN region_depth' : <<p, region_depth'[p]>> \in f[n]
      <4> SUFFICES ASSUME NEW f, DepthChain(f), NEW p \in DOMAIN region_depth'
                   PROVE  <<p, region_depth'[p]>> \in f[n]
        OBVIOUS
      <4>1. f[m] \subseteq f[n] /\ f[m + 1] \subseteq f[n]
        BY <1>5, <1>6, <3>1
      <4> QED BY <1>6, <2>1, <4>1 DEF unseen
    <3> QED BY <1>1, <1>7, <3>2, StableChains DEF SweepWitnessed, DepthsWitnessed, n
  <2> QED BY <2>3, <2>4
<1>8. CASE ~DepthsOk(q) /\ vpc' = "invalid" /\ UNCHANGED region_depth
  <2>1. ASSUME NEW f, DepthChain(f) PROVE ~Consistent(f[2 * L])
    <3>1. f[m] \subseteq f[2 * L] /\ f[m + 1] \subseteq f[2 * L]
      BY <1>5, <1>6, <2>1
    <3>2. CASE ~DepthFits(q, region_depth[q])
      <4> DEFINE c == <<q, region_depth[q]>>
      <4>1. c \in f[2 * L] /\ c[1] = q /\ c[2] = region_depth[q]
        BY <1>3, <1>6, <2>1, <3>1
      <4> HIDE DEF c
      <4> QED BY <3>2, <4>1 DEF Consistent
    <3>3. CASE DepthFits(q, region_depth[q])
      <4>1. PICK t \in Successors(ir.states[q]) \cap DOMAIN region_depth : region_depth[t] # exit
        BY <1>8, <3>3 DEF DepthsOk
      <4> DEFINE c == <<t, region_depth[t]>>
                 d == <<t, exit>>
      <4>2. c \in f[2 * L] /\ d \in f[2 * L] /\ c[1] = d[1] /\ c # d
        BY <1>6, <2>1, <3>1, <4>1
      <4> HIDE DEF c, d
      <4> QED BY <4>2 DEF Consistent
    <3> QED BY <3>2, <3>3
  <2>2. \A f : DepthChain(f)' => ~Consistent(f[2 * L])'
    BY <1>1, <2>1, StableChains DEF L
  <2> QED BY <1>1, <1>2, <1>8, <2>2, StableFacts DEF SweepWitnessed, DepthsWitnessed, L
<1> QED BY <1>7, <1>8, Zenon DEF VisitState

LEMMA NextWInv ==
  ASSUME WInv, [PipelineNext]_pipeline
  PROVE  WInv'
<1>1. PInv'
  BY NextPInv DEF WInv
<1>2. CASE ValidateStep
  <2>1. SweepWitnessed' /\ DepthsWitnessed'
    BY <1>2, CheckStructureWitnessed, SweepStateWitnessed, EndSweepWitnessed, CheckUsesWitnessed,
       VisitStateWitnessed, AcceptProgramWitnessed, Zenon DEF ValidateStep
  <2> QED BY <1>1, <2>1 DEF WInv
<1>3. CASE UNCHANGED <<ir, validator>>
  <2>1. UNCHANGED <<ir, vpc, inset, region_depth>>
    BY <1>3 DEF validator
  <2>2. SweepWitnessed' /\ DepthsWitnessed'
    BY <2>1, StableChains, StableFacts DEF WInv, SweepWitnessed, DepthsWitnessed
  <2> QED BY <1>1, <2>2 DEF WInv
<1>4. ValidateStep \/ UNCHANGED <<ir, validator>>
  <2>1. Step => UNCHANGED ir
    BY DEF Step, EnterState, BeginExtract, ReadFixed, ReadRunField, EndExtract, AssignMetadata,
           PushRegion, PopRegion, TakeDirect, TakeSelect, Malformed
  <2>2. CASE PipelineNext
    BY <2>1, <2>2 DEF PipelineNext, Validate, StartRun, Run, Finished, pipeline, vars
  <2>3. CASE UNCHANGED pipeline
    BY <2>3 DEF pipeline, vars
  <2> QED BY <2>2, <2>3
<1> QED BY <1>2, <1>3, <1>4

LEMMA InitWInv == PipelineInit => WInv
<1> SUFFICES ASSUME PipelineInit PROVE WInv
  OBVIOUS
<1>1. vpc = "structure" /\ region_depth = [q \in {} |-> 0]
  BY DEF PipelineInit, ValidatorInit
<1>2. DOMAIN region_depth = {}
  BY <1>1
<1> QED BY <1>1, <1>2, InitPInv DEF WInv, SweepWitnessed, DepthsWitnessed

\* The sweeps end with the exact answer: an instance is in the set of a state
\* exactly where no path reaches the state without extracting it, for every
\* program and however many sweeps it takes.
THEOREM InsetExact == PipelineSpec => []InsetIsExact
<1>1. ASSUME WInv PROVE InsetIsExact
  <2> SUFFICES ASSUME vpc = "uses", NEW q \in DOMAIN ir.states, NEW i \in Instances
               PROVE  i \in inset[q] <=> q \notin ReachedWithout(i)
    <3>1. vpc = "uses" => \A q \in DOMAIN ir.states : inset[q] \subseteq Instances
      BY <1>1 DEF WInv, PInv, VInv, ValidatorTypeOK, StructureFacts
    <3> QED BY <3>1, Zenon DEF InsetIsExact
  <2> DEFINE L == Len(ir.states)
  <2>1. /\ StructureOk /\ ir \in Programs /\ inset[ir.start_state] = {}
        /\ \A p \in DOMAIN ir.states : Closed(p)
    BY <1>1 DEF WInv, PInv, VInv, StructureFacts, SweepFacts
  <2>2. PICK f : WithoutChain(f, i) /\ ReachedWithout(i) = f[L]
    BY <2>1, ReachedWithoutIs
  <2>3. i \notin inset[q] => q \in f[L]
    BY <1>1, <2>2 DEF WInv, SweepWitnessed
  <2>4. q \in f[L] => i \notin inset[q]
    <3> DEFINE S == {k \in 0..L : \A p \in f[k] : p \in DOMAIN ir.states /\ i \notin inset[p]}
    <3>1. 0 \in S
      <4>1. f[0] = {ir.start_state} /\ L \in Nat
        BY <2>1, <2>2, ProgramTypes DEF WithoutChain, Reaches
      <4> QED BY <2>1, <4>1 DEF StructureOk
    <3>2. ASSUME NEW k \in 1..L, k - 1 \in S PROVE k \in S
      <4>1. k \in 0..L
        BY <2>1, ProgramTypes
      <4>2. f[k] = f[k - 1] \cup UNION {SuccessorsWithout(i)[x] : x \in f[k - 1]}
        BY <2>2, <3>2 DEF WithoutChain, Reaches
      <4>3. \A p \in f[k - 1] : p \in DOMAIN ir.states /\ i \notin inset[p]
        BY <3>2
      <4>4. ASSUME NEW x \in f[k - 1], NEW p \in SuccessorsWithout(i)[x]
            PROVE  p \in DOMAIN ir.states /\ i \notin inset[p]
        <5>1. x \in DOMAIN ir.states /\ i \notin inset[x]
          BY <4>3, <4>4
        <5>2. p \in Successors(ir.states[x]) /\ i \notin StateInstances(ir.states[x])
          BY <4>4, <5>1 DEF SuccessorsWithout
        <5>3. inset[p] \subseteq inset[x] \cup StateInstances(ir.states[x])
          BY <2>1, <5>1, <5>2 DEF Closed
        <5> QED BY <2>1, <5>1, <5>2, <5>3, SuccessorsExist
      <4> QED BY <4>1, <4>2, <4>3, <4>4
    <3> HIDE DEF S, L
    <3>3. L \in Nat
      BY <2>1, ProgramTypes DEF L
    <3>4. \A k \in 0..L : k \in S
      BY <3>1, <3>2, <3>3, Induction
    <3>5. L \in S
      BY <3>3, <3>4
    <3> QED BY <3>5 DEF S
  <2> QED BY <2>2, <2>3, <2>4
<1> QED BY <1>1, InitWInv, NextWInv, PTL DEF PipelineSpec

\* The worklist gives the verdict that the paths of the state graph give, in
\* whatever order it visits the states: a program it accepts has one depth per
\* state on all paths, and of one it rejects some path shows why.
THEOREM RegionVerdictExact == PipelineSpec => []RegionVerdictIsExact
<1>1. ASSUME WInv PROVE RegionVerdictIsExact
  <2> DEFINE L == Len(ir.states)
  <2>1. ir \in Programs
    BY <1>1 DEF WInv, PInv, VInv
  <2>2. ASSUME vpc = "invalid", DOMAIN region_depth # {} PROVE ~RegionsConsistent
    <3>1. StructureOk /\ \A f : DepthChain(f) => ~Consistent(f[2 * L])
      BY <1>1, <2>2 DEF WInv, DepthsWitnessed
    <3>2. PICK f : DepthChain(f) /\ DepthsOnPaths = f[2 * L]
      BY <2>1, <3>1, DepthsOnPathsIs
    <3> HIDE DEF L
    <3> QED BY <3>1, <3>2 DEF RegionsConsistent, Consistent
  <2>3. ASSUME vpc = "valid" PROVE RegionsConsistent
    <3>1. /\ StructureOk /\ ValidatorTypeOK /\ work = {}
          /\ ir.start_state \in DOMAIN region_depth /\ region_depth[ir.start_state] = 0
          /\ \A q \in SettledStates : Settled(q)
      BY <1>1, <2>3 DEF WInv, PInv, VInv, StructureFacts, DepthFacts
    <3>2. \A q \in DOMAIN region_depth : Settled(q) /\ q \in DOMAIN ir.states /\ region_depth[q] \in Int
      BY <3>1 DEF SettledStates, ValidatorTypeOK
    <3>3. PICK f : DepthChain(f) /\ DepthsOnPaths = f[2 * L]
      BY <2>1, <3>1, DepthsOnPathsIs
    <3> DEFINE Known(c) == c[1] \in DOMAIN region_depth /\ c = <<c[1], region_depth[c[1]]>>
               S == {k \in 0..(2 * L) : \A c \in f[k] : Known(c)}
    <3>4. 2 * L \in Nat
      BY <2>1, ProgramTypes
    <3>5. 0 \in S
      BY <3>1, <3>3, <3>4 DEF DepthChain, Reaches
    <3>6. ASSUME NEW k \in 1..(2 * L), k - 1 \in S PROVE k \in S
      <4>1. k \in 0..(2 * L)
        BY <3>4
      <4>2. f[k] = f[k - 1] \cup UNION {SuccessorDepths[x] : x \in f[k - 1]}
        BY <3>3, <3>6 DEF DepthChain, Reaches
      <4>3. \A c \in f[k - 1] : Known(c)
        BY <3>6
      <4>4. ASSUME NEW x \in f[k - 1], NEW c \in SuccessorDepths[x] PROVE Known(c)
        <5> DEFINE p == x[1]
                   r == region_depth[x[1]]
        <5>1. p \in DOMAIN region_depth /\ x = <<p, r>> /\ Settled(p) /\ p \in DOMAIN ir.states /\ r \in Int
          BY <3>2, <4>3, <4>4
        <5>2. SuccessorDepths[x] = Successors(ir.states[p]) \X {DepthAtExit(p, r)}
          <6>1. <<p, r>> \in StateDepths
            BY <5>1 DEF StateDepths
          <6>2. x[2] = r
            BY <5>1, StateDepthParts
          <6> QED BY <5>1, <6>1, <6>2 DEF SuccessorDepths
        <5>3. \A t \in Successors(ir.states[p]) :
                t \in DOMAIN region_depth /\ region_depth[t] = DepthAtExit(p, r)
          BY <5>1 DEF Settled
        <5> QED BY <4>4, <5>2, <5>3
      <4> HIDE DEF Known
      <4> QED BY <4>1, <4>2, <4>3, <4>4
    <3> HIDE DEF S, L
    <3>7. \A k \in 0..(2 * L) : k \in S
      BY <3>4, <3>5, <3>6, Induction
    <3>8. \A c \in f[2 * L] : Known(c)
      <4>1. 2 * L \in S
        BY <3>4, <3>7
      <4> QED BY <4>1 DEF S
    <3>9. \A c \in f[2 * L] : c[2] = region_depth[c[1]] /\ DepthFits(c[1], region_depth[c[1]])
      BY <3>2, <3>8 DEF Settled
    <3> QED BY <3>3, <3>8, <3>9 DEF RegionsConsistent
  <2> QED BY <2>2, <2>3 DEF RegionVerdictIsExact
<1> QED BY <1>1, InitWInv, NextWInv, PTL DEF PipelineSpec
=============================================================================

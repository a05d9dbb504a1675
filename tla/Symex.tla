------------------------------- MODULE Symex -------------------------------
(***************************************************************************)
(* Enumeration, then a concrete run: what testgen, cov and lint do with the *)
(* paths (rust/pakeles/src/symex/testgen.rs, cov.rs, lint.rs).  The engine  *)
(* walks the parser; if it returns paths, the interpreter runs on a packet, *)
(* a witness of some path or any other, and pathid names the path it took.  *)
(***************************************************************************)
EXTENDS PathIdentity, Structure

symex == <<vars, engine>>

\* enumerate_all takes a ValidatedIr.
SymexInit ==
  /\ ir \in Programs
  /\ StructureOk
  /\ packet = <<>>
  /\ pc = "idle"
  /\ Fresh(ir)
  /\ EngineInit

Enumerate == EngineStep /\ UNCHANGED <<packet, machine>>

Paths == ToSet(ctx.paths)
Witnesses == UNION {p.witness : p \in Paths}

RunPacket ==
  /\ Enumerated
  /\ pc = "idle"
  /\ packet' \in Packets \cup Witnesses
  /\ pc' = "enter"
  /\ UNCHANGED <<ir, ix, fx, current, depth, cursor_bits, entry_cursor, regions, env, meta,
                 headers, trace, result, engine>>

RunStep == Step /\ UNCHANGED engine

SymexDone == (pc = "done" \/ (calls = <<>> /\ ~Enumerated)) /\ UNCHANGED symex

SymexNext == Enumerate \/ RunPacket \/ RunStep \/ SymexDone
SymexSpec == SymexInit /\ [][SymexNext]_symex

----------------------------------------------------------------------------
\* The rank of an activation: entries left, then the function, then what is left
\* of it.
Left(c) == ir.max_depth - c.frame.depth
Phase(c) ==
  CASE c.do = "state"    -> 1
    [] c.do = "target"   -> 2
    [] c.do = "arms"     -> 3
    [] c.do = "dispatch" -> 4
    [] c.do = "ops"      -> 5
    [] c.do = "extracts" -> 6
Rest(c) ==
  CASE c.do = "arms"     -> Cardinality(c.left)
    [] c.do = "ops"      -> Len(StateAt(c.state).region_ops) + 1 - c.idx
    [] c.do = "extracts" -> Len(Items(c.state)) + 1 - c.idx
    [] OTHER             -> 0

\* Ranks are ordered lexicographically, and a pop is below every walk.
Below(b, c) ==
  /\ c.do # "pop"
  /\ \/ b.do = "pop"
     \/ Left(b) < Left(c)
     \/ Left(b) = Left(c) /\ Phase(b) < Phase(c)
     \/ Left(b) = Left(c) /\ Phase(b) = Phase(c) /\ Rest(b) < Rest(c)

\* The type of the engine's variables: the counters stay within the ceilings, and
\* no component of a rank passes below zero.
EngineTypeOK ==
  /\ ctx.checks \in 0..ctx.limits.max_solver_checks
  /\ Len(ctx.paths) <= ctx.limits.max_paths
  /\ ctx.reached_states \subseteq DOMAIN ir.states
  /\ ctx.feasible_arms \subseteq ctx.attempted_arms
  /\ ctx.limit_exceeded \in BOOLEAN /\ ctx.failed \in BOOLEAN
  /\ \A i \in DOMAIN calls :
       /\ calls[i].do \in {"state", "extracts", "ops", "dispatch", "arms", "target", "pop"}
       /\ calls[i].do # "pop" => Left(calls[i]) >= 0 /\ Rest(calls[i]) >= 0

\* The solver's stack is the path condition of the frame that runs, whatever
\* was forked, emitted, pruned or left before (solver.rs Session: "the solver
\* stack always equals the current frame's constraint vector").
StackIsPathCondition ==
  /\ (calls # <<>> /\ Call.do # "pop") => ctx.session.asserted = Frame.constraints
  /\ (calls = <<>> /\ ~ctx.failed) => ctx.session.saved = <<>> /\ ctx.session.asserted = <<>>

\* A cached model that would be reused satisfies all that is asserted now
\* (z3solver.rs model_cache: "any model of it witnesses every such emit").
CachedModelsHold ==
  \A m \in Session!CurrentModels(ctx.session) :
    Session!IsModel(m, ctx.session.asserted, ctx.session.bounded)

\* What a path predicts, and what the run reports.
Agrees(kind) ==
  CASE kind.kind = "accept"     -> result.outcome = "accept"
    [] kind.kind = "reject"     -> result.outcome = "reject" /\ result.reason = kind.reason
    [] kind.kind = "truncation" -> result.outcome = "reject" /\ result.reason = "out of bounds"

\* The state whose arm the k-th segment of a name is.
StateBefore(id, k) == Last(SelectSeq(SubSeq(id, 1, k), LAMBDA s : s[1] = "state"))[2]

\* The name with each arm replaced by the first of its group.
Grouped(id) ==
  [k \in DOMAIN id |->
     IF id[k][1] # "arm" THEN id[k]
     ELSE <<"arm", Min(GroupOf(StateAt(StateBefore(id, k)).transition.arms, id[k][2])), 0>>]

\* The name is through a group of arms with another arm between them.
ThroughSplitGroup(id) ==
  \E k \in DOMAIN id :
    /\ id[k][1] = "arm"
    /\ LET group == GroupOf(StateAt(StateBefore(id, k)).transition.arms, id[k][2])
       IN group # Min(group)..Max(group)

\* Testgen succeeds: every path has a witness, and the interpreter takes the end
\* the path predicts on it (engine.rs Path: "Always Some for a correctly-
\* enumerated path"; testgen.rs: "any mismatch is a soundness bug").
WitnessesReplay ==
  /\ Enumerated => \A p \in Paths : p.witness # {}
  /\ pc = "done" => \A p \in Paths : packet \in p.witness => Agrees(p.kind)

\* The regions open when the k-th segment of a name is entered.
RegionsAt(id, k) ==
  LET ops(q, kind) ==
        Cardinality({i \in DOMAIN StateAt(q).region_ops : StateAt(q).region_ops[i].kind = kind})
      after(n, s) == IF s[1] = "state" THEN n + ops(s[2], "push") - ops(s[2], "pop") ELSE n
  IN FoldLeft(after, 0, SubSeq(id, 1, k - 1))

\* After its last check a path went on in a world that was asserted unchecked: a
\* field that fits its region, a push or a pop that succeeds.
EndsUnchecked(p) ==
  \E k \in DOMAIN p.id :
    /\ \A j \in k..Len(p.id) : p.id[j][1] \in {"state", "trunc"}
    /\ p.id[k][1] = "state"
    /\ k < Len(p.id) \/ p.kind.reason # "max depth exceeded"
    /\ \/ StateAt(p.id[k][2]).region_ops # <<>>
       \/ RegionsAt(p.id, k) > 0 /\ StateAt(p.id[k][2]).extracts # <<>>

\* The headers of the first n states of the run.
HeadersAfter(n) ==
  LET count(m, k) == m + Len(StateAt(trace[k].state).extracts)
  IN SubSeq(headers, 1, AtMost(Len(headers), FoldLeft(count, 0, [k \in 1..n |-> k])))

\* The path ends in a push that the run makes with a length over its bound: it
\* wraps, yet the end it gives does not.
WrapsUnnoticed(id) ==
  LET n == Cardinality({k \in DOMAIN id : id[k][1] = "state"})
      push == StateAt(Last(id)[2]).region_ops[Last(id)[3]]
  IN /\ Last(id)[1] = "rpush"
     /\ n \in DOMAIN trace
     /\ EvalExpr(push.len, ValuesOf(HeadersAfter(n)), <<>>, Undef) > BoundOf(push.len)

\* It does, but for three kinds of path: one whose last worlds were asserted
\* unchecked, and that no packet takes; one through a group of arms with another
\* arm between them; and a push whose length wraps without overflowing.
WitnessesReplayWhereChecked ==
  /\ Enumerated => \A p \in Paths : p.witness = {} => EndsUnchecked(p)
  /\ pc = "done" => \A p \in Paths :
       /\ p.id = Grouped(PathId) => p.witness # {}
       /\ packet \in p.witness =>
            Agrees(p.kind) \/ ThroughSplitGroup(p.id) \/ WrapsUnnoticed(p.id)

\* Beyond the unrolling bound the engine says nothing.
WithinUnroll ==
  \A q \in CyclicStates : Cardinality({k \in DOMAIN trace : trace[k].state = q}) <= LoopUnroll

\* A length that a push was given is no longer in the headers when it is replayed:
\* a header it reads from has been extracted anew since.
StalePush ==
  \E k \in DOMAIN trace :
    LET ops == StateAt(trace[k].state).region_ops
    IN \E i \in DOMAIN ops :
         /\ ops[i].kind = "push"
         /\ \E r \in FieldRefs(ops[i].len) :
              \E h \in DOMAIN headers :
                h > Len(HeadersAfter(k)) /\ headers[h].instance = r.header

\* Pathid mirrors the engine: coverage knows the path of every packet, and a
\* witness takes the path it was made for (cov.rs bails: "packet mapped to
\* unknown path ... pathid/engine divergence"; testgen.rs, cov.rs tests:
\* "pathid diverges from engine").
PathIdMirrors ==
  pc = "done" =>
    /\ WithinUnroll => \E p \in Paths : p.id = PathId
    /\ \A p \in Paths : packet \in p.witness => p.id = PathId

\* A body was skipped after a lookahead, of which only the least length is known.
BodyAfterPeek ==
  /\ \E k \in DOMAIN headers : \E f \in DOMAIN headers[k].fields :
       "bits" \in DOMAIN headers[k].fields[f].value
  /\ \E k \in DOMAIN trace : \E i \in DOMAIN StateAt(trace[k].state).extracts :
       StateAt(trace[k].state).extracts[i].lookahead

\* Coverage knows the path of every packet, with the arms named by their group:
\* but where the length of a push has been overwritten when it is replayed, or a
\* body after a lookahead is cut.
EveryRunIsEnumerated ==
  (pc = "done" /\ WithinUnroll) =>
    \/ \E p \in Paths : p.id = Grouped(PathId)
    \/ StalePush
    \/ BodyAfterPeek /\ Last(PathId)[1] = "trunc"

\* A witness takes the path it was made for, named in the same way: but through
\* a group with another arm inside it, and where a push's length is overwritten.
WitnessTakesItsPath ==
  pc = "done" => \A p \in Paths :
    packet \in p.witness =>
      \/ p.id = Grouped(PathId)
      \/ StalePush
      \/ ThroughSplitGroup(p.id)

\* Lint is right: a state it calls unreachable is entered by no packet, and an
\* arm it calls unsatisfiable is taken by none (lint.rs lint), within the
\* unrolling bound.
LintIsRight ==
  (pc = "done" /\ WithinUnroll) =>
    \A k \in DOMAIN trace :
      LET q == trace[k].state
          arm == <<q, trace[k].decision[2]>>
      IN /\ (k < Len(trace) \/ result.reason # "max depth exceeded") => q \in ctx.reached_states
         /\ (trace[k].decision[1] = "arm" /\ arm \in ctx.attempted_arms) => arm \in ctx.feasible_arms

\* The enumeration ends, whatever the parser's cycles: an activation ends or is
\* replaced by calls that rank below it, and no step touches the calls around it.
WalkDescends ==
  [][calls' # calls =>
       \/ calls' = <<>>
       \/ /\ IsPrefix(Front(calls), calls')
          /\ \A i \in Len(calls)..Len(calls') : Below(calls'[i], Call)]_symex
=============================================================================

----------------------------- MODULE PathEngine -----------------------------
(***************************************************************************)
(* Path enumeration (rust/pakeles/src/symex/engine.rs): a depth-first walk  *)
(* of a parser over a packet that is not known.  Lengths stay symbolic; a   *)
(* field, a region operation or a select forks the walk, each fork in a     *)
(* scope of the solver session; every end of a path is emitted with a       *)
(* witness packet.                                                          *)
(*                                                                          *)
(* calls is the call stack of the recursive walk, the running activation    *)
(* last: "pop" is what a function still has to do after the call it made.   *)
(* One step is one activation up to its next call.                          *)
(***************************************************************************)
EXTENDS Terms

CONSTANTS
  Value(_, _),  \* what a term evaluates to in a model (EvalTerm)
  Holds(_, _),  \* does a model satisfy a constraint? (Satisfies)
  Reads(_),     \* the reads a constraint has a variable for (ReadsIn)
  Addends(_),   \* an offset as a bag of addends and a constant (NormalizeOff)
  Interval(_),  \* the bounds of a term (TermInterval)
  LoopUnroll,   \* entries of a cyclic state on one path (TESTGEN_LOOP_UNROLL)
  SanityBits,   \* the longest body laid out (SANITY_BITS)
  LadderBits,   \* the rungs of the witness ladder (LADDER_BITS)
  Limits        \* the ceilings an enumeration may be given (SymexLimits)

ASSUME LimitsAssumption ==
  \A limits \in Limits : limits.max_paths \in Nat /\ limits.max_solver_checks \in Nat

VARIABLES
  ctx,     \* the session, the paths emitted, the log, the counters, the error
  calls    \* the call stack

engine == <<ctx, calls>>

Session == INSTANCE SolverSession

\* Offsets stay far below the window, so a difference in it is not a wrap.
CmpWindow == 2^(WordBits - 1)

\* Mutant of Exceeds: a difference below zero counts as well.
Differs(a, b) == InRange(TSub(a, b), 1, WordSize - 1)

Exceeds(a, b) == InRange(TSub(a, b), 1, CmpWindow)

----------------------------------------------------------------------------
(* The parser.                                                             *)

StateAt(q) == ir.states[q]

\* The states that can reach themselves.
CyclicStates ==
  LET step(S) == S \cup UNION {Successors(StateAt(p)) : p \in S}
      reach[q \in DOMAIN ir.states, n \in 0..Len(ir.states)] ==
        IF n = 0 THEN Successors(StateAt(q)) ELSE step(reach[q, n - 1])
  IN {q \in DOMAIN ir.states : q \in reach[q, Len(ir.states)]}

\* The fields a state reads, a lookahead bracketed by markers.
Items(q) ==
  LET fields(ex) == [f \in DOMAIN ir.header_types[ex.header_type] |->
                       [item |-> "field", inst |-> InstanceOf(ex), field |-> f,
                        width |-> ir.header_types[ex.header_type][f], in_peek |-> ex.lookahead]]
      items(ex) == IF ex.lookahead
                   THEN <<[item |-> "begin"]>> \o fields(ex) \o <<[item |-> "end"]>>
                   ELSE fields(ex)
  IN FlattenSeq([i \in DOMAIN StateAt(q).extracts |-> items(StateAt(q).extracts[i])])

\* Arms of exact values with the same target are one group, named by its first.
Exact(arm) == \A j \in DOMAIN arm.entries : arm.entries[j].kind = "value"
GroupOf(arms, i) ==
  IF Exact(arms[i]) THEN {j \in DOMAIN arms : Exact(arms[j]) /\ arms[j].next = arms[i].next}
  ELSE {i}
Leaders(arms) == {i \in DOMAIN arms : \A j \in GroupOf(arms, i) : i <= j}

----------------------------------------------------------------------------
(* Frames: the state of one path.                                          *)

RootFrame ==
  [cursor |-> Cst(0), cursor_min |-> 0, placed |-> [r \in {} |-> 0], constraints |-> <<>>,
   segments |-> <<>>, depth |-> 0, loop_counts |-> [q \in DOMAIN ir.states |-> 0],
   meta |-> [m \in DOMAIN ir.metadata |-> Cst(ir.metadata[m].init)], regions |-> <<>>,
   peek_saved |-> <<>>, peek_overhang |-> 0, peek_reads |-> <<>>]

TopOf(f) == Last(f.regions)

\* Whether every reference of an expression has a term on this path.
Resolves(e, f) ==
  /\ \A r \in FieldRefs(e) : <<r.header, r.field>> \in DOMAIN f.placed
  /\ ContainsRemaining(e) => f.regions # <<>>

TermOf(expr, f) ==
  LET term[e \in Exprs] ==
        CASE e.kind = "remaining" -> TSub(TopOf(f), f.cursor)
          [] e.kind = "constant"  -> Cst(e.value)
          [] e.kind = "field"     -> f.placed[<<e.header, e.field>>]
          [] e.kind = "metadata"  -> f.meta[e.name]
          [] e.kind = "bin"       -> Apply(e.op, term[e.lhs], term[e.rhs])
  IN term[expr]

EntryConstraint(entry, key) ==
  CASE entry.kind = "value"  -> Equals(key, entry.value)
    [] entry.kind = "masked" -> MaskedBy(key, entry.value, entry.mask)
    [] entry.kind = "range"  -> InRange(key, entry.lo, entry.hi)

ArmConstraints(sel, f) ==
  [i \in DOMAIN sel.arms |->
     AllOf([j \in DOMAIN sel.keys |-> EntryConstraint(sel.arms[i].entries[j], TermOf(sel.keys[j], f))])]

Along(f, delta, segments) ==
  [f EXCEPT !.constraints = @ \o delta, !.segments = @ \o segments]

\* A witness that does not end in truncation holds the bits peeked at.
Slacked(f, len) == IF f.peek_overhang > 0 THEN TAdd(len, Cst(f.peek_overhang)) ELSE len
MinLength(f) == f.cursor_min + f.peek_overhang

\* Mutant of AliasConstraints: a later read is taken for other bits.
NoAliases(f, read) == <<>>

\* Slices that a new read shares with the reads of earlier lookaheads agree.
AliasConstraints(f, read) ==
  LET new == Addends(read.off)
      shared(p) ==
        LET lo == AtLeast(p.k, new.k)
            hi == AtMost(p.k + p.read.len, new.k + read.len)
            w == hi - lo
        IN IF p.read = read \/ p.addends # new.addends \/ lo >= hi THEN <<>>
           ELSE <<Equals(TSub(SliceTerm(p.read, p.read.len, lo - p.k, w),
                              SliceTerm(read, read.len, lo - new.k, w)), 0)>>
  IN FlattenSeq([i \in DOMAIN f.peek_reads |-> shared(f.peek_reads[i])])

\* A layout of unknown length between a lookahead and a read it may overlap.
AliasUnknown(f, read) ==
  LET new == Addends(read.off)
  IN \E i \in DOMAIN f.peek_reads :
       LET p == f.peek_reads[i]
       IN /\ p.read # read /\ p.addends # new.addends
          /\ BagCardinality(new.addends) > BagCardinality(p.addends)
          /\ BagToSet(p.addends) \subseteq BagToSet(new.addends)
          /\ new.k < p.k + p.read.len

----------------------------------------------------------------------------
(* What the walk does to its context.                                      *)

Accepts == [kind |-> "accept", reason |-> ""]
Rejects(reason) == [kind |-> "reject", reason |-> reason]
Truncates == [kind |-> "truncation", reason |-> ""]

\* Push a scope and assert a fork's constraints in it; leave the scope.
Assume(c, delta) == [c EXCEPT !.session = Session!AssertIn(Session!Push(@), delta)]
Release(c) == [c EXCEPT !.session = Session!Pop(@, 1)]

\* Mutant of MayCheck: one check too many.
MayCheckOnceMore(c) == c.checks <= c.limits.max_solver_checks

\* A check, counted; at the ceiling it answers "no" and the enumeration fails.
MayCheck(c) == c.checks < c.limits.max_solver_checks
Feasible(c) == MayCheck(c) /\ Session!Models(c.session) # {}
CheckOf(c) ==
  IF MayCheck(c) THEN [c EXCEPT !.checks = @ + 1, !.session = Session!Checked(@)]
  ELSE [c EXCEPT !.limit_exceeded = TRUE]

\* A path, with the packets of its models: any may witness it.
Emitted(c, f, kind, len, models) ==
  [c EXCEPT !.session = Session!Remember(@, models),
            !.paths = Append(@, [id |-> f.segments, kind |-> kind,
                                 witness |-> {Session!PacketOf(m, len) : m \in models}])]

Emit(c, f, kind, len, min_bits) ==
  IF Len(c.paths) >= c.limits.max_paths THEN [c EXCEPT !.limit_exceeded = TRUE]
  ELSE Emitted(c, f, kind, len,
               Session!WitnessModels(c.session, len, Session!BoundsOf(<<Equals(len, 0)>>), min_bits))

\* A fork that ends at once: in a scope of its own, emitted if it is feasible.
Ended(assumed, f, kind, len, min_bits) ==
  Release(IF Feasible(assumed) THEN Emit(CheckOf(assumed), f, kind, len, min_bits)
          ELSE CheckOf(assumed))
Fork(c, f, delta, segment, kind, len, min_bits) ==
  Ended(Assume(c, delta), Along(f, delta, <<segment>>), kind, len, min_bits)

----------------------------------------------------------------------------
(* Steps.                                                                  *)

Call == Last(calls)
Frame == Call.frame
At(do) == calls # <<>> /\ Call.do = do

\* The activation ends, or is replaced by what it calls (the last runs first).
Return == calls' = Front(calls)
Become(next) == calls' = Front(calls) \o next

PopScopes(n) == [do |-> "pop", scopes |-> n]
InState(q, f) == [do |-> "state", state |-> q, frame |-> f]
InExtracts(q, i, f) == [do |-> "extracts", state |-> q, idx |-> i, frame |-> f]
InOps(q, i, f) == [do |-> "ops", state |-> q, idx |-> i, frame |-> f]
InDispatch(q, f) == [do |-> "dispatch", state |-> q, frame |-> f]
InArms(q, left, f) == [do |-> "arms", state |-> q, left |-> left, frame |-> f]
InTarget(t, f) == [do |-> "target", target |-> t, frame |-> f]

\* bail!: the enumeration returns an error.
Bail == calls' = <<>> /\ ctx' = [ctx EXCEPT !.failed = TRUE]

Entered == [Frame EXCEPT !.segments = Append(@, <<"state", Call.state, 0>>)]

WalkNothing ==
  /\ At("state")
  /\ ctx.limit_exceeded
  /\ Return
  /\ UNCHANGED ctx

WalkTooDeep ==
  /\ At("state")
  /\ ~ctx.limit_exceeded
  /\ Frame.depth >= ir.max_depth
  /\ ctx' = Emit(ctx, Entered, Rejects("max depth exceeded"),
                 Slacked(Frame, Frame.cursor), MinLength(Frame))
  /\ Return

\* Mutant of MayEnter: one entry too few.
MayEnterLess(q, f) == q \notin CyclicStates \/ f.loop_counts[q] + 1 < LoopUnroll

\* A cyclic state is entered LoopUnroll times at most; beyond, no path.
MayEnter(q, f) == q \notin CyclicStates \/ f.loop_counts[q] < LoopUnroll

WalkState ==
  /\ At("state")
  /\ ~ctx.limit_exceeded
  /\ Frame.depth < ir.max_depth
  /\ IF MayEnter(Call.state, Frame)
     THEN /\ ctx' = [ctx EXCEPT !.reached_states = @ \cup {Call.state}]
          /\ Become(<<InExtracts(Call.state, 1,
                        [Entered EXCEPT !.depth = @ + 1, !.loop_counts[Call.state] = @ + 1])>>)
     ELSE Return /\ UNCHANGED ctx

\* The next item of the state: a marker, a field, or the state's transition.
ItemsHere == Items(Call.state)
Item == ItemsHere[Call.idx]
AtItem(kind) == At("extracts") /\ Call.idx <= Len(ItemsHere) /\ Item.item = kind

\* Mutant of NextItem: the position is not advanced.
SameItem(f) == InExtracts(Call.state, Call.idx, f)

NextItem(f) == InExtracts(Call.state, Call.idx + 1, f)

BeginPeek ==
  /\ AtItem("begin")
  /\ Become(<<NextItem([Frame EXCEPT !.peek_saved =
       Append(@, [cursor |-> Frame.cursor, cursor_min |-> Frame.cursor_min,
                  peek_overhang |-> Frame.peek_overhang])])>>)
  /\ UNCHANGED ctx

EndPeek ==
  /\ AtItem("end")
  /\ LET saved == Last(Frame.peek_saved)
         width == Frame.cursor_min - saved.cursor_min
     IN Become(<<NextItem([Frame EXCEPT !.peek_saved = Front(@),
                                        !.cursor = saved.cursor,
                                        !.cursor_min = saved.cursor_min,
                                        !.peek_overhang = AtLeast(saved.peek_overhang, width)])>>)
  /\ UNCHANGED ctx

Segment(mark) == <<mark, Item.inst, Item.field>>

\* A context and its frame, narrowed by the constraints of the world that goes on.
World(c, f) == [ctx |-> c, frame |-> f, scopes |-> 0]
Narrow(w, delta) ==
  IF delta = <<>> THEN w
  ELSE [ctx |-> Assume(w.ctx, delta), frame |-> Along(w.frame, delta, <<>>), scopes |-> w.scopes + 1]

\* Mutant of ScopesOf: one scope is left per field, however many were opened.
AtMostOneScope(w) == AtMost(w.scopes, 1)

\* The scopes to leave when the walk of what follows has returned.
ScopesOf(w) == w.scopes

\* What is read or skipped has been: go on behind it, then leave the scopes.
GoOn(w, next) == Become(<<PopScopes(ScopesOf(w)), next>>)

\* The packet ends in the field, unless a lookahead has read it whole; or it is read.
ReadOn(w, read) ==
  LET n == Item.width.bits
      f == w.frame
  IN /\ ctx' = IF n > f.peek_overhang
               THEN Emit(w.ctx, Along(f, <<>>, <<Segment("trunc")>>), Truncates,
                         TAdd(f.cursor, Cst(n - 1)), f.cursor_min + n - 1)
               ELSE w.ctx
     /\ GoOn(w, NextItem([f EXCEPT
          !.peek_reads = IF Item.in_peek
                         THEN Append(@, Addends(f.cursor) @@ [read |-> read]) ELSE @,
          !.placed = (<<Item.inst, Item.field>> :> read) @@ @,
          !.cursor = TAdd(@, Cst(n)),
          !.cursor_min = @ + n,
          !.peek_overhang = AtLeast(@ - n, 0)]))

\* A fixed-width field first crosses the innermost region, or fits it.  That it
\* fits, and that it agrees with a lookahead, is asserted unchecked.
FixedField ==
  /\ AtItem("field")
  /\ Item.width.kind = "bits"
  /\ LET f == Frame
         read == ReadAt(f.cursor, Item.width.bits)
         crosses == Exceeds(TAdd(f.cursor, Cst(Item.width.bits)), TopOf(f))
         fits == IF f.regions = <<>> THEN World(ctx, f)
                 ELSE Narrow(World(Fork(ctx, f, <<crosses>>, Segment("roob"),
                                        Rejects("out of region bounds"),
                                        Slacked(f, f.cursor), MinLength(f)), f),
                             <<Not(crosses)>>)
     IN IF AliasUnknown(f, read) THEN Bail
        ELSE ReadOn(Narrow(fits, AliasConstraints(f, read)), read)

\* What an expression is known not to exceed, cut to what is laid out.
BoundOf(e) == AtMost(ExprRange(e).hi, SanityBits)
Translates(e, f) == Resolves(e, f) /\ ~ContainsRemaining(e)

\* The packet ends in the run, past what a lookahead has read; or it is skipped.
\* A run places nothing that can be referred to.
SkipOn(w, len, bound) ==
  LET f == w.frame
      least == AtMost(Interval(len).lo, bound)
      floor == f.peek_overhang + 1
  IN /\ ctx' = IF floor <= bound
               THEN Fork(w.ctx, f, <<InRange(len, floor, bound)>>, Segment("trunc"), Truncates,
                         TSub(TAdd(f.cursor, len), Cst(1)),
                         f.cursor_min + AtLeast(least, floor) - 1)
               ELSE w.ctx
     /\ GoOn(w, NextItem([f EXCEPT !.cursor = TAdd(@, len), !.cursor_min = @ + least,
                                    !.peek_overhang = AtLeast(@ - least, 0)]))

\* The length of a run first wraps, passes its bound or crosses the region.
RunField ==
  /\ AtItem("field")
  /\ Item.width.kind = "bit_len"
  /\ IF ~Translates(Item.width.expr, Frame) THEN Bail
     ELSE
     LET f == Frame
         len == TermOf(Item.width.expr, f)
         bound == BoundOf(Item.width.expr)
         inside == f.regions # <<>>
         too_long == InRange(len, bound + 1, WordSize - 1)
         crosses == Exceeds(TAdd(f.cursor, len), TopOf(f))
         forked == Fork(ctx, f,
                        <<IF inside THEN OneOf(<<too_long, crosses>>) ELSE too_long>>,
                        Segment(IF inside THEN "roob" ELSE "oob"),
                        Rejects(IF inside THEN "out of region bounds" ELSE "out of bounds"),
                        Slacked(f, f.cursor), MinLength(f))
     IN SkipOn(Narrow(World(forked, f),
                      <<InRange(len, 0, bound)>> \o (IF inside THEN <<Not(crosses)>> ELSE <<>>)),
               len, bound)

Leave ==
  /\ At("pop")
  /\ ctx' = [ctx EXCEPT !.session = Session!Pop(@, Call.scopes)]
  /\ Return

\* The assignments of a state replace the terms of its metadata, in order.
MaskedTerm(t, bits) == IF bits >= WordBits THEN t ELSE Apply("and", t, Cst(2^bits - 1))
Assigned(f, assigns) ==
  LET assign(store, a) ==
        [store EXCEPT ![a.metadata] =
           MaskedTerm(TermOf(a.value, [f EXCEPT !.meta = store]), ir.metadata[a.metadata].bits)]
  IN [f EXCEPT !.meta = FoldLeft(assign, @, assigns)]

WalkTransition ==
  /\ At("extracts")
  /\ Call.idx > Len(ItemsHere)
  /\ LET assigns == StateAt(Call.state).assigns
     IN IF \E i \in DOMAIN assigns : ~Resolves(assigns[i].value, Frame) THEN Bail
        ELSE Become(<<InOps(Call.state, 1, Assigned(Frame, assigns))>>) /\ UNCHANGED ctx

OpsHere == StateAt(Call.state).region_ops
OpHere == OpsHere[Call.idx]
AtOp(kind) == At("ops") /\ Call.idx <= Len(OpsHere) /\ OpHere.kind = kind
NextOp(f) == InOps(Call.state, Call.idx + 1, f)

\* The op has been done: go on with the rest, then leave its scope.
OpOn(w, f) == ctx' = w.ctx /\ GoOn(w, NextOp(f))

\* A push fails where its length passes its bound or the region around it.
WalkPush ==
  /\ AtOp("push")
  /\ IF ~Translates(OpHere.len, Frame) THEN Bail
     ELSE
     LET f == Frame
         len == TermOf(OpHere.len, f)
         end == TAdd(f.cursor, len)
         too_long == InRange(len, BoundOf(OpHere.len) + 1, WordSize - 1)
         fail == OneOf(IF f.regions = <<>> THEN <<too_long>>
                       ELSE <<too_long, Exceeds(end, TopOf(f))>>)
         forked == Fork(ctx, f, <<fail>>, <<"rpush", Call.state, Call.idx>>,
                        Rejects("region out of bounds"), Slacked(f, f.cursor), MinLength(f))
         pushed(w) == OpOn(w, [w.frame EXCEPT !.regions = Append(@, end)])
     IN pushed(Narrow(World(forked, f), <<Not(fail)>>))

\* A pop fails short of the end of the region; the witness reaches that end, so
\* that the shortfall is structural and not truncation.
WalkPop ==
  /\ AtOp("pop")
  /\ IF Frame.regions = <<>> THEN Bail
     ELSE
     LET end == TopOf(Frame)
         f == [Frame EXCEPT !.regions = Front(@)]
         forked == Fork(ctx, f, <<Exceeds(end, f.cursor)>>, <<"rtrail", Call.state, Call.idx>>,
                        Rejects("region not exhausted"), Slacked(f, end), MinLength(f))
         popped(w) == OpOn(w, w.frame)
     IN popped(Narrow(World(forked, f), <<Equals(TSub(end, f.cursor), 0)>>))

EndOps ==
  /\ At("ops")
  /\ Call.idx > Len(OpsHere)
  /\ Become(<<InDispatch(Call.state, Frame)>>)
  /\ UNCHANGED ctx

TransitionHere == StateAt(Call.state).transition

DispatchDirect ==
  /\ At("dispatch")
  /\ TransitionHere.kind = "direct"
  /\ Become(<<InTarget(TransitionHere.next, Frame)>>)
  /\ UNCHANGED ctx

DispatchSelect ==
  /\ At("dispatch")
  /\ TransitionHere.kind = "select"
  /\ IF \E j \in DOMAIN TransitionHere.keys : ~Resolves(TransitionHere.keys[j], Frame) THEN Bail
     ELSE Become(<<InArms(Call.state, Leaders(TransitionHere.arms), Frame)>>) /\ UNCHANGED ctx

\* Mutant of GroupDelta: the arms before a group are not excluded.
GroupDeltaAlone(conds, members, first) ==
  <<OneOf([i \in 1..Cardinality(members) |-> conds[SetToSortSeq(members, <)[i]]])>>

\* One of the group's arms matches and none before its first that is not in it.
GroupDelta(conds, members, first) ==
  LET sorted == SetToSortSeq(members, <)
      earlier == SetToSortSeq(1..(first - 1) \ members, <)
  IN <<OneOf([i \in DOMAIN sorted |-> conds[sorted[i]]])>>
       \o [i \in DOMAIN earlier |-> Not(conds[earlier[i]])]

ArmsOf(members) == {<<Call.state, i>> : i \in members}

\* The next group of arms, in a scope that its target is walked in.
TryArms ==
  /\ At("arms")
  /\ Call.left # {}
  /\ LET first == Min(Call.left)
         members == GroupOf(TransitionHere.arms, first)
         delta == GroupDelta(ArmConstraints(TransitionHere, Frame), members, first)
         assumed == [Assume(ctx, delta) EXCEPT !.attempted_arms = @ \cup ArmsOf(members)]
         rest == InArms(Call.state, Call.left \ {first}, Frame)
     IN \/ /\ Feasible(assumed)
           /\ ctx' = [CheckOf(assumed) EXCEPT !.feasible_arms = @ \cup ArmsOf(members)]
           /\ Become(<<rest, PopScopes(1),
                       InTarget(TransitionHere.arms[first].next,
                                Along(Frame, delta, <<<<"arm", first, 0>>>>))>>)
        \/ /\ ~Feasible(assumed)
           /\ ctx' = Release(CheckOf(assumed))
           /\ Become(<<rest>>)

\* The default: no arm matches.  (Validation asks for a target.)
TryDefault ==
  /\ At("arms")
  /\ Call.left = {}
  /\ LET conds == ArmConstraints(TransitionHere, Frame)
         delta == [i \in DOMAIN conds |-> Not(conds[i])]
         assumed == Assume(ctx, delta)
         child == Along(Frame, delta, <<<<"default", 0, 0>>>>)
         target == TransitionHere.default_target
     IN \/ /\ Feasible(assumed)
           /\ IF target # NoTarget
              THEN ctx' = CheckOf(assumed) /\ Become(<<PopScopes(1), InTarget(target, child)>>)
              ELSE /\ ctx' = Release(Emit(CheckOf(assumed), child,
                                          Rejects("no matching select arm"),
                                          Slacked(child, child.cursor), MinLength(child)))
                   /\ Return
        \/ /\ ~Feasible(assumed)
           /\ ctx' = Release(CheckOf(assumed))
           /\ Return

WalkTarget ==
  /\ At("target")
  /\ IF Call.target.kind = "state"
     THEN Become(<<InState(Call.target.name, Frame)>>) /\ UNCHANGED ctx
     ELSE /\ ctx' = Emit(ctx, Frame,
                         IF Call.target.kind = "accept" THEN Accepts ELSE Rejects(Call.target.reason),
                         Slacked(Frame, Frame.cursor), MinLength(Frame))
          /\ Return

EngineStep ==
  /\ \/ WalkNothing \/ WalkTooDeep \/ WalkState
     \/ BeginPeek \/ EndPeek \/ FixedField \/ RunField \/ Leave
     \/ WalkTransition \/ WalkPush \/ WalkPop \/ EndOps
     \/ DispatchDirect \/ DispatchSelect \/ TryArms \/ TryDefault \/ WalkTarget
  /\ UNCHANGED ir

EngineInit ==
  /\ \E limits \in Limits :
       ctx = [session |-> Session!NewSession, paths |-> <<>>, reached_states |-> {},
              attempted_arms |-> {}, feasible_arms |-> {}, checks |-> 0, limits |-> limits,
              limit_exceeded |-> FALSE, failed |-> FALSE]
  /\ calls = <<InState(ir.start_state, RootFrame)>>

\* The enumeration has returned its paths, and not an error.
Enumerated == calls = <<>> /\ ~ctx.failed /\ ~ctx.limit_exceeded
=============================================================================

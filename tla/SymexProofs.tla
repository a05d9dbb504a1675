---------------------------- MODULE SymexProofs ----------------------------
(***************************************************************************)
(* Proofs about the symbolic enumeration: the solver's stack is the path    *)
(* condition of the frame that runs, a cached model that is reused holds,   *)
(* the counters stay within the ceilings and the walk descends.  For every  *)
(* set of programs that pass the structural checks, every ceiling and every *)
(* meaning of terms: Value, Holds, Reads, Addends and Interval are left     *)
(* open, so nothing depends on how the solver decides.                      *)
(***************************************************************************)
EXTENDS Symex, InterpProofs, FiniteSetTheorems

----------------------------------------------------------------------------
(* Sequences of anything.                                                  *)

\* A sequence over some set.
IsSequence(s) == s \in Seq({s[i] : i \in DOMAIN s})

\* A sequence over a set is one over the set of its elements.
LEMMA SequenceOver ==
  ASSUME NEW X, NEW s \in Seq(X)
  PROVE  IsSequence(s)
<1>1. s \in [1..Len(s) -> {s[i] : i \in DOMAIN s}] /\ Len(s) \in Nat
  OBVIOUS
<1> QED BY <1>1 DEF IsSequence

\* What is known of a sequence and of the one without its last element.
LEMMA FrontOf ==
  ASSUME NEW s, IsSequence(s), s # <<>>
  PROVE  /\ Len(s) \in Nat \ {0} /\ DOMAIN s = 1..Len(s)
         /\ IsSequence(Front(s)) /\ Len(Front(s)) = Len(s) - 1
         /\ \A i \in 1..(Len(s) - 1) : Front(s)[i] = s[i]
         /\ Last(s) = s[Len(s)]
<1> DEFINE X == {s[i] : i \in DOMAIN s}
           k == Len(s) - 1
<1>1. s \in Seq(X)
  BY DEF IsSequence
<1> HIDE DEF X
<1>2. /\ Len(s) \in Nat \ {0} /\ DOMAIN s = 1..Len(s) /\ k \in Nat /\ 1 \in Int /\ k \in Int
      /\ \A i \in 1..k : s[i] \in X
  BY <1>1
<1> HIDE DEF k
<1>3. /\ SubSeq(s, 1, k) \in Seq(X)
      /\ Len(SubSeq(s, 1, k)) = IF 1 <= k THEN k - 1 + 1 ELSE 0
      /\ \A i \in 1..(k - 1 + 1) : SubSeq(s, 1, k)[i] = s[1 + i - 1]
  BY <1>2, SubSeqProperties
<1>4. Len(SubSeq(s, 1, k)) = k /\ \A i \in 1..k : SubSeq(s, 1, k)[i] = s[i]
  BY <1>2, <1>3
<1>5. IsSequence(SubSeq(s, 1, k))
  BY <1>3, SequenceOver
<1> QED BY <1>2, <1>4, <1>5 DEF Front, Last, k

\* What is known of a sequence and of the one with an element more.
LEMMA AppendTo ==
  ASSUME NEW s, IsSequence(s), NEW x
  PROVE  /\ Len(s) \in Nat /\ DOMAIN s = 1..Len(s)
         /\ IsSequence(Append(s, x)) /\ Len(Append(s, x)) = Len(s) + 1
         /\ \A i \in 1..Len(s) : Append(s, x)[i] = s[i]
         /\ Append(s, x)[Len(s) + 1] = x
         /\ Append(s, x) # <<>>
<1> DEFINE X == {s[i] : i \in DOMAIN s}
           Y == X \cup {x}
<1>1. s \in Seq(X)
  BY DEF IsSequence
<1>2. s \in Seq(Y) /\ x \in Y
  <2> HIDE DEF X
  <2> QED BY <1>1
<1> HIDE DEF Y
<1>3. /\ Append(s, x) \in Seq(Y)
      /\ Len(s) \in Nat /\ DOMAIN s = 1..Len(s)
      /\ Len(Append(s, x)) = Len(s) + 1
      /\ \A i \in 1..Len(s) : Append(s, x)[i] = s[i]
      /\ Append(s, x)[Len(s) + 1] = x
  BY <1>2, AppendProperties
<1>4. Append(s, x) # <<>>
  BY <1>3
<1>5. IsSequence(Append(s, x))
  BY <1>3, SequenceOver
<1> QED BY <1>3, <1>4, <1>5

----------------------------------------------------------------------------
(* The solver session.                                                     *)

\* A session, and that the model it would reuse satisfies what is asserted.
SessionOK(s) ==
  /\ DOMAIN s = {"asserted", "bounded", "saved", "epoch", "model_cache"}
  /\ IsSequence(s.saved)
  /\ s.epoch \in Nat
  /\ s.model_cache.epoch \in 0..s.epoch
  /\ \A m \in Session!CurrentModels(s) : Session!IsModel(m, s.asserted, s.bounded)

\* The same scopes, with the same assertions.
SameStack(s, t) == t.asserted = s.asserted /\ t.bounded = s.bounded /\ t.saved = s.saved

\* What was asserted with k - 1 scopes open.
AssertedAt(s, k) == IF k = Len(s.saved) + 1 THEN s.asserted ELSE s.saved[k].asserted

\* Session t is s with n scopes opened in it.
Extends(s, t, n) ==
  /\ Len(t.saved) = Len(s.saved) + n
  /\ \A k \in 1..(Len(s.saved) + 1) : AssertedAt(t, k) = AssertedAt(s, k)

\* The same scopes with the same assertions are the session with none opened.
LEMMA SameStackExtends ==
  ASSUME NEW s, SessionOK(s), NEW t, SameStack(s, t)
  PROVE  Extends(s, t, 0)
<1>1. Len(s.saved) \in Nat
  BY FrontOf, AppendTo DEF SessionOK
<1> QED BY <1>1 DEF SameStack, Extends, AssertedAt

\* A scope opened, with assertions in it.
LEMMA OpenScope ==
  ASSUME NEW s, SessionOK(s), NEW delta
  PROVE  LET t == Session!AssertIn(Session!Push(s), delta)
         IN  /\ SessionOK(t)
             /\ t.asserted = s.asserted \o delta
             /\ t.saved = Append(s.saved, [asserted |-> s.asserted, bounded |-> s.bounded])
             /\ Extends(s, t, 1)
<1> DEFINE top == [asserted |-> s.asserted, bounded |-> s.bounded]
           p == Session!Push(s)
           t == Session!AssertIn(p, delta)
<1>1. /\ DOMAIN p = {"asserted", "bounded", "saved", "epoch", "model_cache"}
      /\ p.asserted = s.asserted /\ p.bounded = s.bounded /\ p.saved = Append(s.saved, top)
      /\ p.epoch = s.epoch + 1 /\ p.model_cache = s.model_cache
  BY DEF SessionOK, Session!Push
<1> HIDE DEF p
<1>2. /\ DOMAIN t = {"asserted", "bounded", "saved", "epoch", "model_cache"}
      /\ t.asserted = s.asserted \o delta /\ t.saved = Append(s.saved, top)
      /\ t.epoch = s.epoch + 1 + 1 /\ t.model_cache = s.model_cache
  BY <1>1 DEF Session!AssertIn
<1> HIDE DEF t
<1>3. s.epoch \in Nat /\ s.model_cache.epoch \in 0..s.epoch /\ IsSequence(s.saved)
  BY DEF SessionOK
<1>4. Session!CurrentModels(t) = {}
  BY <1>2, <1>3 DEF Session!CurrentModels
<1>5. /\ Len(s.saved) \in Nat /\ IsSequence(t.saved) /\ Len(t.saved) = Len(s.saved) + 1
      /\ \A i \in 1..Len(s.saved) : t.saved[i] = s.saved[i]
      /\ t.saved[Len(s.saved) + 1] = top
  <2> HIDE DEF top
  <2> QED BY <1>2, <1>3, AppendTo
<1>6. SessionOK(t)
  BY <1>2, <1>3, <1>4, <1>5 DEF SessionOK
<1>7. Extends(s, t, 1)
  <2>1. ASSUME NEW k \in 1..(Len(s.saved) + 1) PROVE AssertedAt(t, k) = AssertedAt(s, k)
    <3>1. k # Len(t.saved) + 1 /\ AssertedAt(t, k) = t.saved[k].asserted
      BY <1>5 DEF AssertedAt
    <3>2. CASE k = Len(s.saved) + 1
      BY <1>5, <3>1, <3>2 DEF AssertedAt
    <3>3. CASE k # Len(s.saved) + 1
      BY <1>5, <3>1, <3>3 DEF AssertedAt
    <3> QED BY <3>2, <3>3
  <2> QED BY <1>5, <2>1 DEF Extends
<1> QED BY <1>2, <1>6, <1>7 DEF t, p

\* Scopes left.
LEMMA LeaveScopes ==
  ASSUME NEW s, SessionOK(s), NEW n \in Nat, n <= Len(s.saved)
  PROVE  LET t == Session!Pop(s, n)
         IN  /\ SessionOK(t)
             /\ Extends(t, s, n)
             /\ n > 0 => /\ t.asserted = s.saved[Len(s.saved) - n + 1].asserted
                         /\ t.bounded = s.saved[Len(s.saved) - n + 1].bounded
                         /\ t.saved = SubSeq(s.saved, 1, Len(s.saved) - n + 1 - 1)
<1> DEFINE t == Session!Pop(s, n)
           opened == Len(s.saved) - n + 1
<1>1. IsSequence(s.saved) /\ Len(s.saved) \in Nat /\ DOMAIN s.saved = 1..Len(s.saved)
  BY AppendTo DEF SessionOK
<1>2. CASE n = 0
  <2>1. t = s
    BY <1>2 DEF Session!Pop
  <2>2. SameStack(s, s)
    BY DEF SameStack
  <2>3. Extends(s, s, n)
    BY <1>2, <2>2, SameStackExtends
  <2> QED BY <1>2, <2>1, <2>3
<1>3. CASE n > 0
  <2>1. /\ DOMAIN t = {"asserted", "bounded", "saved", "epoch", "model_cache"}
        /\ t.asserted = s.saved[opened].asserted
        /\ t.bounded = s.saved[opened].bounded
        /\ t.saved = SubSeq(s.saved, 1, opened - 1)
        /\ t.epoch = s.epoch + n /\ t.model_cache = s.model_cache
    BY <1>3 DEF SessionOK, Session!Pop
  <2> HIDE DEF t
  <2>2. opened \in 1..Len(s.saved) /\ opened - 1 \in 0..Len(s.saved) /\ opened - 1 \in Nat
    BY <1>1, <1>3
  <2>3. /\ IsSequence(t.saved) /\ Len(t.saved) = opened - 1
        /\ \A i \in 1..(opened - 1) : t.saved[i] = s.saved[i]
    <3> DEFINE X == {s.saved[i] : i \in DOMAIN s.saved}
               k == opened - 1
    <3>1. s.saved \in Seq(X) /\ k \in Int /\ 1 \in Int /\ k \in Nat /\ k <= Len(s.saved)
      BY <1>1, <2>2 DEF IsSequence
    <3> HIDE DEF X, k
    <3>2. \A i \in 1..k : s.saved[i] \in X
      BY <1>1, <3>1
    <3>3. /\ SubSeq(s.saved, 1, k) \in Seq(X)
          /\ Len(SubSeq(s.saved, 1, k)) = IF 1 <= k THEN k - 1 + 1 ELSE 0
          /\ \A i \in 1..(k - 1 + 1) : SubSeq(s.saved, 1, k)[i] = s.saved[1 + i - 1]
      BY <3>1, <3>2, SubSeqProperties
    <3>4. Len(SubSeq(s.saved, 1, k)) = k /\ \A i \in 1..k : SubSeq(s.saved, 1, k)[i] = s.saved[i]
      BY <3>1, <3>3
    <3>5. IsSequence(SubSeq(s.saved, 1, k))
      BY <3>3, SequenceOver
    <3> QED BY <2>1, <3>4, <3>5 DEF k
  <2> HIDE DEF opened
  <2>4. s.epoch \in Nat /\ s.model_cache.epoch \in 0..s.epoch
    BY DEF SessionOK
  <2>5. Session!CurrentModels(t) = {}
    BY <1>3, <2>1, <2>4 DEF Session!CurrentModels
  <2>6. SessionOK(t)
    BY <2>1, <2>3, <2>4, <2>5 DEF SessionOK
  <2>7. Extends(t, s, n)
    <3>1. Len(s.saved) = Len(t.saved) + n
      BY <1>1, <2>3 DEF opened
    <3>2. ASSUME NEW k \in 1..(Len(t.saved) + 1) PROVE AssertedAt(s, k) = AssertedAt(t, k)
      <4>1. k \in 1..opened /\ AssertedAt(s, k) = s.saved[k].asserted
        <5>1. k \in 1..opened
          <6>1. Len(t.saved) + 1 = opened
            BY <2>2, <2>3
          <6> QED BY <6>1
        <5>2. k # Len(s.saved) + 1
          BY <1>1, <1>3, <3>1
        <5> QED BY <5>1, <5>2 DEF AssertedAt
      <4>2. CASE k = opened
        <5>1. k = Len(t.saved) + 1
          BY <2>2, <2>3, <4>2
        <5>2. AssertedAt(t, k) = t.asserted
          BY <5>1 DEF AssertedAt
        <5> QED BY <2>1, <4>1, <4>2, <5>2
      <4>3. CASE k # opened
        <5>1. k \in 1..(opened - 1)
          BY <2>2, <4>1, <4>3
        <5>2. t.saved[k] = s.saved[k]
          BY <2>3, <5>1
        <5>3. k # Len(t.saved) + 1
          BY <2>2, <2>3, <4>3
        <5>4. AssertedAt(t, k) = t.saved[k].asserted
          BY <5>3 DEF AssertedAt
        <5> QED BY <4>1, <5>2, <5>4
      <4> QED BY <4>2, <4>3
    <3> QED BY <3>1, <3>2 DEF Extends
  <2> QED BY <2>1, <2>6, <2>7 DEF t, opened
<1> QED BY <1>2, <1>3

\* The scope just opened, left again: the session stands where it stood.
LEMMA CloseScope ==
  ASSUME NEW s, SessionOK(s), NEW t, SessionOK(t),
         t.saved = Append(s.saved, [asserted |-> s.asserted, bounded |-> s.bounded])
  PROVE  SessionOK(Session!Pop(t, 1)) /\ SameStack(s, Session!Pop(t, 1))
<1> DEFINE top == [asserted |-> s.asserted, bounded |-> s.bounded]
           u == Session!Pop(t, 1)
           n == Len(s.saved)
<1>1. IsSequence(s.saved)
  BY DEF SessionOK
<1>2. t.saved = Append(s.saved, top)
  OBVIOUS
<1>3. top.asserted = s.asserted /\ top.bounded = s.bounded
  OBVIOUS
<1> HIDE DEF top
<1>4. n \in Nat /\ Len(t.saved) = n + 1 /\ t.saved[n + 1] = top
  BY <1>1, <1>2, AppendTo
<1>5. /\ SessionOK(u)
      /\ u.asserted = t.saved[n + 1].asserted /\ u.bounded = t.saved[n + 1].bounded
      /\ u.saved = SubSeq(t.saved, 1, n)
  <2>1. 1 <= Len(t.saved) /\ 1 > 0 /\ 1 \in Nat /\ Len(t.saved) - 1 + 1 = n + 1 /\ n + 1 - 1 = n
    BY <1>4
  <2>2. /\ SessionOK(u)
        /\ 1 > 0 => /\ u.asserted = t.saved[Len(t.saved) - 1 + 1].asserted
                    /\ u.bounded = t.saved[Len(t.saved) - 1 + 1].bounded
                    /\ u.saved = SubSeq(t.saved, 1, Len(t.saved) - 1 + 1 - 1)
    BY <2>1, LeaveScopes, Zenon
  <2> QED BY <2>1, <2>2
<1>6. SubSeq(t.saved, 1, n) = s.saved
  <2> DEFINE X == {s.saved[i] : i \in DOMAIN s.saved}
             Y == X \cup {top}
  <2>1. s.saved \in Seq(X)
    BY <1>1 DEF IsSequence
  <2>2. s.saved \in Seq(Y) /\ top \in Y
    <3> HIDE DEF X
    <3> QED BY <2>1
  <2> HIDE DEF Y
  <2> QED BY <1>2, <1>4, <2>2, AppendProperties
<1> QED BY <1>3, <1>4, <1>5, <1>6 DEF SameStack

\* A model kept is one of the present stack.
LEMMA RememberOK ==
  ASSUME NEW s, SessionOK(s), NEW models,
         \A m \in models : Session!IsModel(m, s.asserted, s.bounded)
  PROVE  SessionOK(Session!Remember(s, models)) /\ SameStack(s, Session!Remember(s, models))
<1> DEFINE t == Session!Remember(s, models)
<1>1. CASE models = {}
  BY <1>1 DEF Session!Remember, SameStack
<1>2. CASE models # {}
  <2>1. /\ DOMAIN t = {"asserted", "bounded", "saved", "epoch", "model_cache"}
        /\ t.asserted = s.asserted /\ t.bounded = s.bounded /\ t.saved = s.saved
        /\ t.epoch = s.epoch /\ t.model_cache = [epoch |-> s.epoch, models |-> models]
    BY <1>2 DEF Session!Remember, SessionOK
  <2> HIDE DEF t
  <2>2. Session!CurrentModels(t) = models /\ t.model_cache.epoch = s.epoch
    BY <2>1 DEF Session!CurrentModels
  <2>3. SessionOK(t)
    BY <2>1, <2>2 DEF SessionOK
  <2> QED BY <2>1, <2>3 DEF SameStack, t
<1> QED BY <1>1, <1>2

\* What the solver returns satisfies what it was asked.
LEMMA SolutionsAreModels ==
  ASSUME NEW cs, NEW bounded
  PROVE  \A m \in Session!Solutions(cs, bounded) : Session!IsModel(m, cs, bounded)
BY DEF Session!Solutions

\* A check keeps the scopes, and a model of what is asserted.
LEMMA CheckedOK ==
  ASSUME NEW s, SessionOK(s)
  PROVE  SessionOK(Session!Checked(s)) /\ SameStack(s, Session!Checked(s))
<1>1. \A m \in Session!Models(s) : Session!IsModel(m, s.asserted, s.bounded)
  BY SolutionsAreModels DEF Session!Models
<1> QED BY <1>1, RememberOK DEF Session!Checked

\* A witness is taken from a model of the stack, be it cached or searched for
\* with the bounds of the length.
LEMMA WitnessesAreModels ==
  ASSUME NEW s, SessionOK(s), NEW len, NEW len_bounds, NEW min_bits
  PROVE  \A m \in Session!WitnessModels(s, len, len_bounds, min_bits) :
           Session!IsModel(m, s.asserted, s.bounded)
<1> DEFINE cached == Session!CurrentModels(s)
           found == Session!Solutions(s.asserted, s.bounded \cup len_bounds)
<1>1. \A m \in cached : Session!IsModel(m, s.asserted, s.bounded)
  BY DEF SessionOK
<1>2. \A m \in found : Session!IsModel(m, s.asserted, s.bounded)
  <2>1. \A m \in found : Session!IsModel(m, s.asserted, s.bounded \cup len_bounds)
    BY SolutionsAreModels
  <2> QED BY <2>1 DEF Session!IsModel
<1>3. Session!WitnessModels(s, len, len_bounds, min_bits) \subseteq cached \cup found
  <2>1. \A rungs : Session!Chosen(cached, found, len, rungs) \subseteq cached \cup found
    <3> HIDE DEF cached, found
    <3> QED BY DEF Session!Chosen
  <2> HIDE DEF cached, found
  <2> QED BY <2>1 DEF Session!WitnessModels, cached, found
<1> QED BY <1>1, <1>2, <1>3

\* Scopes opened in a session with scopes opened.
LEMMA ExtendsMore ==
  ASSUME NEW s, SessionOK(s), NEW t, NEW u, NEW n \in Nat, NEW k \in Nat,
         Extends(s, t, n), Extends(t, u, k)
  PROVE  Extends(s, u, n + k)
<1>1. Len(s.saved) \in Nat
  BY AppendTo DEF SessionOK
<1>2. Len(t.saved) = Len(s.saved) + n /\ Len(u.saved) = Len(s.saved) + (n + k)
  <2>1. Len(t.saved) = Len(s.saved) + n /\ Len(u.saved) = Len(t.saved) + k
    BY Zenon DEF Extends
  <2>2. Len(t.saved) \in Nat
    BY <1>1, <2>1
  <2>3. Len(u.saved) = Len(s.saved) + n + k
    BY <2>1
  <2>4. \A a \in Nat : a + n + k = a + (n + k)
    OBVIOUS
  <2> QED BY <1>1, <2>1, <2>3, <2>4
<1>3. ASSUME NEW i \in 1..(Len(s.saved) + 1) PROVE AssertedAt(u, i) = AssertedAt(s, i)
  <2>1. i \in 1..(Len(t.saved) + 1)
    BY <1>1, <1>2
  <2> QED BY <2>1, <1>3, Zenon DEF Extends
<1> QED BY <1>2, <1>3 DEF Extends

----------------------------------------------------------------------------
(* The context.                                                            *)

\* The fields of a context.
ContextFields ==
  {"session", "paths", "reached_states", "attempted_arms", "feasible_arms", "checks", "limits",
   "limit_exceeded", "failed"}

CtxOK(c) ==
  /\ DOMAIN c = ContextFields
  /\ SessionOK(c.session)
  /\ c.limits.max_paths \in Nat /\ c.limits.max_solver_checks \in Nat
  /\ c.checks \in 0..c.limits.max_solver_checks
  /\ IsSequence(c.paths) /\ Len(c.paths) <= c.limits.max_paths
  /\ c.reached_states \subseteq DOMAIN ir.states
  /\ c.feasible_arms \subseteq c.attempted_arms
  /\ c.limit_exceeded \in BOOLEAN /\ c.failed \in BOOLEAN

\* Context d is c, but for its counters, its paths and the model kept.
Kept(c, d) ==
  /\ CtxOK(d)
  /\ SameStack(c.session, d.session)
  /\ d.limits = c.limits /\ d.failed = c.failed
  /\ d.attempted_arms = c.attempted_arms /\ d.feasible_arms = c.feasible_arms

\* A branch assumed opens one scope and touches no counter.
LEMMA AssumeOK ==
  ASSUME NEW c, CtxOK(c), NEW delta
  PROVE  /\ CtxOK(Assume(c, delta))
         /\ Assume(c, delta).session = Session!AssertIn(Session!Push(c.session), delta)
         /\ Assume(c, delta).limits = c.limits /\ Assume(c, delta).failed = c.failed
         /\ Assume(c, delta).attempted_arms = c.attempted_arms
         /\ Assume(c, delta).feasible_arms = c.feasible_arms
<1> DEFINE d == Assume(c, delta)
           t == Session!AssertIn(Session!Push(c.session), delta)
<1>1. /\ DOMAIN d = ContextFields /\ d.session = t /\ d.limits = c.limits /\ d.failed = c.failed
      /\ d.attempted_arms = c.attempted_arms /\ d.feasible_arms = c.feasible_arms
      /\ d.checks = c.checks /\ d.paths = c.paths /\ d.reached_states = c.reached_states
      /\ d.limit_exceeded = c.limit_exceeded
  BY DEF CtxOK, ContextFields, Assume
<1>2. SessionOK(t)
  BY OpenScope, Zenon DEF CtxOK
<1> HIDE DEF d, t
<1>3. CtxOK(d)
  BY <1>1, <1>2 DEF CtxOK
<1> QED BY <1>1, <1>3 DEF d, t

\* A check leaves the stack as it is.
LEMMA CheckOfOK ==
  ASSUME NEW c, CtxOK(c)
  PROVE  Kept(c, CheckOf(c))
<1> DEFINE d == CheckOf(c)
<1>1. CASE MayCheck(c)
  <2>1. /\ DOMAIN d = ContextFields /\ d.session = Session!Checked(c.session)
        /\ d.limits = c.limits /\ d.failed = c.failed
        /\ d.attempted_arms = c.attempted_arms /\ d.feasible_arms = c.feasible_arms
        /\ d.checks = c.checks + 1 /\ d.paths = c.paths /\ d.reached_states = c.reached_states
        /\ d.limit_exceeded = c.limit_exceeded
    BY <1>1 DEF CtxOK, ContextFields, CheckOf
  <2> HIDE DEF d
  <2>2. SessionOK(d.session) /\ SameStack(c.session, d.session)
    BY <2>1, CheckedOK DEF CtxOK
  <2>3. d.checks \in 0..c.limits.max_solver_checks
    BY <1>1, <2>1 DEF CtxOK, MayCheck
  <2> QED BY <2>1, <2>2, <2>3 DEF CtxOK, Kept, d
<1>2. CASE ~MayCheck(c)
  <2>1. /\ DOMAIN d = ContextFields /\ d.session = c.session
        /\ d.limits = c.limits /\ d.failed = c.failed
        /\ d.attempted_arms = c.attempted_arms /\ d.feasible_arms = c.feasible_arms
        /\ d.checks = c.checks /\ d.paths = c.paths /\ d.reached_states = c.reached_states
        /\ d.limit_exceeded = TRUE
    BY <1>2 DEF CtxOK, ContextFields, CheckOf
  <2> HIDE DEF d
  <2> QED BY <2>1 DEF CtxOK, Kept, SameStack, d
<1> QED BY <1>1, <1>2

\* So does an emit, at the ceiling or below it.
LEMMA EmitOK ==
  ASSUME NEW c, CtxOK(c), NEW f, NEW kind, NEW len, NEW min_bits
  PROVE  Kept(c, Emit(c, f, kind, len, min_bits))
<1> DEFINE d == Emit(c, f, kind, len, min_bits)
<1>1. CASE Len(c.paths) >= c.limits.max_paths
  <2>1. /\ DOMAIN d = ContextFields /\ d.session = c.session
        /\ d.limits = c.limits /\ d.failed = c.failed
        /\ d.attempted_arms = c.attempted_arms /\ d.feasible_arms = c.feasible_arms
        /\ d.checks = c.checks /\ d.paths = c.paths /\ d.reached_states = c.reached_states
        /\ d.limit_exceeded = TRUE
    BY <1>1 DEF CtxOK, ContextFields, Emit
  <2> HIDE DEF d
  <2> QED BY <2>1 DEF CtxOK, Kept, SameStack, d
<1>2. CASE ~(Len(c.paths) >= c.limits.max_paths)
  <2> DEFINE models == Session!WitnessModels(c.session, len, Session!BoundsOf(<<Equals(len, 0)>>),
                                             min_bits)
             path == [id |-> f.segments, kind |-> kind,
                      witness |-> {Session!PacketOf(m, len) : m \in models}]
  <2>1. d = Emitted(c, f, kind, len, models)
    BY <1>2 DEF Emit
  <2>2. \A m \in models : Session!IsModel(m, c.session.asserted, c.session.bounded)
    BY WitnessesAreModels DEF CtxOK
  <2>3. Emitted(c, f, kind, len, models)
          = [c EXCEPT !.session = Session!Remember(@, models), !.paths = Append(@, path)]
    BY DEF Emitted
  <2> HIDE DEF d, models, path
  <2>4. /\ DOMAIN d = ContextFields /\ d.session = Session!Remember(c.session, models)
        /\ d.limits = c.limits /\ d.failed = c.failed
        /\ d.attempted_arms = c.attempted_arms /\ d.feasible_arms = c.feasible_arms
        /\ d.checks = c.checks /\ d.paths = Append(c.paths, path)
        /\ d.reached_states = c.reached_states /\ d.limit_exceeded = c.limit_exceeded
    BY <2>1, <2>3 DEF CtxOK, ContextFields
  <2>5. SessionOK(d.session) /\ SameStack(c.session, d.session)
    BY <2>2, <2>4, RememberOK DEF CtxOK
  <2>6. IsSequence(d.paths) /\ Len(d.paths) <= c.limits.max_paths
    <3>1. /\ Len(c.paths) \in Nat /\ IsSequence(d.paths) /\ Len(d.paths) = Len(c.paths) + 1
      BY <2>4, AppendTo DEF CtxOK
    <3> QED BY <1>2, <3>1 DEF CtxOK
  <2> QED BY <2>4, <2>5, <2>6 DEF CtxOK, Kept, d
<1> QED BY <1>1, <1>2

\* The scope that was opened on a context is left, whatever was done in it but
\* to the stack.
LEMMA ReleaseStack ==
  ASSUME NEW c, CtxOK(c), NEW delta, NEW d, CtxOK(d),
         SameStack(Assume(c, delta).session, d.session)
  PROVE  /\ CtxOK(Release(d)) /\ SameStack(c.session, Release(d).session)
         /\ Release(d).limits = d.limits /\ Release(d).failed = d.failed
         /\ Release(d).attempted_arms = d.attempted_arms
         /\ Release(d).feasible_arms = d.feasible_arms
<1> DEFINE a == Assume(c, delta)
           e == Release(d)
           s == c.session
           t == d.session
<1>1. a.session.saved = Append(s.saved, [asserted |-> s.asserted, bounded |-> s.bounded])
  <2>1. Session!AssertIn(Session!Push(s), delta).saved
          = Append(s.saved, [asserted |-> s.asserted, bounded |-> s.bounded])
    BY OpenScope, Zenon DEF CtxOK
  <2> QED BY <2>1, AssumeOK
<1> HIDE DEF a
<1>2. t.saved = a.session.saved
  BY DEF SameStack, a
<1>3. SessionOK(Session!Pop(t, 1)) /\ SameStack(s, Session!Pop(t, 1))
  BY <1>1, <1>2, CloseScope DEF CtxOK
<1>4. /\ DOMAIN e = ContextFields /\ e.session = Session!Pop(t, 1)
      /\ e.limits = d.limits /\ e.failed = d.failed
      /\ e.attempted_arms = d.attempted_arms /\ e.feasible_arms = d.feasible_arms
      /\ e.checks = d.checks /\ e.paths = d.paths /\ e.reached_states = d.reached_states
      /\ e.limit_exceeded = d.limit_exceeded
  BY DEF CtxOK, ContextFields, Release
<1> HIDE DEF e, s, t
<1> QED BY <1>3, <1>4 DEF CtxOK, e, s, t

\* A branch left: the session is what it was before the branch was assumed.
LEMMA ReleaseOK ==
  ASSUME NEW c, CtxOK(c), NEW delta, NEW d, Kept(Assume(c, delta), d)
  PROVE  Kept(c, Release(d))
<1>1. CtxOK(d) /\ SameStack(Assume(c, delta).session, d.session)
  BY DEF Kept
<1>2. /\ d.limits = c.limits /\ d.failed = c.failed
      /\ d.attempted_arms = c.attempted_arms /\ d.feasible_arms = c.feasible_arms
  BY AssumeOK DEF Kept
<1> QED BY <1>1, <1>2, ReleaseStack DEF Kept

\* What two steps keep, both together keep.
LEMMA KeptTwice ==
  ASSUME NEW c, NEW d, NEW e, Kept(c, d), Kept(d, e)
  PROVE  Kept(c, e)
BY DEF Kept, SameStack

\* A fork that ends at once leaves no trace on the stack.
LEMMA ForkOK ==
  ASSUME NEW c, CtxOK(c), NEW f, NEW delta, NEW segment, NEW kind, NEW len, NEW min_bits
  PROVE  Kept(c, Fork(c, f, delta, segment, kind, len, min_bits))
<1> DEFINE a == Assume(c, delta)
           g == Along(f, delta, <<segment>>)
           d == IF Feasible(a) THEN Emit(CheckOf(a), g, kind, len, min_bits) ELSE CheckOf(a)
<1>1. CtxOK(a)
  BY AssumeOK
<1> HIDE DEF a, g
<1>2. Kept(a, CheckOf(a)) /\ CtxOK(CheckOf(a))
  BY <1>1, CheckOfOK DEF Kept
<1>3. Kept(CheckOf(a), Emit(CheckOf(a), g, kind, len, min_bits))
  BY <1>2, EmitOK
<1>4. Kept(a, d)
  BY <1>2, <1>3, KeptTwice
<1> HIDE DEF d
<1>5. Kept(c, Release(d))
  BY <1>4, ReleaseOK DEF a
<1> QED BY <1>5 DEF Fork, Ended, d, a, g

----------------------------------------------------------------------------
(* Worlds: a context with the frame that goes on in it.                    *)

\* A frame, as far as the walk's order and its path condition go.
FrameOK(f) == {"constraints", "depth"} \subseteq DOMAIN f /\ f.depth \in 0..ir.max_depth

\* World w goes on from context c, with the scopes it has opened and its frame
\* at the depth of f.
GoesOn(c, f, w) ==
  /\ CtxOK(w.ctx) /\ w.ctx.failed = c.failed
  /\ w.scopes \in Nat /\ Extends(c.session, w.ctx.session, w.scopes)
  /\ FrameOK(w.frame) /\ w.frame.depth = f.depth
  /\ w.frame.constraints = w.ctx.session.asserted

\* A world with no scope of its own.
LEMMA WorldOK ==
  ASSUME NEW c, CtxOK(c), NEW d, Kept(c, d), NEW f, FrameOK(f),
         f.constraints = c.session.asserted
  PROVE  GoesOn(c, f, World(d, f))
<1>1. Extends(c.session, d.session, 0)
  BY SameStackExtends DEF CtxOK, Kept
<1>2. /\ World(d, f).ctx = d /\ World(d, f).frame = f /\ World(d, f).scopes = 0
  BY DEF World
<1> QED BY <1>1, <1>2 DEF GoesOn, Kept, SameStack

\* A context keeps itself.
LEMMA KeptHere ==
  ASSUME NEW c, CtxOK(c)
  PROVE  Kept(c, c)
BY DEF Kept, SameStack

\* A frame goes along with constraints.
LEMMA AlongOK ==
  ASSUME NEW f, FrameOK(f), NEW delta, NEW segments
  PROVE  /\ FrameOK(Along(f, delta, segments))
         /\ Along(f, delta, segments).depth = f.depth
         /\ Along(f, delta, segments).constraints = f.constraints \o delta
<1> DEFINE g == Along(f, delta, segments)
<1>1. /\ DOMAIN g = DOMAIN f /\ g.depth = f.depth /\ g.constraints = f.constraints \o delta
  BY DEF FrameOK, Along
<1> QED BY <1>1 DEF FrameOK

\* What is assumed in a scope of its own.
LEMMA AssumeExtends ==
  ASSUME NEW c, CtxOK(c), NEW delta
  PROVE  /\ Extends(c.session, Assume(c, delta).session, 1)
         /\ Assume(c, delta).session.asserted = c.session.asserted \o delta
<1>1. Assume(c, delta).session = Session!AssertIn(Session!Push(c.session), delta)
  BY AssumeOK
<1>2. SessionOK(c.session)
  BY DEF CtxOK
<1>3. /\ Extends(c.session, Session!AssertIn(Session!Push(c.session), delta), 1)
      /\ Session!AssertIn(Session!Push(c.session), delta).asserted = c.session.asserted \o delta
  BY <1>2, OpenScope, Zenon
<1> QED BY <1>1, <1>3

\* A world narrowed by an unchecked constraint has one scope more.
LEMMA NarrowOK ==
  ASSUME NEW c, CtxOK(c), NEW f, NEW w, GoesOn(c, f, w), NEW delta
  PROVE  GoesOn(c, f, Narrow(w, delta))
<1>1. CASE delta = <<>>
  BY <1>1 DEF Narrow
<1>2. CASE delta # <<>>
  <2> DEFINE d == Assume(w.ctx, delta)
             g == Along(w.frame, delta, <<>>)
             v == Narrow(w, delta)
  <2>1. v.ctx = d /\ v.frame = g /\ v.scopes = w.scopes + 1
    BY <1>2 DEF Narrow
  <2>2. CtxOK(d) /\ d.failed = w.ctx.failed
    BY AssumeOK DEF GoesOn
  <2>3. Extends(w.ctx.session, d.session, 1) /\ d.session.asserted = w.ctx.session.asserted \o delta
    BY AssumeExtends DEF GoesOn
  <2>4. FrameOK(g) /\ g.depth = w.frame.depth /\ g.constraints = w.frame.constraints \o delta
    <3>1. FrameOK(w.frame)
      BY DEF GoesOn
    <3> HIDE DEF d, v
    <3>2. /\ FrameOK(Along(w.frame, delta, <<>>))
          /\ Along(w.frame, delta, <<>>).depth = w.frame.depth
          /\ Along(w.frame, delta, <<>>).constraints = w.frame.constraints \o delta
      BY <3>1, AlongOK, Zenon
    <3> QED BY <3>2
  <2> HIDE DEF d, g, v
  <2>5. Extends(c.session, d.session, w.scopes + 1)
    BY <2>3, ExtendsMore DEF GoesOn, CtxOK
  <2> QED BY <2>1, <2>2, <2>3, <2>4, <2>5 DEF GoesOn, v
<1> QED BY <1>1, <1>2

----------------------------------------------------------------------------
(* The call stack and the scopes.                                          *)

\* The scopes that a pending activation will leave.
Held(c) == IF c.do = "pop" THEN c.scopes ELSE 0

\* How many levels of the solver's stack each activation stands on, the lowest
\* on one.
Levels(cs, lv) ==
  /\ lv \in [0..Len(cs) -> Nat \ {0}]
  /\ lv[0] = 1
  /\ \A i \in 1..Len(cs) : lv[i] = lv[i - 1] + Held(cs[i])
  /\ \A i, j \in 0..Len(cs) : i <= j => lv[i] <= lv[j]

\* The path condition of every activation is what is asserted at its level.
Matches(cs, s, lv) ==
  /\ lv[Len(cs)] = Len(s.saved) + 1
  /\ \A i \in 1..Len(cs) : cs[i].do # "pop" => cs[i].frame.constraints = AssertedAt(s, lv[i])

\* The two in step, with nothing asserted at the bottom.
Balanced(cs, s) ==
  /\ AssertedAt(s, 1) = <<>>
  /\ \E lv : Levels(cs, lv) /\ Matches(cs, s, lv)

\* The running activation returns, and leaves the scopes it held.
LEMMA ReturnBalanced ==
  ASSUME NEW cs, IsSequence(cs), cs # <<>>, Held(Last(cs)) \in Nat,
         NEW s, NEW t, SessionOK(t), Balanced(cs, s), Extends(t, s, Held(Last(cs)))
  PROVE  Balanced(Front(cs), t)
<1> DEFINE n == Len(cs) - 1
           h == Held(Last(cs))
<1>1. PICK lv : Levels(cs, lv) /\ Matches(cs, s, lv)
  BY DEF Balanced
<1>2. /\ Len(cs) \in Nat \ {0} /\ n \in Nat /\ IsSequence(Front(cs)) /\ Len(Front(cs)) = n
      /\ \A i \in 1..n : Front(cs)[i] = cs[i]
      /\ Last(cs) = cs[n + 1]
      /\ Len(cs) = n + 1
  BY FrontOf
<1>3. Len(t.saved) \in Nat /\ Len(s.saved) = Len(t.saved) + h /\ h \in Nat
  BY AppendTo DEF SessionOK, Extends
<1> DEFINE mv == [i \in 0..n |-> lv[i]]
<1> HIDE DEF n
<1>4. lv[n] = Len(t.saved) + 1
  <2>1. lv[n + 1] = lv[n] + h /\ lv[n + 1] = Len(s.saved) + 1 /\ lv[n] \in Nat
    BY <1>1, <1>2 DEF Levels, Matches
  <2> HIDE DEF h
  <2> QED BY <1>3, <2>1
<1>5. Levels(Front(cs), mv)
  <2>1. mv \in [0..n -> Nat \ {0}] /\ mv[0] = 1
    BY <1>1, <1>2 DEF Levels
  <2>2. \A i \in 1..n : mv[i] = mv[i - 1] + Held(Front(cs)[i])
    <3> TAKE i \in 1..n
    <3>1. i \in 1..Len(cs) /\ i \in 0..n /\ i - 1 \in 0..n
      BY <1>2
    <3>2. lv[i] = lv[i - 1] + Held(cs[i])
      BY <1>1, <3>1, Zenon DEF Levels
    <3> QED BY <1>2, <3>1, <3>2
  <2>3. \A i, j \in 0..n : i <= j => mv[i] <= mv[j]
    BY <1>1, <1>2 DEF Levels
  <2> HIDE DEF mv
  <2> QED BY <1>2, <2>1, <2>2, <2>3 DEF Levels
<1>6. Matches(Front(cs), t, mv)
  <2>1. mv[Len(Front(cs))] = Len(t.saved) + 1
    BY <1>2, <1>4
  <2>2. ASSUME NEW i \in 1..n, Front(cs)[i].do # "pop"
        PROVE  Front(cs)[i].frame.constraints = AssertedAt(t, mv[i])
    <3>1. cs[i].do # "pop" /\ Front(cs)[i] = cs[i] /\ i \in 1..Len(cs) /\ i \in 0..n /\ mv[i] = lv[i]
      BY <1>2, <2>2
    <3>2. cs[i].frame.constraints = AssertedAt(s, lv[i])
      BY <1>1, <3>1 DEF Matches
    <3>3. lv[i] \in 1..(Len(t.saved) + 1)
      <4>1. lv[i] \in Nat \ {0} /\ lv[i] <= lv[n]
        BY <1>1, <1>2, <3>1 DEF Levels
      <4> QED BY <1>3, <1>4, <4>1
    <3>4. AssertedAt(s, lv[i]) = AssertedAt(t, lv[i])
      BY <3>3, Zenon DEF Extends
    <3> QED BY <3>1, <3>2, <3>4
  <2> HIDE DEF mv
  <2> QED BY <1>2, <2>1, <2>2 DEF Matches
<1>7. AssertedAt(t, 1) = <<>>
  <2>1. 1 \in 1..(Len(t.saved) + 1)
    BY <1>3
  <2>2. AssertedAt(s, 1) = AssertedAt(t, 1)
    BY <2>1, Zenon DEF Extends
  <2> QED BY <2>2 DEF Balanced
<1> QED BY <1>5, <1>6, <1>7 DEF Balanced

\* An activation is put on top, with the scopes it holds opened for it.
LEMMA CallBalanced ==
  ASSUME NEW cs, IsSequence(cs), NEW c, Held(c) \in Nat,
         NEW s, SessionOK(s), NEW t, Balanced(cs, s), Extends(s, t, Held(c)),
         c.do # "pop" => c.frame.constraints = t.asserted
  PROVE  Balanced(Append(cs, c), t)
<1> DEFINE n == Len(cs)
           h == Held(c)
           ds == Append(cs, c)
<1>1. PICK lv : Levels(cs, lv) /\ Matches(cs, s, lv)
  BY DEF Balanced
<1>2. /\ n \in Nat /\ Len(ds) = n + 1 /\ ds[n + 1] = c
      /\ \A i \in 1..n : ds[i] = cs[i]
  BY AppendTo
<1>3. Len(s.saved) \in Nat /\ Len(t.saved) = Len(s.saved) + h /\ h \in Nat
  BY AppendTo DEF SessionOK, Extends
<1>4. /\ lv \in [0..n -> Nat \ {0}] /\ lv[0] = 1 /\ lv[n] = Len(s.saved) + 1
      /\ \A i \in 1..n : lv[i] = lv[i - 1] + Held(cs[i])
      /\ \A i, j \in 0..n : i <= j => lv[i] <= lv[j]
  BY <1>1, <1>2 DEF Levels, Matches
<1> DEFINE mv == [i \in 0..(n + 1) |-> IF i = n + 1 THEN lv[n] + h ELSE lv[i]]
<1> HIDE DEF n, h, ds
<1>5. /\ mv \in [0..(n + 1) -> Nat \ {0}] /\ mv[n + 1] = lv[n] + h
      /\ \A i \in 0..n : mv[i] = lv[i]
  <2>1. \A i \in 0..(n + 1) : i \in 0..n \/ i = n + 1
    BY <1>2
  <2>2. lv[n] + h \in Nat \ {0}
    BY <1>2, <1>3, <1>4
  <2> QED BY <1>2, <1>4, <2>1, <2>2
<1> HIDE DEF mv
<1>6. Levels(ds, mv)
  <2>1. mv[0] = 1
    BY <1>2, <1>4, <1>5
  <2>2. \A i \in 1..(n + 1) : mv[i] = mv[i - 1] + Held(ds[i])
    <3> TAKE i \in 1..(n + 1)
    <3>1. CASE i = n + 1
      <4>1. i - 1 = n /\ n \in 0..n
        BY <1>2, <3>1
      <4> QED BY <1>2, <1>5, <3>1, <4>1 DEF h
    <3>2. CASE i # n + 1
      <4>1. i \in 1..n /\ i \in 0..n /\ i - 1 \in 0..n
        BY <1>2, <3>2
      <4>2. ds[i] = cs[i] /\ lv[i] = lv[i - 1] + Held(cs[i])
        BY <1>2, <1>4, <4>1
      <4> QED BY <1>5, <4>1, <4>2
    <3> QED BY <3>1, <3>2
  <2>3. ASSUME NEW i \in 0..(n + 1), NEW j \in 0..(n + 1), i <= j PROVE mv[i] <= mv[j]
    <3>1. CASE j # n + 1
      <4>1. i \in 0..n /\ j \in 0..n
        BY <1>2, <2>3, <3>1
      <4> QED BY <1>4, <1>5, <2>3, <4>1
    <3>2. CASE j = n + 1 /\ i = n + 1
      BY <1>3, <1>4, <1>5, <1>2, <3>2
    <3>3. CASE j = n + 1 /\ i # n + 1
      <4>1. i \in 0..n /\ n \in 0..n /\ i <= n
        BY <1>2, <3>3
      <4>2. mv[i] = lv[i] /\ lv[i] <= lv[n] /\ lv[i] \in Nat /\ lv[n] \in Nat
        BY <1>4, <1>5, <4>1
      <4> QED BY <1>3, <1>5, <3>3, <4>2
    <3> QED BY <3>1, <3>2, <3>3
  <2> QED BY <1>2, <1>5, <2>1, <2>2, <2>3 DEF Levels
<1>7. Matches(ds, t, mv)
  <2>1. mv[n + 1] = Len(t.saved) + 1
    BY <1>3, <1>4, <1>5
  <2>2. ASSUME NEW i \in 1..(n + 1), ds[i].do # "pop"
        PROVE  ds[i].frame.constraints = AssertedAt(t, mv[i])
    <3>1. CASE i = n + 1
      <4>1. AssertedAt(t, mv[i]) = t.asserted
        BY <2>1, <3>1 DEF AssertedAt
      <4> QED BY <1>2, <2>2, <3>1, <4>1
    <3>2. CASE i # n + 1
      <4>1. i \in 1..n /\ i \in 0..n /\ n \in 0..n /\ i <= n
        BY <1>2, <3>2
      <4>2. mv[i] = lv[i] /\ ds[i] = cs[i]
        BY <1>2, <1>5, <4>1
      <4>3. lv[i] \in 1..(Len(s.saved) + 1)
        BY <1>3, <1>4, <4>1
      <4>4. AssertedAt(t, lv[i]) = AssertedAt(s, lv[i])
        BY <4>3, Zenon DEF Extends
      <4>5. cs[i].frame.constraints = AssertedAt(s, lv[i])
        BY <1>1, <2>2, <4>1, <4>2 DEF Matches, n
      <4> QED BY <4>2, <4>4, <4>5
    <3> QED BY <3>1, <3>2
  <2> QED BY <1>2, <2>1, <2>2 DEF Matches
<1>8. AssertedAt(t, 1) = <<>>
  <2>1. 1 \in 1..(Len(s.saved) + 1)
    BY <1>3
  <2>2. AssertedAt(t, 1) = AssertedAt(s, 1)
    BY <2>1, Zenon DEF Extends
  <2> QED BY <2>2 DEF Balanced
<1> QED BY <1>6, <1>7, <1>8 DEF Balanced, ds

----------------------------------------------------------------------------
(* Activations.                                                            *)

\* The functions that are called on a state, and those that walk.
OfState == {"state", "extracts", "ops", "dispatch", "arms"}
Walks == OfState \cup {"target"}

\* An activation that the walk can be in.
CallOK(c) ==
  /\ c.do \in Walks \cup {"pop"}
  /\ c.do = "pop" => c.scopes \in Nat
  /\ c.do # "pop" => FrameOK(c.frame)
  /\ c.do \in OfState => c.state \in DOMAIN ir.states
  /\ c.do = "extracts" => c.idx \in 1..(Len(Items(c.state)) + 1)
  /\ c.do = "ops" => c.idx \in 1..(Len(StateAt(c.state).region_ops) + 1)
  /\ c.do = "arms" => /\ StateAt(c.state).transition.kind = "select"
                      /\ c.left \subseteq DOMAIN StateAt(c.state).transition.arms
  /\ c.do = "target" => (c.target.kind = "state" => c.target.name \in DOMAIN ir.states)

\* A call stack and the session it runs in.
StackOK(cs, s) ==
  /\ IsSequence(cs)
  /\ \A i \in DOMAIN cs : CallOK(cs[i])
  /\ SessionOK(s)
  /\ Balanced(cs, s)

\* Stack ds is the base with calls on it that rank below c.
Over(base, ds, c) ==
  /\ Len(ds) >= Len(base)
  /\ \A i \in 1..Len(base) : ds[i] = base[i]
  /\ \A i \in (Len(base) + 1)..Len(ds) : Below(ds[i], c)

\* The activation that ran is replaced by calls below it.
Descends(cs, ds) ==
  \/ ds = <<>>
  \/ IsPrefix(Front(cs), ds) /\ \A i \in Len(cs)..Len(ds) : Below(ds[i], Last(cs))

\* Only a pending pop holds scopes.
LEMMA HeldType ==
  ASSUME NEW c, CallOK(c)
  PROVE  Held(c) \in Nat /\ (c.do # "pop" => Held(c) = 0) /\ (c.do = "pop" => Held(c) = c.scopes)
BY DEF CallOK, Held

\* An activation returns: the stack below it stands, in the session without its scopes.
LEMMA ReturnOK ==
  ASSUME NEW cs, NEW s, StackOK(cs, s), cs # <<>>, NEW t, SessionOK(t),
         Extends(t, s, Held(Last(cs))), NEW c
  PROVE  StackOK(Front(cs), t) /\ Over(Front(cs), Front(cs), c)
<1>1. /\ Len(cs) \in Nat \ {0} /\ DOMAIN cs = 1..Len(cs)
      /\ IsSequence(Front(cs)) /\ Len(Front(cs)) = Len(cs) - 1
      /\ \A i \in 1..(Len(cs) - 1) : Front(cs)[i] = cs[i]
      /\ Last(cs) = cs[Len(cs)]
  BY FrontOf DEF StackOK
<1>2. Held(Last(cs)) \in Nat
  <2>1. Len(cs) \in DOMAIN cs
    BY <1>1
  <2> QED BY <1>1, <2>1, HeldType DEF StackOK
<1>3. Balanced(Front(cs), t)
  BY <1>2, ReturnBalanced DEF StackOK
<1>4. ASSUME NEW i \in DOMAIN Front(cs) PROVE CallOK(Front(cs)[i])
  <2>1. DOMAIN Front(cs) = 1..(Len(cs) - 1)
    BY <1>1, AppendTo
  <2>2. i \in DOMAIN cs /\ Front(cs)[i] = cs[i]
    BY <1>1, <2>1
  <2>3. CallOK(cs[i])
    BY <2>2 DEF StackOK
  <2> QED BY <2>2, <2>3
<1>5. Over(Front(cs), Front(cs), c)
  <2>1. Len(Front(cs)) \in Nat
    BY <1>1
  <2> QED BY <2>1 DEF Over
<1> QED BY <1>1, <1>3, <1>4, <1>5 DEF StackOK

\* A call is put on a stack, in the session with the scopes it holds.
LEMMA CallsOn ==
  ASSUME NEW cs, NEW s, StackOK(cs, s), NEW c, CallOK(c), NEW t, SessionOK(t),
         Extends(s, t, Held(c)), c.do # "pop" => c.frame.constraints = t.asserted,
         NEW base, Len(base) \in Nat, NEW top, Over(base, cs, top), Below(c, top)
  PROVE  StackOK(Append(cs, c), t) /\ Over(base, Append(cs, c), top)
<1> DEFINE ds == Append(cs, c)
<1>1. /\ Len(cs) \in Nat /\ DOMAIN cs = 1..Len(cs) /\ IsSequence(ds) /\ Len(ds) = Len(cs) + 1
      /\ \A i \in 1..Len(cs) : ds[i] = cs[i]
      /\ ds[Len(cs) + 1] = c
  BY AppendTo DEF StackOK
<1>2. DOMAIN ds = 1..(Len(cs) + 1)
  BY <1>1, AppendTo
<1>3. Balanced(ds, t)
  BY HeldType, CallBalanced DEF StackOK
<1> HIDE DEF ds
<1>4. ASSUME NEW i \in DOMAIN ds PROVE CallOK(ds[i])
  <2>1. CASE i = Len(cs) + 1
    BY <1>1, <2>1
  <2>2. CASE i # Len(cs) + 1
    <3>1. i \in DOMAIN cs /\ ds[i] = cs[i]
      BY <1>1, <1>2, <2>2
    <3> QED BY <3>1 DEF StackOK
  <2> QED BY <2>1, <2>2
<1>5. Over(base, ds, top)
  <2>1. Len(base) <= Len(cs) /\ \A i \in 1..Len(base) : cs[i] = base[i]
    BY DEF Over
  <2>2. \A i \in 1..Len(base) : ds[i] = base[i]
    BY <1>1, <2>1
  <2>3. ASSUME NEW i \in (Len(base) + 1)..(Len(cs) + 1) PROVE Below(ds[i], top)
    <3>1. CASE i = Len(cs) + 1
      BY <1>1, <3>1
    <3>2. CASE i # Len(cs) + 1
      <4>1. i \in (Len(base) + 1)..Len(cs) /\ i \in 1..Len(cs)
        BY <1>1, <2>1, <3>2
      <4>2. Below(cs[i], top) /\ ds[i] = cs[i]
        BY <1>1, <4>1, Zenon DEF Over
      <4> QED BY <4>2
    <3> QED BY <3>1, <3>2
  <2> QED BY <1>1, <2>1, <2>2, <2>3 DEF Over
<1> QED BY <1>1, <1>3, <1>4, <1>5 DEF StackOK, ds

\* What was built over the rest of a stack replaces its last activation.
LEMMA OverDescends ==
  ASSUME NEW cs, IsSequence(cs), cs # <<>>, NEW ds, IsSequence(ds), Over(Front(cs), ds, Last(cs))
  PROVE  Descends(cs, ds)
<1> DEFINE n == Len(cs) - 1
           X == {ds[i] : i \in DOMAIN ds}
           b == Front(cs)
           Y == {b[i] : i \in DOMAIN b}
<1>1. n \in Nat /\ Len(b) = n /\ Len(cs) = n + 1 /\ IsSequence(b)
  BY FrontOf
<1>2. Len(ds) \in Nat /\ n <= Len(ds) /\ DOMAIN ds = 1..Len(ds) /\ DOMAIN b = 1..n
  BY <1>1, AppendTo DEF Over
<1>3. ds \in Seq(X) /\ b \in Seq(Y) /\ \A i \in 1..n : ds[i] \in X /\ b[i] \in Y /\ ds[i] = b[i]
  <2>1. ds \in Seq(X) /\ b \in Seq(Y)
    BY <1>1 DEF IsSequence
  <2>2. \A i \in 1..n : ds[i] = b[i]
    BY <1>1 DEF Over
  <2>3. \A i \in 1..n : ds[i] \in X /\ b[i] \in Y
    <3> HIDE DEF n, b
    <3> QED BY <1>1, <1>2
  <2> QED BY <2>1, <2>2, <2>3
<1> HIDE DEF n, X, Y, b
<1>4. /\ SubSeq(ds, 1, n) \in Seq(X)
      /\ Len(SubSeq(ds, 1, n)) = IF 1 <= n THEN n - 1 + 1 ELSE 0
      /\ \A i \in 1..(n - 1 + 1) : SubSeq(ds, 1, n)[i] = ds[1 + i - 1]
  BY <1>1, <1>3, SubSeqProperties
<1>5. /\ SubSeq(b, 1, n) \in Seq(Y)
      /\ Len(SubSeq(b, 1, n)) = IF 1 <= n THEN n - 1 + 1 ELSE 0
      /\ \A i \in 1..(n - 1 + 1) : SubSeq(b, 1, n)[i] = b[1 + i - 1]
  BY <1>1, <1>3, SubSeqProperties
<1> DEFINE p == SubSeq(ds, 1, n)
           q == SubSeq(b, 1, n)
           Z == X \cup Y
<1>6. /\ p \in Seq(Z) /\ q \in Seq(Z) /\ Len(p) = n /\ Len(q) = n
      /\ \A i \in 1..n : p[i] = ds[i] /\ q[i] = b[i]
  BY <1>1, <1>4, <1>5
<1> HIDE DEF p, q, Z
<1>7. p = q
  BY <1>1, <1>3, <1>6, SeqEqual
<1>8. IsPrefix(b, ds)
  BY <1>1, <1>2, <1>7 DEF IsPrefix, p, q
<1>9. \A i \in Len(cs)..Len(ds) : Below(ds[i], Last(cs))
  BY <1>1 DEF Over, b
<1> QED BY <1>8, <1>9 DEF Descends, b

\* Up to three calls put on a stack at once are put on it one by one.
LEMMA ConcatAppends ==
  ASSUME NEW s, IsSequence(s), NEW a, NEW b, NEW c
  PROVE  /\ s \o <<a>> = Append(s, a)
         /\ s \o <<a, b>> = Append(Append(s, a), b)
         /\ s \o <<a, b, c>> = Append(Append(Append(s, a), b), c)
<1> DEFINE X == {s[i] : i \in DOMAIN s}
           Y == X \cup {a, b, c}
<1>1. s \in Seq(X)
  BY DEF IsSequence
<1>2. s \in Seq(Y) /\ a \in Y /\ b \in Y /\ c \in Y
  <2> HIDE DEF X
  <2> QED BY <1>1
<1> HIDE DEF Y
<1>3. \A t \in Seq(Y), x \in Y : Append(t, x) \in Seq(Y) /\ Append(t, x) = t \o <<x>>
  BY AppendProperties, AppendIsConcat
<1>4. <<a>> \in Seq(Y) /\ <<b>> \in Seq(Y) /\ <<c>> \in Seq(Y) /\ <<a, b>> \in Seq(Y)
  BY <1>2
<1>5. <<a, b>> = <<a>> \o <<b>> /\ <<a, b, c>> = <<a, b>> \o <<c>>
  <2>1. Append(<<a>>, b) = <<a, b>>
    <3>1. /\ Len(Append(<<a>>, b)) = 2 /\ Append(<<a>>, b)[1] = a /\ Append(<<a>>, b)[2] = b
          /\ Append(<<a>>, b) \in Seq(Y) /\ <<a, b>> \in Seq(Y)
      BY <1>2, <1>4, AppendProperties
    <3>2. Len(<<a, b>>) = 2 /\ \A i \in 1..2 : Append(<<a>>, b)[i] = <<a, b>>[i]
      BY <3>1
    <3> HIDE DEF Y
    <3> QED BY <3>1, <3>2, SeqEqual
  <2>2. Append(<<a, b>>, c) = <<a, b, c>>
    <3>1. /\ Len(Append(<<a, b>>, c)) = 3 /\ Append(<<a, b>>, c)[1] = a
          /\ Append(<<a, b>>, c)[2] = b /\ Append(<<a, b>>, c)[3] = c
          /\ Append(<<a, b>>, c) \in Seq(Y) /\ <<a, b, c>> \in Seq(Y)
      BY <1>2, <1>4, AppendProperties
    <3>2. Len(<<a, b, c>>) = 3 /\ \A i \in 1..3 : Append(<<a, b>>, c)[i] = <<a, b, c>>[i]
      BY <3>1
    <3> QED BY <3>1, <3>2, SeqEqual
  <2> QED BY <1>2, <1>3, <1>4, <2>1, <2>2
<1> DEFINE Z == Seq(Y)
<1>0. \A t, u, v \in Z : (t \o u) \o v = t \o (u \o v)
  BY ConcatAssociative
<1>6. /\ Append(Append(s, a), b) = (s \o <<a>>) \o <<b>>
      /\ Append(s, a) \in Seq(Y)
  BY <1>2, <1>3
<1>7. Append(Append(s, a), b) = s \o <<a, b>>
  <2>1. s \in Z /\ <<a>> \in Z /\ <<b>> \in Z
    BY <1>2, <1>4
  <2> HIDE DEF Z
  <2>2. (s \o <<a>>) \o <<b>> = s \o (<<a>> \o <<b>>)
    BY <1>0, <2>1
  <2> QED BY <1>5, <1>6, <2>2
<1>8. Append(Append(Append(s, a), b), c) = (s \o <<a, b>>) \o <<c>>
  BY <1>2, <1>3, <1>6, <1>7
<1>9. Append(Append(Append(s, a), b), c) = s \o <<a, b, c>>
  <2>1. s \in Z /\ <<a, b>> \in Z /\ <<c>> \in Z
    BY <1>2, <1>4
  <2> HIDE DEF Z
  <2>2. (s \o <<a, b>>) \o <<c>> = s \o (<<a, b>> \o <<c>>)
    BY <1>0, <2>1
  <2> QED BY <1>5, <1>8, <2>2
<1> QED BY <1>2, <1>3, <1>7, <1>9

----------------------------------------------------------------------------
(* The inductive invariant, and how a step keeps it.                       *)

\* The engine at rest or walking; after an error there is nothing to keep in step.
EngineOK(cs, c) ==
  /\ CtxOK(c)
  /\ c.failed => cs = <<>>
  /\ ~c.failed => StackOK(cs, c.session)

\* The inductive invariant.
EInv == ir \in Programs /\ StructureOk /\ EngineOK(calls, ctx)

\* A step keeps it, and replaces the activation that runs by calls below it.
KeepsEngine == EngineOK(calls', ctx') /\ Descends(calls, calls')

\* A session is itself with no scope opened.
LEMMA SameExtends ==
  ASSUME NEW s, SessionOK(s)
  PROVE  Extends(s, s, 0)
BY SameStackExtends DEF SameStack

\* What the invariant says of the activation that runs.
LEMMA ActivationOK ==
  ASSUME EInv, calls # <<>>
  PROVE  /\ CtxOK(ctx) /\ SessionOK(ctx.session) /\ ctx.failed = FALSE
         /\ StackOK(calls, ctx.session) /\ IsSequence(calls)
         /\ Call = calls[Len(calls)] /\ CallOK(Call) /\ Held(Call) \in Nat
         /\ Len(Front(calls)) \in Nat
         /\ Call.do # "pop" => /\ FrameOK(Frame) /\ Held(Call) = 0
                               /\ Frame.constraints = ctx.session.asserted
<1>1. CtxOK(ctx) /\ ctx.failed = FALSE /\ StackOK(calls, ctx.session)
  BY DEF EInv, EngineOK, CtxOK
<1>2. IsSequence(calls) /\ SessionOK(ctx.session) /\ Balanced(calls, ctx.session)
  BY <1>1 DEF StackOK
<1>3. /\ Len(calls) \in Nat \ {0} /\ DOMAIN calls = 1..Len(calls) /\ Call = calls[Len(calls)]
      /\ Len(Front(calls)) \in Nat
  BY <1>2, FrontOf DEF Call
<1>4. CallOK(Call)
  BY <1>1, <1>3 DEF StackOK
<1>5. Held(Call) \in Nat /\ (Call.do # "pop" => Held(Call) = 0 /\ FrameOK(Frame))
  BY <1>4, HeldType DEF CallOK, Frame
<1>6. ASSUME Call.do # "pop" PROVE Frame.constraints = ctx.session.asserted
  <2>1. PICK lv : Levels(calls, lv) /\ Matches(calls, ctx.session, lv)
    BY <1>2 DEF Balanced
  <2>2. /\ lv[Len(calls)] = Len(ctx.session.saved) + 1
        /\ calls[Len(calls)].frame.constraints = AssertedAt(ctx.session, lv[Len(calls)])
    BY <1>3, <1>6, <2>1 DEF Matches
  <2> QED BY <1>3, <2>2 DEF AssertedAt, Frame
<1> QED BY <1>1, <1>2, <1>3, <1>4, <1>5, <1>6

\* The error ends the walk.
LEMMA BailOK ==
  ASSUME EInv, calls # <<>>, Bail
  PROVE  KeepsEngine
<1>1. /\ DOMAIN ctx' = ContextFields /\ ctx'.session = ctx.session /\ ctx'.limits = ctx.limits
      /\ ctx'.failed = TRUE /\ ctx'.attempted_arms = ctx.attempted_arms
      /\ ctx'.feasible_arms = ctx.feasible_arms /\ ctx'.checks = ctx.checks
      /\ ctx'.paths = ctx.paths /\ ctx'.reached_states = ctx.reached_states
      /\ ctx'.limit_exceeded = ctx.limit_exceeded
  BY ActivationOK DEF CtxOK, ContextFields, Bail
<1>2. CtxOK(ctx) /\ calls' = <<>>
  BY ActivationOK DEF Bail
<1>3. CtxOK(ctx')
  BY <1>1, <1>2 DEF CtxOK
<1> QED BY <1>1, <1>2, <1>3 DEF KeepsEngine, EngineOK, Descends

\* An activation returns.
LEMMA Returns ==
  ASSUME EInv, calls # <<>>, Return, CtxOK(ctx'), ctx'.failed = FALSE,
         Extends(ctx'.session, ctx.session, Held(Call))
  PROVE  KeepsEngine
<1>1. StackOK(Front(calls), ctx'.session) /\ Over(Front(calls), Front(calls), Call)
  BY ActivationOK, ReturnOK DEF Call, CtxOK
<1>2. calls' = Front(calls) /\ IsSequence(calls') /\ IsSequence(calls)
  BY <1>1, ActivationOK DEF Return, StackOK
<1>3. Descends(calls, calls')
  BY <1>1, <1>2, OverDescends DEF Call
<1> QED BY <1>1, <1>2, <1>3 DEF KeepsEngine, EngineOK

\* It returns with the stack as it is.
LEMMA ReturnsKept ==
  ASSUME EInv, calls # <<>>, Call.do # "pop", Return, Kept(ctx, ctx')
  PROVE  KeepsEngine
<1>1. CtxOK(ctx') /\ ctx'.failed = FALSE /\ Held(Call) = 0 /\ SameStack(ctx'.session, ctx.session)
  BY ActivationOK DEF Kept, SameStack
<1>2. Extends(ctx'.session, ctx.session, 0)
  BY <1>1, SameStackExtends DEF CtxOK
<1> QED BY <1>1, <1>2, Returns

\* What is below the calls that replace an activation.
LEMMA Replaced ==
  ASSUME EInv, calls # <<>>, Call.do # "pop"
  PROVE  /\ StackOK(Front(calls), ctx.session) /\ Over(Front(calls), Front(calls), Call)
         /\ IsSequence(Front(calls))
<1>1. Extends(ctx.session, ctx.session, Held(Last(calls))) /\ calls # <<>>
  BY ActivationOK, SameExtends DEF Call
<1> QED BY <1>1, ActivationOK, ReturnOK DEF StackOK

\* An activation is replaced by one call, in the same scopes.
LEMMA BecomesOne ==
  ASSUME EInv, calls # <<>>, Call.do # "pop", CtxOK(ctx'), ctx'.failed = FALSE,
         SameStack(ctx.session, ctx'.session), NEW c, CallOK(c), c.do # "pop", Below(c, Call),
         c.frame.constraints = Frame.constraints, Become(<<c>>)
  PROVE  KeepsEngine
<1> DEFINE b == Front(calls)
           s == ctx.session
           t == ctx'.session
<1>1. StackOK(b, s) /\ Over(b, b, Call) /\ IsSequence(b) /\ Len(b) \in Nat
  BY Replaced, ActivationOK
<1>2. SessionOK(t) /\ Extends(s, t, Held(c)) /\ c.frame.constraints = t.asserted
  <2>1. Held(c) = 0 /\ SessionOK(s) /\ SessionOK(t) /\ Frame.constraints = s.asserted
    BY HeldType, ActivationOK DEF CtxOK
  <2>2. Extends(s, t, 0)
    BY <2>1, SameStackExtends
  <2> QED BY <2>1, <2>2 DEF SameStack
<1>3. calls' = Append(b, c)
  BY <1>1, ConcatAppends DEF Become
<1> HIDE DEF b, s, t
<1>4. StackOK(calls', t) /\ Over(b, calls', Call)
  BY <1>1, <1>2, <1>3, CallsOn
<1>5. Descends(calls, calls')
  BY <1>4, ActivationOK, OverDescends DEF Call, b, StackOK
<1> QED BY <1>4, <1>5 DEF KeepsEngine, EngineOK, t

\* A pop is a call below every walk.
LEMMA PopCall ==
  ASSUME NEW n \in Nat, NEW c, c.do # "pop"
  PROVE  /\ CallOK(PopScopes(n)) /\ Held(PopScopes(n)) = n /\ PopScopes(n).do = "pop"
         /\ Below(PopScopes(n), c)
BY DEF PopScopes, CallOK, Held, Below, Walks, OfState

\* An activation is replaced by a walk in new scopes, and the pop that leaves them.
LEMMA BecomesTwo ==
  ASSUME EInv, calls # <<>>, Call.do # "pop", CtxOK(ctx'), ctx'.failed = FALSE,
         NEW n \in Nat, Extends(ctx.session, ctx'.session, n),
         NEW c, CallOK(c), c.do # "pop", Below(c, Call),
         c.frame.constraints = ctx'.session.asserted, Become(<<PopScopes(n), c>>)
  PROVE  KeepsEngine
<1> DEFINE b == Front(calls)
           s == ctx.session
           t == ctx'.session
           p == PopScopes(n)
<1>1. StackOK(b, s) /\ Over(b, b, Call) /\ IsSequence(b) /\ Len(b) \in Nat
  BY Replaced, ActivationOK
<1>2. SessionOK(t) /\ Extends(t, t, Held(c)) /\ Extends(s, t, n)
  BY HeldType, SameExtends DEF CtxOK
<1>3. CallOK(p) /\ Held(p) = n /\ p.do = "pop" /\ Below(p, Call)
  BY PopCall
<1>4. calls' = Append(Append(b, p), c)
  BY <1>1, ConcatAppends DEF Become
<1>5. c.frame.constraints = t.asserted
  OBVIOUS
<1> HIDE DEF b, s, t, p
<1>6. StackOK(Append(b, p), t) /\ Over(b, Append(b, p), Call)
  BY <1>1, <1>2, <1>3, CallsOn
<1>7. StackOK(calls', t) /\ Over(b, calls', Call)
  BY <1>1, <1>2, <1>4, <1>5, <1>6, CallsOn
<1>8. Descends(calls, calls')
  BY <1>7, ActivationOK, OverDescends DEF Call, b, StackOK
<1> QED BY <1>7, <1>8 DEF KeepsEngine, EngineOK, t

\* An activation is replaced by a walk in new scopes, their pop and then what is left of
\* itself.
LEMMA BecomesThree ==
  ASSUME EInv, calls # <<>>, Call.do # "pop", CtxOK(ctx'), ctx'.failed = FALSE,
         NEW n \in Nat, Extends(ctx.session, ctx'.session, n),
         NEW a, CallOK(a), a.do # "pop", Below(a, Call), a.frame.constraints = Frame.constraints,
         NEW c, CallOK(c), c.do # "pop", Below(c, Call),
         c.frame.constraints = ctx'.session.asserted, Become(<<a, PopScopes(n), c>>)
  PROVE  KeepsEngine
<1> DEFINE b == Front(calls)
           s == ctx.session
           t == ctx'.session
           p == PopScopes(n)
<1>1. StackOK(b, s) /\ Over(b, b, Call) /\ IsSequence(b) /\ Len(b) \in Nat
  BY Replaced, ActivationOK
<1>2. /\ SessionOK(s) /\ SessionOK(t) /\ Extends(t, t, Held(c)) /\ Extends(s, s, Held(a))
      /\ Extends(s, t, n)
  BY HeldType, SameExtends, ActivationOK DEF CtxOK
<1>3. CallOK(p) /\ Held(p) = n /\ p.do = "pop" /\ Below(p, Call)
  BY PopCall
<1>4. calls' = Append(Append(Append(b, a), p), c)
  BY <1>1, ConcatAppends DEF Become
<1>5. c.frame.constraints = t.asserted /\ a.frame.constraints = s.asserted
  BY ActivationOK
<1> HIDE DEF b, s, t, p
<1>6. StackOK(Append(b, a), s) /\ Over(b, Append(b, a), Call)
  BY <1>1, <1>2, <1>5, CallsOn
<1>7. StackOK(Append(Append(b, a), p), t) /\ Over(b, Append(Append(b, a), p), Call)
  BY <1>1, <1>2, <1>3, <1>6, CallsOn
<1>8. StackOK(calls', t) /\ Over(b, calls', Call)
  BY <1>1, <1>2, <1>4, <1>5, <1>7, CallsOn
<1>9. Descends(calls, calls')
  BY <1>8, ActivationOK, OverDescends DEF Call, b, StackOK
<1> QED BY <1>8, <1>9 DEF KeepsEngine, EngineOK, t

\* Going on in a world: the context is the world's, but for what was emitted.
LEMMA GoesOnOK ==
  ASSUME EInv, calls # <<>>, Call.do # "pop", NEW w, GoesOn(ctx, Frame, w), Kept(w.ctx, ctx'),
         NEW c, CallOK(c), c.do # "pop", Below(c, Call),
         c.frame.constraints = w.frame.constraints, GoOn(w, c)
  PROVE  KeepsEngine
<1>1. CtxOK(ctx') /\ ctx'.failed = FALSE /\ SameStack(w.ctx.session, ctx'.session)
  BY ActivationOK DEF GoesOn, Kept
<1>2. w.scopes \in Nat /\ Become(<<PopScopes(w.scopes), c>>)
  BY DEF GoesOn, GoOn, ScopesOf
<1>3. Extends(ctx.session, ctx'.session, w.scopes)
  BY <1>1 DEF GoesOn, Extends, SameStack, AssertedAt
<1>4. c.frame.constraints = ctx'.session.asserted
  BY <1>1 DEF GoesOn, SameStack
<1> QED BY <1>1, <1>2, <1>3, <1>4, BecomesTwo

----------------------------------------------------------------------------
(* The parser the walk goes through.                                       *)

\* The items of a state are a sequence.
LEMMA ItemsLength ==
  ASSUME ir \in Parser, InstancesOk, NEW q \in DOMAIN ir.states
  PROVE  Len(Items(q)) \in Nat
<1> DEFINE Field(ex, f) == [item |-> "field", inst |-> InstanceOf(ex), field |-> f,
                            width |-> ir.header_types[ex.header_type][f], in_peek |-> ex.lookahead]
           begin == [item |-> "begin"]
           end == [item |-> "end"]
           X == {Field(ex, f) : ex \in Extract, f \in Nat} \cup {begin, end}
           Listed(ex) == [f \in DOMAIN ir.header_types[ex.header_type] |-> Field(ex, f)]
           List(ex) == IF ex.lookahead THEN <<begin>> \o Listed(ex) \o <<end>> ELSE Listed(ex)
           exs == StateAt(q).extracts
           lists == [i \in DOMAIN exs |-> List(exs[i])]
<1>1. exs \in Seq(Extract) /\ ir.header_types \in Seq(HeaderType)
  <2>1. ir.states \in Seq(State) /\ ir.header_types \in Seq(HeaderType)
    BY DEF Parser
  <2>2. ir.states[q] \in State
    BY <2>1
  <2> QED BY <2>1, <2>2 DEF StateAt, State
<1>2. ASSUME NEW i \in DOMAIN exs PROVE List(exs[i]) \in Seq(X)
  <2> DEFINE ex == exs[i]
             h == ir.header_types[ex.header_type]
  <2>1. ex \in Extract
    BY <1>1
  <2>2. ex \in Extracts
    BY DEF Extracts, ToSet, StateAt
  <2>3. h \in Seq(FieldWidth)
    BY <1>1, <2>2 DEF InstancesOk, HeaderType
  <2>4. Len(h) \in Nat /\ DOMAIN h = 1..Len(h)
    BY <2>3
  <2>5. \A f \in 1..Len(h) : Field(ex, f) \in X
    <3> HIDE DEF Field
    <3> QED BY <2>1, <2>4
  <2>6. begin \in X /\ end \in X
    OBVIOUS
  <2> HIDE DEF X, h, Field, begin, end
  <2>7. [f \in 1..Len(h) |-> Field(ex, f)] \in Seq(X)
    BY <2>4, <2>5
  <2>8. Listed(ex) \in Seq(X)
    <3>1. Listed(ex) = [f \in DOMAIN h |-> Field(ex, f)]
      BY DEF h
    <3> QED BY <2>4, <2>7, <3>1
  <2> HIDE DEF Listed
  <2>9. <<begin>> \o Listed(ex) \o <<end>> \in Seq(X)
    BY <2>6, <2>8
  <2> QED BY <2>8, <2>9
<1> DEFINE Y == Seq(X)
<1> HIDE DEF X, List, Field, begin, end
<1>3. lists \in Seq(Y)
  <2>1. Len(exs) \in Nat /\ DOMAIN exs = 1..Len(exs)
    BY <1>1
  <2>2. \A i \in 1..Len(exs) : List(exs[i]) \in Y
    BY <1>2, <2>1
  <2> HIDE DEF exs, Y
  <2> QED BY <2>1, <2>2
<1> HIDE DEF lists
<1>4. FlattenSeq(lists) \in Seq(X)
  <2>1. <<>> \in Seq(X)
    OBVIOUS
  <2> QED BY <1>3, <2>1, FlattenSeqAppend DEF Y
<1>5. Items(q) = FlattenSeq(lists)
  BY DEF Items, lists, List, Field, begin, end
<1> QED BY <1>4, <1>5

\* Targets are there.
TargetHere(t) == t.kind = "state" => t.name \in DOMAIN ir.states

\* What the engine needs of a program that passed the structural checks.
LEMMA SchemaTypes ==
  ASSUME ir \in Programs, StructureOk
  PROVE  /\ ir.max_depth \in Nat
         /\ ir.start_state \in DOMAIN ir.states
         /\ \A q \in DOMAIN ir.states :
              /\ Len(Items(q)) \in Nat
              /\ Len(StateAt(q).region_ops) \in Nat
              /\ StateAt(q).transition.kind = "direct" => TargetHere(StateAt(q).transition.next)
              /\ StateAt(q).transition.kind = "select" =>
                   /\ DOMAIN StateAt(q).transition.arms \subseteq Nat
                   /\ IsFiniteSet(DOMAIN StateAt(q).transition.arms)
                   /\ \A i \in DOMAIN StateAt(q).transition.arms :
                        TargetHere(StateAt(q).transition.arms[i].next)
                   /\ TargetHere(StateAt(q).transition.default_target)
<1>1. ir \in Parser /\ InstancesOk /\ ir.start_state \in DOMAIN ir.states
  BY ProgramsAssumption DEF StructureOk
<1>2. ir.max_depth \in Nat /\ ir.states \in Seq(State)
  BY <1>1 DEF Parser
<1>3. ASSUME NEW q \in DOMAIN ir.states
      PROVE  /\ Len(Items(q)) \in Nat
             /\ Len(StateAt(q).region_ops) \in Nat
             /\ StateAt(q).transition.kind = "direct" => TargetHere(StateAt(q).transition.next)
             /\ StateAt(q).transition.kind = "select" =>
                  /\ DOMAIN StateAt(q).transition.arms \subseteq Nat
                  /\ IsFiniteSet(DOMAIN StateAt(q).transition.arms)
                  /\ \A i \in DOMAIN StateAt(q).transition.arms :
                       TargetHere(StateAt(q).transition.arms[i].next)
                  /\ TargetHere(StateAt(q).transition.default_target)
  <2> DEFINE s == StateAt(q)
             t == s.transition
  <2>1. s \in State /\ s \in ToSet(ir.states)
    BY <1>2 DEF StateAt, ToSet
  <2>2. s.region_ops \in Seq(RegionOp) /\ t \in Transition
    BY <2>1 DEF State
  <2>3. \A u \in TargetsOf(s) : TargetHere(u)
    BY <2>1 DEF StructureOk, TransitionsOk, TargetOk, TargetHere
  <2>4. Len(Items(q)) \in Nat
    BY <1>1, ItemsLength
  <2> HIDE DEF s
  <2>5. t.kind = "direct" => TargetHere(t.next)
    BY <2>3 DEF TargetsOf
  <2>6. ASSUME t.kind = "select"
        PROVE  /\ DOMAIN t.arms \subseteq Nat /\ IsFiniteSet(DOMAIN t.arms)
               /\ \A i \in DOMAIN t.arms : TargetHere(t.arms[i].next)
               /\ TargetHere(t.default_target)
    <3>1. t.arms \in Seq(SelectArm)
      BY <2>2, <2>6 DEF Transition
    <3>2. DOMAIN t.arms = 1..Len(t.arms) /\ Len(t.arms) \in Nat
      BY <3>1
    <3>3. IsFiniteSet(DOMAIN t.arms)
      BY <3>2, FS_Interval
    <3>4. TargetsOf(s) = {t.arms[i].next : i \in DOMAIN t.arms} \cup {t.default_target}
      BY <2>6 DEF TargetsOf
    <3> QED BY <2>3, <3>2, <3>3, <3>4
  <2> QED BY <2>2, <2>4, <2>5, <2>6 DEF s
<1> QED BY <1>1, <1>2, <1>3

----------------------------------------------------------------------------
(* The steps.                                                              *)

\* A frame with other fields changed is still one.
LEMMA Framing ==
  ASSUME NEW f, FrameOK(f), NEW g, DOMAIN g = DOMAIN f, g.depth = f.depth
  PROVE  FrameOK(g)
BY DEF FrameOK

\* What is known at an activation of a given function.
LEMMA AtCall ==
  ASSUME EInv, NEW do, At(do), do # "pop"
  PROVE  /\ calls # <<>> /\ Call.do = do /\ Call.do # "pop" /\ CallOK(Call)
         /\ FrameOK(Frame) /\ Frame.constraints = ctx.session.asserted
         /\ CtxOK(ctx) /\ ctx.failed = FALSE /\ Held(Call) = 0
         /\ Frame.depth \in 0..ir.max_depth /\ ir.max_depth \in Nat
<1>1. calls # <<>> /\ Call.do = do
  BY DEF At
<1>2. ir.max_depth \in Nat
  BY SchemaTypes DEF EInv
<1>3. FrameOK(Frame)
  BY <1>1, ActivationOK
<1> QED BY <1>1, <1>2, <1>3, ActivationOK DEF FrameOK

\* An activation takes the place of the running one, with its path condition.
LEMMA BecomesKept ==
  ASSUME EInv, calls # <<>>, Call.do # "pop", Kept(ctx, ctx'), NEW c, CallOK(c), c.do # "pop",
         Below(c, Call), c.frame.constraints = Frame.constraints, Become(<<c>>)
  PROVE  KeepsEngine
BY ActivationOK, BecomesOne DEF Kept

\* A ceiling was hit: the state is not walked.
LEMMA WalkNothingOK ==
  ASSUME EInv, WalkNothing
  PROVE  KeepsEngine
<1>1. Call.do # "pop" /\ calls # <<>> /\ CtxOK(ctx) /\ Return /\ ctx' = ctx
  BY AtCall DEF WalkNothing
<1>2. Kept(ctx, ctx')
  BY <1>1, KeptHere
<1> QED BY <1>1, <1>2, ReturnsKept

\* The depth bound is reached: the path is emitted.
LEMMA WalkTooDeepOK ==
  ASSUME EInv, WalkTooDeep
  PROVE  KeepsEngine
<1>1. Call.do # "pop" /\ calls # <<>> /\ CtxOK(ctx) /\ Return
  BY AtCall DEF WalkTooDeep
<1>2. Kept(ctx, ctx')
  BY <1>1, EmitOK DEF WalkTooDeep
<1> QED BY <1>1, <1>2, ReturnsKept

\* A state is entered: one entry fewer is left.
LEMMA WalkStateOK ==
  ASSUME EInv, WalkState
  PROVE  KeepsEngine
<1>1. /\ Call.do = "state" /\ calls # <<>> /\ CtxOK(ctx) /\ CallOK(Call) /\ FrameOK(Frame)
      /\ Call.state \in DOMAIN ir.states /\ Frame.depth < ir.max_depth
      /\ Frame.depth \in 0..ir.max_depth /\ ir.max_depth \in Nat /\ ctx.failed = FALSE
  BY AtCall DEF WalkState, CallOK, OfState
<1>2. CASE ~MayEnter(Call.state, Frame)
  <2>1. Return /\ Kept(ctx, ctx')
    BY <1>1, <1>2, KeptHere DEF WalkState
  <2> QED BY <1>1, <2>1, ReturnsKept
<1>3. CASE MayEnter(Call.state, Frame)
  <2> DEFINE g == [Entered EXCEPT !.depth = @ + 1, !.loop_counts[Call.state] = @ + 1]
             c == InExtracts(Call.state, 1, g)
  <2>1. ctx' = [ctx EXCEPT !.reached_states = @ \cup {Call.state}] /\ Become(<<c>>)
    BY <1>3 DEF WalkState
  <2>2. /\ DOMAIN ctx' = ContextFields /\ ctx'.session = ctx.session /\ ctx'.limits = ctx.limits
        /\ ctx'.failed = ctx.failed /\ ctx'.attempted_arms = ctx.attempted_arms
        /\ ctx'.feasible_arms = ctx.feasible_arms /\ ctx'.checks = ctx.checks
        /\ ctx'.paths = ctx.paths
        /\ ctx'.reached_states = ctx.reached_states \cup {Call.state}
        /\ ctx'.limit_exceeded = ctx.limit_exceeded
    BY <1>1, <2>1 DEF CtxOK, ContextFields
  <2>3. CtxOK(ctx')
    BY <1>1, <2>2 DEF CtxOK
  <2>4. Kept(ctx, ctx')
    BY <2>2, <2>3 DEF Kept, SameStack
  <2>5. DOMAIN g = DOMAIN Frame /\ g.depth = Frame.depth + 1 /\ g.constraints = Frame.constraints
    BY <1>1 DEF FrameOK, Entered
  <2> HIDE DEF g
  <2>6. FrameOK(g)
    BY <1>1, <2>5 DEF FrameOK
  <2>7. c.do = "extracts" /\ c.frame = g /\ c.state = Call.state /\ c.idx = 1
    BY DEF InExtracts
  <2> HIDE DEF c
  <2>8. CallOK(c)
    <3>1. Len(Items(c.state)) \in Nat
      BY <1>1, <2>7, SchemaTypes DEF EInv
    <3> QED BY <1>1, <2>6, <2>7, <3>1 DEF CallOK, OfState, Walks
  <2>9. Below(c, Call)
    BY <1>1, <2>5, <2>7 DEF Below, Left, Frame
  <2> QED BY <1>1, <2>1, <2>4, <2>5, <2>7, <2>8, <2>9, BecomesKept
<1> QED BY <1>2, <1>3

\* The next item, with the frame moved on.
LEMMA NextItemOK ==
  ASSUME EInv, At("extracts"), Call.idx <= Len(ItemsHere), NEW g, FrameOK(g),
         g.depth = Frame.depth
  PROVE  /\ CallOK(NextItem(g)) /\ Below(NextItem(g), Call)
         /\ NextItem(g).do # "pop" /\ NextItem(g).frame = g
<1> DEFINE c == NextItem(g)
<1>1. c.do = "extracts" /\ c.frame = g /\ c.state = Call.state /\ c.idx = Call.idx + 1
  BY DEF NextItem, InExtracts
<1> HIDE DEF c
<1>2. /\ Call.do = "extracts" /\ CallOK(Call) /\ Frame.depth \in 0..ir.max_depth
      /\ ir.max_depth \in Nat
  BY AtCall
<1>3. Call.state \in DOMAIN ir.states /\ Call.idx \in 1..(Len(Items(Call.state)) + 1)
  BY <1>2 DEF CallOK, OfState
<1>4. Len(Items(Call.state)) \in Nat /\ Call.idx <= Len(Items(Call.state))
  BY <1>3, SchemaTypes DEF EInv, ItemsHere
<1>5. CallOK(c)
  BY <1>1, <1>3, <1>4 DEF CallOK, OfState, Walks
<1>6. Left(c) = Left(Call) /\ Phase(c) = Phase(Call)
  BY <1>1, <1>2 DEF Left, Phase, Frame
<1>7. Rest(c) < Rest(Call)
  BY <1>1, <1>2, <1>3, <1>4 DEF Rest
<1>8. Below(c, Call)
  BY <1>2, <1>6, <1>7 DEF Below
<1> QED BY <1>1, <1>5, <1>8 DEF c

\* A lookahead begins.
LEMMA BeginPeekOK ==
  ASSUME EInv, BeginPeek
  PROVE  KeepsEngine
<1> DEFINE g == [Frame EXCEPT !.peek_saved =
                   Append(@, [cursor |-> Frame.cursor, cursor_min |-> Frame.cursor_min,
                              peek_overhang |-> Frame.peek_overhang])]
<1>1. At("extracts") /\ Call.idx <= Len(ItemsHere) /\ Become(<<NextItem(g)>>) /\ ctx' = ctx
  BY DEF BeginPeek, AtItem
<1>2. calls # <<>> /\ Call.do # "pop" /\ FrameOK(Frame) /\ CtxOK(ctx)
  BY <1>1, AtCall
<1>3. DOMAIN g = DOMAIN Frame /\ g.depth = Frame.depth /\ g.constraints = Frame.constraints
  BY <1>2 DEF FrameOK
<1> HIDE DEF g
<1>4. FrameOK(g) /\ Kept(ctx, ctx')
  BY <1>1, <1>2, <1>3, Framing, KeptHere
<1> QED BY <1>1, <1>2, <1>3, <1>4, NextItemOK, BecomesKept

\* A lookahead ends.
LEMMA EndPeekOK ==
  ASSUME EInv, EndPeek
  PROVE  KeepsEngine
<1> DEFINE saved == Last(Frame.peek_saved)
           width == Frame.cursor_min - saved.cursor_min
           g == [Frame EXCEPT !.peek_saved = Front(@), !.cursor = saved.cursor,
                              !.cursor_min = saved.cursor_min,
                              !.peek_overhang = AtLeast(saved.peek_overhang, width)]
<1>1. At("extracts") /\ Call.idx <= Len(ItemsHere) /\ Become(<<NextItem(g)>>) /\ ctx' = ctx
  BY DEF EndPeek, AtItem
<1>2. calls # <<>> /\ Call.do # "pop" /\ FrameOK(Frame) /\ CtxOK(ctx)
  BY <1>1, AtCall
<1>3. DOMAIN g = DOMAIN Frame /\ g.depth = Frame.depth /\ g.constraints = Frame.constraints
  BY <1>2 DEF FrameOK
<1> HIDE DEF g
<1>4. FrameOK(g) /\ Kept(ctx, ctx')
  BY <1>1, <1>2, <1>3, Framing, KeptHere
<1> QED BY <1>1, <1>2, <1>3, <1>4, NextItemOK, BecomesKept

\* A field that is read, or skipped, in a world.
LEMMA FieldOn ==
  ASSUME EInv, AtItem("field"), NEW w, GoesOn(ctx, Frame, w), Kept(w.ctx, ctx'),
         NEW g, DOMAIN g = DOMAIN w.frame, g.depth = w.frame.depth,
         g.constraints = w.frame.constraints, GoOn(w, NextItem(g))
  PROVE  KeepsEngine
<1>1. At("extracts") /\ Call.idx <= Len(ItemsHere)
  BY DEF AtItem
<1>2. calls # <<>> /\ Call.do # "pop"
  BY <1>1, AtCall
<1>3. FrameOK(w.frame) /\ w.frame.depth = Frame.depth
  BY DEF GoesOn
<1>4. FrameOK(g) /\ g.depth = Frame.depth
  BY <1>3, Framing
<1>5. /\ CallOK(NextItem(g)) /\ Below(NextItem(g), Call)
      /\ NextItem(g).do # "pop" /\ NextItem(g).frame = g
  BY <1>1, <1>4, NextItemOK
<1> QED BY <1>2, <1>5, GoesOnOK

\* A read forks its truncation and goes on.
LEMMA ReadOnOK ==
  ASSUME EInv, AtItem("field"), NEW w, GoesOn(ctx, Frame, w), NEW read, ReadOn(w, read)
  PROVE  KeepsEngine
<1> DEFINE n == Item.width.bits
           f == w.frame
           g == [f EXCEPT
                  !.peek_reads = IF Item.in_peek
                                 THEN Append(@, Addends(f.cursor) @@ [read |-> read]) ELSE @,
                  !.placed = (<<Item.inst, Item.field>> :> read) @@ @,
                  !.cursor = TAdd(@, Cst(n)),
                  !.cursor_min = @ + n,
                  !.peek_overhang = AtLeast(@ - n, 0)]
           truncated == Emit(w.ctx, Along(f, <<>>, <<Segment("trunc")>>), Truncates,
                             TAdd(f.cursor, Cst(n - 1)), f.cursor_min + n - 1)
<1>1. GoOn(w, NextItem(g)) /\ ctx' = (IF n > f.peek_overhang THEN truncated ELSE w.ctx)
  BY DEF ReadOn
<1>2. CtxOK(w.ctx) /\ FrameOK(w.frame)
  BY DEF GoesOn
<1>3. Kept(w.ctx, truncated) /\ Kept(w.ctx, w.ctx)
  BY <1>2, EmitOK, KeptHere
<1> HIDE DEF truncated
<1>4. Kept(w.ctx, ctx')
  BY <1>1, <1>3
<1>5. DOMAIN g = DOMAIN w.frame /\ g.depth = w.frame.depth /\ g.constraints = w.frame.constraints
  BY <1>2 DEF FrameOK
<1> HIDE DEF g
<1> QED BY <1>1, <1>4, <1>5, FieldOn

\* A field of a fixed width is read.
LEMMA FixedFieldOK ==
  ASSUME EInv, FixedField
  PROVE  KeepsEngine
<1> DEFINE f == Frame
           read == ReadAt(f.cursor, Item.width.bits)
           crosses == Exceeds(TAdd(f.cursor, Cst(Item.width.bits)), TopOf(f))
           forked == Fork(ctx, f, <<crosses>>, Segment("roob"), Rejects("out of region bounds"),
                          Slacked(f, f.cursor), MinLength(f))
           fits == IF f.regions = <<>> THEN World(ctx, f)
                   ELSE Narrow(World(forked, f), <<Not(crosses)>>)
           w == Narrow(fits, AliasConstraints(f, read))
<1>1. AtItem("field") /\ IF AliasUnknown(f, read) THEN Bail ELSE ReadOn(w, read)
  BY DEF FixedField
<1>2. /\ calls # <<>> /\ Call.do # "pop" /\ CtxOK(ctx) /\ FrameOK(f)
      /\ f.constraints = ctx.session.asserted
  BY <1>1, AtCall DEF AtItem
<1>3. Kept(ctx, forked) /\ Kept(ctx, ctx)
  BY <1>2, ForkOK, KeptHere
<1> HIDE DEF forked
<1>4. GoesOn(ctx, f, World(forked, f)) /\ GoesOn(ctx, f, World(ctx, f))
  BY <1>2, <1>3, WorldOK
<1>5. GoesOn(ctx, f, Narrow(World(forked, f), <<Not(crosses)>>))
  BY <1>2, <1>4, NarrowOK
<1>6. GoesOn(ctx, f, fits)
  BY <1>4, <1>5
<1> HIDE DEF fits
<1>7. GoesOn(ctx, f, w)
  BY <1>2, <1>6, NarrowOK
<1> HIDE DEF w, read
<1>8. CASE AliasUnknown(f, read)
  BY <1>1, <1>2, <1>8, BailOK
<1>9. CASE ~AliasUnknown(f, read)
  BY <1>1, <1>7, <1>9, ReadOnOK
<1> QED BY <1>8, <1>9

\* A run's body is skipped: its truncation is forked and the walk goes on.
LEMMA SkipOnOK ==
  ASSUME EInv, AtItem("field"), NEW w, GoesOn(ctx, Frame, w), NEW len, NEW bound,
         SkipOn(w, len, bound)
  PROVE  KeepsEngine
<1> DEFINE f == w.frame
           least == AtMost(Interval(len).lo, bound)
           floor == f.peek_overhang + 1
           forked == Fork(w.ctx, f, <<InRange(len, floor, bound)>>, Segment("trunc"), Truncates,
                          TSub(TAdd(f.cursor, len), Cst(1)),
                          f.cursor_min + AtLeast(least, floor) - 1)
           g == [f EXCEPT !.cursor = TAdd(@, len), !.cursor_min = @ + least,
                          !.peek_overhang = AtLeast(@ - least, 0)]
<1>1. GoOn(w, NextItem(g)) /\ ctx' = (IF floor <= bound THEN forked ELSE w.ctx)
  BY DEF SkipOn
<1>2. CtxOK(w.ctx) /\ FrameOK(w.frame)
  BY DEF GoesOn
<1>3. Kept(w.ctx, forked) /\ Kept(w.ctx, w.ctx)
  BY <1>2, ForkOK, KeptHere
<1> HIDE DEF forked
<1>4. Kept(w.ctx, ctx')
  BY <1>1, <1>3
<1>5. DOMAIN g = DOMAIN w.frame /\ g.depth = w.frame.depth /\ g.constraints = w.frame.constraints
  BY <1>2 DEF FrameOK
<1> HIDE DEF g
<1> QED BY <1>1, <1>4, <1>5, FieldOn

\* A run is read, whether its length wraps, is cut or fits.
LEMMA RunFieldOK ==
  ASSUME EInv, RunField
  PROVE  KeepsEngine
<1> DEFINE f == Frame
           len == TermOf(Item.width.expr, f)
           bound == BoundOf(Item.width.expr)
           inside == f.regions # <<>>
           too_long == InRange(len, bound + 1, WordSize - 1)
           crosses == Exceeds(TAdd(f.cursor, len), TopOf(f))
           delta == <<IF inside THEN OneOf(<<too_long, crosses>>) ELSE too_long>>
           forked == Fork(ctx, f, delta,
                          Segment(IF inside THEN "roob" ELSE "oob"),
                          Rejects(IF inside THEN "out of region bounds" ELSE "out of bounds"),
                          Slacked(f, f.cursor), MinLength(f))
           rest == <<InRange(len, 0, bound)>> \o (IF inside THEN <<Not(crosses)>> ELSE <<>>)
           w == Narrow(World(forked, f), rest)
<1>1. /\ AtItem("field")
      /\ IF ~Translates(Item.width.expr, Frame) THEN Bail ELSE SkipOn(w, len, bound)
  BY DEF RunField
<1>2. /\ calls # <<>> /\ Call.do # "pop" /\ CtxOK(ctx) /\ FrameOK(f)
      /\ f.constraints = ctx.session.asserted
  BY <1>1, AtCall DEF AtItem
<1>3. Kept(ctx, forked)
  <2> HIDE DEF delta
  <2> QED BY <1>2, ForkOK
<1> HIDE DEF forked
<1>4. GoesOn(ctx, f, World(forked, f))
  BY <1>2, <1>3, WorldOK
<1> HIDE DEF rest
<1>5. GoesOn(ctx, f, w)
  BY <1>2, <1>4, NarrowOK
<1> HIDE DEF w, len, bound
<1>6. CASE ~Translates(Item.width.expr, Frame)
  BY <1>1, <1>2, <1>6, BailOK
<1>7. CASE Translates(Item.width.expr, Frame)
  BY <1>1, <1>5, <1>7, SkipOnOK
<1> QED BY <1>6, <1>7

\* The scopes of what has been walked are left.
LEMMA LeaveOK ==
  ASSUME EInv, Leave
  PROVE  KeepsEngine
<1> DEFINE n == Call.scopes
           t == Session!Pop(ctx.session, n)
<1>1. calls # <<>> /\ Call.do = "pop" /\ Return /\ ctx' = [ctx EXCEPT !.session = t]
  BY DEF Leave, At
<1>2. /\ CtxOK(ctx) /\ ctx.failed = FALSE /\ SessionOK(ctx.session) /\ CallOK(Call)
      /\ IsSequence(calls) /\ StackOK(calls, ctx.session) /\ Held(Call) = n /\ n \in Nat
  BY <1>1, ActivationOK, HeldType DEF Held
<1>3. n <= Len(ctx.session.saved)
  <2>1. PICK lv : Levels(calls, lv) /\ Matches(calls, ctx.session, lv)
    BY <1>2 DEF StackOK, Balanced
  <2>2. Len(calls) \in Nat \ {0} /\ Call = calls[Len(calls)] /\ Len(ctx.session.saved) \in Nat
    BY <1>1, <1>2, FrontOf, AppendTo DEF Call, SessionOK
  <2>3. /\ lv[Len(calls)] = lv[Len(calls) - 1] + n
        /\ lv[Len(calls) - 1] \in Nat \ {0}
        /\ lv[Len(calls)] = Len(ctx.session.saved) + 1
    BY <1>2, <2>1, <2>2 DEF Levels, Matches
  <2> HIDE DEF n
  <2> QED BY <1>2, <2>2, <2>3
<1>4. SessionOK(t) /\ Extends(t, ctx.session, n)
  <2> HIDE DEF n
  <2> QED BY <1>2, <1>3, LeaveScopes, Zenon
<1> HIDE DEF t
<1>5. /\ DOMAIN ctx' = ContextFields /\ ctx'.session = t /\ ctx'.limits = ctx.limits
      /\ ctx'.failed = ctx.failed /\ ctx'.attempted_arms = ctx.attempted_arms
      /\ ctx'.feasible_arms = ctx.feasible_arms /\ ctx'.checks = ctx.checks
      /\ ctx'.paths = ctx.paths /\ ctx'.reached_states = ctx.reached_states
      /\ ctx'.limit_exceeded = ctx.limit_exceeded
  BY <1>1, <1>2 DEF CtxOK, ContextFields
<1>6. CtxOK(ctx')
  BY <1>2, <1>4, <1>5 DEF CtxOK
<1> QED BY <1>1, <1>2, <1>4, <1>5, <1>6, Returns

\* The region operations are over: the state's transition is walked.
LEMMA WalkTransitionOK ==
  ASSUME EInv, WalkTransition
  PROVE  KeepsEngine
<1> DEFINE assigns == StateAt(Call.state).assigns
           g == Assigned(Frame, assigns)
           c == InOps(Call.state, 1, g)
<1>1. /\ At("extracts")
      /\ IF \E i \in DOMAIN assigns : ~Resolves(assigns[i].value, Frame) THEN Bail
         ELSE Become(<<c>>) /\ UNCHANGED ctx
  BY DEF WalkTransition
<1>2. /\ calls # <<>> /\ Call.do = "extracts" /\ CtxOK(ctx) /\ CallOK(Call) /\ FrameOK(Frame)
      /\ Frame.depth \in 0..ir.max_depth /\ ir.max_depth \in Nat
  BY <1>1, AtCall
<1>3. CASE \E i \in DOMAIN assigns : ~Resolves(assigns[i].value, Frame)
  BY <1>1, <1>2, <1>3, BailOK
<1>4. CASE ~(\E i \in DOMAIN assigns : ~Resolves(assigns[i].value, Frame))
  <2>1. Become(<<c>>) /\ ctx' = ctx
    BY <1>1, <1>4
  <2>2. DOMAIN g = DOMAIN Frame /\ g.depth = Frame.depth /\ g.constraints = Frame.constraints
    BY <1>2 DEF Assigned, FrameOK
  <2> HIDE DEF g
  <2>3. c.do = "ops" /\ c.frame = g /\ c.state = Call.state /\ c.idx = 1
    BY DEF InOps
  <2> HIDE DEF c
  <2>4. CallOK(c)
    <3>1. Call.state \in DOMAIN ir.states /\ Len(StateAt(Call.state).region_ops) \in Nat
      BY <1>2, SchemaTypes DEF EInv, CallOK, OfState
    <3>2. FrameOK(g)
      BY <1>2, <2>2, Framing
    <3> QED BY <2>3, <3>1, <3>2 DEF CallOK, OfState, Walks
  <2>5. Below(c, Call)
    BY <1>2, <2>2, <2>3 DEF Below, Left, Phase, Frame
  <2>6. Kept(ctx, ctx')
    BY <1>2, <2>1, KeptHere
  <2> QED BY <1>2, <2>1, <2>2, <2>3, <2>4, <2>5, <2>6, BecomesKept
<1> QED BY <1>3, <1>4

\* A region operation that has been done in a world.
LEMMA OpOnOK ==
  ASSUME EInv, At("ops"), Call.idx <= Len(OpsHere), NEW w, GoesOn(ctx, Frame, w),
         NEW g, DOMAIN g = DOMAIN w.frame, g.depth = w.frame.depth,
         g.constraints = w.frame.constraints, OpOn(w, g)
  PROVE  KeepsEngine
<1> DEFINE c == NextOp(g)
<1>1. /\ calls # <<>> /\ Call.do = "ops" /\ CallOK(Call) /\ Frame.depth \in 0..ir.max_depth
      /\ ir.max_depth \in Nat
  BY AtCall
<1>2. c.do = "ops" /\ c.frame = g /\ c.state = Call.state /\ c.idx = Call.idx + 1
  BY DEF NextOp, InOps
<1>3. GoOn(w, c) /\ ctx' = w.ctx
  BY DEF OpOn
<1> HIDE DEF c
<1>4. /\ Call.state \in DOMAIN ir.states
      /\ Call.idx \in 1..(Len(StateAt(Call.state).region_ops) + 1)
  BY <1>1 DEF CallOK, OfState
<1>5. /\ Len(StateAt(Call.state).region_ops) \in Nat
      /\ Call.idx <= Len(StateAt(Call.state).region_ops)
  BY <1>4, SchemaTypes DEF EInv, OpsHere
<1>6. FrameOK(g) /\ g.depth = Frame.depth
  BY Framing DEF GoesOn
<1>7. CallOK(c)
  BY <1>2, <1>4, <1>5, <1>6 DEF CallOK, OfState, Walks
<1>8. Left(c) = Left(Call) /\ Phase(c) = Phase(Call)
  BY <1>1, <1>2, <1>6 DEF Left, Phase, Frame
<1>9. Rest(c) < Rest(Call)
  BY <1>1, <1>2, <1>4, <1>5 DEF Rest
<1>10. Below(c, Call)
  BY <1>1, <1>8, <1>9 DEF Below
<1>11. Kept(w.ctx, ctx')
  BY <1>3, KeptHere DEF GoesOn
<1> QED BY <1>1, <1>2, <1>3, <1>7, <1>10, <1>11, GoesOnOK

\* A region is pushed.
LEMMA WalkPushOK ==
  ASSUME EInv, WalkPush
  PROVE  KeepsEngine
<1> DEFINE f == Frame
           len == TermOf(OpHere.len, f)
           end == TAdd(f.cursor, len)
           too_long == InRange(len, BoundOf(OpHere.len) + 1, WordSize - 1)
           fail == OneOf(IF f.regions = <<>> THEN <<too_long>>
                         ELSE <<too_long, Exceeds(end, TopOf(f))>>)
           forked == Fork(ctx, f, <<fail>>, <<"rpush", Call.state, Call.idx>>,
                          Rejects("region out of bounds"), Slacked(f, f.cursor), MinLength(f))
           w == Narrow(World(forked, f), <<Not(fail)>>)
           g == [w.frame EXCEPT !.regions = Append(@, end)]
<1>1. /\ At("ops") /\ Call.idx <= Len(OpsHere)
      /\ IF ~Translates(OpHere.len, Frame) THEN Bail ELSE OpOn(w, g)
  BY DEF WalkPush, AtOp
<1>2. /\ calls # <<>> /\ Call.do # "pop" /\ CtxOK(ctx) /\ FrameOK(f)
      /\ f.constraints = ctx.session.asserted
  BY <1>1, AtCall
<1> HIDE DEF fail
<1>3. Kept(ctx, forked)
  BY <1>2, ForkOK
<1> HIDE DEF forked
<1>4. GoesOn(ctx, f, World(forked, f))
  BY <1>2, <1>3, WorldOK
<1>5. GoesOn(ctx, f, w)
  BY <1>2, <1>4, NarrowOK
<1> HIDE DEF w
<1>6. DOMAIN g = DOMAIN w.frame /\ g.depth = w.frame.depth /\ g.constraints = w.frame.constraints
  BY <1>5 DEF GoesOn, FrameOK
<1> HIDE DEF g
<1>7. CASE ~Translates(OpHere.len, Frame)
  BY <1>1, <1>2, <1>7, BailOK
<1>8. CASE Translates(OpHere.len, Frame)
  BY <1>1, <1>5, <1>6, <1>8, OpOnOK
<1> QED BY <1>7, <1>8

\* A region is popped.
LEMMA WalkPopOK ==
  ASSUME EInv, WalkPop
  PROVE  KeepsEngine
<1> DEFINE end == TopOf(Frame)
           f == [Frame EXCEPT !.regions = Front(@)]
           delta == <<Exceeds(end, f.cursor)>>
           forked == Fork(ctx, f, delta, <<"rtrail", Call.state, Call.idx>>,
                          Rejects("region not exhausted"), Slacked(f, end), MinLength(f))
           rest == <<Equals(TSub(end, f.cursor), 0)>>
           w == Narrow(World(forked, f), rest)
<1>1. /\ At("ops") /\ Call.idx <= Len(OpsHere)
      /\ IF Frame.regions = <<>> THEN Bail ELSE OpOn(w, w.frame)
  BY DEF WalkPop, AtOp
<1>2. /\ calls # <<>> /\ Call.do # "pop" /\ CtxOK(ctx) /\ FrameOK(Frame)
      /\ Frame.constraints = ctx.session.asserted
  BY <1>1, AtCall
<1>3. DOMAIN f = DOMAIN Frame /\ f.depth = Frame.depth /\ f.constraints = Frame.constraints
  BY <1>2 DEF FrameOK
<1> HIDE DEF delta, rest, end
<1>4. Kept(ctx, forked)
  <2> HIDE DEF f
  <2> QED BY <1>2, ForkOK
<1> HIDE DEF forked, f
<1>5. FrameOK(f)
  BY <1>2, <1>3, Framing
<1>6. GoesOn(ctx, f, World(forked, f))
  BY <1>2, <1>3, <1>4, <1>5, WorldOK
<1>7. GoesOn(ctx, f, w)
  BY <1>2, <1>6, NarrowOK
<1> HIDE DEF w
<1>8. GoesOn(ctx, Frame, w)
  BY <1>3, <1>7 DEF GoesOn
<1>9. CASE Frame.regions = <<>>
  BY <1>1, <1>2, <1>9, BailOK
<1>10. CASE Frame.regions # <<>>
  BY <1>1, <1>8, <1>10, OpOnOK
<1> QED BY <1>9, <1>10

\* The operations of a state end.
LEMMA EndOpsOK ==
  ASSUME EInv, EndOps
  PROVE  KeepsEngine
<1> DEFINE c == InDispatch(Call.state, Frame)
<1>1. At("ops") /\ Become(<<c>>) /\ ctx' = ctx
  BY DEF EndOps
<1>2. /\ calls # <<>> /\ Call.do = "ops" /\ CtxOK(ctx) /\ CallOK(Call) /\ FrameOK(Frame)
      /\ Frame.depth \in 0..ir.max_depth /\ ir.max_depth \in Nat
  BY <1>1, AtCall
<1>3. c.do = "dispatch" /\ c.frame = Frame /\ c.state = Call.state
  BY DEF InDispatch
<1> HIDE DEF c
<1>4. CallOK(c) /\ Below(c, Call)
  BY <1>2, <1>3 DEF CallOK, OfState, Walks, Below, Left, Phase, Frame
<1>5. Kept(ctx, ctx')
  BY <1>1, <1>2, KeptHere
<1> QED BY <1>1, <1>2, <1>3, <1>4, <1>5, BecomesKept

\* A direct transition is taken.
LEMMA DispatchDirectOK ==
  ASSUME EInv, DispatchDirect
  PROVE  KeepsEngine
<1> DEFINE c == InTarget(TransitionHere.next, Frame)
<1>1. At("dispatch") /\ TransitionHere.kind = "direct" /\ Become(<<c>>) /\ ctx' = ctx
  BY DEF DispatchDirect
<1>2. /\ calls # <<>> /\ Call.do = "dispatch" /\ CtxOK(ctx) /\ CallOK(Call) /\ FrameOK(Frame)
      /\ Frame.depth \in 0..ir.max_depth /\ ir.max_depth \in Nat
  BY <1>1, AtCall
<1>3. c.do = "target" /\ c.frame = Frame /\ c.target = TransitionHere.next
  BY DEF InTarget
<1> HIDE DEF c
<1>4. CallOK(c)
  <2>1. Call.state \in DOMAIN ir.states
    BY <1>2 DEF CallOK, OfState
  <2>2. TargetHere(c.target)
    BY <1>1, <1>3, <2>1, SchemaTypes DEF EInv, TransitionHere
  <2> QED BY <1>2, <1>3, <2>2 DEF CallOK, OfState, Walks, TargetHere
<1>5. Below(c, Call)
  BY <1>2, <1>3 DEF Below, Left, Phase, Frame
<1>6. Kept(ctx, ctx')
  BY <1>1, <1>2, KeptHere
<1> QED BY <1>1, <1>2, <1>3, <1>4, <1>5, <1>6, BecomesKept

\* A select: its arms are tried from the first.
LEMMA DispatchSelectOK ==
  ASSUME EInv, DispatchSelect
  PROVE  KeepsEngine
<1> DEFINE t == TransitionHere
           c == InArms(Call.state, Leaders(t.arms), Frame)
           unresolved == \E j \in DOMAIN t.keys : ~Resolves(t.keys[j], Frame)
<1>1. /\ At("dispatch") /\ t.kind = "select"
      /\ IF unresolved THEN Bail ELSE Become(<<c>>) /\ UNCHANGED ctx
  BY DEF DispatchSelect
<1>2. /\ calls # <<>> /\ Call.do = "dispatch" /\ CtxOK(ctx) /\ CallOK(Call) /\ FrameOK(Frame)
      /\ Frame.depth \in 0..ir.max_depth /\ ir.max_depth \in Nat
  BY <1>1, AtCall
<1>3. c.do = "arms" /\ c.frame = Frame /\ c.state = Call.state /\ c.left = Leaders(t.arms)
  BY DEF InArms
<1> HIDE DEF c, unresolved
<1>4. CASE unresolved
  BY <1>1, <1>2, <1>4, BailOK
<1>5. CASE ~unresolved
  <2>1. CallOK(c)
    <3>1. Call.state \in DOMAIN ir.states
      BY <1>2 DEF CallOK, OfState
    <3>2. c.left \subseteq DOMAIN t.arms
      BY <1>3 DEF Leaders
    <3> QED BY <1>1, <1>2, <1>3, <3>1, <3>2 DEF CallOK, OfState, Walks, TransitionHere
  <2>2. Below(c, Call)
    BY <1>2, <1>3 DEF Below, Left, Phase, Frame
  <2>3. Kept(ctx, ctx') /\ Become(<<c>>)
    BY <1>1, <1>2, <1>5, KeptHere
  <2> QED BY <1>2, <1>3, <2>1, <2>2, <2>3, BecomesKept
<1> QED BY <1>4, <1>5

\* The next group: its target is walked in a scope, or the scope is left again.
LEMMA TryArmsOK ==
  ASSUME EInv, TryArms
  PROVE  KeepsEngine
<1> DEFINE t == TransitionHere
           first == Min(Call.left)
           members == GroupOf(t.arms, first)
           delta == GroupDelta(ArmConstraints(t, Frame), members, first)
           a == Assume(ctx, delta)
           assumed == [a EXCEPT !.attempted_arms = @ \cup ArmsOf(members)]
           checked == CheckOf(assumed)
           rest == InArms(Call.state, Call.left \ {first}, Frame)
           child == Along(Frame, delta, <<<<"arm", first, 0>>>>)
           target == InTarget(t.arms[first].next, child)
<1>1. /\ At("arms") /\ Call.left # {}
      /\ \/ /\ Feasible(assumed)
            /\ ctx' = [checked EXCEPT !.feasible_arms = @ \cup ArmsOf(members)]
            /\ Become(<<rest, PopScopes(1), target>>)
         \/ /\ ~Feasible(assumed)
            /\ ctx' = Release(checked)
            /\ Become(<<rest>>)
  BY DEF TryArms
<1>2. /\ calls # <<>> /\ Call.do = "arms" /\ CtxOK(ctx) /\ CallOK(Call) /\ FrameOK(Frame)
      /\ Frame.depth \in 0..ir.max_depth /\ ir.max_depth \in Nat /\ ctx.failed = FALSE
      /\ Frame.constraints = ctx.session.asserted
  BY <1>1, AtCall
<1>3. /\ Call.state \in DOMAIN ir.states /\ t.kind = "select"
      /\ Call.left \subseteq DOMAIN t.arms
      /\ DOMAIN t.arms \subseteq Nat /\ IsFiniteSet(DOMAIN t.arms)
      /\ \A i \in DOMAIN t.arms : TargetHere(t.arms[i].next)
  BY <1>2, SchemaTypes DEF EInv, TransitionHere, CallOK, OfState
<1> HIDE DEF t
<1>4. first \in Call.left
  BY <1>1, <1>3, MinIn
<1> HIDE DEF first, members, delta
<1>5. /\ rest.do = "arms" /\ rest.frame = Frame /\ rest.state = Call.state
      /\ rest.left = Call.left \ {first}
  BY DEF InArms
<1>6. target.do = "target" /\ target.frame = child /\ target.target = t.arms[first].next
  BY DEF InTarget
<1>7. FrameOK(child) /\ child.depth = Frame.depth /\ child.constraints = Frame.constraints \o delta
  BY <1>2, AlongOK
<1> HIDE DEF rest, child, target
<1>8. CallOK(rest)
  BY <1>2, <1>3, <1>5 DEF CallOK, OfState, Walks, t, TransitionHere
<1>9. CallOK(target)
  BY <1>3, <1>4, <1>6, <1>7 DEF CallOK, OfState, Walks, TargetHere
<1>10. Below(rest, Call)
  <2>1. Left(rest) = Left(Call) /\ Phase(rest) = Phase(Call)
    BY <1>2, <1>5 DEF Left, Phase, Frame
  <2>2. Cardinality(Call.left \ {first}) = Cardinality(Call.left) - 1 /\ Cardinality(Call.left) \in Nat
    <3>1. IsFiniteSet(Call.left)
      BY <1>3, FS_Subset
    <3> QED BY <1>4, <3>1, FS_RemoveElement, FS_CardinalityType
  <2>3. Rest(rest) < Rest(Call)
    BY <1>2, <1>5, <2>2 DEF Rest
  <2> QED BY <1>2, <2>1, <2>3 DEF Below
<1>11. Below(target, Call)
  BY <1>2, <1>6, <1>7 DEF Below, Left, Phase, Frame
<1>12. /\ CtxOK(a) /\ a.failed = FALSE /\ Extends(ctx.session, a.session, 1)
       /\ a.session.asserted = ctx.session.asserted \o delta
  BY <1>2, AssumeOK, AssumeExtends
<1> HIDE DEF a
<1>13. /\ DOMAIN assumed = ContextFields /\ assumed.session = a.session
       /\ assumed.limits = a.limits /\ assumed.failed = a.failed
       /\ assumed.attempted_arms = a.attempted_arms \cup ArmsOf(members)
       /\ assumed.feasible_arms = a.feasible_arms /\ assumed.checks = a.checks
       /\ assumed.paths = a.paths /\ assumed.reached_states = a.reached_states
       /\ assumed.limit_exceeded = a.limit_exceeded
  BY <1>12 DEF CtxOK, ContextFields
<1> HIDE DEF assumed
<1>14. CtxOK(assumed)
  BY <1>12, <1>13 DEF CtxOK
<1>15. Kept(assumed, checked)
  BY <1>14, CheckOfOK
<1>16. /\ CtxOK(checked) /\ checked.failed = FALSE /\ SameStack(a.session, checked.session)
       /\ ArmsOf(members) \subseteq checked.attempted_arms
  BY <1>12, <1>13, <1>15 DEF Kept
<1> HIDE DEF checked
<1>17. ASSUME ctx' = [checked EXCEPT !.feasible_arms = @ \cup ArmsOf(members)],
              Become(<<rest, PopScopes(1), target>>)
       PROVE  KeepsEngine
  <2>1. /\ DOMAIN ctx' = ContextFields /\ ctx'.session = checked.session
        /\ ctx'.limits = checked.limits /\ ctx'.failed = checked.failed
        /\ ctx'.attempted_arms = checked.attempted_arms
        /\ ctx'.feasible_arms = checked.feasible_arms \cup ArmsOf(members)
        /\ ctx'.checks = checked.checks /\ ctx'.paths = checked.paths
        /\ ctx'.reached_states = checked.reached_states
        /\ ctx'.limit_exceeded = checked.limit_exceeded
    BY <1>16, <1>17 DEF CtxOK, ContextFields
  <2>2. CtxOK(ctx')
    BY <1>16, <2>1 DEF CtxOK
  <2>3. Extends(ctx.session, ctx'.session, 1)
    BY <1>12, <1>16, <2>1 DEF Extends, SameStack, AssertedAt
  <2>4. target.frame.constraints = ctx'.session.asserted
    BY <1>2, <1>6, <1>7, <1>12, <1>16, <2>1 DEF SameStack
  <2>5. /\ rest.do # "pop" /\ rest.frame.constraints = Frame.constraints /\ target.do # "pop"
        /\ ctx'.failed = FALSE /\ Call.do # "pop" /\ 1 \in Nat
    BY <1>2, <1>5, <1>6, <1>16, <2>1
  <2> QED BY <1>2, <1>8, <1>9, <1>10, <1>11, <1>17, <2>2, <2>3, <2>4, <2>5, BecomesThree
<1>18. ASSUME ctx' = Release(checked), Become(<<rest>>)
       PROVE  KeepsEngine
  <2>1. CtxOK(ctx') /\ SameStack(ctx.session, ctx'.session) /\ ctx'.failed = FALSE
    BY <1>2, <1>16, <1>18, ReleaseStack DEF a
  <2>2. /\ rest.do # "pop" /\ rest.frame.constraints = Frame.constraints /\ Call.do # "pop"
    BY <1>2, <1>5
  <2> QED BY <1>2, <1>8, <1>10, <1>18, <2>1, <2>2, BecomesOne
<1> QED BY <1>1, <1>17, <1>18

\* The default of a select is tried after its arms.
LEMMA TryDefaultOK ==
  ASSUME EInv, TryDefault
  PROVE  KeepsEngine
<1> DEFINE t == TransitionHere
           conds == ArmConstraints(t, Frame)
           delta == [i \in DOMAIN conds |-> Not(conds[i])]
           a == Assume(ctx, delta)
           checked == CheckOf(a)
           child == Along(Frame, delta, <<<<"default", 0, 0>>>>)
           target == InTarget(t.default_target, child)
           emitted == Emit(checked, child, Rejects("no matching select arm"),
                           Slacked(child, child.cursor), MinLength(child))
<1>1. /\ At("arms")
      /\ \/ ctx' = checked /\ Become(<<PopScopes(1), target>>)
         \/ ctx' = Release(emitted) /\ Return
         \/ ctx' = Release(checked) /\ Return
  BY DEF TryDefault
<1>2. /\ calls # <<>> /\ Call.do = "arms" /\ CtxOK(ctx) /\ CallOK(Call) /\ FrameOK(Frame)
      /\ Frame.depth \in 0..ir.max_depth /\ ir.max_depth \in Nat /\ ctx.failed = FALSE
      /\ Frame.constraints = ctx.session.asserted
  BY <1>1, AtCall
<1>3. t.kind = "select" /\ TargetHere(t.default_target)
  BY <1>2, SchemaTypes DEF EInv, TransitionHere, CallOK, OfState
<1> HIDE DEF t, delta
<1>4. target.do = "target" /\ target.frame = child /\ target.target = t.default_target
  BY DEF InTarget
<1>5. FrameOK(child) /\ child.depth = Frame.depth /\ child.constraints = Frame.constraints \o delta
  BY <1>2, AlongOK
<1>6. /\ CtxOK(a) /\ a.failed = FALSE /\ Extends(ctx.session, a.session, 1)
      /\ a.session.asserted = ctx.session.asserted \o delta
  BY <1>2, AssumeOK, AssumeExtends
<1> HIDE DEF child, target, a
<1>7. Kept(a, checked) /\ CtxOK(checked)
  BY <1>6, CheckOfOK DEF Kept
<1> HIDE DEF checked
<1>8. Kept(a, emitted)
  BY <1>7, EmitOK, KeptTwice
<1> HIDE DEF emitted
<1>9. Kept(ctx, Release(checked)) /\ Kept(ctx, Release(emitted))
  BY <1>2, <1>7, <1>8, ReleaseOK DEF a
<1>10. CASE Return /\ (ctx' = Release(checked) \/ ctx' = Release(emitted))
  <2>1. Kept(ctx, ctx') /\ Call.do # "pop"
    BY <1>2, <1>9, <1>10
  <2> QED BY <1>2, <1>10, <2>1, ReturnsKept
<1>11. CASE ctx' = checked /\ Become(<<PopScopes(1), target>>)
  <2>1. CallOK(target)
    BY <1>3, <1>4, <1>5 DEF CallOK, OfState, Walks, TargetHere
  <2>2. Below(target, Call)
    BY <1>2, <1>4, <1>5 DEF Below, Left, Phase, Frame
  <2>3. CtxOK(ctx') /\ ctx'.failed = FALSE /\ SameStack(a.session, ctx'.session)
    BY <1>6, <1>7, <1>11 DEF Kept
  <2>4. Extends(ctx.session, ctx'.session, 1)
    BY <1>6, <2>3 DEF Extends, SameStack, AssertedAt
  <2>5. target.frame.constraints = ctx'.session.asserted
    BY <1>2, <1>4, <1>5, <1>6, <2>3 DEF SameStack
  <2>6. target.do # "pop" /\ Call.do # "pop" /\ 1 \in Nat
    BY <1>2, <1>4
  <2> QED BY <1>2, <1>11, <2>1, <2>2, <2>3, <2>4, <2>5, <2>6, BecomesTwo
<1> QED BY <1>1, <1>10, <1>11

\* A target is reached: a state to walk, or an end to emit.
LEMMA WalkTargetOK ==
  ASSUME EInv, WalkTarget
  PROVE  KeepsEngine
<1> DEFINE c == InState(Call.target.name, Frame)
<1>1. At("target")
  BY DEF WalkTarget
<1>2. /\ calls # <<>> /\ Call.do = "target" /\ CtxOK(ctx) /\ CallOK(Call) /\ FrameOK(Frame)
      /\ Frame.depth \in 0..ir.max_depth /\ ir.max_depth \in Nat
  BY <1>1, AtCall
<1>3. CASE Call.target.kind = "state"
  <2>1. Become(<<c>>) /\ Kept(ctx, ctx')
    BY <1>2, <1>3, KeptHere DEF WalkTarget
  <2>2. c.do = "state" /\ c.frame = Frame /\ c.state = Call.target.name
    BY DEF InState
  <2> HIDE DEF c
  <2>3. CallOK(c)
    BY <1>2, <1>3, <2>2 DEF CallOK, OfState, Walks
  <2>4. Below(c, Call)
    BY <1>2, <2>2 DEF Below, Left, Phase, Frame
  <2> QED BY <1>2, <2>1, <2>2, <2>3, <2>4, BecomesKept
<1>4. CASE Call.target.kind # "state"
  <2>1. Return /\ Kept(ctx, ctx')
    BY <1>2, <1>4, EmitOK DEF WalkTarget
  <2> QED BY <1>2, <2>1, ReturnsKept
<1> QED BY <1>3, <1>4

\* Every step of the engine keeps its invariant and descends.
LEMMA StepKeepsEngine ==
  ASSUME EInv, EngineStep
  PROVE  KeepsEngine
BY WalkNothingOK, WalkTooDeepOK, WalkStateOK, BeginPeekOK, EndPeekOK, FixedFieldOK, RunFieldOK,
   LeaveOK, WalkTransitionOK, WalkPushOK, WalkPopOK, EndOpsOK, DispatchDirectOK,
   DispatchSelectOK, TryArmsOK, TryDefaultOK, WalkTargetOK
   DEF EngineStep

----------------------------------------------------------------------------
(* The specification.                                                      *)

\* The engine's invariant reads the program, which does not change.
LEMMA StableEngine ==
  ASSUME UNCHANGED ir, EngineOK(calls', ctx')
  PROVE  EngineOK(calls, ctx)'
<1>1. CtxOK(ctx)' <=> CtxOK(ctx')
  BY DEF CtxOK
<1>2. ASSUME \A i \in DOMAIN calls' : CallOK(calls'[i])
      PROVE  (\A i \in DOMAIN calls : CallOK(calls[i]))'
  <2>1. \A q : Items(q)' = Items(q)
    BY DEF Items, StateAt, InstanceOf
  <2>2. SUFFICES ASSUME NEW i \in DOMAIN calls' PROVE CallOK(calls[i])'
    OBVIOUS
  <2>3. CallOK(calls'[i])
    BY <1>2
  <2>4. Items(calls[i].state)' = Items(calls'[i].state)
    BY DEF Items, StateAt, InstanceOf
  <2> QED BY <2>3, <2>4 DEF CallOK, FrameOK, StateAt
<1> QED BY <1>1, <1>2 DEF EngineOK, StackOK

\* The program does not change, nor what was checked of it.
LEMMA StableSchema ==
  ASSUME UNCHANGED ir
  PROVE  StructureOk' <=> StructureOk
BY DEF StructureOk, BudgetOk, WidthsOk, InstancesOk, LookaheadsOk, LengthsOk, AssignsOk,
       TransitionsOk, LengthOk, FieldRefsResolve, MetadataRefsResolve, Extracts, RunWidths,
       Pushes, TargetOk, SelectOk, EntryOk, KeyWidth

\* Before the walk there is one activation, at one level, with nothing asserted.
LEMMA InitEInv == SymexInit => EInv
<1> SUFFICES ASSUME SymexInit PROVE EInv
  OBVIOUS
<1>1. ir \in Programs /\ StructureOk /\ EngineInit
  BY DEF SymexInit
<1>2. PICK limits \in Limits :
        ctx = [session |-> Session!NewSession, paths |-> <<>>, reached_states |-> {},
               attempted_arms |-> {}, feasible_arms |-> {}, checks |-> 0, limits |-> limits,
               limit_exceeded |-> FALSE, failed |-> FALSE]
  BY <1>1 DEF EngineInit
<1> DEFINE s == Session!NewSession
           c == InState(ir.start_state, RootFrame)
           none == <<>>
<1>3. /\ DOMAIN s = {"asserted", "bounded", "saved", "epoch", "model_cache"}
      /\ s.asserted = <<>> /\ s.bounded = {} /\ s.saved = <<>> /\ s.epoch = 0
      /\ s.model_cache.epoch = 0 /\ s.model_cache.models = {}
  BY DEF Session!NewSession
<1>4. IsSequence(none) /\ Len(none) = 0
  <2>1. none \in Seq({})
    OBVIOUS
  <2> QED BY <2>1, SequenceOver
<1>5. SessionOK(s)
  BY <1>3, <1>4 DEF SessionOK, Session!CurrentModels
<1>6. /\ DOMAIN ctx = ContextFields /\ ctx.session = s /\ ctx.limits = limits /\ ctx.checks = 0
      /\ ctx.paths = <<>> /\ ctx.reached_states = {} /\ ctx.feasible_arms = {}
      /\ ctx.attempted_arms = {} /\ ctx.limit_exceeded = FALSE /\ ctx.failed = FALSE
  BY <1>2 DEF ContextFields
<1>7. CtxOK(ctx)
  <2>1. limits.max_paths \in Nat /\ limits.max_solver_checks \in Nat
    BY LimitsAssumption
  <2>2. ctx.checks \in 0..limits.max_solver_checks /\ Len(ctx.paths) <= limits.max_paths
    BY <1>4, <1>6, <2>1
  <2>3. IsSequence(ctx.paths)
    BY <1>4, <1>6
  <2> HIDE DEF s
  <2> QED BY <1>5, <1>6, <2>1, <2>2, <2>3 DEF CtxOK
<1> HIDE DEF s
<1>8. /\ c.do = "state" /\ c.state = ir.start_state
      /\ "constraints" \in DOMAIN c.frame /\ "depth" \in DOMAIN c.frame
      /\ c.frame.depth = 0 /\ c.frame.constraints = <<>>
  BY DEF InState, RootFrame
<1>9. calls = <<c>>
  BY <1>1 DEF EngineInit
<1> HIDE DEF c
<1>10. CallOK(c)
  BY <1>1, <1>8, SchemaTypes DEF CallOK, FrameOK, OfState, Walks
<1>11. Balanced(none, s)
  <2> DEFINE lv == [i \in 0..0 |-> 1]
  <2>1. /\ lv \in [0..0 -> Nat \ {0}] /\ lv[0] = 1
        /\ \A i, j \in 0..0 : lv[i] <= lv[j]
    OBVIOUS
  <2> HIDE DEF lv
  <2>2. Levels(none, lv)
    <3>1. \A i \in 1..0 : FALSE
      OBVIOUS
    <3> HIDE DEF none
    <3> QED BY <1>4, <2>1, <3>1 DEF Levels
  <2>3. Matches(none, s, lv)
    <3>1. Len(s.saved) = 0
      BY <1>3
    <3>2. \A i \in 1..0 : FALSE
      OBVIOUS
    <3> HIDE DEF none
    <3> QED BY <1>4, <2>1, <3>1, <3>2 DEF Matches
  <2>4. AssertedAt(s, 1) = <<>>
    BY <1>3 DEF AssertedAt
  <2> QED BY <2>2, <2>3, <2>4 DEF Balanced
<1>12. calls = Append(none, c)
  BY <1>9
<1>13. StackOK(none, s)
  BY <1>4, <1>5, <1>11 DEF StackOK
<1>14. Extends(s, s, Held(c)) /\ c.frame.constraints = s.asserted
  BY <1>3, <1>5, <1>8, <1>10, HeldType, SameExtends
<1>15. StackOK(calls, s)
  <2>1. IsSequence(calls) /\ Balanced(calls, s)
    BY <1>4, <1>5, <1>8, <1>10, <1>11, <1>12, <1>14, HeldType, AppendTo, CallBalanced
  <2>2. \A i \in DOMAIN calls : CallOK(calls[i])
    BY <1>9, <1>10
  <2> QED BY <1>5, <2>1, <2>2 DEF StackOK
<1> QED BY <1>1, <1>6, <1>7, <1>15 DEF EInv, EngineOK

\* A step of the engine keeps the invariant; a step of the concrete run does not touch
\* the engine.
LEMMA NextEInv ==
  ASSUME EInv, [SymexNext]_symex
  PROVE  EInv' /\ (calls' # calls => Descends(calls, calls'))
<1>1. UNCHANGED ir
  BY DEF SymexNext, Enumerate, EngineStep, RunPacket, RunStep, SymexDone, symex, vars, Step,
         EnterState, BeginExtract, ReadFixed, ReadRunField, EndExtract, AssignMetadata,
         PushRegion, PopRegion, TakeDirect, TakeSelect, Malformed
<1>2. CASE UNCHANGED engine
  <2>1. EngineOK(calls', ctx') /\ calls' = calls
    BY <1>2 DEF EInv, engine
  <2> QED BY <1>1, <2>1, StableEngine, StableSchema DEF EInv
<1>3. CASE Enumerate
  <2>1. EngineOK(calls', ctx') /\ Descends(calls, calls')
    BY <1>3, StepKeepsEngine DEF Enumerate, KeepsEngine
  <2> QED BY <1>1, <2>1, StableEngine, StableSchema DEF EInv
<1> QED BY <1>2, <1>3 DEF SymexNext, RunPacket, RunStep, SymexDone, symex

\* The levels of the solver's stack, the model cache and the counters fit the
\* activations at every step of the enumeration and of the run after it.
THEOREM EngineInvariance == SymexSpec => []EInv
<1>1. EInv /\ [SymexNext]_symex => EInv'
  BY NextEInv
<1> QED BY <1>1, InitEInv, PTL DEF SymexSpec

\* The counters of the engine stay within its ceilings, the states and arms it
\* logs are there, and no rank passes below zero.
THEOREM EngineTypes == SymexSpec => []EngineTypeOK
<1>1. ASSUME EInv PROVE EngineTypeOK
  <2>1. CtxOK(ctx)
    BY <1>1 DEF EInv, EngineOK
  <2>2. ASSUME NEW i \in DOMAIN calls
        PROVE  /\ calls[i].do \in {"state", "extracts", "ops", "dispatch", "arms", "target", "pop"}
               /\ calls[i].do # "pop" => Left(calls[i]) >= 0 /\ Rest(calls[i]) >= 0
    <3> DEFINE c == calls[i]
    <3>1. calls # <<>>
      OBVIOUS
    <3>2. CallOK(c)
      BY <1>1, <3>1 DEF EInv, EngineOK, StackOK, CtxOK
    <3> HIDE DEF c
    <3>3. c.do \in {"state", "extracts", "ops", "dispatch", "arms", "target", "pop"}
      BY <3>2 DEF CallOK, Walks, OfState
    <3>4. ASSUME c.do # "pop" PROVE Left(c) >= 0
      <4>1. ir.max_depth \in Nat
        BY <1>1, SchemaTypes DEF EInv
      <4> QED BY <3>2, <3>4, <4>1 DEF CallOK, FrameOK, Left
    <3>5. CASE c.do = "extracts"
      <4>1. c.idx \in 1..(Len(Items(c.state)) + 1) /\ Len(Items(c.state)) \in Nat
        BY <1>1, <3>2, <3>5, SchemaTypes DEF EInv, CallOK, OfState
      <4>2. Rest(c) = Len(Items(c.state)) + 1 - c.idx
        BY <3>5 DEF Rest
      <4>3. Rest(c) >= 0
        BY <4>1, <4>2
      <4> QED BY <3>3, <3>4, <4>3 DEF c
    <3>6. CASE c.do = "ops"
      <4> DEFINE n == Len(StateAt(c.state).region_ops)
      <4>1. c.idx \in 1..(n + 1) /\ n \in Nat
        BY <1>1, <3>2, <3>6, SchemaTypes DEF EInv, CallOK, OfState
      <4>2. Rest(c) = n + 1 - c.idx
        BY <3>6 DEF Rest
      <4> HIDE DEF n
      <4>3. Rest(c) >= 0
        BY <4>1, <4>2
      <4> QED BY <3>3, <3>4, <4>3 DEF c
    <3>7. CASE c.do = "arms"
      <4>1. IsFiniteSet(c.left)
        BY <1>1, <3>2, <3>7, SchemaTypes, FS_Subset DEF EInv, CallOK, OfState
      <4>2. Rest(c) = Cardinality(c.left)
        BY <3>7 DEF Rest
      <4>3. Rest(c) >= 0
        BY <4>1, <4>2, FS_CardinalityType
      <4> QED BY <3>3, <3>4, <4>3 DEF c
    <3>8. CASE c.do \notin {"extracts", "ops", "arms"}
      <4>1. Rest(c) = 0
        BY <3>8 DEF Rest
      <4> QED BY <3>3, <3>4, <4>1 DEF c
    <3> QED BY <3>5, <3>6, <3>7, <3>8
  <2> QED BY <2>1, <2>2 DEF EngineTypeOK, CtxOK
<1> QED BY <1>1, EngineInvariance, PTL

\* At every step of the walk the solver's stack is the path condition of the
\* frame that runs, and it is empty again when the walk has ended, however the
\* forks, emits, prunings and returns before it were nested.
THEOREM StackHoldsPath == SymexSpec => []StackIsPathCondition
<1>1. ASSUME EInv PROVE StackIsPathCondition
  <2>1. ASSUME calls # <<>>, Call.do # "pop" PROVE ctx.session.asserted = Frame.constraints
    BY <1>1, <2>1, ActivationOK
  <2>2. ASSUME calls = <<>>, ~ctx.failed
        PROVE  ctx.session.saved = <<>> /\ ctx.session.asserted = <<>>
    <3>1. StackOK(calls, ctx.session)
      BY <1>1, <2>2 DEF EInv, EngineOK
    <3>2. PICK lv : Levels(calls, lv) /\ Matches(calls, ctx.session, lv)
      BY <3>1 DEF StackOK, Balanced
    <3>3. Len(calls) = 0
      BY <2>2
    <3>4. Len(ctx.session.saved) + 1 = 1
      BY <3>2, <3>3, Zenon DEF Levels, Matches
    <3>5. IsSequence(ctx.session.saved) /\ AssertedAt(ctx.session, 1) = <<>>
      BY <3>1 DEF StackOK, SessionOK, Balanced
    <3>6. Len(ctx.session.saved) \in Nat
      BY <3>5, AppendTo
    <3>7. ctx.session.saved = <<>>
      BY <3>4, <3>5, <3>6, FrontOf
    <3> QED BY <3>4, <3>5, <3>7 DEF AssertedAt
  <2> QED BY <2>1, <2>2 DEF StackIsPathCondition
<1> QED BY <1>1, EngineInvariance, PTL

\* A model kept from a check, and looked up by its epoch, satisfies everything
\* asserted now: no witness is taken from a model of another path.
THEOREM ModelsHold == SymexSpec => []CachedModelsHold
<1>1. ASSUME EInv PROVE CachedModelsHold
  BY <1>1 DEF EInv, EngineOK, CtxOK, SessionOK, CachedModelsHold
<1> QED BY <1>1, EngineInvariance, PTL

\* Every step of the walk replaces the activation that runs by calls below it in
\* the lexicographic order of ranks, and leaves those under it alone, on every
\* parser however cyclic: no walk goes on without end.
THEOREM WalkEnds == SymexSpec => WalkDescends
<1>1. EInv /\ [SymexNext]_symex =>
        [calls' # calls =>
           \/ calls' = <<>>
           \/ /\ IsPrefix(Front(calls), calls')
              /\ \A i \in Len(calls)..Len(calls') : Below(calls'[i], Call)]_symex
  BY NextEInv DEF Descends, Call
<1> QED BY <1>1, EngineInvariance, PTL DEF SymexSpec, WalkDescends
=============================================================================

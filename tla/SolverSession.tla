--------------------------- MODULE SolverSession ---------------------------
(***************************************************************************)
(* The incremental solver session (rust/pakeles/src/symex/z3solver.rs       *)
(* Z3Session): scopes of assertions, an epoch that counts the changes of    *)
(* the stack, and a cached model tagged with the epoch it was found in.     *)
(* A scope is left by going back to what was asserted when it was opened.   *)
(*                                                                          *)
(* Which model the solver finds is its choice; the session keeps the set of *)
(* models it may have found, empty where there is none.  What a constraint  *)
(* says of a model is a parameter.                                          *)
(***************************************************************************)
EXTENDS Naturals, Sequences, FiniteSetsExt

CONSTANTS
  WordBits,     \* width of a word
  Value(_, _),  \* the value of a term in a model
  Holds(_, _),  \* does a model satisfy a constraint?
  Reads(_),     \* the reads a constraint has a variable for
  LadderBits    \* the lengths a witness is tried within, ascending

NewSession ==
  [asserted |-> <<>>, bounded |-> {}, saved |-> <<>>, epoch |-> 0,
   model_cache |-> [epoch |-> 0, models |-> {}]]

Push(s) ==
  [s EXCEPT !.saved = Append(@, [asserted |-> s.asserted, bounded |-> s.bounded]),
            !.epoch = @ + 1]

\* Leave n scopes.
Pop(s, n) ==
  LET opened == Len(s.saved) - n + 1
  IN IF n = 0 THEN s
     ELSE [s EXCEPT !.asserted = s.saved[opened].asserted,
                    !.bounded = s.saved[opened].bounded,
                    !.saved = SubSeq(@, 1, opened - 1),
                    !.epoch = @ + n]

\* The reads of a batch, and those with a bound on their width.
AllReads(cs) == UNION {Reads(cs[i]) : i \in DOMAIN cs}
BoundsOf(cs) == {r \in AllReads(cs) : r.len < WordBits}

\* Every batch asserts the bounds of its reads, be they asserted before or not.
AssertIn(s, delta) ==
  [s EXCEPT !.asserted = @ \o delta, !.bounded = @ \cup BoundsOf(delta), !.epoch = @ + 1]

IsModel(m, cs, bounded) ==
  /\ \A i \in DOMAIN cs : Holds(m, cs[i])
  /\ \A r \in bounded : Value(m, r) < 2^r.len

\* Every choice of words for reads, of words within their width for the bounded.
Assignments(reads, bounded) ==
  LET values(r) == 0..(2^(IF r \in bounded THEN r.len ELSE WordBits) - 1)
      extend(r, models) ==
        {[s \in DOMAIN m \cup {r} |-> IF s = r THEN v ELSE m[s]] : m \in models, v \in values(r)}
  IN FoldSet(extend, {<<>>}, reads)

\* Every model of a sequence of constraints and a set of bounds.
Solutions(cs, bounded) ==
  {m \in Assignments(AllReads(cs) \cup bounded, bounded) : IsModel(m, cs, bounded)}
Models(s) == Solutions(s.asserted, s.bounded)

Remember(s, models) ==
  IF models = {} THEN s
  ELSE [s EXCEPT !.model_cache = [epoch |-> s.epoch, models |-> models]]

\* Mutant of CurrentModels: the tag of the model is not looked at.
CachedModels(s) == s.model_cache.models

\* The models a check may have cached at the present stack.
CurrentModels(s) ==
  IF s.model_cache.epoch = s.epoch THEN s.model_cache.models ELSE {}

\* A feasibility check keeps the model that proves it.
Checked(s) == Remember(s, Models(s))

\* The models a witness may be taken from: the cached ones that are within the
\* first rung that min_bits does not rule out, and what a search finds where one
\* is not: those within the first rung that has any, or any.
Chosen(cached, models, len, rungs) ==
  LET within(k, found) == {m \in found : Value(m, len) <= LadderBits[k]}
      first(K) == CHOOSE k \in K : \A j \in K : k <= j
      acceptable == IF rungs = {} THEN cached ELSE within(first(rungs), cached)
      feasible == {k \in rungs : within(k, models) # {}}
      searched == IF feasible = {} THEN models ELSE within(first(feasible), models)
  IN acceptable \cup (IF acceptable # {} /\ acceptable = cached THEN {} ELSE searched)

\* Witnesses for the stack, preferring a short one.  The bounds of the reads of
\* the length hold for the call only.
WitnessModels(s, len, len_bounds, min_bits) ==
  Chosen(CurrentModels(s), Solutions(s.asserted, s.bounded \cup len_bounds), len,
         {k \in DOMAIN LadderBits : LadderBits[k] >= min_bits})

\* The packet of a model: the bits of its reads at the offsets the model gives
\* them, zero elsewhere, cut at the length.
PacketOf(model, len) ==
  LET sets(r, i) == LET k == i - 1 - Value(model, r.off)
                    IN k \in 0..(r.len - 1) /\ (model[r] \div 2^(r.len - 1 - k)) % 2 = 1
  IN [i \in 1..Value(model, len) |-> IF \E r \in DOMAIN model : sets(r, i) THEN 1 ELSE 0]
=============================================================================

---------------------------- MODULE TermMeaning ----------------------------
(***************************************************************************)
(* What terms and constraints mean to the solver (rust/pakeles/src/symex/   *)
(* z3solver.rs: one variable for each structurally distinct read), the      *)
(* normal form of offsets and the intervals of terms (engine.rs             *)
(* normalize_off, term_interval).  A model maps reads to words.             *)
(*                                                                          *)
(* The engine and the session take these as parameters (PathEngine); here   *)
(* is what they are, recursive over terms, for model checking.              *)
(***************************************************************************)
EXTENDS Terms, BagsExt

\* A read that a model does not bind is zero.
RECURSIVE EvalTerm(_, _)
EvalTerm(model, t) ==
  CASE t.op = "const" -> t.value
    [] t.op = "read"  -> IF t \in DOMAIN model THEN model[t] ELSE 0
    [] OTHER          -> WrappingOp(t.op, EvalTerm(model, t.lhs), EvalTerm(model, t.rhs))

RECURSIVE Satisfies(_, _)
Satisfies(model, c) ==
  CASE c.c = "eq"     -> EvalTerm(model, c.term) = c.value
    [] c.c = "masked" -> BitAnd(EvalTerm(model, c.term), c.mask) = BitAnd(c.value, c.mask)
    [] c.c = "range"  -> EvalTerm(model, c.term) \in c.lo..c.hi
    [] c.c = "not"    -> ~Satisfies(model, c.of)
    [] c.c = "and"    -> \A i \in DOMAIN c.all : Satisfies(model, c.all[i])

\* The variables a translation makes; the offset of a read is not translated.
RECURSIVE ReadsOf(_)
ReadsOf(t) ==
  CASE t.op = "const" -> {}
    [] t.op = "read"  -> {t}
    [] OTHER          -> ReadsOf(t.lhs) \cup ReadsOf(t.rhs)

RECURSIVE ReadsIn(_)
ReadsIn(c) ==
  CASE c.c = "not" -> ReadsIn(c.of)
    [] c.c = "and" -> UNION {ReadsIn(c.all[i]) : i \in DOMAIN c.all}
    [] OTHER       -> ReadsOf(c.term)

----------------------------------------------------------------------------
(* Offsets and intervals.                                                  *)

\* A sum as a bag of opaque addends and a constant.
RECURSIVE NormalizeOff(_)
NormalizeOff(t) ==
  CASE t.op = "const" -> [addends |-> EmptyBag, k |-> t.value]
    [] t.op = "add"   -> LET l == NormalizeOff(t.lhs)
                             r == NormalizeOff(t.rhs)
                         IN [addends |-> l.addends (+) r.addends, k |-> (l.k + r.k) % WordSize]
    [] OTHER          -> [addends |-> SetToBag({t}), k |-> 0]

\* Where an operation may wrap, nothing is known of its value.
RECURSIVE TermInterval(_)
TermInterval(t) ==
  LET l == TermInterval(t.lhs)
      r == TermInterval(t.rhs)
      cap(lo, hi) == IF hi >= WordSize THEN Wrapped ELSE [lo |-> lo, hi |-> hi]
      by(n) == 2^AtMost(n, ShiftCap)
  IN CASE t.op = "const" -> [lo |-> t.value, hi |-> t.value]
       [] t.op = "read"  -> IF t.len >= WordBits THEN Wrapped ELSE [lo |-> 0, hi |-> 2^t.len - 1]
       [] t.op = "add"   -> cap(l.lo + r.lo, l.hi + r.hi)
       [] t.op = "sub"   -> IF l.lo >= r.hi THEN [lo |-> l.lo - r.hi, hi |-> l.hi - r.lo]
                            ELSE Wrapped
       [] t.op = "mul"   -> cap(l.lo * r.lo, l.hi * r.hi)
       [] t.op = "shl"   -> cap(ShiftedBy(l.lo, r.lo), ShiftedBy(l.hi, r.hi))
       [] t.op = "shr"   -> [lo |-> l.lo \div by(r.hi), hi |-> l.hi \div by(r.lo)]
       [] t.op = "and"   -> [lo |-> 0, hi |-> AtMost(l.hi, r.hi)]
       [] t.op = "or"    -> cap(AtLeast(l.lo, r.lo), l.hi + r.hi)
=============================================================================

------------------------------- MODULE Terms -------------------------------
(***************************************************************************)
(* The terms and constraints the symbolic engine builds over a packet it    *)
(* has not seen (rust/pakeles/src/symex/solver.rs), and the bounds it       *)
(* computes for expressions (codegen/p4.rs expr_range).  What a term means  *)
(* is in TermMeaning.                                                       *)
(*                                                                          *)
(* Extract and ExtractAt of the source are one constructor: the former is a *)
(* read whose offset is a constant.                                         *)
(***************************************************************************)
EXTENDS IR, SequencesExt

Cst(v) == [op |-> "const", value |-> v]
ReadAt(off, len) == [op |-> "read", off |-> off, len |-> len]
Apply(op, a, b) == [op |-> op, lhs |-> a, rhs |-> b]
TAdd(a, b) == Apply("add", a, b)
TSub(a, b) == Apply("sub", a, b)

Equals(t, v) == [c |-> "eq", term |-> t, value |-> v]
MaskedBy(t, v, m) == [c |-> "masked", term |-> t, value |-> v, mask |-> m]
InRange(t, lo, hi) == [c |-> "range", term |-> t, lo |-> lo, hi |-> hi]
Not(a) == [c |-> "not", of |-> a]
AllOf(cs) == [c |-> "and", all |-> cs]

\* One of the constraints, by De Morgan: the solver has And and Not.
OneOf(cs) ==
  IF Len(cs) = 1 THEN cs[1] ELSE Not(AllOf([i \in DOMAIN cs |-> Not(cs[i])]))

----------------------------------------------------------------------------
(* Slices: what an earlier lookahead shares with a later read.             *)

\* Bits from..from+w-1 of a read of len bits, most significant first.
SliceTerm(read, len, from, w) ==
  LET shifted == IF len > from + w THEN Apply("shr", read, Cst(len - from - w)) ELSE read
  IN IF w >= WordBits THEN shifted ELSE Apply("and", shifted, Cst(2^w - 1))

----------------------------------------------------------------------------
(* Intervals.                                                              *)

AtMost(a, b) == IF a < b THEN a ELSE b
AtLeast(a, b) == IF a > b THEN a ELSE b
Wrapped == [lo |-> 0, hi |-> WordSize - 1]
ShiftCap == 2 * WordBits - 1

\* Bounds are computed in twice the width of a word; a shift drops what passes it.
ShiftedBy(v, n) == (v * 2^AtMost(n, ShiftCap)) % 2^(2 * WordBits)

\* The width of a fixed field by its instance and name.
FieldBits(i, f) ==
  LET ex == CHOOSE ex \in UNION {ToSet(s.extracts) : s \in ToSet(ir.states)} : InstanceOf(ex) = i
  IN ir.header_types[ex.header_type][f].bits

\* The interval of an expression in unbounded arithmetic; a difference below
\* zero counts as zero.  Not defined on remaining().
ExprRange(expr) ==
  LET by(n) == 2^AtMost(n, ShiftCap)
      combined(op, l, r) ==
        CASE op = "add" -> [lo |-> l.lo + r.lo, hi |-> l.hi + r.hi]
          [] op = "sub" -> [lo |-> AtLeast(l.lo - r.hi, 0), hi |-> AtLeast(l.hi - r.lo, 0)]
          [] op = "mul" -> [lo |-> l.lo * r.lo, hi |-> l.hi * r.hi]
          [] op = "shl" -> [lo |-> ShiftedBy(l.lo, AtMost(r.lo, WordBits)),
                            hi |-> ShiftedBy(l.hi, AtMost(r.hi, WordBits))]
          [] op = "shr" -> [lo |-> l.lo \div by(r.hi), hi |-> l.hi \div by(r.lo)]
          [] op = "and" -> [lo |-> 0, hi |-> AtMost(l.hi, r.hi)]
          [] op = "or"  -> [lo |-> AtLeast(l.lo, r.lo), hi |-> l.hi + r.hi]
      range[e \in Exprs] ==
        CASE e.kind = "constant" -> [lo |-> e.value, hi |-> e.value]
          [] e.kind = "field"    -> [lo |-> 0, hi |-> 2^FieldBits(e.header, e.field) - 1]
          [] e.kind = "metadata" -> [lo |-> 0, hi |-> 2^ir.metadata[e.name].bits - 1]
          [] e.kind = "bin"      -> combined(e.op, range[e.lhs], range[e.rhs])
  IN range[expr]
=============================================================================

----------------------------- MODULE Alignment -----------------------------
(***************************************************************************)
(* The static alignment analysis of the code generators: entry_alignments   *)
(* and field_alignment of rust/pakeles/src/codegen/mod.rs.  A worklist      *)
(* computes, for every state, the cursor modulo a byte at its entry.  The   *)
(* C generator reads whole bytes where the analysis says 0 (CParser).       *)
(*                                                                          *)
(* A byte has ByteBits bits in place of 8; it divides the word size.        *)
(***************************************************************************)
EXTENDS IR, SequencesExt

CONSTANT ByteBits

ASSUME ByteBitsAssumption == \E k \in 0..WordBits : ByteBits = 2^k

\* "8 divides 2^64" (expr_mod8), and a word modulo a byte keeps its low bits:
\* arithmetic of powers of two that the provers do not know.
ASSUME ByteDividesWord == WordSize % ByteBits = 0
ASSUME LowBitsAssumption ==
  /\ \A a \in Word : BitsOf(a % ByteBits) = {k \in BitsOf(a) : 2^k < ByteBits}
  /\ \A S \in SUBSET (0..(WordBits - 1)) :
       FromBits(S) % ByteBits = FromBits({k \in S : 2^k < ByteBits})

VARIABLES
  align,   \* residues at the entry of the states reached so far
  todo     \* the worklist, a stack

alignment == <<align, todo>>

Residue == 0..(ByteBits - 1)

\* None: a conflict, or a length only the packet knows.
Unknown == -1

AddMod(a, b) == IF Unknown \in {a, b} THEN Unknown ELSE (a + b) % ByteBits

\* An operation on operands with residues l and r.
CombineMod8(e, l, r) ==
  LET shift == 2^(e.rhs.value % WordBits)
  IN CASE e.op = "add" -> AddMod(l, r)
       [] e.op = "sub" -> AddMod(l, IF r = Unknown THEN Unknown ELSE ByteBits - r)
       [] e.op = "mul" -> IF 0 \in {l, r} THEN 0
                          ELSE IF Unknown \in {l, r} THEN Unknown
                          ELSE (l * r) % ByteBits
       [] e.op = "shl" -> IF e.rhs.kind # "constant" THEN Unknown
                          ELSE IF shift % ByteBits = 0 THEN 0
                          ELSE IF l = Unknown THEN Unknown
                          ELSE (l * shift) % ByteBits
       [] e.op = "shr" -> Unknown
       [] e.op = "and" -> IF Unknown \in {l, r} THEN Unknown ELSE BitAnd(l, r)
       [] e.op = "or"  -> IF Unknown \in {l, r} THEN Unknown ELSE BitOr(l, r)

\* The value of an expression modulo a byte, where it is known statically.
ExprMod8(expr) ==
  LET mod8[e \in Exprs] ==
        IF e.kind = "bin" THEN CombineMod8(e, mod8[e.lhs], mod8[e.rhs])
        ELSE IF e.kind = "constant" THEN e.value % ByteBits
        ELSE Unknown
  IN mod8[expr]

WidthMod8(width) ==
  IF width.kind = "bits" THEN width.bits % ByteBits ELSE ExprMod8(width.expr)

FieldsOf(ex) == ir.header_types[ex.header_type]

\* The residue after the first n of some fields, the first of them at `offset`.
Advance(offset, fields, n) ==
  LET after[k \in 0..n] ==
        IF k = 0 THEN offset ELSE AddMod(after[k - 1], WidthMod8(fields[k]))
  IN after[n]

\* The residue after the first n of some extracts; a lookahead restores the
\* cursor.
AdvanceAll(offset, extracts, n) ==
  LET after[k \in 0..n] ==
        IF k = 0 THEN offset
        ELSE IF extracts[k].lookahead THEN after[k - 1]
        ELSE Advance(after[k - 1], FieldsOf(extracts[k]), Len(FieldsOf(extracts[k])))
  IN after[n]

\* The residue on leaving state q, entered with residue `entry`.
ExitOf(q, entry) ==
  AdvanceAll(entry, ir.states[q].extracts, Len(ir.states[q].extracts))

\* Every target, in order, repeated ones too.
TargetList(s) ==
  IF s.transition.kind = "direct" THEN <<s.transition.next>>
  ELSE Append([i \in DOMAIN s.transition.arms |-> s.transition.arms[i].next],
              s.transition.default_target)

\* The map with the residue of one state set (HashMap::insert).
SetResidue(map, q, r) == [p \in DOMAIN map \cup {q} |-> IF p = q THEN r ELSE map[p]]

\* Mutant of Arrive: the first arrival settles the entry.
ArriveOnce(a, succ, exit) ==
  IF succ \in DOMAIN a.align THEN a
  ELSE [align |-> SetResidue(a.align, succ, exit), todo |-> Append(a.todo, succ)]

\* Mutant of Arrive: an arrival that changes nothing is pushed as well.
ArriveAlways(a, succ, exit) ==
  LET merged == IF succ \notin DOMAIN a.align \/ a.align[succ] = exit THEN exit ELSE Unknown
  IN [align |-> SetResidue(a.align, succ, merged), todo |-> Append(a.todo, succ)]

\* A first arrival, the same residue again, or a conflict.
Arrive(a, succ, exit) ==
  IF succ \in DOMAIN a.align /\ a.align[succ] = exit THEN a
  ELSE [align |-> SetResidue(a.align, succ, IF succ \in DOMAIN a.align THEN Unknown ELSE exit),
        todo |-> Append(a.todo, succ)]

AlignInit ==
  /\ align = [q \in {ir.start_state} |-> 0]
  /\ todo = <<ir.start_state>>

\* The map and the stack once the targets of a popped state have been visited,
\* those that are states.
Visited(q, rest) ==
  LET targets == TargetList(ir.states[q])
      exit == ExitOf(q, align[q])
      visited[n \in 0..Len(targets)] ==
        IF n = 0 THEN [align |-> align, todo |-> rest]
        ELSE IF targets[n].kind = "state"
             THEN Arrive(visited[n - 1], targets[n].name, exit)
             ELSE visited[n - 1]
  IN visited[Len(targets)]

AlignState ==
  /\ todo # <<>>
  /\ LET after == Visited(Last(todo), Front(todo))
     IN align' = after.align /\ todo' = after.todo
  /\ UNCHANGED ir

Aligned == todo = <<>>

\* Mutant of FieldAlignment: lookaheads before the field move the cursor.
FieldAlignmentPastPeeks(q, i, f) ==
  LET extracts == ir.states[q].extracts
      first == Min({k \in DOMAIN extracts : InstanceOf(extracts[k]) = i})
      reads == [k \in DOMAIN extracts |-> [extracts[k] EXCEPT !.lookahead = FALSE]]
  IN IF q \notin DOMAIN align \/ align[q] = Unknown THEN Unknown
     ELSE Advance(AdvanceAll(align[q], reads, first - 1), FieldsOf(extracts[first]), f - 1)

\* field_alignment: the first extract of the instance in the state.
FieldAlignment(q, i, f) ==
  LET extracts == ir.states[q].extracts
      first == Min({k \in DOMAIN extracts : InstanceOf(extracts[k]) = i})
  IN IF q \notin DOMAIN align \/ align[q] = Unknown THEN Unknown
     ELSE Advance(AdvanceAll(align[q], extracts, first - 1), FieldsOf(extracts[first]), f - 1)

\* misaligned_var_runs, of one run: what a backend with byte ranges accepts.
RunOfBytes(q, i, f) ==
  LET ex == CHOOSE ex \in ToSet(ir.states[q].extracts) : InstanceOf(ex) = i
  IN FieldAlignment(q, i, f) = 0 /\ ExprMod8(FieldsOf(ex)[f].expr) = 0
=============================================================================

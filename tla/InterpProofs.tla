---------------------------- MODULE InterpProofs ---------------------------
(***************************************************************************)
(* Words and expressions: that the recursive functions over expressions are *)
(* what their definitions say, and when an expression has a value.  Then    *)
(* type correctness and cursor safety of the reference interpreter; and     *)
(* that it implements the bounded parser, that its trace is the path it     *)
(* took and that its headers tile what it consumed.  For every set of       *)
(* programs whose states exist, every packet and every word size.           *)
(***************************************************************************)
EXTENDS InterpProperties, WellFoundedInduction, SequenceTheorems, TLAPS

----------------------------------------------------------------------------
(* Words.                                                                  *)

\* A machine word is a natural number below a positive word size.
LEMMA WordProperties ==
  /\ WordSize \in Nat \ {0}
  /\ Word \subseteq Nat
  /\ 0 \in Word
  /\ Undef \notin Word
  /\ \A v \in Word, n \in Nat : n <= v => n \in Word
BY WordBitsAssumption, PowersAssumption DEF WordSize, Word, Undef

\* An expression evaluates to a word or to nothing.
LEMMA EvalExprType ==
  ASSUME NEW e, NEW values, NEW store, NEW rem
  PROVE  EvalExpr(e, values, store, rem) \in Word \cup {Undef}
BY DEF EvalExpr

\* A checked sum is a word, and the sum, or nothing.
LEMMA CheckedAddProperties ==
  ASSUME NEW a \in Word \cup {Undef}, NEW b \in Nat
  PROVE  /\ CheckedAdd(a, b) \in Word \cup {Undef}
         /\ CheckedAdd(a, b) # Undef => a \in Word /\ CheckedAdd(a, b) = a + b
BY WordProperties DEF CheckedAdd

\* The value of a power of two with an exponent that a word has bits for.
LEMMA PowerType ==
  ASSUME NEW b \in Nat
  PROVE  2^(b % WordBits) \in Nat \ {0}
<1>1. b % WordBits \in 0..WordBits
  BY WordBitsAssumption
<1> QED BY <1>1, PowersAssumption

\* Operations on words wrap to words.
LEMMA WrappingOpType ==
  ASSUME NEW op \in BinOps, NEW a \in Word, NEW b \in Word
  PROVE  WrappingOp(op, a, b) \in Word
<1>1. \A x \in Int : x % WordSize \in Word
  BY WordProperties DEF Word
<1>2. a \in Nat /\ b \in Nat
  BY WordProperties
<1>3. CASE op = "add"
  BY <1>1, <1>2, <1>3 DEF WrappingOp
<1>4. CASE op = "sub"
  BY <1>1, <1>2, <1>4 DEF WrappingOp
<1>5. CASE op = "mul"
  <2>1. a * b \in Int
    BY <1>2
  <2> QED BY <1>1, <1>5, <2>1 DEF WrappingOp
<1>6. CASE op = "shl"
  <2> DEFINE p == 2^(b % WordBits)
  <2>1. p \in Nat
    BY <1>2, PowerType
  <2> HIDE DEF p
  <2>2. a * p \in Int
    BY <1>2, <2>1
  <2>3. WrappingOp(op, a, b) = (a * p) % WordSize
    BY <1>6 DEF WrappingOp, p
  <2> QED BY <1>1, <2>2, <2>3
<1>7. CASE op = "shr"
  <2> DEFINE p == 2^(b % WordBits)
  <2>1. p \in Nat \ {0}
    BY <1>2, PowerType
  <2> HIDE DEF p
  <2>2. a \div p \in Nat /\ a \div p <= a
    BY <1>2, <2>1
  <2>3. WrappingOp(op, a, b) = a \div p
    BY <1>7 DEF WrappingOp, p
  <2> QED BY <2>2, <2>3, WordProperties
<1>8. CASE op \in {"and", "or"}
  <2>1. /\ BitsOf(a) \cap BitsOf(b) \subseteq 0..(WordBits - 1)
        /\ BitsOf(a) \cup BitsOf(b) \subseteq 0..(WordBits - 1)
    BY DEF BitsOf
  <2> QED BY <1>8, <2>1, FromBitsAssumption DEF WrappingOp, BitAnd, BitOr
<1> QED BY <1>3, <1>4, <1>5, <1>6, <1>7, <1>8 DEF BinOps

----------------------------------------------------------------------------
(* Recursion over expressions.                                             *)

\* Recursion over expressions: given a value for every expression without
\* operands and a rule for the others, one function follows both.
ExprFollows(f, V, leaf, step) ==
  /\ f \in [Exprs -> V]
  /\ \A e \in Exprs :
       /\ e.kind = "bin" => f[e] = step[<<e, f[e.lhs], f[e.rhs]>>]
       /\ e.kind # "bin" => f[e] = leaf[e]

\* There is such a function.
LEMMA ExprRecursion ==
  ASSUME NEW V, NEW leaf \in [Exprs -> V], NEW step \in [Exprs \X V \X V -> V]
  PROVE  \E f : ExprFollows(f, V, leaf, step)
<1>0. SUFFICES \E f \in [Exprs -> V] :
           \A e \in Exprs :
             /\ e.kind = "bin" => f[e] = step[<<e, f[e.lhs], f[e.rhs]>>]
             /\ e.kind # "bin" => f[e] = leaf[e]
  BY DEF ExprFollows
<1> DEFINE Follows(g, e) ==
             /\ e.kind = "bin" => /\ e.lhs \in DOMAIN g /\ e.rhs \in DOMAIN g
                                  /\ g[e] = step[<<e, g[e.lhs], g[e.rhs]>>]
             /\ e.kind # "bin" => g[e] = leaf[e]
           Partial == {g \in UNION {[D -> V] : D \in SUBSET Exprs} :
                         \A e \in DOMAIN g : Follows(g, e)}
           Bins == {e \in Exprs : e.kind = "bin"}
<1>1. \A g \in Partial : /\ DOMAIN g \subseteq Exprs
                         /\ \A e \in DOMAIN g : g[e] \in V /\ Follows(g, e)
  OBVIOUS
<1>2. \A g : (/\ DOMAIN g \subseteq Exprs /\ g = [e \in DOMAIN g |-> g[e]]
              /\ \A e \in DOMAIN g : g[e] \in V /\ Follows(g, e)) => g \in Partial
  <2> SUFFICES ASSUME NEW g, DOMAIN g \subseteq Exprs, g = [e \in DOMAIN g |-> g[e]],
                      \A e \in DOMAIN g : g[e] \in V /\ Follows(g, e)
               PROVE  g \in Partial
    OBVIOUS
  <2>1. g \in [DOMAIN g -> V]
    OBVIOUS
  <2> QED BY <2>1
<1> HIDE DEF Partial
<1>3. \A g, h \in Partial : \A e \in DOMAIN g \cap DOMAIN h : g[e] = h[e]
  <2> SUFFICES ASSUME NEW g \in Partial, NEW h \in Partial
               PROVE  \A e \in DOMAIN g \cap DOMAIN h : g[e] = h[e]
    OBVIOUS
  <2> DEFINE S == {e \in DOMAIN g \cap DOMAIN h : e.kind = "bin" /\ g[e] # h[e]}
  <2>1. S = {}
    <3> SUFFICES ASSUME S # {} PROVE FALSE
      OBVIOUS
    <3>1. S \in SUBSET Bins
      BY <1>1
    <3>2. PICK e \in S : e.lhs \notin S /\ e.rhs \notin S
      BY <3>1, ExprsAreTrees
    <3>3. Follows(g, e) /\ Follows(h, e) /\ e.kind = "bin" /\ g[e] # h[e]
      BY <1>1
    <3>4. \A d \in {e.lhs, e.rhs} : d \in DOMAIN g \cap DOMAIN h /\ d \notin S
      BY <3>2, <3>3
    <3>5. \A d \in {e.lhs, e.rhs} : g[d] = h[d]
      <4> SUFFICES ASSUME NEW d \in {e.lhs, e.rhs} PROVE g[d] = h[d]
        OBVIOUS
      <4>1. d \in DOMAIN g /\ d \in DOMAIN h /\ d \notin S
        BY <3>4
      <4>2. CASE d.kind = "bin"
        BY <4>1, <4>2
      <4>3. CASE d.kind # "bin"
        <5>1. Follows(g, d) /\ Follows(h, d)
          BY <1>1, <4>1
        <5> QED BY <4>3, <5>1
      <4> QED BY <4>2, <4>3
    <3> QED BY <3>3, <3>5
  <2> QED BY <2>1, <1>1
<1>4. \A e \in Exprs : \E g \in Partial : e \in DOMAIN g
  <2> DEFINE S == {e \in Bins : ~\E g \in Partial : e \in DOMAIN g}
  <2>1. \A e \in Exprs \ Bins : \E g \in Partial : e \in DOMAIN g
    <3> TAKE e \in Exprs \ Bins
    <3> DEFINE g == [d \in {e} |-> leaf[e]]
    <3>1. g \in Partial
      BY <1>2
    <3> QED BY <3>1
  <2>2. S = {}
    <3> SUFFICES ASSUME S # {} PROVE FALSE
      OBVIOUS
    <3>1. PICK e \in S : e.lhs \notin S /\ e.rhs \notin S
      <4>1. S \in SUBSET Bins
        OBVIOUS
      <4> QED BY <4>1, ExprsAreTrees
    <3>2. e.lhs \in Exprs /\ e.rhs \in Exprs /\ e \in Exprs /\ e.kind = "bin"
      BY ExprsAssumption
    <3>3. PICK g \in Partial : e.lhs \in DOMAIN g
      BY <3>1, <3>2, <2>1
    <3>4. PICK h \in Partial : e.rhs \in DOMAIN h
      BY <3>1, <3>2, <2>1
    <3> DEFINE both == [d \in DOMAIN g \cup DOMAIN h |-> IF d \in DOMAIN g THEN g[d] ELSE h[d]]
               all == [d \in DOMAIN both \cup {e} |->
                         IF d \in DOMAIN both THEN both[d]
                         ELSE step[<<e, both[e.lhs], both[e.rhs]>>]]
    <3>5. DOMAIN both = DOMAIN g \cup DOMAIN h
      OBVIOUS
    <3>6. \A d \in DOMAIN g : both[d] = g[d]
      OBVIOUS
    <3>7. \A d \in DOMAIN h : both[d] = h[d]
      BY <1>3
    <3>8. \A d \in DOMAIN both : d \in Exprs /\ both[d] \in V /\ Follows(both, d)
      <4> TAKE d \in DOMAIN both
      <4>1. CASE d \in DOMAIN g
        <5>1. Follows(g, d) /\ d \in Exprs /\ g[d] \in V
          BY <1>1, <4>1
        <5> QED BY <3>5, <3>6, <4>1, <5>1
      <4>2. CASE d \in DOMAIN h
        <5>1. Follows(h, d) /\ d \in Exprs /\ h[d] \in V
          BY <1>1, <4>2
        <5> QED BY <3>5, <3>7, <4>2, <5>1
      <4> QED BY <3>5, <4>1, <4>2
    <3> HIDE DEF both
    <3>9. DOMAIN all = DOMAIN both \cup {e}
      OBVIOUS
    <3>10. \A d \in DOMAIN both : all[d] = both[d]
      OBVIOUS
    <3>11. both[e.lhs] \in V /\ both[e.rhs] \in V /\ e.lhs \in DOMAIN both /\ e.rhs \in DOMAIN both
      BY <3>3, <3>4, <3>5, <3>8
    <3>12. e \notin DOMAIN both => all[e] = step[<<e, both[e.lhs], both[e.rhs]>>]
      OBVIOUS
    <3>13. \A d \in DOMAIN all : all[d] \in V /\ d \in Exprs
      BY <3>2, <3>8, <3>9, <3>10, <3>11, <3>12
    <3>14. \A d \in DOMAIN all : Follows(all, d)
      BY <3>2, <3>8, <3>9, <3>10, <3>11, <3>12
    <3>15. all \in Partial
      <4>1. all = [d \in DOMAIN all |-> all[d]]
        OBVIOUS
      <4> HIDE DEF all, Follows
      <4> QED BY <1>2, <3>13, <3>14, <4>1
    <3> QED BY <3>9, <3>15
  <2> QED BY <2>1, <2>2
<1> DEFINE at(e) == CHOOSE g \in Partial : e \in DOMAIN g
           f == [e \in Exprs |-> at(e)[e]]
<1>5. \A e \in Exprs : at(e) \in Partial /\ e \in DOMAIN at(e)
  BY <1>4
<1> HIDE DEF at
<1>6. \A e \in Exprs : \A g \in Partial : e \in DOMAIN g => f[e] = g[e]
  BY <1>3, <1>5
<1>7. \A e \in Exprs : f[e] \in V
  BY <1>1, <1>5
<1>8. f \in [Exprs -> V]
  BY <1>7
<1> HIDE DEF f
<1>9. ASSUME NEW e \in Exprs
      PROVE  /\ e.kind = "bin" => f[e] = step[<<e, f[e.lhs], f[e.rhs]>>]
             /\ e.kind # "bin" => f[e] = leaf[e]
  <2>1. PICK g \in Partial : e \in DOMAIN g
    BY <1>3, <1>5
  <2>2. Follows(g, e) /\ f[e] = g[e]
    BY <1>1, <1>6, <2>1
  <2>3. CASE e.kind = "bin"
    <3>1. e.lhs \in Exprs /\ e.rhs \in Exprs
      BY <2>3, ExprsAssumption
    <3>2. f[e.lhs] = g[e.lhs] /\ f[e.rhs] = g[e.rhs]
      BY <1>6, <2>2, <2>3, <3>1
    <3> QED BY <2>2, <2>3, <3>2
  <2>4. CASE e.kind # "bin"
    BY <2>2, <2>4
  <2> QED BY <2>3, <2>4
<1> QED BY <1>8, <1>9
----------------------------------------------------------------------------
(* Evaluation.                                                             *)

\* EvalExpr is the recursion its definition writes down.
LEMMA EvalExprUnfolds ==
  ASSUME NEW values, \A r \in DOMAIN values : values[r] \in Word,
         NEW store, \A m \in DOMAIN store : store[m] \in Word,
         NEW rem \in Word \cup {Undef}, NEW e \in Exprs
  PROVE  EvalExpr(e, values, store, rem) =
           IF e.kind # "bin" THEN LeafValue(e, values, store, rem)
           ELSE IF Undef \in {EvalExpr(e.lhs, values, store, rem), EvalExpr(e.rhs, values, store, rem)}
                THEN Undef
           ELSE WrappingOp(e.op, EvalExpr(e.lhs, values, store, rem),
                           EvalExpr(e.rhs, values, store, rem))
<1> DEFINE V == Word \cup {Undef}
           Body(f, d) == IF d.kind # "bin" THEN LeafValue(d, values, store, rem)
                         ELSE IF Undef \in {f[d.lhs], f[d.rhs]} THEN Undef
                         ELSE WrappingOp(d.op, f[d.lhs], f[d.rhs])
           eval == CHOOSE f : f = [d \in Exprs |-> Body(f, d)]
           leaf == [d \in Exprs |-> IF d.kind = "bin" THEN Undef
                                    ELSE LeafValue(d, values, store, rem)]
           step == [t \in Exprs \X V \X V |->
                      IF t[1].kind # "bin" \/ Undef \in {t[2], t[3]} THEN Undef
                      ELSE WrappingOp(t[1].op, t[2], t[3])]
<1>1. \A d \in Exprs : d.kind # "bin" => LeafValue(d, values, store, rem) \in V
  BY ExprsAssumption, WordProperties DEF LeafValue
<1>2. leaf \in [Exprs -> V]
  BY <1>1
<1>3. step \in [Exprs \X V \X V -> V]
  <2>1. ASSUME NEW d \in Exprs, NEW a \in V, NEW b \in V, d.kind = "bin", a # Undef, b # Undef
        PROVE  WrappingOp(d.op, a, b) \in V
    <3>1. d.op \in BinOps
      BY <2>1, ExprsAssumption
    <3> QED BY <2>1, <3>1, WrappingOpType
  <2> HIDE DEF V
  <2>2. Undef \in V
    BY DEF V
  <2> QED BY <2>1, <2>2
<1>4. \E f \in [Exprs -> V] : f = [d \in Exprs |-> Body(f, d)]
  <2>1. PICK f \in [Exprs -> V] :
          \A d \in Exprs : /\ d.kind = "bin" => f[d] = step[<<d, f[d.lhs], f[d.rhs]>>]
                           /\ d.kind # "bin" => f[d] = leaf[d]
    <3> HIDE DEF V, leaf, step
    <3>1. \E f : ExprFollows(f, V, leaf, step)
      BY <1>2, <1>3, ExprRecursion
    <3> QED BY <3>1 DEF ExprFollows
  <2>2. ASSUME NEW d \in Exprs
        PROVE  f[d] = Body(f, d)
    <3>1. CASE d.kind # "bin"
      BY <2>1, <3>1
    <3>2. CASE d.kind = "bin"
      <4>1. d.lhs \in Exprs /\ d.rhs \in Exprs
        BY <3>2, ExprsAssumption
      <4>2. f[d.lhs] \in V /\ f[d.rhs] \in V
        BY <4>1
      <4>3. f[d] = step[<<d, f[d.lhs], f[d.rhs]>>]
        BY <2>1, <3>2
      <4> HIDE DEF V
      <4> QED BY <3>2, <4>2, <4>3
    <3> QED BY <3>1, <3>2
  <2>3. f = [d \in Exprs |-> f[d]]
    OBVIOUS
  <2> HIDE DEF Body
  <2> QED BY <2>2, <2>3
<1>5. eval = [d \in Exprs |-> Body(eval, d)]
  <2> HIDE DEF Body
  <2> QED BY <1>4
<1>6. \A d \in Exprs : eval[d] = Body(eval, d)
  <2> HIDE DEF Body, eval
  <2> QED BY <1>5
<1>7. \A d : EvalExpr(d, values, store, rem) = IF eval[d] \in Word THEN eval[d] ELSE Undef
  BY Zenon DEF EvalExpr
<1> HIDE DEF eval
<1>8. \A d \in Exprs : eval[d] \in V
  <2> DEFINE S == {d \in Exprs : d.kind = "bin" /\ eval[d] \notin V}
  <2>1. \A d \in Exprs : d.kind # "bin" => eval[d] \in V
    BY <1>1, <1>6
  <2>2. S = {}
    <3> SUFFICES ASSUME S # {} PROVE FALSE
      OBVIOUS
    <3>1. S \in SUBSET {d \in Exprs : d.kind = "bin"}
      OBVIOUS
    <3>2. PICK d \in S : d.lhs \notin S /\ d.rhs \notin S
      BY <3>1, ExprsAreTrees
    <3>3. d \in Exprs /\ d.kind = "bin" /\ eval[d] \notin V
      OBVIOUS
    <3>4. d.lhs \in Exprs /\ d.rhs \in Exprs /\ d.op \in BinOps
      BY <3>3, ExprsAssumption
    <3>5. eval[d.lhs] \in V /\ eval[d.rhs] \in V
      BY <2>1, <3>2, <3>4
    <3>6. eval[d] \in V
      BY <1>6, <3>3, <3>4, <3>5, WrappingOpType
    <3> QED BY <3>3, <3>6
  <2> QED BY <2>1, <2>2
<1>9. \A d \in Exprs : EvalExpr(d, values, store, rem) = eval[d]
  BY <1>7, <1>8
<1>10. CASE e.kind = "bin"
  <2>1. e.lhs \in Exprs /\ e.rhs \in Exprs
    BY <1>10, ExprsAssumption
  <2> QED BY <1>6, <1>9, <1>10, <2>1
<1>11. CASE e.kind # "bin"
  BY <1>6, <1>9, <1>11
<1> QED BY <1>10, <1>11

\* SubExprs is the recursion its definition writes down.
LEMMA SubExprsUnfolds ==
  ASSUME NEW e \in Exprs
  PROVE  SubExprs(e) = {e} \cup (IF e.kind = "bin" THEN SubExprs(e.lhs) \cup SubExprs(e.rhs)
                                ELSE {})
<1> DEFINE V == SUBSET Exprs
           Body(f, d) == {d} \cup (IF d.kind = "bin" THEN f[d.lhs] \cup f[d.rhs] ELSE {})
           sub == CHOOSE f : f = [d \in Exprs |-> Body(f, d)]
           leaf == [d \in Exprs |-> {d}]
           step == [t \in Exprs \X V \X V |-> {t[1]} \cup t[2] \cup t[3]]
<1>1. leaf \in [Exprs -> V]
  OBVIOUS
<1>2. step \in [Exprs \X V \X V -> V]
  OBVIOUS
<1>3. \E f : f = [d \in Exprs |-> Body(f, d)]
  <2>1. PICK f \in [Exprs -> V] :
          \A d \in Exprs : /\ d.kind = "bin" => f[d] = step[<<d, f[d.lhs], f[d.rhs]>>]
                           /\ d.kind # "bin" => f[d] = leaf[d]
    <3> HIDE DEF V, leaf, step
    <3>1. \E f : ExprFollows(f, V, leaf, step)
      BY <1>1, <1>2, ExprRecursion
    <3> QED BY <3>1 DEF ExprFollows
  <2>2. ASSUME NEW d \in Exprs
        PROVE  f[d] = Body(f, d)
    <3>1. CASE d.kind # "bin"
      BY <2>1, <3>1
    <3>2. CASE d.kind = "bin"
      <4>1. d.lhs \in Exprs /\ d.rhs \in Exprs
        BY <3>2, ExprsAssumption
      <4>2. f[d.lhs] \in V /\ f[d.rhs] \in V
        BY <4>1
      <4>3. f[d] = step[<<d, f[d.lhs], f[d.rhs]>>]
        BY <2>1, <3>2
      <4>4. <<d, f[d.lhs], f[d.rhs]>> \in Exprs \X V \X V
        BY <4>2
      <4>5. f[d] = {d} \cup f[d.lhs] \cup f[d.rhs]
        BY <4>3, <4>4
      <4> QED BY <3>2, <4>5
    <3> QED BY <3>1, <3>2
  <2>3. f = [d \in Exprs |-> f[d]]
    OBVIOUS
  <2> HIDE DEF Body
  <2> QED BY <2>2, <2>3
<1>4. sub = [d \in Exprs |-> Body(sub, d)]
  <2> HIDE DEF Body
  <2> QED BY <1>3
<1>5. \A d : SubExprs(d) = sub[d]
  BY Zenon DEF SubExprs
<1> HIDE DEF sub
<1>6. sub[e] = Body(sub, e)
  <2> HIDE DEF Body
  <2> QED BY <1>4
<1> QED BY <1>5, <1>6

\* The subexpressions of an operand are subexpressions of the operation.
LEMMA OperandSubExprs ==
  ASSUME NEW e \in Exprs, e.kind = "bin"
  PROVE  /\ SubExprs(e.lhs) \subseteq SubExprs(e)
         /\ SubExprs(e.rhs) \subseteq SubExprs(e)
BY SubExprsUnfolds

\* An expression has a value where everything it refers to has one.
LEMMA EvalExprDefined ==
  ASSUME NEW values, \A r \in DOMAIN values : values[r] \in Word,
         NEW store, \A m \in DOMAIN store : store[m] \in Word,
         NEW rem \in Word \cup {Undef}, NEW e \in Exprs,
         \A r \in FieldRefs(e) : <<r.header, r.field>> \in DOMAIN values,
         \A r \in MetadataRefs(e) : r.name \in DOMAIN store,
         ContainsRemaining(e) => rem # Undef
  PROVE  EvalExpr(e, values, store, rem) \in Word
<1> DEFINE Resolved(d) ==
             \A c \in SubExprs(d) :
               /\ c.kind = "field" => <<c.header, c.field>> \in DOMAIN values
               /\ c.kind = "metadata" => c.name \in DOMAIN store
               /\ c.kind = "remaining" => rem # Undef
           Value(d) == EvalExpr(d, values, store, rem)
           S == {d \in Exprs : d.kind = "bin" /\ Resolved(d) /\ Value(d) \notin Word}
<1>1. Resolved(e)
  BY DEF FieldRefs, MetadataRefs, ContainsRemaining
<1>2. ASSUME NEW d \in Exprs, d.kind # "bin", Resolved(d)
      PROVE  Value(d) \in Word
  <2>1. Value(d) = LeafValue(d, values, store, rem)
    BY <1>2, EvalExprUnfolds
  <2>2. d \in SubExprs(d)
    BY SubExprsUnfolds
  <2>3. /\ d.kind = "field" => <<d.header, d.field>> \in DOMAIN values
        /\ d.kind = "metadata" => d.name \in DOMAIN store
        /\ d.kind = "remaining" => rem # Undef
    BY <1>2, <2>2
  <2>4. LeafValue(d, values, store, rem) \in Word
    BY <1>2, <2>3, ExprsAssumption DEF LeafValue
  <2> QED BY <2>1, <2>4
<1>3. S = {}
  <2> SUFFICES ASSUME S # {} PROVE FALSE
    OBVIOUS
  <2>1. S \in SUBSET {d \in Exprs : d.kind = "bin"}
    OBVIOUS
  <2>2. PICK d \in S : d.lhs \notin S /\ d.rhs \notin S
    <3> HIDE DEF S
    <3> QED BY <2>1, ExprsAreTrees
  <2>3. d \in Exprs /\ d.kind = "bin" /\ Resolved(d) /\ Value(d) \notin Word
    BY <2>2
  <2>4. d.lhs \in Exprs /\ d.rhs \in Exprs /\ d.op \in BinOps
    BY <2>3, ExprsAssumption
  <2>5. Resolved(d.lhs) /\ Resolved(d.rhs)
    BY <2>3, OperandSubExprs
  <2> HIDE DEF Resolved
  <2>6. Value(d.lhs) \in Word /\ Value(d.rhs) \in Word
    BY <1>2, <2>2, <2>4, <2>5
  <2>7. WrappingOp(d.op, Value(d.lhs), Value(d.rhs)) \in Word
    <3> HIDE DEF Value
    <3> QED BY <2>4, <2>6, WrappingOpType
  <2>8. Value(d) = WrappingOp(d.op, Value(d.lhs), Value(d.rhs))
    BY <2>3, <2>6, EvalExprUnfolds, WordProperties
  <2> QED BY <2>3, <2>7, <2>8
<1> HIDE DEF Resolved, Value
<1> QED BY <1>1, <1>2, <1>3 DEF Value

----------------------------------------------------------------------------
(* Stored and read values.                                                 *)

\* A value stored in metadata is a word.
LEMMA MaskedType ==
  ASSUME NEW v \in Word, NEW bits \in Nat
  PROVE  Masked(v, bits) \in Word
<1>1. CASE bits >= WordBits
  BY <1>1 DEF Masked
<1>2. CASE bits < WordBits
  <2>1. 2^bits \in Nat \ {0} /\ 2^bits <= WordSize
    BY <1>2, WordBitsAssumption, PowersAssumption DEF WordSize
  <2>2. v % 2^bits \in 0..(2^bits - 1)
    BY <2>1, WordProperties
  <2> QED BY <1>2, <2>1, <2>2, WordProperties, WordBitsAssumption DEF Masked, Word
<1> QED BY <1>1, <1>2, WordBitsAssumption

\* The bits of a field make a word.
LEMMA ReadBitsType ==
  ASSUME NEW c, NEW n \in Nat
  PROVE  ReadBits(c, n) \in Word
<1>1. {k \in 0..(n - 1) : k < WordBits /\ packet[c + n - k] = 1} \subseteq 0..(WordBits - 1)
  BY WordBitsAssumption
<1> QED BY <1>1, FromBitsAssumption DEF ReadBits

----------------------------------------------------------------------------
(* Induction and recursion over positions.                                 *)

\* A set of naturals that is not empty has a least element.
LEMMA Least ==
  ASSUME NEW S \in SUBSET Nat, S # {}
  PROVE  \E x \in S : \A y \in S : x <= y
<1>1. PICK x \in S : \A y \in S : <<y, x>> \notin OpToRel(<, Nat)
  BY NatLessThanWellFounded, WFMin
<1>2. ASSUME NEW y \in S
      PROVE  ~(y < x)
  BY <1>1, Zenon DEF OpToRel
<1>3. \A y \in S : x <= y
  BY <1>2
<1> QED BY <1>3

\* The least element of a set of naturals that is not empty is in it.
LEMMA MinIn ==
  ASSUME NEW S \in SUBSET Nat, S # {}
  PROVE  Min(S) \in S
<1>1. \E x \in S : \A y \in S : x <= y
  BY Least
<1> QED BY <1>1 DEF Min

\* A set that holds 0, and with each position the next, holds them all.
LEMMA Induction ==
  ASSUME NEW S, NEW n \in Nat, 0 \in S, \A k \in 1..n : k - 1 \in S => k \in S
  PROVE  \A k \in 0..n : k \in S
<1> DEFINE T == {k \in 0..n : k \notin S}
<1> SUFFICES ASSUME T # {} PROVE FALSE
  OBVIOUS
<1>1. PICK x \in T : \A y \in T : x <= y
  <2>1. T \in SUBSET Nat
    OBVIOUS
  <2> HIDE DEF T
  <2> QED BY <2>1, Least
<1>2. x \in 1..n /\ x - 1 \in 0..n
  BY <1>1
<1>3. x - 1 \notin T
  BY <1>1, <1>2
<1> QED BY <1>1, <1>2, <1>3

\* A value at 0 and a rule that gives each value from the one before it.
Follows(f, n, V, base, step) ==
  f \in [0..n -> V] /\ f[0] = base /\ \A k \in 1..n : f[k] = step[<<k, f[k - 1]>>]

\* They define a function.
LEMMA Recursion ==
  ASSUME NEW n \in Nat, NEW V, NEW base \in V, NEW step \in [(1..n) \X V -> V]
  PROVE  \E f : Follows(f, n, V, base, step)
<1> DEFINE Keeps(f, m) == f[0] = base /\ \A k \in 1..m : f[k] = step[<<k, f[k - 1]>>]
           Upto(m) == \E f \in [0..m -> V] : Keeps(f, m)
           S == {m \in 0..n : Upto(m)}
<1>1. Upto(0)
  <2> DEFINE g == [k \in 0..0 |-> base]
  <2>1. g \in [0..0 -> V]
    OBVIOUS
  <2>2. g[0] = base /\ 1..0 = {}
    OBVIOUS
  <2> HIDE DEF g
  <2>3. Keeps(g, 0)
    BY <2>2
  <2> QED BY <2>1, <2>3
<1>2. ASSUME NEW m \in 1..n, Upto(m - 1) PROVE Upto(m)
  <2>1. PICK f \in [0..(m - 1) -> V] : Keeps(f, m - 1)
    BY <1>2
  <2>2. step[<<m, f[m - 1]>>] \in V
    BY <2>1
  <2> DEFINE g == [k \in 0..m |-> IF k = m THEN step[<<m, f[m - 1]>>] ELSE f[k]]
  <2>3. g \in [0..m -> V]
    BY <2>1, <2>2
  <2>4. /\ \A k \in 0..(m - 1) : g[k] = f[k]
        /\ g[m] = step[<<m, f[m - 1]>>]
    OBVIOUS
  <2> HIDE DEF g
  <2>5. Keeps(g, m)
    <3>1. g[0] = base
      BY <2>1, <2>4
    <3>2. ASSUME NEW k \in 1..m PROVE g[k] = step[<<k, g[k - 1]>>]
      <4>1. CASE k = m
        BY <2>4, <4>1
      <4>2. CASE k # m
        <5>1. k \in 1..(m - 1) /\ k - 1 \in 0..(m - 1) /\ k \in 0..(m - 1)
          BY <4>2
        <5>2. f[k] = step[<<k, f[k - 1]>>]
          BY <2>1, <5>1
        <5> QED BY <2>4, <5>1, <5>2
      <4> QED BY <4>1, <4>2
    <3> QED BY <3>1, <3>2
  <2> HIDE DEF Keeps
  <2> QED BY <2>3, <2>5
<1> HIDE DEF Upto
<1>3. 0 \in S /\ \A k \in 1..n : k - 1 \in S => k \in S
  BY <1>1, <1>2
<1> HIDE DEF S
<1>4. \A k \in 0..n : k \in S
  BY <1>3, Induction
<1>5. n \in S
  BY <1>4
<1>6. Upto(n)
  BY <1>5 DEF S
<1> HIDE DEF Keeps
<1>7. \E f \in [0..n -> V] : Keeps(f, n)
  BY <1>6 DEF Upto
<1> QED BY <1>7 DEF Keeps, Follows

----------------------------------------------------------------------------
(* The inductive invariant: TypeOK alone is not inductive, because a step  *)
(* reads the state entered, the header being extracted and the last entry  *)
(* of the trace, which exist only at the positions where they are read.    *)

\* What is there where a step reads it.
ControlOK ==
  /\ pc \in {"body", "field"} => current \in DOMAIN ir.states /\ trace # <<>>
  /\ pc = "field" =>
       /\ ix \in DOMAIN St.extracts
       /\ Ex.header_type \in DOMAIN ir.header_types
       /\ headers # <<>>

IInv == TypeOK /\ ControlOK /\ CursorInsideRegions

\* The parser is one of the schema, and the input a sequence of bits.
LEMMA InputTypes ==
  ASSUME TypeOK
  PROVE  /\ ir \in Parser
         /\ packet \in Seq({0, 1})
         /\ avail_bits \in Nat
BY ProgramsAssumption, PacketsAssumption DEF TypeOK, avail_bits

\* The state entered is a state of the schema.
LEMMA StType ==
  ASSUME TypeOK, current \in DOMAIN ir.states
  PROVE  /\ St \in State
         /\ NExtracts \in Nat /\ NAssigns \in Nat /\ NOps \in Nat
<1>1. ir.states \in Seq(State)
  BY InputTypes DEF Parser
<1>2. St \in State
  BY <1>1 DEF St
<1> QED BY <1>2 DEF State, NExtracts, NAssigns, NOps

\* The header being extracted and the field being read.
LEMMA FieldTypes ==
  ASSUME TypeOK, ControlOK, pc = "field"
  PROVE  /\ Ex \in Extract
         /\ InstanceOf(Ex) \in Name
         /\ Fields \in HeaderType
         /\ fx <= Len(Fields) => Width \in FieldWidth
<1>1. Ex \in Extract
  BY StType DEF ControlOK, Ex, State
<1>2. Fields \in HeaderType
  BY InputTypes DEF ControlOK, Fields, Parser
<1>3. fx <= Len(Fields) => Width \in FieldWidth
  BY <1>2 DEF TypeOK, Width, HeaderType
<1> QED BY <1>1, <1>2, <1>3 DEF InstanceOf, Extract, Name, NoName

\* The bound of a read is within the input and within every region.
LEMMA BoundProperties ==
  ASSUME TypeOK, CursorInsideRegions
  PROVE  /\ BoundBits \in Nat
         /\ BoundBits <= avail_bits
         /\ \A i \in DOMAIN regions : BoundBits <= regions[i]
         /\ regions # <<>> => Top \in Nat /\ cursor_bits <= Top
                               /\ \A i \in DOMAIN regions : Top <= regions[i]
BY InputTypes DEF TypeOK, CursorInsideRegions, BoundBits, Top
----------------------------------------------------------------------------
(* Every step preserves it.                                                *)

\* Ending a run gives a result of the type.
LEMMA FinishType ==
  ASSUME NEW o \in {"accept", "reject", "err"}, NEW r \in BuiltinReasons \cup Reasons \cup {""},
         NEW c \in Nat, NEW d \in Nat, Finish(o, r, c, d)
  PROVE  pc' = "done" /\ result' \in Result
BY DEF Finish, Result

LEMMA RejectHereEffect ==
  ASSUME TypeOK, NEW r \in BuiltinReasons \cup Reasons, RejectHere(r)
  PROVE  pc' = "done" /\ result' \in Result
BY FinishType DEF RejectHere, TypeOK

LEMMA InitIInv == Init => IInv
<1> SUFFICES ASSUME Init
             PROVE  IInv
  OBVIOUS
<1> USE DEF Init, Fresh
<1>1. ir \in Parser
  BY ProgramsAssumption
<1>2. \A m \in DOMAIN meta : meta[m] \in Word
  <2>1. ir.metadata \in Seq(MetadataField)
    BY <1>1 DEF Parser
  <2>2. \A m \in DOMAIN ir.metadata : ir.metadata[m] \in MetadataField
    BY <2>1
  <2> QED BY <2>2 DEF MetadataField
<1>3. TypeOK
  <2>1. result \in Result
    BY DEF Running, Result
  <2>2. current \in Name
    BY <1>1 DEF Parser
  <2>3. DOMAIN env = {}
    OBVIOUS
  <2> QED BY <1>2, <2>1, <2>2, <2>3 DEF TypeOK
<1>4. ControlOK
  BY DEF ControlOK
<1>5. CursorInsideRegions
  BY <1>3, InputTypes DEF CursorInsideRegions
<1> QED BY <1>3, <1>4, <1>5 DEF IInv

LEMMA EnterStateIInv ==
  ASSUME IInv, EnterState
  PROVE  IInv'
<1> USE DEF IInv
<1> DEFINE entry == [state |-> current, decision |-> <<"none", 0>>]
<1>1. /\ trace' = Append(trace, entry)
      /\ UNCHANGED <<ir, packet, fx, current, cursor_bits, entry_cursor, regions, env, meta,
                     headers>>
  BY Zenon DEF EnterState
<1>2. trace' \in Seq(TraceStep) /\ trace' # <<>>
  <2>1. entry \in TraceStep
    BY DEF TypeOK, TraceStep, Decisions
  <2>2. trace \in Seq(TraceStep)
    BY DEF TypeOK
  <2> HIDE DEF entry
  <2> QED BY <1>1, <2>1, <2>2, AppendProperties, Zenon
<1>3. CASE RejectHere("max depth exceeded") /\ UNCHANGED <<depth, ix>>
  <2>1. pc' = "done" /\ result' \in Result
    BY <1>3, RejectHereEffect DEF BuiltinReasons
  <2> QED BY <1>1, <1>2, <1>3, <2>1 DEF TypeOK, ControlOK, CursorInsideRegions, avail_bits
<1>4. CASE /\ current \in DOMAIN ir.states /\ depth' = depth + 1 /\ pc' = "body" /\ ix' = 1
           /\ UNCHANGED result
  BY <1>1, <1>2, <1>4 DEF TypeOK, ControlOK, CursorInsideRegions, avail_bits
<1> QED BY <1>3, <1>4, Zenon DEF EnterState

LEMMA BeginExtractIInv ==
  ASSUME IInv, BeginExtract
  PROVE  IInv'
<1> USE DEF IInv, BeginExtract
<1>0. Ex \in Extract /\ InstanceOf(Ex) \in Name /\ ix \in DOMAIN St.extracts
  <2>1. ix \in DOMAIN St.extracts
    BY StType DEF AtExtract, NExtracts, ControlOK, TypeOK, State
  <2>2. Ex \in Extract
    BY <2>1, StType DEF Ex, ControlOK, AtExtract, State
  <2> QED BY <2>1, <2>2 DEF InstanceOf, Extract, Name, NoName
<1>1. TypeOK'
  <2>1. headers' \in Seq(ParsedHeader)
    BY <1>0 DEF TypeOK, ParsedHeader, Extract
  <2> QED BY <2>1 DEF TypeOK
<1>2. ControlOK'
  <2>1. headers' # <<>>
    BY AppendProperties DEF TypeOK
  <2> QED BY <1>0, <2>1 DEF TypeOK, ControlOK, AtExtract, St, Ex
<1>3. CursorInsideRegions'
  BY InputTypes DEF CursorInsideRegions, avail_bits, TypeOK
<1> QED BY <1>1, <1>2, <1>3

\* Recording a field keeps the headers well typed.
LEMMA RecordFieldType ==
  ASSUME TypeOK, headers # <<>>, NEW len \in Nat, NEW value \in FieldValue,
         RecordField(len, value)
  PROVE  headers' \in Seq(ParsedHeader) /\ headers' # <<>>
<1> DEFINE n == Len(headers)
           field == [bit_offset |-> cursor_bits, bit_len |-> len, value |-> value]
           h == [headers[n] EXCEPT !.fields = Append(headers[n].fields, field)]
<1>1. headers \in Seq(ParsedHeader) /\ n \in 1..Len(headers) /\ headers[n] \in ParsedHeader
  BY DEF TypeOK
<1>2. field \in ParsedField
  BY DEF TypeOK, ParsedField
<1>3. Append(headers[n].fields, field) \in Seq(ParsedField)
  BY <1>1, <1>2, AppendProperties DEF ParsedHeader
<1>4. h \in ParsedHeader
  BY <1>1, <1>3 DEF ParsedHeader
<1>5. headers' = [headers EXCEPT ![n] = h]
  BY Zenon DEF RecordField
<1> HIDE DEF h, n
<1> QED BY <1>1, <1>4, <1>5, ExceptSeq

LEMMA OobReasonType ==
  ASSUME NEW end
  PROVE  OobReason(end) \in BuiltinReasons
BY DEF OobReason, BuiltinReasons

LEMMA ReadFixedIInv ==
  ASSUME IInv, ReadFixed
  PROVE  IInv'
<1> USE DEF IInv
<1> DEFINE n == Width.bits
           name == <<InstanceOf(Ex), fx>>
           v == ReadBits(cursor_bits, n)
<1>1. /\ pc = "field" /\ fx <= Len(Fields) /\ Width.kind = "bits"
      /\ UNCHANGED <<ir, packet, ix, current, depth, entry_cursor, regions, meta, trace>>
  BY Zenon DEF ReadFixed, AtFixed
<1>2. n \in Nat /\ InstanceOf(Ex) \in Name
  BY <1>1, FieldTypes DEF FieldWidth
<1>3. v \in Word
  BY <1>2, ReadBitsType
<1>4. CASE /\ cursor_bits + n <= BoundBits
           /\ env' = [r \in DOMAIN env \cup {name} |-> IF r = name THEN v ELSE env[r]]
           /\ RecordField(n, [uint |-> v])
           /\ cursor_bits' = cursor_bits + n
           /\ fx' = fx + 1
           /\ UNCHANGED <<pc, result>>
  <2>1. headers' \in Seq(ParsedHeader) /\ headers' # <<>>
    <3>1. [uint |-> v] \in FieldValue
      BY <1>3 DEF FieldValue
    <3> HIDE DEF n, v
    <3> QED BY <1>1, <1>2, <1>4, <3>1, RecordFieldType DEF ControlOK
  <2>2. DOMAIN env' \subseteq Name \X Name /\ \A r \in DOMAIN env' : env'[r] \in Word
    <3>1. name \in Name \X Name
      BY <1>2 DEF TypeOK, Name, NoName
    <3> HIDE DEF name, v
    <3> QED BY <1>3, <1>4, <3>1 DEF TypeOK
  <2>3. CursorInsideRegions'
    <3> HIDE DEF n
    <3> QED BY <1>1, <1>2, <1>4, BoundProperties, SMTT(30)
            DEF CursorInsideRegions, avail_bits, TypeOK
  <2> HIDE DEF n, v, name
  <2>4. TypeOK'
    <3>1. cursor_bits' \in Nat /\ fx' \in Nat \ {0} /\ UNCHANGED <<pc, result>>
      BY <1>2, <1>4 DEF TypeOK
    <3> QED BY <1>1, <2>1, <2>2, <3>1 DEF TypeOK
  <2>5. ControlOK'
    BY <1>1, <1>4, <2>1 DEF ControlOK, St, Ex
  <2> QED BY <2>3, <2>4, <2>5
<1>5. CASE /\ Finish("reject", OobReason(CheckedAdd(cursor_bits, n)), cursor_bits, ConsumedOnReject)
           /\ UNCHANGED <<env, headers, cursor_bits, fx>>
  <2>1. ConsumedOnReject \in Nat /\ cursor_bits \in Nat
    BY DEF ConsumedOnReject, TypeOK
  <2>2. pc' = "done" /\ result' \in Result
    BY <1>5, <2>1, OobReasonType, FinishType
  <2> QED BY <1>1, <1>5, <2>2 DEF TypeOK, ControlOK, CursorInsideRegions, avail_bits
<1> QED BY <1>4, <1>5, Zenon DEF ReadFixed

LEMMA ReadRunFieldIInv ==
  ASSUME IInv, ReadRunField
  PROVE  IInv'
<1> USE DEF IInv
<1> DEFINE n == RunLength
           end == CheckedAdd(n, cursor_bits)
<1>1. /\ pc = "field" /\ fx <= Len(Fields) /\ n # Undef
      /\ UNCHANGED <<ir, packet, ix, current, depth, entry_cursor, regions, env, meta, trace>>
  BY Zenon DEF ReadRunField, AtRun
<1>2. /\ n \in Nat
      /\ end # Undef => end \in Nat /\ end = n + cursor_bits
  <2>1. n \in Word
    BY <1>1, EvalExprType DEF RunLength
  <2>2. cursor_bits \in Nat
    BY DEF TypeOK
  <2> QED BY <2>1, <2>2, CheckedAddProperties, WordProperties
<1>3. CASE /\ end # Undef /\ end <= BoundBits
           /\ RecordField(n, [bits |-> ReadRun(cursor_bits, n)])
           /\ cursor_bits' = end
           /\ fx' = fx + 1
           /\ UNCHANGED <<pc, result>>
  <2>1. cursor_bits' = cursor_bits + n /\ cursor_bits + n <= BoundBits /\ cursor_bits \in Nat
    BY <1>2, <1>3 DEF TypeOK
  <2>2. headers' \in Seq(ParsedHeader) /\ headers' # <<>>
    <3>1. \A i \in (cursor_bits + 1)..(cursor_bits + n) : packet[i] \in {0, 1}
      BY <1>2, <2>1, InputTypes, BoundProperties DEF avail_bits
    <3>2. ReadRun(cursor_bits, n) \in Seq({0, 1})
      BY <1>2, <2>1, <3>1, SubSeqProperties DEF ReadRun
    <3>3. [bits |-> ReadRun(cursor_bits, n)] \in FieldValue
      BY <3>2 DEF FieldValue
    <3> HIDE DEF n
    <3> QED BY <1>1, <1>2, <1>3, <3>3, RecordFieldType DEF ControlOK
  <2>3. CursorInsideRegions'
    <3> HIDE DEF n
    <3> QED BY <1>1, <1>2, <2>1, BoundProperties DEF CursorInsideRegions, avail_bits, TypeOK
  <2> HIDE DEF n, end
  <2>4. TypeOK'
    <3>1. cursor_bits' \in Nat /\ fx' \in Nat \ {0} /\ UNCHANGED <<pc, result>>
      BY <1>2, <1>3 DEF TypeOK
    <3> QED BY <1>1, <2>2, <3>1 DEF TypeOK
  <2>5. ControlOK'
    BY <1>1, <1>3, <2>2 DEF ControlOK, St, Ex
  <2> QED BY <2>3, <2>4, <2>5
<1>4. CASE /\ Finish("reject", OobReason(end), cursor_bits, ConsumedOnReject)
           /\ UNCHANGED <<headers, cursor_bits, fx>>
  <2>1. ConsumedOnReject \in Nat /\ cursor_bits \in Nat
    BY DEF ConsumedOnReject, TypeOK
  <2>2. pc' = "done" /\ result' \in Result
    BY <1>4, <2>1, OobReasonType, FinishType
  <2> QED BY <1>1, <1>4, <2>2 DEF TypeOK, ControlOK, CursorInsideRegions, avail_bits
<1> QED BY <1>3, <1>4, Zenon DEF ReadRunField

LEMMA EndExtractIInv ==
  ASSUME IInv, EndExtract
  PROVE  IInv'
<1> USE DEF IInv
<1>1. /\ pc = "field" /\ pc' = "body" /\ ix' = ix + 1
      /\ cursor_bits' \in {entry_cursor, cursor_bits}
      /\ UNCHANGED <<ir, packet, fx, current, depth, entry_cursor, regions, env, meta, headers,
                     trace, result>>
  BY Zenon DEF EndExtract
<1>2. TypeOK'
  BY <1>1 DEF TypeOK
<1>3. ControlOK'
  BY <1>1 DEF ControlOK
<1>4. CursorInsideRegions'
  BY <1>1, InputTypes DEF TypeOK, CursorInsideRegions, avail_bits
<1> QED BY <1>2, <1>3, <1>4

LEMMA AssignMetadataIInv ==
  ASSUME IInv, AssignMetadata
  PROVE  IInv'
<1> USE DEF IInv
<1> DEFINE m == AssignOp.metadata
           stored == Masked(AssignedValue, ir.metadata[m].bits)
<1>1. /\ pc = "body" /\ AssignedValue # Undef /\ m \in DOMAIN meta
      /\ meta' = [meta EXCEPT ![m] = stored]
      /\ ix' = ix + 1
      /\ UNCHANGED <<ir, packet, pc, fx, current, depth, cursor_bits, entry_cursor, regions, env,
                     headers, trace, result>>
  BY Zenon DEF AssignMetadata, AtAssign, MaskedStore
<1>2. stored \in Word
  <2>1. AssignedValue \in Word
    BY <1>1, EvalExprType DEF AssignedValue
  <2>2. ir.metadata \in Seq(MetadataField)
    BY InputTypes DEF Parser
  <2>3. ir.metadata[m].bits \in Nat
    <3>1. m \in DOMAIN ir.metadata
      BY <1>1 DEF TypeOK
    <3> HIDE DEF m
    <3>2. ir.metadata[m] \in MetadataField
      BY <2>2, <3>1
    <3> QED BY <3>2 DEF MetadataField
  <2> QED BY <2>1, <2>3, MaskedType
<1> HIDE DEF m, stored
<1>3. TypeOK'
  BY <1>1, <1>2 DEF TypeOK
<1>4. ControlOK' /\ CursorInsideRegions'
  BY <1>1 DEF ControlOK, CursorInsideRegions, avail_bits
<1> QED BY <1>3, <1>4

\* Dropping the last element of a sequence.
LEMMA AllButLast ==
  ASSUME NEW s \in Seq(Nat), s # <<>>
  PROVE  LET n == Len(s)
             t == SubSeq(s, 1, n - 1)
         IN  /\ t \in Seq(Nat)
             /\ Len(t) = n - 1
             /\ \A i \in 1..(n - 1) : t[i] = s[i]
<1> DEFINE k == Len(s) - 1
<1>1. k \in Nat /\ 1 \in Int /\ k \in Int /\ \A i \in 1..k : s[i] \in Nat
  OBVIOUS
<1> HIDE DEF k
<1>2. /\ SubSeq(s, 1, k) \in Seq(Nat)
      /\ Len(SubSeq(s, 1, k)) = IF 1 <= k THEN k - 1 + 1 ELSE 0
      /\ \A i \in 1..(k - 1 + 1) : SubSeq(s, 1, k)[i] = s[1 + i - 1]
  BY <1>1, SubSeqProperties
<1>3. Len(SubSeq(s, 1, k)) = k /\ \A i \in 1..k : SubSeq(s, 1, k)[i] = s[i]
  BY <1>1, <1>2
<1> QED BY <1>2, <1>3 DEF k

LEMMA PushRegionIInv ==
  ASSUME IInv, PushRegion
  PROVE  IInv'
<1> USE DEF IInv
<1> DEFINE end == CheckedAdd(PushLength, cursor_bits)
           lie == end = Undef \/ (regions # <<>> /\ end > Top)
<1>1. /\ pc = "body" /\ PushLength # Undef
      /\ UNCHANGED <<ir, packet, fx, current, depth, cursor_bits, entry_cursor, env, meta,
                     headers, trace>>
  BY Zenon DEF PushRegion, AtRegionOp
<1>2. end # Undef => end \in Nat /\ end >= cursor_bits
  <2>1. PushLength \in Word
    BY <1>1, EvalExprType DEF PushLength
  <2>2. cursor_bits \in Nat
    BY DEF TypeOK
  <2> QED BY <2>1, <2>2, CheckedAddProperties, WordProperties
<1>3. CASE ~lie /\ regions' = Append(regions, end) /\ ix' = ix + 1 /\ UNCHANGED <<pc, result>>
  <2>1. end \in Nat /\ end >= cursor_bits /\ (regions # <<>> => end <= Top)
    <3>1. regions # <<>> => Top \in Nat
      BY BoundProperties
    <3> QED BY <1>2, <1>3, <3>1
  <2> HIDE DEF end
  <2>2. /\ regions' \in Seq(Nat)
        /\ Len(regions') = Len(regions) + 1
        /\ \A i \in 1..Len(regions) : regions'[i] = regions[i]
        /\ regions'[Len(regions) + 1] = end
    <3>1. regions \in Seq(Nat)
      BY DEF TypeOK
    <3> QED BY <1>3, <2>1, <3>1, AppendProperties
  <2>3. CursorInsideRegions'
    <3>1. \A i \in 1..Len(regions) : regions[i] \in Nat /\ regions[i] >= end
      BY <2>1, BoundProperties DEF TypeOK
    <3>2. /\ Len(regions) \in Nat /\ DOMAIN regions = 1..Len(regions)
          /\ DOMAIN regions' = 1..(Len(regions) + 1)
      BY <2>2 DEF TypeOK
    <3>3. \A i, j \in 1..Len(regions) : i <= j => regions[j] <= regions[i]
      BY <3>2 DEF CursorInsideRegions
    <3>4. \A i \in 1..Len(regions) : cursor_bits <= regions[i]
      BY <3>2 DEF CursorInsideRegions
    <3>5. \A i \in DOMAIN regions' : i \in 1..Len(regions) \/ i = Len(regions) + 1
      BY <3>2
    <3>6. \A i, j \in DOMAIN regions' : i <= j => regions'[j] <= regions'[i]
      BY <2>1, <2>2, <3>1, <3>2, <3>3, <3>5
    <3>7. \A i \in DOMAIN regions' : cursor_bits <= regions'[i]
      BY <2>1, <2>2, <3>4, <3>5
    <3> QED BY <1>1, <3>6, <3>7 DEF CursorInsideRegions, avail_bits
  <2>4. TypeOK' /\ ControlOK'
    BY <1>1, <1>3, <2>2 DEF TypeOK, ControlOK
  <2> QED BY <2>3, <2>4
<1>4. CASE RejectHere("region out of bounds") /\ UNCHANGED <<regions, ix>>
  <2>1. pc' = "done" /\ result' \in Result
    BY <1>4, RejectHereEffect DEF BuiltinReasons
  <2> QED BY <1>1, <1>4, <2>1 DEF TypeOK, ControlOK, CursorInsideRegions, avail_bits
<1> QED BY <1>3, <1>4, Zenon DEF PushRegion

LEMMA PopRegionIInv ==
  ASSUME IInv, PopRegion
  PROVE  IInv'
<1> USE DEF IInv
<1> DEFINE n == Len(regions)
<1>1. /\ pc = "body" /\ regions # <<>>
      /\ regions' = SubSeq(regions, 1, n - 1)
      /\ UNCHANGED <<ir, packet, fx, current, depth, cursor_bits, entry_cursor, env, meta,
                     headers, trace>>
  BY Zenon DEF PopRegion, AtRegionOp
<1>2. /\ regions' \in Seq(Nat)
      /\ Len(regions') = n - 1
      /\ \A i \in 1..(n - 1) : regions'[i] = regions[i]
  BY <1>1, AllButLast DEF TypeOK
<1>3. CursorInsideRegions'
  <2>1. n \in Nat /\ DOMAIN regions = 1..n /\ DOMAIN regions' = 1..(n - 1)
    BY <1>2 DEF TypeOK
  <2> QED BY <1>1, <1>2, <2>1 DEF CursorInsideRegions, avail_bits
<1>4. CASE /\ RejectHere(IF Top > avail_bits THEN "out of bounds" ELSE "region not exhausted")
           /\ UNCHANGED ix
  <2>1. pc' = "done" /\ result' \in Result
    BY <1>4, RejectHereEffect DEF BuiltinReasons
  <2> QED BY <1>1, <1>2, <1>3, <1>4, <2>1 DEF TypeOK, ControlOK
<1>5. CASE ix' = ix + 1 /\ UNCHANGED <<pc, result>>
  BY <1>1, <1>2, <1>3, <1>5 DEF TypeOK, ControlOK
<1> QED BY <1>4, <1>5, Zenon DEF PopRegion

LEMMA MalformedIInv ==
  ASSUME IInv, Malformed
  PROVE  IInv'
<1> USE DEF IInv
<1> DEFINE consumed == IF pc = "field" THEN ConsumedOnReject ELSE cursor_bits
<1>1. /\ Finish("err", "", cursor_bits, consumed)
      /\ UNCHANGED <<ir, packet, ix, fx, current, depth, cursor_bits, entry_cursor, regions, env,
                     meta, headers, trace>>
  BY Zenon DEF Malformed
<1>2. consumed \in Nat /\ cursor_bits \in Nat
  BY DEF ConsumedOnReject, TypeOK
<1> HIDE DEF consumed
<1>3. pc' = "done" /\ result' \in Result
  BY <1>1, <1>2, FinishType
<1> QED BY <1>1, <1>3 DEF TypeOK, ControlOK, CursorInsideRegions, avail_bits

\* Recording the decision keeps the trace well typed.
LEMMA DecideType ==
  ASSUME TypeOK, trace # <<>>, NEW d \in Decisions \X Nat, Decide(d)
  PROVE  trace' \in Seq(TraceStep) /\ trace' # <<>>
<1> DEFINE n == Len(trace)
           last == [trace[n] EXCEPT !.decision = d]
<1>1. trace \in Seq(TraceStep) /\ n \in 1..Len(trace) /\ trace[n] \in TraceStep
  BY DEF TypeOK
<1>2. last \in TraceStep
  BY <1>1 DEF TraceStep
<1>3. trace' = [trace EXCEPT ![n] = last]
  BY Zenon DEF Decide
<1> HIDE DEF last, n
<1> QED BY <1>1, <1>2, <1>3, ExceptSeq

\* Taking a target leads to a name or to the end.
LEMMA GotoType ==
  ASSUME TypeOK, NEW t \in Target, Goto(t)
  PROVE  /\ pc' \in {"enter", "done"}
         /\ current' \in Name
         /\ result' \in Result
<1>1. CASE t.kind = "state" /\ current' = t.name /\ pc' = "enter" /\ UNCHANGED result
  BY <1>1 DEF TypeOK, Target
<1>2. CASE Finish("accept", "", cursor_bits, cursor_bits) /\ UNCHANGED current
  BY <1>2, FinishType DEF TypeOK
<1>3. CASE t.kind = "reject" /\ RejectHere(t.reason) /\ UNCHANGED current
  <2>1. t.reason \in BuiltinReasons \cup Reasons
    BY <1>3 DEF Target
  <2> QED BY <1>3, <2>1, RejectHereEffect DEF TypeOK
<1> QED BY <1>1, <1>2, <1>3, Zenon DEF Goto

\* The transition of the state entered.
LEMMA TransitionType ==
  ASSUME TypeOK, current \in DOMAIN ir.states
  PROVE  /\ St.transition \in Transition
         /\ St.transition.kind = "direct" => St.transition.next \in Target
         /\ St.transition.kind = "select" =>
              /\ St.transition.arms \in Seq(SelectArm)
              /\ St.transition.default_target \in Target \cup {NoTarget}
<1>1. St.transition \in Transition
  BY StType DEF State
<1> QED BY <1>1 DEF Transition

LEMMA TakeDirectIInv ==
  ASSUME IInv, TakeDirect
  PROVE  IInv'
<1> USE DEF IInv
<1>1. /\ pc = "body" /\ St.transition.kind = "direct"
      /\ Decide(<<"direct", 0>>) /\ Goto(St.transition.next)
      /\ UNCHANGED <<ir, packet, ix, fx, depth, cursor_bits, entry_cursor, regions, env, meta,
                     headers>>
  BY Zenon DEF TakeDirect, AtTransition
<1>2. current \in DOMAIN ir.states /\ trace # <<>>
  BY <1>1 DEF ControlOK
<1>3. trace' \in Seq(TraceStep) /\ trace' # <<>>
  BY <1>1, <1>2, DecideType DEF Decisions
<1>4. pc' \in {"enter", "done"} /\ current' \in Name /\ result' \in Result
  BY <1>1, <1>2, TransitionType, GotoType
<1> QED BY <1>1, <1>3, <1>4 DEF TypeOK, ControlOK, CursorInsideRegions, avail_bits

LEMMA TakeSelectIInv ==
  ASSUME IInv, TakeSelect
  PROVE  IInv'
<1> USE DEF IInv
<1> DEFINE i == Min(MatchingArms)
           default == St.transition.default_target
<1>1. /\ pc = "body" /\ St.transition.kind = "select"
      /\ UNCHANGED <<ir, packet, ix, fx, depth, cursor_bits, entry_cursor, regions, env, meta,
                     headers>>
  BY Zenon DEF TakeSelect, AtTransition
<1>2. current \in DOMAIN ir.states /\ trace # <<>>
  BY <1>1 DEF ControlOK
<1>3. CASE /\ MatchingArms # {}
           /\ Decide(<<"arm", i>>)
           /\ Goto(St.transition.arms[i].next)
  <2>1. St.transition.arms \in Seq(SelectArm)
    BY <1>1, <1>2, TransitionType
  <2>2. i \in DOMAIN St.transition.arms /\ i \in Nat
    <3>1. MatchingArms \in SUBSET Nat /\ MatchingArms \subseteq DOMAIN St.transition.arms
      BY <2>1 DEF MatchingArms
    <3>2. Min(MatchingArms) \in MatchingArms
      BY <1>3, <3>1, MinIn
    <3> QED BY <3>1, <3>2
  <2> HIDE DEF i
  <2>3. St.transition.arms[i].next \in Target
    <3>1. St.transition.arms[i] \in SelectArm
      BY <2>1, <2>2
    <3> QED BY <3>1 DEF SelectArm
  <2>4. <<"arm", i>> \in Decisions \X Nat
    BY <2>2 DEF Decisions
  <2>5. trace' \in Seq(TraceStep) /\ trace' # <<>>
    BY <1>2, <1>3, <2>4, DecideType
  <2>6. pc' \in {"enter", "done"} /\ current' \in Name /\ result' \in Result
    BY <1>3, <2>3, GotoType
  <2> QED BY <1>1, <2>5, <2>6 DEF TypeOK, ControlOK, CursorInsideRegions, avail_bits
<1>4. CASE /\ Decide(<<"default", 0>>)
           /\ IF default = NoTarget
              THEN RejectHere("no matching select arm") /\ UNCHANGED current
              ELSE Goto(default)
  <2>1. <<"default", 0>> \in Decisions \X Nat
    BY DEF Decisions
  <2>2. trace' \in Seq(TraceStep) /\ trace' # <<>>
    BY <1>2, <1>4, <2>1, DecideType
  <2>3. pc' \in {"enter", "done"} /\ current' \in Name /\ result' \in Result
    <3>1. CASE default = NoTarget
      BY <1>4, <3>1, RejectHereEffect DEF BuiltinReasons, TypeOK
    <3>2. CASE default # NoTarget
      <4>1. default \in Target
        BY <1>1, <1>2, <3>2, TransitionType
      <4> QED BY <1>4, <3>2, <4>1, GotoType
    <3> QED BY <3>1, <3>2
  <2> QED BY <1>1, <2>2, <2>3 DEF TypeOK, ControlOK, CursorInsideRegions, avail_bits
<1> QED BY <1>3, <1>4, Zenon DEF TakeSelect

\* Every step of the interpreter preserves the invariant.
LEMMA NextIInv ==
  ASSUME IInv, [Next]_vars
  PROVE  IInv'
<1>1. CASE Step
  <2>1. CASE EnterState BY <2>1, EnterStateIInv
  <2>2. CASE BeginExtract BY <2>2, BeginExtractIInv
  <2>3. CASE ReadFixed BY <2>3, ReadFixedIInv
  <2>4. CASE ReadRunField BY <2>4, ReadRunFieldIInv
  <2>5. CASE EndExtract BY <2>5, EndExtractIInv
  <2>6. CASE AssignMetadata BY <2>6, AssignMetadataIInv
  <2>7. CASE PushRegion BY <2>7, PushRegionIInv
  <2>8. CASE PopRegion BY <2>8, PopRegionIInv
  <2>9. CASE TakeDirect BY <2>9, TakeDirectIInv
  <2>10. CASE TakeSelect BY <2>10, TakeSelectIInv
  <2>11. CASE Malformed BY <2>11, MalformedIInv
  <2> QED BY <1>1, <2>1, <2>2, <2>3, <2>4, <2>5, <2>6, <2>7, <2>8, <2>9, <2>10, <2>11, Zenon
          DEF Step
<1>2. CASE UNCHANGED vars
  BY <1>2 DEF vars, machine, IInv, TypeOK, ControlOK, CursorInsideRegions, avail_bits, St, Ex
<1> QED BY <1>1, <1>2, Zenon DEF Next, Done

----------------------------------------------------------------------------
(* One action at a time: which one comes next depends on where the run is, *)
(* and not on the input.                                                   *)

Turn ==
  IF StepMalformed THEN "malformed"
  ELSE IF pc = "enter" THEN "enter"
  ELSE IF pc = "field" THEN IF fx > Len(Fields) THEN "end" ELSE Width.kind
  ELSE IF ix <= NExtracts THEN "extract"
  ELSE IF ix <= NExtracts + NAssigns THEN "assign"
  ELSE IF ix <= NExtracts + NAssigns + NOps THEN Op.kind
  ELSE St.transition.kind

\* In a state's body, the position says what is there.
LEMMA BodyTurn ==
  ASSUME IInv, pc = "body"
  PROVE  /\ NExtracts \in Nat /\ NAssigns \in Nat /\ NOps \in Nat /\ ix \in Nat
         /\ AtExtract => ~AtAssign /\ ~AtRegionOp /\ ~AtTransition
         /\ AtAssign => ~AtExtract /\ ~AtRegionOp /\ ~AtTransition
         /\ AtRegionOp => ~AtExtract /\ ~AtAssign /\ ~AtTransition
         /\ AtTransition => ~AtExtract /\ ~AtAssign /\ ~AtRegionOp
         /\ ~AtFixed /\ ~AtRun
<1>1. NExtracts \in Nat /\ NAssigns \in Nat /\ NOps \in Nat /\ ix \in Nat
  BY StType DEF IInv, TypeOK, ControlOK
<1> QED BY <1>1 DEF AtExtract, AtAssign, AtRegionOp, AtTransition, AtFixed, AtRun

LEMMA OneTurn ==
  ASSUME IInv
  PROVE  /\ EnterState => Turn = "enter"
         /\ BeginExtract => Turn = "extract"
         /\ ReadFixed => Turn = "bits"
         /\ ReadRunField => Turn = "bit_len"
         /\ EndExtract => Turn = "end"
         /\ AssignMetadata => Turn = "assign"
         /\ PushRegion => Turn = "push"
         /\ PopRegion => Turn = "pop"
         /\ TakeDirect => Turn = "direct"
         /\ TakeSelect => Turn = "select"
         /\ Malformed => Turn = "malformed"
<1>1. ASSUME EnterState PROVE Turn = "enter"
  <2>1. pc = "enter" /\ (depth >= ir.max_depth \/ current \in DOMAIN ir.states)
    BY <1>1, Zenon DEF EnterState
  <2>2. depth \in Nat /\ ir.max_depth \in Nat
    BY InputTypes DEF IInv, TypeOK, Parser
  <2>3. ~StepMalformed
    BY <2>1, <2>2 DEF StepMalformed, AtExtract, AtRun, AtAssign, AtRegionOp, AtTransition
  <2> QED BY <2>1, <2>3 DEF Turn
<1>2. ASSUME BeginExtract PROVE Turn = "extract"
  <2>1. AtExtract /\ pc = "body" /\ Ex.header_type \in DOMAIN ir.header_types /\ ix <= NExtracts
    BY <1>2 DEF BeginExtract, AtExtract
  <2>2. ~StepMalformed
    BY <2>1, BodyTurn DEF StepMalformed
  <2> QED BY <2>1, <2>2 DEF Turn
<1>3. ASSUME ReadFixed PROVE Turn = "bits"
  <2>1. pc = "field" /\ fx <= Len(Fields) /\ Width.kind = "bits"
    BY <1>3 DEF ReadFixed, AtFixed
  <2>2. ~StepMalformed
    BY <2>1 DEF StepMalformed, AtExtract, AtRun, AtAssign, AtRegionOp, AtTransition
  <2> QED BY <2>1, <2>2, FieldTypes DEF Turn, IInv, TypeOK, HeaderType
<1>4. ASSUME ReadRunField PROVE Turn = "bit_len"
  <2>1. pc = "field" /\ fx <= Len(Fields) /\ Width.kind = "bit_len" /\ RunLength # Undef
    BY <1>4 DEF ReadRunField, AtRun
  <2>2. ~StepMalformed
    BY <2>1 DEF StepMalformed, AtExtract, AtRun, AtAssign, AtRegionOp, AtTransition
  <2> QED BY <2>1, <2>2, FieldTypes DEF Turn, IInv, TypeOK, HeaderType
<1>5. ASSUME EndExtract PROVE Turn = "end"
  <2>1. pc = "field" /\ fx = Len(Fields) + 1
    BY <1>5 DEF EndExtract
  <2>2. Len(Fields) \in Nat
    BY <2>1, FieldTypes DEF IInv, HeaderType
  <2>3. ~StepMalformed
    BY <2>1, <2>2 DEF StepMalformed, AtExtract, AtRun, AtAssign, AtRegionOp, AtTransition
  <2> QED BY <2>1, <2>2, <2>3 DEF Turn
<1>6. ASSUME AssignMetadata PROVE Turn = "assign"
  <2>1. AtAssign /\ pc = "body" /\ AssignedValue # Undef /\ AssignOp.metadata \in DOMAIN meta
    BY <1>6 DEF AssignMetadata, AtAssign
  <2>2. ~StepMalformed
    BY <2>1, BodyTurn DEF StepMalformed
  <2> QED BY <2>1, <2>2, BodyTurn DEF Turn, AtAssign
<1>7. ASSUME PushRegion \/ PopRegion PROVE Turn = Op.kind
  <2>1. AtRegionOp /\ pc = "body"
    BY <1>7 DEF PushRegion, PopRegion, AtRegionOp
  <2>2. \/ Op.kind = "push" /\ PushLength # Undef
        \/ Op.kind = "pop" /\ regions # <<>>
    BY <1>7, Zenon DEF PushRegion, PopRegion
  <2>3. ~StepMalformed
    BY <2>1, <2>2, BodyTurn DEF StepMalformed
  <2> QED BY <2>1, <2>3, BodyTurn DEF Turn, AtRegionOp
<1>8. ASSUME TakeDirect \/ TakeSelect PROVE Turn = St.transition.kind
  <2>1. AtTransition /\ pc = "body"
    BY <1>8 DEF TakeDirect, TakeSelect, AtTransition
  <2>2. \A j \in DOMAIN KeyValues : KeyValues[j] # Undef
    <3>1. CASE TakeDirect
      <4>1. St.transition.kind = "direct"
        BY <3>1, Zenon DEF TakeDirect
      <4>2. DOMAIN KeysOf(St) = {}
        BY <4>1 DEF KeysOf
      <4> QED BY <4>2 DEF KeyValues
    <3>2. CASE TakeSelect
      BY <3>2, Zenon DEF TakeSelect
    <3> QED BY <1>8, <3>1, <3>2
  <2>3. ~StepMalformed
    BY <2>1, <2>2, BodyTurn DEF StepMalformed
  <2> QED BY <2>1, <2>3, BodyTurn DEF Turn, AtTransition
<1>9. Malformed => Turn = "malformed"
  BY DEF Malformed, Turn
<1>10. /\ PushRegion => Op.kind = "push"
       /\ PopRegion => Op.kind = "pop"
       /\ TakeDirect => St.transition.kind = "direct"
       /\ TakeSelect => St.transition.kind = "select"
  BY Zenon DEF PushRegion, PopRegion, TakeDirect, TakeSelect
<1> QED BY <1>1, <1>2, <1>3, <1>4, <1>5, <1>6, <1>7, <1>8, <1>9, <1>10

----------------------------------------------------------------------------
(* The theorems.                                                           *)

\* The strengthened invariant holds in every state of every run of run_bits.
THEOREM Invariance == Spec => []IInv
BY InitIInv, NextIInv, PTL DEF Spec

\* Every run of run_bits, of any program on any input and at any word width,
\* keeps its state well typed: no value leaves the word, and every decision,
\* recorded header and result has the form the source's types give it.
THEOREM TypeCorrect == Spec => []TypeOK
<1>1. IInv => TypeOK
  BY DEF IInv
<1> QED BY <1>1, Invariance, PTL

\* The cursor of run_bits never passes the end of the input nor the end of an
\* open region, and the open regions nest, whatever lengths a packet declares
\* and however the arithmetic on them wraps.
THEOREM CursorSafe == Spec => []CursorInsideRegions
<1>1. IInv => CursorInsideRegions
  BY DEF IInv
<1> QED BY <1>1, Invariance, PTL

----------------------------------------------------------------------------
(* The bounded parser, implemented: the trace is the path a run took, and  *)
(* the extracted headers tile what it consumed.                            *)

\* What validation makes sure of before a run; without it a run would end with
\* an error before it entered a state.
StartsExist == \A p \in Programs : p.start_state \in DOMAIN p.states

\* How far a run is: what the mapping reads besides what IInv says.
ProgressOK ==
  /\ depth <= ir.max_depth
  /\ pc \in {"body", "field"} => depth > 0
  /\ pc # "done" => result.outcome = "running" /\ Len(trace) = depth
  /\ pc = "done" => result.outcome # "running"
  /\ pc = "enter" /\ depth = 0 => current \in DOMAIN ir.states

RInv == IInv /\ ProgressOK

\* A step of the bounded parser, or none.
Implements == Bounded!Next \/ UNCHANGED Bounded!vars

\* What the mapping is made of.
LEMMA MappedTypes ==
  ASSUME RInv
  PROVE  /\ ir.max_depth \in Nat /\ depth \in Nat /\ cursor_bits \in Nat /\ entry_cursor \in Nat
         /\ avail_bits \in Nat /\ cursor_bits <= avail_bits
         /\ Len(trace) \in Nat
BY InputTypes DEF RInv, IInv, TypeOK, CursorInsideRegions, Parser

\* Nothing is committed and nothing decided.
LEMMA Stays ==
  ASSUME RInv, pc # "done", pc' # "done", UNCHANGED <<ir, packet, depth, result>>,
         Len(trace') = Len(trace), Committed' = Committed,
         pc' \in {"body", "field"} => pc \in {"body", "field"},
         pc' = "enter" => depth > 0
  PROVE  ProgressOK' /\ Implements
<1>1. ProgressOK'
  BY MappedTypes DEF RInv, ProgressOK
<1>2. Verdict = "none" /\ Verdict' = "none"
  BY MappedTypes DEF RInv, ProgressOK, Verdict
<1>3. UNCHANGED Bounded!vars
  BY <1>2 DEF Bounded!vars, avail_bits
<1> QED BY <1>1, <1>3 DEF Implements

\* A field of a header that is no lookahead: its bits are committed.
LEMMA Commits ==
  ASSUME RInv, pc = "field", pc' = "field", UNCHANGED <<ir, packet, depth, result>>,
         Len(trace') = Len(trace), Committed' \in Nat, Committed \in Nat,
         Committed' >= Committed, Committed' <= avail_bits
  PROVE  ProgressOK' /\ Implements
<1>1. ProgressOK'
  BY MappedTypes DEF RInv, ProgressOK
<1>2. Verdict = "none" /\ Verdict' = "none"
  BY MappedTypes DEF RInv, ProgressOK, Verdict
<1>3. CASE Committed' = Committed
  BY <1>1, <1>2, <1>3 DEF Bounded!vars, avail_bits, Implements
<1>4. CASE Committed' > Committed
  <2>1. Bounded!Consume
    BY <1>2, <1>4 DEF Bounded!Consume, RInv, ProgressOK, avail_bits
  <2> QED BY <1>1, <2>1 DEF Implements, Bounded!Next
<1> QED BY <1>3, <1>4

\* A run that ends inside a state gives the verdict, and keeps what it committed.
LEMMA Concludes ==
  ASSUME RInv, pc # "done", depth > 0, pc' = "done", UNCHANGED <<ir, packet, depth>>,
         Len(trace') = Len(trace), result'.outcome \in {"accept", "reject", "err"},
         result'.consumed_bits = Committed
  PROVE  ProgressOK' /\ Implements
<1>1. ProgressOK'
  BY MappedTypes DEF RInv, ProgressOK
<1>2. Verdict = "none" /\ Len(trace') = depth'
  BY MappedTypes DEF RInv, ProgressOK, Verdict
<1>3. Verdict' = result'.outcome
  BY <1>2, MappedTypes DEF Verdict
<1>4. Committed' = Committed
  BY DEF Committed
<1>5. Bounded!Conclude
  BY <1>2, <1>3, <1>4 DEF Bounded!Conclude, avail_bits
<1> QED BY <1>1, <1>5 DEF Implements, Bounded!Next

\* The result of a run that ends.
LEMMA FinishResult ==
  ASSUME NEW o, NEW r, NEW c, NEW d, Finish(o, r, c, d)
  PROVE  pc' = "done" /\ result'.outcome = o /\ result'.consumed_bits = d
BY DEF Finish

\* Outside a lookahead, what the cursor has passed is committed.
LEMMA CommittedAtCursor ==
  ASSUME pc \in {"enter", "body"}
  PROVE  Committed = cursor_bits
BY DEF Committed

\* An entry spends the budget, or finds it spent.
LEMMA EnterStateRefines ==
  ASSUME RInv, EnterState
  PROVE  ProgressOK' /\ Implements
<1> DEFINE entry == [state |-> current, decision |-> <<"none", 0>>]
<1>1. /\ pc = "enter" /\ trace' = Append(trace, entry)
      /\ UNCHANGED <<ir, packet, cursor_bits>>
  BY Zenon DEF EnterState
<1> HIDE DEF entry
<1>2. Len(trace') = Len(trace) + 1 /\ Len(trace) = depth /\ result.outcome = "running"
  BY <1>1 DEF RInv, ProgressOK, IInv, TypeOK
<1>3. Verdict = "none" /\ Committed = cursor_bits
  BY <1>1, <1>2, MappedTypes DEF Verdict, Committed
<1>4. CASE depth >= ir.max_depth /\ RejectHere("max depth exceeded") /\ UNCHANGED <<depth, ix>>
  <2>1. pc' = "done" /\ result'.outcome = "reject" /\ result'.consumed_bits = cursor_bits
    BY <1>4, FinishResult DEF RejectHere
  <2>2. depth = ir.max_depth /\ depth' = depth
    <3>1. depth >= ir.max_depth /\ depth' = depth
      BY <1>4, Zenon
    <3>2. depth <= ir.max_depth
      BY DEF RInv, ProgressOK
    <3> QED BY <3>1, <3>2, MappedTypes
  <2>3. Verdict' = "exhausted" /\ Committed' = cursor_bits
    BY <1>2, <2>1, <2>2, MappedTypes DEF Verdict, Committed
  <2>4. Bounded!Conclude
    BY <1>1, <1>3, <2>2, <2>3 DEF Bounded!Conclude, avail_bits
  <2>5. ProgressOK'
    BY <1>1, <2>1, <2>2, MappedTypes DEF ProgressOK
  <2> QED BY <2>4, <2>5 DEF Implements, Bounded!Next
<1>5. CASE /\ depth < ir.max_depth /\ depth' = depth + 1 /\ pc' = "body" /\ UNCHANGED result
  <2>1. Verdict' = "none" /\ Committed' = cursor_bits
    BY <1>1, <1>2, <1>5, MappedTypes DEF Verdict, Committed
  <2>2. Bounded!Enter
    BY <1>1, <1>3, <1>5, <2>1 DEF Bounded!Enter, avail_bits
  <2>3. ProgressOK'
    BY <1>1, <1>2, <1>5, MappedTypes DEF ProgressOK
  <2> QED BY <2>2, <2>3 DEF Implements, Bounded!Next
<1> QED BY <1>4, <1>5, Zenon DEF EnterState

\* The cursor where a header begins is what is committed, lookahead or not.
LEMMA BeginExtractRefines ==
  ASSUME RInv, BeginExtract
  PROVE  ProgressOK' /\ Implements
<1>1. /\ pc = "body" /\ pc' = "field" /\ entry_cursor' = cursor_bits
      /\ UNCHANGED <<ir, packet, depth, cursor_bits, trace, result>>
  BY Zenon DEF BeginExtract, AtExtract
<1>2. Committed' = Committed
  BY <1>1 DEF Committed
<1> QED BY <1>1, <1>2, Stays

\* A field: committed, or looked at, or out of bounds.
LEMMA ReadFixedRefines ==
  ASSUME RInv, ReadFixed
  PROVE  ProgressOK' /\ Implements
<1>1. /\ pc = "field" /\ fx <= Len(Fields) /\ Width.kind = "bits"
      /\ UNCHANGED <<ir, packet, ix, current, depth, entry_cursor, trace>>
  BY Zenon DEF ReadFixed, AtFixed
<1>2. depth > 0 /\ Ex' = Ex
  BY <1>1 DEF RInv, ProgressOK, Ex, St
<1>3. Width.bits \in Nat
  BY <1>1, FieldTypes DEF RInv, IInv, FieldWidth
<1>4. CASE /\ cursor_bits + Width.bits <= BoundBits
           /\ cursor_bits' = cursor_bits + Width.bits
           /\ UNCHANGED <<pc, result>>
  <2>1. cursor_bits' \in Nat /\ cursor_bits' >= cursor_bits /\ cursor_bits' <= avail_bits
    BY <1>3, <1>4, MappedTypes, BoundProperties DEF RInv, IInv
  <2>2. /\ Committed \in Nat /\ Committed' \in Nat
        /\ Committed' >= Committed /\ Committed' <= avail_bits
    BY <1>1, <1>2, <1>4, <2>1, MappedTypes DEF Committed, RInv, IInv, CursorInsideRegions
  <2> QED BY <1>1, <1>4, <2>2, Commits
<1>5. CASE Finish("reject", OobReason(CheckedAdd(cursor_bits, Width.bits)), cursor_bits, ConsumedOnReject)
  <2>1. pc' = "done" /\ result'.outcome = "reject" /\ result'.consumed_bits = ConsumedOnReject
    BY <1>5, FinishResult
  <2>2. ConsumedOnReject = Committed
    BY <1>1 DEF ConsumedOnReject, Committed
  <2> QED BY <1>1, <1>2, <2>1, <2>2, Concludes
<1> QED BY <1>4, <1>5, Zenon DEF ReadFixed

\* A run of a length that may have wrapped.
LEMMA ReadRunFieldRefines ==
  ASSUME RInv, ReadRunField
  PROVE  ProgressOK' /\ Implements
<1> DEFINE end == CheckedAdd(RunLength, cursor_bits)
<1>1. /\ pc = "field" /\ RunLength # Undef
      /\ UNCHANGED <<ir, packet, ix, current, depth, entry_cursor, trace>>
  BY Zenon DEF ReadRunField, AtRun
<1>2. depth > 0 /\ Ex' = Ex
  BY <1>1 DEF RInv, ProgressOK, Ex, St
<1>3. end # Undef => end \in Nat /\ end >= cursor_bits
  <2>1. RunLength \in Word
    BY <1>1, EvalExprType DEF RunLength
  <2> QED BY <2>1, MappedTypes, CheckedAddProperties, WordProperties
<1> HIDE DEF end
<1>4. CASE end # Undef /\ end <= BoundBits /\ cursor_bits' = end /\ UNCHANGED <<pc, result>>
  <2>1. cursor_bits' \in Nat /\ cursor_bits' >= cursor_bits /\ cursor_bits' <= avail_bits
    BY <1>3, <1>4, MappedTypes, BoundProperties DEF RInv, IInv
  <2>2. /\ Committed \in Nat /\ Committed' \in Nat
        /\ Committed' >= Committed /\ Committed' <= avail_bits
    BY <1>1, <1>2, <1>4, <2>1, MappedTypes DEF Committed, RInv, IInv, CursorInsideRegions
  <2> QED BY <1>1, <1>4, <2>2, Commits
<1>5. CASE Finish("reject", OobReason(end), cursor_bits, ConsumedOnReject)
  <2>1. pc' = "done" /\ result'.outcome = "reject" /\ result'.consumed_bits = ConsumedOnReject
    BY <1>5, FinishResult
  <2>2. ConsumedOnReject = Committed
    BY <1>1 DEF ConsumedOnReject, Committed
  <2> QED BY <1>1, <1>2, <2>1, <2>2, Concludes
<1> QED BY <1>4, <1>5, Zenon DEF ReadRunField, end

\* The restore of a lookahead commits nothing, for nothing was.
LEMMA EndExtractRefines ==
  ASSUME RInv, EndExtract
  PROVE  ProgressOK' /\ Implements
<1>1. /\ pc = "field" /\ pc' = "body"
      /\ cursor_bits' = IF Ex.lookahead THEN entry_cursor ELSE cursor_bits
      /\ UNCHANGED <<ir, packet, depth, trace, result>>
  BY Zenon DEF EndExtract
<1>2. Committed' = Committed
  BY <1>1 DEF Committed
<1> QED BY <1>1, <1>2, Stays

\* Metadata and regions are no part of what is promised.
LEMMA PushRegionRefines ==
  ASSUME RInv, PushRegion
  PROVE  ProgressOK' /\ Implements
<1>1. pc = "body" /\ UNCHANGED <<ir, packet, depth, cursor_bits, trace>>
  BY Zenon DEF PushRegion, AtRegionOp
<1>2. depth > 0 /\ Committed = cursor_bits
  BY <1>1, CommittedAtCursor DEF RInv, ProgressOK
<1>3. CASE UNCHANGED <<pc, result>>
  BY <1>1, <1>2, <1>3, Stays DEF Committed
<1>4. CASE RejectHere("region out of bounds")
  BY <1>1, <1>2, <1>4, FinishResult, Concludes DEF RejectHere
<1> QED BY <1>3, <1>4, Zenon DEF PushRegion

\* Nor is a pop, unless it rejects.
LEMMA PopRegionRefines ==
  ASSUME RInv, PopRegion
  PROVE  ProgressOK' /\ Implements
<1>1. pc = "body" /\ UNCHANGED <<ir, packet, depth, cursor_bits, trace>>
  BY Zenon DEF PopRegion, AtRegionOp
<1>2. depth > 0 /\ Committed = cursor_bits
  BY <1>1, CommittedAtCursor DEF RInv, ProgressOK
<1>3. CASE UNCHANGED <<pc, result>>
  BY <1>1, <1>2, <1>3, Stays DEF Committed
<1>4. CASE RejectHere(IF Top > avail_bits THEN "out of bounds" ELSE "region not exhausted")
  BY <1>1, <1>2, <1>4, FinishResult, Concludes DEF RejectHere
<1> QED BY <1>3, <1>4, Zenon DEF PopRegion

\* A decision replaces the last entry of the trace and adds none.
LEMMA DecideLength ==
  ASSUME RInv, NEW d, Decide(d)
  PROVE  Len(trace') = Len(trace)
BY DEF Decide, RInv, IInv, TypeOK

\* A target: the next state, or a verdict.
LEMMA GotoRefines ==
  ASSUME RInv, NEW t, Goto(t), pc = "body", Len(trace') = Len(trace),
         UNCHANGED <<ir, packet, depth, cursor_bits>>
  PROVE  ProgressOK' /\ Implements
<1>1. depth > 0 /\ Committed = cursor_bits
  BY CommittedAtCursor DEF RInv, ProgressOK
<1>2. CASE pc' = "enter" /\ UNCHANGED result
  BY <1>1, <1>2, Stays DEF Committed
<1>3. CASE Finish("accept", "", cursor_bits, cursor_bits)
  BY <1>1, <1>3, FinishResult, Concludes
<1>4. CASE RejectHere(t.reason)
  BY <1>1, <1>4, FinishResult, Concludes DEF RejectHere
<1> QED BY <1>2, <1>3, <1>4, Zenon DEF Goto

\* A transition with no keys.
LEMMA TakeDirectRefines ==
  ASSUME RInv, TakeDirect
  PROVE  ProgressOK' /\ Implements
<1>1. /\ pc = "body" /\ Decide(<<"direct", 0>>) /\ Goto(St.transition.next)
      /\ UNCHANGED <<ir, packet, depth, cursor_bits>>
  BY Zenon DEF TakeDirect, AtTransition
<1> QED BY <1>1, DecideLength, GotoRefines

\* A select: an arm, the default, or neither.
LEMMA TakeSelectRefines ==
  ASSUME RInv, TakeSelect
  PROVE  ProgressOK' /\ Implements
<1>1. pc = "body" /\ UNCHANGED <<ir, packet, depth, cursor_bits>>
  BY Zenon DEF TakeSelect, AtTransition
<1>2. PICK d : Decide(d)
  BY Zenon DEF TakeSelect
<1>3. Len(trace') = Len(trace)
  BY <1>2, DecideLength
<1>4. (\E t : Goto(t)) \/ RejectHere("no matching select arm")
  BY Zenon DEF TakeSelect
<1>5. depth > 0 /\ Committed = cursor_bits
  BY <1>1, CommittedAtCursor DEF RInv, ProgressOK
<1>6. CASE RejectHere("no matching select arm")
  BY <1>1, <1>3, <1>5, <1>6, FinishResult, Concludes DEF RejectHere
<1>7. CASE \E t : Goto(t)
  BY <1>1, <1>3, <1>7, GotoRefines
<1> QED BY <1>4, <1>6, <1>7

\* The source's Err, past the first state.
LEMMA MalformedRefines ==
  ASSUME RInv, Malformed
  PROVE  ProgressOK' /\ Implements
<1> DEFINE consumed == IF pc = "field" THEN ConsumedOnReject ELSE cursor_bits
<1>1. /\ StepMalformed /\ Finish("err", "", cursor_bits, consumed)
      /\ UNCHANGED <<ir, packet, depth, trace>>
  BY Zenon DEF Malformed
<1>2. pc # "done" /\ depth > 0
  <2>1. CASE pc = "enter" /\ current \notin DOMAIN ir.states
    BY <2>1, MappedTypes DEF RInv, ProgressOK
  <2>2. CASE pc \in {"body", "field"}
    BY <2>2 DEF RInv, ProgressOK
  <2> QED BY <1>1, <2>1, <2>2
          DEF StepMalformed, AtExtract, AtRun, AtAssign, AtRegionOp, AtTransition
<1>3. consumed = Committed
  BY <1>2 DEF Committed, ConsumedOnReject
<1> HIDE DEF consumed
<1> QED BY <1>1, <1>2, <1>3, FinishResult, Concludes

\* An assignment.
LEMMA AssignMetadataRefines ==
  ASSUME RInv, AssignMetadata
  PROVE  ProgressOK' /\ Implements
<1>1. pc = "body" /\ UNCHANGED <<ir, packet, pc, depth, cursor_bits, trace, result>>
  BY Zenon DEF AssignMetadata, AtAssign
<1> QED BY <1>1, Stays DEF Committed

\* One step of the interpreter, one step of the bounded parser, or none.
LEMMA NextRefines ==
  ASSUME RInv, [Next]_vars
  PROVE  RInv' /\ Implements
<1>1. IInv'
  BY NextIInv DEF RInv
<1>2. ASSUME Step
      PROVE  ProgressOK' /\ Implements
  BY <1>2, EnterStateRefines, BeginExtractRefines, ReadFixedRefines, ReadRunFieldRefines,
     EndExtractRefines, AssignMetadataRefines, PushRegionRefines, PopRegionRefines,
     TakeDirectRefines, TakeSelectRefines, MalformedRefines, Zenon DEF Step
<1>3. ASSUME UNCHANGED vars
      PROVE  ProgressOK' /\ Implements
  <2>1. UNCHANGED <<ir, packet, pc, ix, current, depth, cursor_bits, entry_cursor, trace, result>>
    BY <1>3 DEF vars, machine
  <2>2. ProgressOK'
    BY <2>1 DEF RInv, ProgressOK
  <2>3. Ex' = Ex /\ avail_bits' = avail_bits
    BY <2>1 DEF Ex, St, avail_bits
  <2>4. Committed' = Committed /\ Verdict' = Verdict
    BY <2>1, <2>3 DEF Committed, Verdict
  <2> QED BY <2>1, <2>2, <2>3, <2>4 DEF Implements, Bounded!vars
<1> QED BY <1>1, <1>2, <1>3, Zenon DEF Next, Done, RInv

\* A fresh run is a bounded parser that has done nothing.
LEMMA InitRefines ==
  ASSUME StartsExist, Init
  PROVE  RInv /\ Bounded!Init
<1>1. IInv
  BY InitIInv
<1>2. /\ pc = "enter" /\ ir \in Programs /\ current = ir.start_state /\ depth = 0 /\ cursor_bits = 0
      /\ Len(trace) = 0 /\ result.outcome = "running"
  BY DEF Init, Fresh, Running
<1>3. ir.max_depth \in Nat /\ avail_bits \in Nat
  BY <1>1, InputTypes DEF IInv, Parser
<1>4. ProgressOK
  BY <1>2, <1>3 DEF ProgressOK, StartsExist
<1>5. Committed = 0 /\ Verdict = "none"
  BY <1>2 DEF Committed, Verdict
<1> QED BY <1>1, <1>2, <1>3, <1>4, <1>5 DEF RInv, Bounded!Init

\* The reference interpreter implements the bounded parser: whatever the
\* program's cycles and the packet's lengths, it enters at most max_depth states,
\* commits bits only forwards and inside the input, nothing under a lookahead,
\* and stays with its verdict.
THEOREM Refinement ==
  ASSUME StartsExist
  PROVE  Spec => ImplementsBounded
<1>1. Init => RInv /\ Bounded!Init
  BY InitRefines
<1>2. RInv /\ [Next]_vars => RInv' /\ [Bounded!Next]_(Bounded!vars)
  BY NextRefines DEF Implements
<1> QED BY <1>1, <1>2, PTL DEF Spec, ImplementsBounded, Bounded!Spec

----------------------------------------------------------------------------
(* The trace.                                                              *)

\* What validation makes sure of: the states that a program names exist.
TargetsExist ==
  \A p \in Programs :
    /\ p.start_state \in DOMAIN p.states
    /\ \A q \in DOMAIN p.states : Successors(p.states[q]) \subseteq DOMAIN p.states

\* A path of the state graph, one decision per state left behind.
OnPath(k) ==
  IF k = 1 THEN trace[1].state = ir.start_state
  ELSE DecidedTarget(trace[k - 1]) = [kind |-> "state", name |-> trace[k].state]

\* The last entry is of the state the run is in, or has decided for the state
\* the run enters next, or for the verdict.
LastEntryOK ==
  /\ pc = "enter" =>
       /\ current \in DOMAIN ir.states
       /\ IF trace = <<>> THEN current = ir.start_state
          ELSE DecidedTarget(trace[Len(trace)]) = [kind |-> "state", name |-> current]
  /\ pc \in {"body", "field"} =>
       trace[Len(trace)] = [state |-> current, decision |-> <<"none", 0>>]
  /\ pc = "done" =>
       /\ Len(trace) = depth \/ (Len(trace) = depth + 1 /\ depth = ir.max_depth)
       /\ trace # <<>> /\ trace[Len(trace)].decision[1] # "none" =>
            LET t == DecidedTarget(trace[Len(trace)])
            IN t # NoTarget => result.outcome = t.kind /\ (t.kind = "reject" => result.reason = t.reason)

TraceOK == (\A k \in DOMAIN trace : OnPath(k)) /\ LastEntryOK

TInv == RInv /\ TraceOK

LEMMA TraceTypes ==
  ASSUME RInv
  PROVE  trace \in Seq(TraceStep) /\ Len(trace) \in Nat /\ DOMAIN trace = 1..Len(trace)
BY DEF RInv, IInv, TypeOK

\* A step that decides nothing and stays in the state, or ends the run there.
LEMMA NoDecision ==
  ASSUME TInv, pc \in {"body", "field"}, UNCHANGED <<ir, current, depth, trace>>,
         pc' \in {"body", "field", "done"}
  PROVE  TraceOK'
<1>1. /\ \A k \in DOMAIN trace : OnPath(k)
      /\ trace[Len(trace)] = [state |-> current, decision |-> <<"none", 0>>]
      /\ Len(trace) = depth
  BY DEF TInv, TraceOK, LastEntryOK, RInv, ProgressOK
<1>2. \A k \in DOMAIN trace' : OnPath(k)'
  BY <1>1 DEF OnPath, DecidedTarget
<1>3. LastEntryOK'
  BY <1>1 DEF LastEntryOK
<1> QED BY <1>2, <1>3 DEF TraceOK

\* An entry extends the path by the state entered.
LEMMA EnterStateTraceOK ==
  ASSUME TInv, EnterState
  PROVE  TraceOK'
<1> DEFINE entry == [state |-> current, decision |-> <<"none", 0>>]
           n == Len(trace)
<1>1. /\ pc = "enter" /\ trace' = Append(trace, entry) /\ UNCHANGED <<ir, current>>
  BY Zenon DEF EnterState
<1>2. /\ trace \in Seq(TraceStep) /\ n \in Nat /\ DOMAIN trace = 1..n /\ n = depth
      /\ \A k \in DOMAIN trace : OnPath(k)
      /\ IF trace = <<>> THEN current = ir.start_state
         ELSE DecidedTarget(trace[n]) = [kind |-> "state", name |-> current]
  BY <1>1, TraceTypes DEF TInv, TraceOK, LastEntryOK, RInv, ProgressOK
<1> HIDE DEF entry
<1>3. /\ DOMAIN trace' = 1..(n + 1) /\ Len(trace') = n + 1
      /\ \A k \in 1..n : trace'[k] = trace[k]
      /\ trace'[n + 1] = entry
  BY <1>1, <1>2
<1>4. \A s : DecidedTarget(s)' = DecidedTarget(s)
  BY <1>1 DEF DecidedTarget
<1>5. ASSUME NEW k \in 1..(n + 1) PROVE OnPath(k)'
  <2>1. CASE k \in 1..n
    BY <1>1, <1>2, <1>3, <1>4, <2>1 DEF OnPath
  <2>2. CASE k = n + 1
    <3>1. entry.state = current
      BY DEF entry
    <3>2. CASE n = 0
      BY <1>1, <1>2, <1>3, <2>2, <3>1, <3>2 DEF OnPath
    <3>3. CASE n > 0
      <4>1. DecidedTarget(trace[n]) = [kind |-> "state", name |-> current] /\ trace'[n] = trace[n]
        BY <1>2, <1>3, <3>3
      <4> QED BY <1>2, <1>3, <1>4, <2>2, <3>1, <3>3, <4>1 DEF OnPath
    <3> QED BY <1>2, <3>2, <3>3
  <2> QED BY <1>2, <2>1, <2>2
<1>6. LastEntryOK'
  <2>1. CASE pc' = "body"
    BY <1>1, <1>3, <2>1 DEF LastEntryOK, entry
  <2>2. CASE pc' = "done" /\ UNCHANGED depth /\ depth >= ir.max_depth
    <3>1. depth = ir.max_depth
      BY <2>2, MappedTypes DEF TInv, RInv, ProgressOK
    <3>2. trace'[Len(trace')].decision[1] = "none"
      BY <1>3 DEF entry
    <3> QED BY <1>1, <1>2, <1>3, <2>2, <3>1, <3>2 DEF LastEntryOK
  <2> QED BY <2>1, <2>2, Zenon DEF EnterState, RejectHere, Finish
<1> QED BY <1>3, <1>5, <1>6 DEF TraceOK

\* A decision is recorded in the last entry, and taken.
LEMMA GotoTraceOK ==
  ASSUME TInv, TargetsExist, pc = "body", NEW d, NEW t, Decide(d), d[1] # "none",
         UNCHANGED <<ir, depth>>,
         DecidedTarget([state |-> current, decision |-> d]) = t,
         \/ Goto(t) /\ t \in TargetsOf(St)
         \/ t = NoTarget /\ pc' = "done"
  PROVE  TraceOK'
<1> DEFINE n == Len(trace)
           last == [state |-> current, decision |-> d]
<1>1. /\ trace \in Seq(TraceStep) /\ n \in Nat /\ DOMAIN trace = 1..n /\ n = depth
      /\ \A k \in DOMAIN trace : OnPath(k)
      /\ trace[n] = [state |-> current, decision |-> <<"none", 0>>]
      /\ trace # <<>>
  BY TraceTypes DEF TInv, TraceOK, LastEntryOK, RInv, ProgressOK, IInv, ControlOK
<1>2. /\ DOMAIN trace' = 1..n /\ Len(trace') = n
      /\ \A k \in 1..(n - 1) : trace'[k] = trace[k]
      /\ trace'[n] = last
  BY <1>1 DEF Decide
<1>3. last.state = current /\ last.decision = d
  BY DEF last
<1>4. \A s : DecidedTarget(s)' = DecidedTarget(s)
  BY DEF DecidedTarget
<1>5. DecidedTarget(last) = t
  BY DEF last
<1> HIDE DEF last
<1>6. ASSUME NEW k \in 1..n PROVE OnPath(k)'
  <2>1. trace'[k].state = trace[k].state
    BY <1>1, <1>2, <1>3, <1>6
  <2>2. CASE k = 1
    BY <1>1, <2>1, <2>2 DEF OnPath
  <2>3. CASE k # 1
    <3>1. k - 1 \in 1..(n - 1) /\ k \in DOMAIN trace
      BY <1>1, <2>3
    <3>2. DecidedTarget(trace[k - 1]) = [kind |-> "state", name |-> trace[k].state]
      BY <1>1, <2>3, <3>1 DEF OnPath
    <3> QED BY <1>2, <1>4, <2>1, <2>3, <3>1, <3>2 DEF OnPath
  <2> QED BY <2>2, <2>3
<1>7. LastEntryOK'
  <2>1. CASE t.kind = "state" /\ current' = t.name /\ pc' = "enter" /\ t \in TargetsOf(St)
    <3>1. t \in Target
      <4>1. St.transition \in Transition /\ current \in DOMAIN ir.states /\ TypeOK
        BY TransitionType DEF TInv, RInv, IInv, ControlOK
      <4>2. t \in Target \cup {NoTarget}
        <5>1. CASE St.transition.kind = "direct"
          BY <2>1, <4>1, <5>1, TransitionType DEF TargetsOf
        <5>2. CASE St.transition.kind = "select"
          <6>1. \A i \in DOMAIN St.transition.arms : St.transition.arms[i].next \in Target
            <7>1. St.transition.arms \in Seq(SelectArm)
              BY <4>1, <5>2, TransitionType
            <7>2. \A i \in DOMAIN St.transition.arms : St.transition.arms[i] \in SelectArm
              BY <7>1
            <7> QED BY <7>2 DEF SelectArm
          <6> QED BY <2>1, <4>1, <5>2, <6>1, TransitionType DEF TargetsOf
        <5> QED BY <4>1, <5>1, <5>2 DEF Transition
      <4> QED BY <2>1, <4>2 DEF NoTarget
    <3>2. t = [kind |-> "state", name |-> current']
      BY <2>1, <3>1 DEF Target
    <3>3. current' \in DOMAIN ir.states
      <4>1. current' \in Successors(ir.states[current]) /\ current \in DOMAIN ir.states /\ ir \in Programs
        BY <2>1 DEF Successors, St, TInv, RInv, IInv, ControlOK, TypeOK
      <4> QED BY <4>1 DEF TargetsExist
    <3>4. trace' # <<>>
      BY <1>1, <1>2
    <3> QED BY <1>2, <1>4, <1>5, <2>1, <3>2, <3>3, <3>4 DEF LastEntryOK
  <2>2. CASE /\ pc' = "done"
             /\ \/ t.kind = "accept" /\ result'.outcome = "accept"
                \/ t.kind = "reject" /\ result'.outcome = "reject" /\ result'.reason = t.reason
                \/ t = NoTarget
    BY <1>1, <1>2, <1>4, <1>5, <2>2 DEF LastEntryOK
  <2>3. \/ t.kind = "state" /\ current' = t.name /\ pc' = "enter" /\ t \in TargetsOf(St)
        \/ /\ pc' = "done"
           /\ \/ t.kind = "accept" /\ result'.outcome = "accept"
              \/ t.kind = "reject" /\ result'.outcome = "reject" /\ result'.reason = t.reason
              \/ t = NoTarget
    <3>1. CASE t.kind = "accept" /\ Finish("accept", "", cursor_bits, cursor_bits)
      BY <3>1 DEF Finish
    <3>2. CASE t.kind = "reject" /\ RejectHere(t.reason)
      BY <3>2 DEF RejectHere, Finish
    <3>3. CASE t.kind = "state" /\ current' = t.name /\ pc' = "enter" /\ t \in TargetsOf(St)
      BY <3>3
    <3>4. CASE t = NoTarget /\ pc' = "done"
      BY <3>4
    <3> QED BY <3>1, <3>2, <3>3, <3>4, Zenon DEF Goto
  <2> QED BY <2>1, <2>2, <2>3
<1> QED BY <1>2, <1>6, <1>7 DEF TraceOK

LEMMA TakeDirectTraceOK ==
  ASSUME TInv, TargetsExist, TakeDirect
  PROVE  TraceOK'
<1> DEFINE d == <<"direct", 0>>
           t == St.transition.next
<1>1. /\ pc = "body" /\ Decide(d) /\ Goto(t) /\ UNCHANGED <<ir, depth>>
  BY Zenon DEF TakeDirect, AtTransition
<1>2. t \in TargetsOf(St)
  BY DEF TargetsOf, TakeDirect
<1>3. DecidedTarget([state |-> current, decision |-> d]) = t
  BY DEF DecidedTarget, St
<1> QED BY <1>1, <1>2, <1>3, GotoTraceOK

LEMMA TakeSelectTraceOK ==
  ASSUME TInv, TargetsExist, TakeSelect
  PROVE  TraceOK'
<1>1. pc = "body" /\ UNCHANGED <<ir, depth>> /\ St.transition.kind = "select"
  BY Zenon DEF TakeSelect, AtTransition
<1>2. CASE /\ MatchingArms # {} /\ Decide(<<"arm", Min(MatchingArms)>>)
           /\ Goto(St.transition.arms[Min(MatchingArms)].next)
  <2> DEFINE a == Min(MatchingArms)
             d == <<"arm", a>>
             t == St.transition.arms[a].next
  <2>1. a \in DOMAIN St.transition.arms
    <3>1. MatchingArms \in SUBSET Nat /\ MatchingArms \subseteq DOMAIN St.transition.arms
      BY <1>1, TransitionType DEF MatchingArms, TInv, RInv, IInv, ControlOK
    <3> QED BY <1>2, <3>1, MinIn
  <2> HIDE DEF a
  <2>2. t \in TargetsOf(St)
    BY <1>1, <2>1 DEF TargetsOf
  <2>3. DecidedTarget([state |-> current, decision |-> d]) = t
    BY DEF DecidedTarget, St
  <2>4. Decide(d) /\ Goto(t)
    BY <1>2 DEF a
  <2> QED BY <1>1, <2>2, <2>3, <2>4, GotoTraceOK
<1>3. CASE Decide(<<"default", 0>>) /\ (IF St.transition.default_target = NoTarget
                                        THEN RejectHere("no matching select arm") /\ UNCHANGED current
                                        ELSE Goto(St.transition.default_target))
  <2> DEFINE d == <<"default", 0>>
             t == St.transition.default_target
  <2>1. t \in TargetsOf(St)
    BY <1>1 DEF TargetsOf
  <2>2. DecidedTarget([state |-> current, decision |-> d]) = t
    BY DEF DecidedTarget, St
  <2>3. (Goto(t) /\ t \in TargetsOf(St)) \/ (t = NoTarget /\ pc' = "done")
    BY <1>3, <2>1, Zenon DEF RejectHere, Finish
  <2> QED BY <1>1, <1>3, <2>2, <2>3, GotoTraceOK
<1> QED BY <1>2, <1>3, Zenon DEF TakeSelect

\* Every step keeps what the trace says.
LEMMA NextTInv ==
  ASSUME TInv, TargetsExist, [Next]_vars
  PROVE  TInv'
<1>1. RInv'
  BY NextRefines DEF TInv
<1>2. CASE EnterState
  BY <1>1, <1>2, EnterStateTraceOK DEF TInv
<1>3. CASE TakeDirect
  BY <1>1, <1>3, TakeDirectTraceOK DEF TInv
<1>4. CASE TakeSelect
  BY <1>1, <1>4, TakeSelectTraceOK DEF TInv
<1>5. CASE BeginExtract \/ ReadFixed \/ ReadRunField \/ EndExtract \/ AssignMetadata
           \/ PushRegion \/ PopRegion
  <2>1. /\ pc \in {"body", "field"} /\ UNCHANGED <<ir, current, depth, trace>>
        /\ pc' \in {"body", "field", "done"}
    BY <1>5 DEF BeginExtract, ReadFixed, ReadRunField, EndExtract, AssignMetadata, PushRegion,
                PopRegion, AtExtract, AtFixed, AtRun, AtAssign, AtRegionOp, RejectHere, Finish
  <2> QED BY <1>1, <2>1, NoDecision DEF TInv
<1>6. CASE Malformed
  <2>1. UNCHANGED <<ir, current, depth, trace>> /\ pc' = "done"
    BY <1>6 DEF Malformed, Finish
  <2>2. pc \in {"body", "field"}
    BY <1>6 DEF Malformed, StepMalformed, AtExtract, AtRun, AtAssign, AtRegionOp, AtTransition,
                TInv, TraceOK, LastEntryOK
  <2> QED BY <1>1, <2>1, <2>2, NoDecision DEF TInv
<1>7. CASE UNCHANGED vars
  <2>1. UNCHANGED <<ir, pc, current, depth, trace, result>>
    BY <1>7 DEF vars, machine
  <2>2. \A k \in DOMAIN trace' : OnPath(k)'
    BY <2>1 DEF TInv, TraceOK, OnPath, DecidedTarget
  <2>3. LastEntryOK'
    BY <2>1 DEF TInv, TraceOK, LastEntryOK, DecidedTarget
  <2> QED BY <1>1, <2>2, <2>3 DEF TInv, TraceOK
<1> QED BY <1>2, <1>3, <1>4, <1>5, <1>6, <1>7, Zenon DEF Next, Step, Done

LEMMA InitTInv ==
  ASSUME TargetsExist, Init
  PROVE  TInv
<1>1. RInv
  BY InitRefines DEF TargetsExist, StartsExist
<1>2. pc = "enter" /\ trace = <<>> /\ current = ir.start_state /\ ir \in Programs
  BY DEF Init, Fresh
<1>3. DOMAIN trace = {}
  BY <1>2
<1> QED BY <1>1, <1>2, <1>3 DEF TInv, TraceOK, LastEntryOK, TargetsExist

\* The trace of a run is a path of the state graph from the start state, one
\* decision per state left behind; it is as long as the budget spent, and one
\* longer exactly where the bound trips; a verdict that was decided is the
\* verdict of the decided target, for every program whose targets exist and
\* every packet.
THEOREM TraceExplains ==
  ASSUME TargetsExist
  PROVE  Spec => []TraceExplainsRun
<1>1. TInv => TraceExplainsRun
  <2> SUFFICES ASSUME TInv PROVE TraceExplainsRun
    OBVIOUS
  <2>1. Len(trace) = depth \/ (Len(trace) = depth + 1 /\ depth = ir.max_depth /\ pc = "done")
    BY DEF TInv, RInv, ProgressOK, TraceOK, LastEntryOK, IInv, TypeOK
  <2>2. \A k \in DOMAIN trace : OnPath(k)
    BY DEF TInv, TraceOK
  <2>3. (pc = "done" /\ trace # <<>> /\ trace[Len(trace)].decision[1] # "none") =>
          LET t == DecidedTarget(trace[Len(trace)])
          IN t # NoTarget => result.outcome = t.kind /\ (t.kind = "reject" => result.reason = t.reason)
    BY DEF TInv, TraceOK, LastEntryOK
  <2> QED BY <2>1, <2>2, <2>3 DEF TraceExplainsRun, OnPath, Last
<1>2. Init => TInv
  BY InitTInv
<1>3. TInv /\ [Next]_vars => TInv'
  BY NextTInv
<1> QED BY <1>1, <1>2, <1>3, PTL DEF Spec

----------------------------------------------------------------------------
(* Sequences of sequences.                                                 *)

\* The partial results of FlattenSeq.
Flattens(f, s, X) ==
  /\ f \in [1..Len(s) -> Seq(X)]
  /\ f[1] = s[1]
  /\ \A i \in 2..Len(s) : f[i] = f[i - 1] \o s[i]

\* FlattenSeq goes through them.
LEMMA FlattenSeqSteps ==
  ASSUME NEW X, NEW s \in Seq(Seq(X)), Len(s) > 0
  PROVE  \E f : Flattens(f, s, X) /\ FlattenSeq(s) = f[Len(s)]
<1> DEFINE n == Len(s)
           Body(f, i) == IF i = 1 THEN s[i] ELSE f[i - 1] \o s[i]
           flatten == CHOOSE f : f = [i \in 1..n |-> Body(f, i)]
           Y == Seq(X)
           base == <<>>
           step == [c \in (1..n) \X Y |-> IF c[1] = 1 THEN s[1] ELSE c[2] \o s[c[1]]]
<1>1. n \in Nat /\ n > 0 /\ 1 \in 1..n /\ \A i \in 1..n : s[i] \in Y
  OBVIOUS
<1>2. step \in [(1..n) \X Y -> Y]
  BY <1>1
<1>3. base \in Y
  OBVIOUS
<1>4. \A k \in 1..n : \A y \in Y : step[<<k, y>>] = IF k = 1 THEN s[1] ELSE y \o s[k]
  OBVIOUS
<1>5. PICK r : Follows(r, n, Y, base, step)
  <2> HIDE DEF step, Y, n, base
  <2>1. n \in Nat
    BY <1>1
  <2> QED BY <1>2, <1>3, <2>1, Recursion
<1> HIDE DEF step, Y, n
<1>6. \A k \in 1..n : r[k] = IF k = 1 THEN s[1] ELSE r[k - 1] \o s[k]
  <2> TAKE k \in 1..n
  <2>1. k - 1 \in 0..n
    BY <1>1
  <2>2. r[k - 1] \in Y
    BY <1>5, <2>1 DEF Follows
  <2> QED BY <1>4, <1>5, <2>2 DEF Follows
<1> DEFINE g == [i \in 1..n |-> r[i]]
<1>7. g = [i \in 1..n |-> Body(g, i)]
  BY <1>1, <1>6
<1>8. flatten = [i \in 1..n |-> Body(flatten, i)]
  <2> HIDE DEF Body, g
  <2> QED BY <1>7
<1>9. FlattenSeq(s) = flatten[n]
  BY <1>1 DEF FlattenSeq, n
<1> HIDE DEF flatten, g
<1>10. DOMAIN flatten = 1..n /\ \A i \in 1..n : flatten[i] = Body(flatten, i)
  <2> HIDE DEF Body
  <2> QED BY <1>8
<1>11. \A i \in 1..n : flatten[i] \in Y
  <2> DEFINE S == {i \in 0..n : i = 0 \/ flatten[i] \in Y}
  <2>1. 0 \in S
    BY <1>1
  <2>2. ASSUME NEW k \in 1..n, k - 1 \in S PROVE k \in S
    <3>1. CASE k = 1
      <4>1. flatten[k] = s[k] /\ s[k] \in Y
        BY <1>1, <1>10, <3>1
      <4> QED BY <1>1, <4>1
    <3>2. CASE k # 1
      <4>1. flatten[k] = flatten[k - 1] \o s[k]
        BY <1>10, <3>2
      <4>2. flatten[k - 1] \in Y /\ s[k] \in Y
        BY <1>1, <2>2, <3>2
      <4>3. flatten[k] \in Y
        BY <4>1, <4>2 DEF Y
      <4> QED BY <1>1, <4>3
    <3> QED BY <3>1, <3>2
  <2> HIDE DEF S
  <2>3. \A k \in 0..n : k \in S
    BY <1>1, <2>1, <2>2, Induction
  <2> QED BY <2>3 DEF S
<1>12. flatten = [i \in 1..n |-> flatten[i]]
  <2> HIDE DEF Body
  <2> QED BY <1>8
<1>13. flatten \in [1..n -> Seq(X)]
  BY <1>11, <1>12 DEF Y
<1>14. Flattens(flatten, s, X)
  <2>1. flatten[1] = s[1]
    BY <1>1, <1>10
  <2>2. \A i \in 2..n : flatten[i] = flatten[i - 1] \o s[i]
    <3> TAKE i \in 2..n
    <3>1. i \in 1..n /\ i # 1
      BY <1>1
    <3> QED BY <1>10, <3>1
  <2> QED BY <1>13, <2>1, <2>2 DEF Flattens, n
<1> QED BY <1>9, <1>14 DEF n

\* Flattening one sequence more appends it.
LEMMA FlattenSeqAppend ==
  ASSUME NEW X, NEW s \in Seq(Seq(X)), NEW x \in Seq(X)
  PROVE  /\ FlattenSeq(<<>>) = <<>>
         /\ FlattenSeq(s) \in Seq(X)
         /\ FlattenSeq(Append(s, x)) = FlattenSeq(s) \o x
<1> DEFINE n == Len(s)
           t == Append(s, x)
<1>1. FlattenSeq(<<>>) = <<>>
  BY DEF FlattenSeq
<1>2. FlattenSeq(s) \in Seq(X)
  <2>1. CASE n = 0
    <3>1. s = <<>>
      BY <2>1
    <3>2. FlattenSeq(s) = <<>>
      BY <1>1, <3>1
    <3> QED BY <3>2
  <2>2. CASE n > 0
    <3>1. PICK f : Flattens(f, s, X) /\ FlattenSeq(s) = f[n]
      BY <2>2, FlattenSeqSteps
    <3> DEFINE Y == Seq(X)
    <3> HIDE DEF Y
    <3>2. f \in [1..n -> Y] /\ n \in 1..n
      BY <2>2, <3>1 DEF Flattens, Y
    <3>3. f[n] \in Y
      BY <3>2
    <3> QED BY <3>1, <3>3 DEF Y
  <2>3. n \in Nat
    OBVIOUS
  <2> QED BY <2>1, <2>2, <2>3
<1>3. /\ t \in Seq(Seq(X)) /\ n \in Nat /\ Len(t) = n + 1 /\ t[n + 1] = x
      /\ \A i \in 1..n : t[i] = s[i]
  <2>1. s \in Seq(Seq(X)) /\ x \in Seq(X)
    OBVIOUS
  <2> DEFINE Y == Seq(X)
  <2> HIDE DEF Y
  <2>2. s \in Seq(Y) /\ x \in Y
    BY <2>1 DEF Y
  <2>3. /\ t \in Seq(Y) /\ n \in Nat /\ Len(t) = n + 1 /\ t[n + 1] = x
        /\ \A i \in 1..n : t[i] = s[i]
    BY <2>2
  <2> QED BY <2>3 DEF Y
<1> HIDE DEF t, n
<1>4. PICK g : Flattens(g, t, X) /\ FlattenSeq(t) = g[n + 1]
  <2>1. Len(t) > 0
    BY <1>3
  <2>2. \E g : Flattens(g, t, X) /\ FlattenSeq(t) = g[Len(t)]
    BY <1>3, <2>1, FlattenSeqSteps
  <2> QED BY <1>3, <2>2
<1>5. CASE n = 0
  <2>1. s = <<>>
    BY <1>5 DEF n
  <2>2. FlattenSeq(t) = x
    BY <1>3, <1>4, <1>5 DEF Flattens
  <2> QED BY <1>1, <1>2, <2>1, <2>2 DEF t
<1>6. CASE n > 0
  <2>1. PICK f : Flattens(f, s, X) /\ FlattenSeq(s) = f[n]
    BY <1>6, FlattenSeqSteps DEF n
  <2> DEFINE S == {i \in 0..n : i = 0 \/ g[i] = f[i]}
  <2>2. 0 \in S
    BY <1>3
  <2>3. ASSUME NEW k \in 1..n, k - 1 \in S PROVE k \in S
    <3>1. CASE k = 1
      BY <1>3, <1>4, <2>1, <3>1 DEF Flattens
    <3>2. CASE k # 1
      <4>1. k - 1 \in 1..n /\ k \in 2..n /\ k \in 2..(n + 1) /\ n = Len(s)
        BY <3>2, <1>3 DEF n
      <4>2. f[k] = f[k - 1] \o s[k] /\ g[k] = g[k - 1] \o t[k] /\ t[k] = s[k]
        BY <1>3, <1>4, <2>1, <4>1 DEF Flattens
      <4>3. g[k - 1] = f[k - 1]
        BY <2>3, <4>1
      <4>4. g[k] = f[k]
        BY <4>2, <4>3
      <4> QED BY <4>4
    <3> QED BY <3>1, <3>2
  <2> HIDE DEF S
  <2>4. \A k \in 0..n : k \in S
    BY <1>3, <2>2, <2>3, Induction
  <2>5. g[n] = f[n]
    <3>1. n \in S
      BY <1>3, <2>4
    <3> QED BY <1>6, <3>1 DEF S
  <2>6. g[n + 1] = g[n] \o t[n + 1]
    <3>1. n + 1 \in 2..Len(t) /\ (n + 1) - 1 = n
      BY <1>3, <1>6
    <3>2. g[n + 1] = g[(n + 1) - 1] \o t[n + 1]
      BY <1>4, <3>1 DEF Flattens
    <3> QED BY <3>1, <3>2
  <2> QED BY <1>1, <1>2, <1>3, <1>4, <2>1, <2>5, <2>6 DEF t
<1> QED BY <1>3, <1>5, <1>6

----------------------------------------------------------------------------
(* The extracts of the states entered.                                     *)

\* The states of the first n entries exist.
EntriesExist(n) == \A k \in 1..n : trace[k].state \in DOMAIN ir.states

\* The extracts of the first n entries of a path.
PathExtracts(states, path, n) == FlattenSeq([k \in 1..n |-> states[path[k].state].extracts])

\* One state entered more, its extracts more.
LEMMA PathExtractsNext ==
  ASSUME NEW states \in Seq(State), NEW path, NEW n \in Nat,
         \A k \in 1..n : path[k].state \in DOMAIN states
  PROVE  /\ PathExtracts(states, path, n) \in Seq(Extract)
         /\ n > 0 => /\ PathExtracts(states, path, n - 1) \in Seq(Extract)
                     /\ states[path[n].state].extracts \in Seq(Extract)
                     /\ PathExtracts(states, path, n) = PathExtracts(states, path, n - 1) \o states[path[n].state].extracts
<1> DEFINE lists(m) == [k \in 1..m |-> states[path[k].state].extracts]
           Y == Seq(Extract)
<1>1. \A k \in 1..n : states[path[k].state].extracts \in Y
  <2> TAKE k \in 1..n
  <2>2. states[path[k].state] \in State
    OBVIOUS
  <2> QED BY <2>2 DEF State
<1> HIDE DEF Y
<1>2. lists(n) \in Seq(Y)
  BY <1>1
<1>3. PathExtracts(states, path, n) \in Y
  BY <1>2, FlattenSeqAppend DEF PathExtracts, Y
<1>4. ASSUME n > 0
      PROVE  /\ PathExtracts(states, path, n - 1) \in Y
             /\ PathExtracts(states, path, n) = PathExtracts(states, path, n - 1) \o states[path[n].state].extracts
  <2> DEFINE x == states[path[n].state].extracts
             m == n - 1
  <2>1. m \in Nat /\ n = m + 1 /\ x \in Y
    BY <1>1, <1>4
  <2>2. lists(m) \in Seq(Y)
    BY <1>1, <2>1
  <2>3. lists(n) = Append(lists(m), x)
    <3>1. Append(lists(m), x) = [k \in 1..(m + 1) |-> IF k = m + 1 THEN x ELSE lists(m)[k]]
      BY <2>1
    <3>2. \A k \in 1..n : states[path[k].state].extracts = IF k = m + 1 THEN x ELSE lists(m)[k]
      BY <2>1
    <3> QED BY <2>1, <3>1, <3>2
  <2> HIDE DEF m, x, lists
  <2>4. FlattenSeq(lists(m)) \in Seq(Extract)
    BY <2>1, <2>2, FlattenSeqAppend DEF Y
  <2>5. FlattenSeq(Append(lists(m), x)) = FlattenSeq(lists(m)) \o x
    BY <2>1, <2>2, FlattenSeqAppend DEF Y
  <2> QED BY <2>3, <2>4, <2>5 DEF PathExtracts, lists, m, x, Y
<1>5. n > 0 => states[path[n].state].extracts \in Y
  BY <1>1
<1> HIDE DEF lists
<1>6. n > 0 => PathExtracts(states, path, n - 1) \in Y
  BY <1>4
<1>7. n > 0 => PathExtracts(states, path, n) = PathExtracts(states, path, n - 1) \o states[path[n].state].extracts
  BY <1>4
<1> QED BY <1>3, <1>5, <1>6, <1>7, Zenon DEF Y

LEMMA ExtractedNext ==
  ASSUME ir \in Parser, NEW n \in Nat, EntriesExist(n)
  PROVE  /\ Extracted(n) \in Seq(Extract)
         /\ n > 0 => /\ Extracted(n - 1) \in Seq(Extract)
                     /\ ir.states[trace[n].state].extracts \in Seq(Extract)
                     /\ Extracted(n) = Extracted(n - 1) \o ir.states[trace[n].state].extracts
<1>1. ir.states \in Seq(State) /\ \A k \in 1..n : trace[k].state \in DOMAIN ir.states
  BY DEF Parser, EntriesExist
<1>2. Extracted(n) = PathExtracts(ir.states, trace, n) /\ Extracted(n - 1) = PathExtracts(ir.states, trace, n - 1)
  BY DEF Extracted, PathExtracts
<1> HIDE DEF Extracted
<1> QED BY <1>1, <1>2, PathExtractsNext

\* The extracts of the entries are those of the states entered.
LEMMA ExtractedSame ==
  ASSUME UNCHANGED ir, NEW n \in Nat, \A k \in 1..n : trace'[k].state = trace[k].state
  PROVE  \A m \in 0..n : Extracted(m)' = Extracted(m)
<1> TAKE m \in 0..n
<1>1. [k \in 1..m |-> ir.states[trace[k].state].extracts]' =
        [k \in 1..m |-> ir.states[trace[k].state].extracts]
  OBVIOUS
<1> QED BY <1>1 DEF Extracted

----------------------------------------------------------------------------
(* The headers.                                                            *)

\* The fields of a header lie one behind the other.
Contiguous(h) ==
  \A i \in DOMAIN h.fields :
    h.fields[i].bit_offset =
      IF i = 1 THEN h.start_bit
      ELSE h.fields[i - 1].bit_offset + h.fields[i - 1].bit_len

LEMMA FieldAppended ==
  ASSUME NEW h \in ParsedHeader, Contiguous(h),
         NEW f, f.bit_offset = HeaderEnd(h),
         NEW g, g = [h EXCEPT !.fields = Append(@, f)]
  PROVE  /\ g.instance = h.instance /\ g.start_bit = h.start_bit
         /\ Contiguous(g)
         /\ HeaderEnd(g) = f.bit_offset + f.bit_len
<1> DEFINE n == Len(h.fields)
<1>1. h.fields \in Seq(ParsedField) /\ n \in Nat /\ DOMAIN h.fields = 1..n
  BY DEF ParsedHeader
<1>2. g.instance = h.instance /\ g.start_bit = h.start_bit /\ g.fields = Append(h.fields, f)
  BY DEF ParsedHeader
<1>3. /\ DOMAIN g.fields = 1..(n + 1) /\ Len(g.fields) = n + 1
      /\ \A i \in 1..n : g.fields[i] = h.fields[i]
      /\ g.fields[n + 1] = f /\ g.fields # <<>>
  <2>1. h.fields \in Seq(ParsedField \cup {f})
    BY <1>1
  <2> QED BY <1>1, <1>2, <2>1
<1> HIDE DEF n
<1>4. HeaderEnd(g) = f.bit_offset + f.bit_len
  BY <1>3 DEF HeaderEnd, Last
<1>5. f.bit_offset = IF n = 0 THEN h.start_bit ELSE h.fields[n].bit_offset + h.fields[n].bit_len
  BY <1>1 DEF HeaderEnd, Last, n
<1>6. Contiguous(g)
  <2> SUFFICES ASSUME NEW i \in 1..(n + 1)
               PROVE  g.fields[i].bit_offset =
                        IF i = 1 THEN g.start_bit
                        ELSE g.fields[i - 1].bit_offset + g.fields[i - 1].bit_len
    BY <1>3 DEF Contiguous
  <2>1. CASE i \in 1..n
    <3>1. i = 1 \/ i - 1 \in 1..n
      BY <1>1, <2>1
    <3> QED BY <1>1, <1>2, <1>3, <2>1, <3>1 DEF Contiguous
  <2>2. CASE i = n + 1
    <3>1. n = 0 \/ n \in 1..n
      BY <1>1
    <3> QED BY <1>1, <1>2, <1>3, <1>5, <2>2, <3>1
  <2> QED BY <1>1, <2>1, <2>2
<1> QED BY <1>2, <1>4, <1>6

\* Where the first k headers end: a lookahead ends where it began.
Marks(e) ==
  /\ e \in [0..Len(headers) -> Nat]
  /\ e[0] = 0
  /\ \A k \in 1..Len(headers) :
       e[k] = IF Extracted(depth)[k].lookahead THEN e[k - 1] ELSE HeaderEnd(headers[k])

Tiled(e) ==
  \A k \in 1..Len(headers) :
    /\ headers[k].instance = InstanceOf(Extracted(depth)[k])
    /\ headers[k].start_bit = e[k - 1]
    /\ Contiguous(headers[k])

\* The cursor, and what was consumed, are where the headers end.
AtMark(e) ==
  /\ pc \in {"enter", "body"} => cursor_bits = e[Len(headers)]
  /\ pc = "field" => /\ entry_cursor = e[Len(headers) - 1]
                     /\ cursor_bits = HeaderEnd(headers[Len(headers)])
  /\ pc = "done" => result.consumed_bits = e[Len(headers)]

\* How many headers there are: those of the states left behind, and those of
\* the state the run is in that it has begun.
HeaderCount ==
  /\ EntriesExist(depth)
  /\ Len(headers) <= Len(Extracted(depth))
  /\ depth > 0 => Len(headers) >= Len(Extracted(depth - 1))
  /\ pc = "enter" => Len(headers) = Len(Extracted(depth))
  /\ pc \in {"body", "field"} => trace[depth].state = current
  /\ pc = "body" =>
       Len(headers) = Len(Extracted(depth - 1)) + IF ix <= NExtracts THEN ix - 1 ELSE NExtracts
  /\ pc = "field" => Len(headers) = Len(Extracted(depth - 1)) + ix

HInv == RInv /\ HeaderCount /\ \E e : Marks(e) /\ Tiled(e) /\ AtMark(e)

LEMMA HeaderTypes ==
  ASSUME RInv
  PROVE  /\ headers \in Seq(ParsedHeader) /\ Len(headers) \in Nat
         /\ DOMAIN headers = 1..Len(headers) /\ depth \in Nat /\ ir \in Parser
         /\ \A k \in 1..Len(headers) : headers[k] \in ParsedHeader
<1>1. headers \in Seq(ParsedHeader) /\ depth \in Nat /\ ir \in Parser
  BY InputTypes DEF RInv, IInv, TypeOK
<1> QED BY <1>1

\* The state the run is in adds its extracts to those of the states before.
LEMMA ExtractedHere ==
  ASSUME HInv, pc \in {"body", "field"}
  PROVE  /\ depth > 0 /\ NExtracts \in Nat
         /\ Extracted(depth - 1) \in Seq(Extract) /\ St.extracts \in Seq(Extract)
         /\ Extracted(depth) = Extracted(depth - 1) \o St.extracts
         /\ Len(Extracted(depth)) = Len(Extracted(depth - 1)) + NExtracts
<1>1. depth > 0 /\ depth \in Nat /\ ir \in Parser
  BY HeaderTypes DEF HInv, RInv, ProgressOK
<1>2. EntriesExist(depth) /\ trace[depth].state = current
  BY DEF HInv, HeaderCount
<1>3. /\ Extracted(depth - 1) \in Seq(Extract) /\ St.extracts \in Seq(Extract)
      /\ Extracted(depth) = Extracted(depth - 1) \o St.extracts
  BY <1>1, <1>2, ExtractedNext DEF St
<1> QED BY <1>1, <1>3 DEF NExtracts

\* The header being read is that of the extract the run is at.
LEMMA LastHeader ==
  ASSUME HInv, pc = "field"
  PROVE  /\ Len(headers) \in 1..Len(Extracted(depth))
         /\ Extracted(depth)[Len(headers)] = Ex
<1> DEFINE before == Extracted(depth - 1)
<1>1. /\ NExtracts \in Nat /\ before \in Seq(Extract) /\ St.extracts \in Seq(Extract)
      /\ Extracted(depth) = before \o St.extracts
  BY ExtractedHere
<1>2. Len(headers) = Len(before) + ix /\ ix \in 1..Len(St.extracts)
  BY <1>1 DEF HInv, HeaderCount, RInv, IInv, ControlOK
<1> HIDE DEF before
<1>3. Len(before) \in Nat
  BY <1>1
<1> QED BY <1>1, <1>2, <1>3 DEF Ex

\* What a run has consumed, inside a header.
LEMMA MarkInField ==
  ASSUME HInv, pc = "field", NEW e, Marks(e), AtMark(e)
  PROVE  e[Len(headers)] = IF Ex.lookahead THEN entry_cursor ELSE cursor_bits
BY LastHeader, HeaderTypes DEF HInv, Marks, AtMark

\* A step that begins no header and reads no field.
LEMMA HeadersKept ==
  ASSUME HInv, UNCHANGED <<ir, depth, headers>>,
         \A k \in 1..depth : trace'[k].state = trace[k].state
  PROVE  /\ \A e : Marks(e) /\ Tiled(e) => Marks(e)' /\ Tiled(e)'
         /\ EntriesExist(depth)'
         /\ Extracted(depth)' = Extracted(depth)
         /\ depth > 0 => Extracted(depth - 1)' = Extracted(depth - 1)
<1>1. depth \in Nat /\ EntriesExist(depth)
  BY HeaderTypes DEF HInv, HeaderCount
<1>2. \A m \in 0..depth : Extracted(m)' = Extracted(m)
  BY <1>1, ExtractedSame
<1>3. Extracted(depth)' = Extracted(depth)
  <2>1. depth \in 0..depth
    BY <1>1
  <2> QED BY <1>2, <2>1
<1>4. depth > 0 => Extracted(depth - 1)' = Extracted(depth - 1)
  <2>1. depth > 0 => depth - 1 \in 0..depth
    BY <1>1
  <2> QED BY <1>2, <2>1
<1>5. EntriesExist(depth)'
  BY <1>1 DEF EntriesExist
<1>6. ASSUME NEW e, Marks(e), Tiled(e) PROVE Marks(e)' /\ Tiled(e)'
  BY <1>3, <1>6 DEF Marks, Tiled, HeaderEnd, Contiguous, InstanceOf
<1> QED BY <1>3, <1>4, <1>5, <1>6

\* The rest of a state, and the end of a run between two headers.
LEMMA HeadersStay ==
  ASSUME HInv, RInv', pc \in {"enter", "body"}, UNCHANGED <<ir, depth, headers>>,
         \A k \in 1..depth : trace'[k].state = trace[k].state,
         \/ pc' = "done" /\ result'.consumed_bits = cursor_bits
         \/ pc = "body" /\ pc' = "enter" /\ ix > NExtracts /\ UNCHANGED cursor_bits
         \/ /\ pc = "body" /\ pc' = "body" /\ ix > NExtracts /\ ix' > NExtracts
            /\ UNCHANGED <<current, cursor_bits>>
  PROVE  HInv'
<1>1. PICK e : Marks(e) /\ Tiled(e) /\ AtMark(e)
  BY DEF HInv
<1>2. Marks(e)' /\ Tiled(e)' /\ EntriesExist(depth)' /\ Extracted(depth)' = Extracted(depth)
  BY <1>1, HeadersKept
<1>3. depth > 0 => Extracted(depth - 1)' = Extracted(depth - 1)
  BY HeadersKept
<1>4. AtMark(e)'
  BY <1>1 DEF AtMark
<1>5. HeaderCount
  BY DEF HInv
<1>6. HeaderCount'
  <2>1. Len(headers) <= Len(Extracted(depth)) /\ (depth > 0 => Len(headers) >= Len(Extracted(depth - 1)))
    BY <1>5 DEF HeaderCount
  <2>2. CASE pc' = "done"
    BY <1>2, <1>3, <2>1, <2>2 DEF HeaderCount
  <2>3. ASSUME pc = "body", ix > NExtracts
        PROVE  /\ depth > 0 /\ Len(headers) = Len(Extracted(depth - 1)) + NExtracts
               /\ Len(Extracted(depth)) = Len(Extracted(depth - 1)) + NExtracts
    <3>1. ~(ix <= NExtracts)
      <4>1. ix \in Nat
        BY DEF HInv, RInv, IInv, TypeOK
      <4> QED BY <2>3, <4>1, ExtractedHere
    <3> QED BY <1>5, <2>3, <3>1, ExtractedHere DEF HeaderCount
  <2>4. CASE pc = "body" /\ pc' = "enter" /\ ix > NExtracts
    BY <1>2, <1>3, <2>1, <2>3, <2>4 DEF HeaderCount
  <2>5. CASE /\ pc = "body" /\ pc' = "body" /\ ix > NExtracts /\ ix' > NExtracts
             /\ UNCHANGED <<current, cursor_bits>>
    <3>1. NExtracts' = NExtracts
      BY <2>5 DEF NExtracts, St
    <3>2. ix' \in Nat /\ NExtracts \in Nat /\ ~(ix' <= NExtracts)
      BY <2>5, ExtractedHere DEF RInv, IInv, TypeOK
    <3>3. trace'[depth'].state = current'
      <4>1. depth \in 1..depth /\ trace[depth].state = current
        BY <1>5, <2>3, <2>5, HeaderTypes DEF HeaderCount, HInv
      <4> QED BY <2>5, <4>1
    <3> QED BY <1>2, <1>3, <2>1, <2>3, <2>5, <3>1, <3>2, <3>3 DEF HeaderCount
  <2> QED BY <2>2, <2>4, <2>5
<1> QED BY <1>1, <1>2, <1>4, <1>6 DEF HInv

\* A read that fails ends the run inside a header.
LEMMA ReadRejected ==
  ASSUME HInv, RInv', pc = "field", pc' = "done", UNCHANGED <<ir, depth, headers, trace>>,
         result'.consumed_bits = ConsumedOnReject
  PROVE  HInv'
<1>1. PICK e : Marks(e) /\ Tiled(e) /\ AtMark(e)
  BY DEF HInv
<1>2. Marks(e)' /\ Tiled(e)' /\ EntriesExist(depth)' /\ Extracted(depth)' = Extracted(depth)
  BY <1>1, HeadersKept
<1>3. depth > 0 => Extracted(depth - 1)' = Extracted(depth - 1)
  BY HeadersKept
<1>4. AtMark(e)'
  BY <1>1, MarkInField DEF AtMark, ConsumedOnReject
<1>5. HeaderCount'
  BY <1>2, <1>3 DEF HInv, HeaderCount
<1> QED BY <1>1, <1>2, <1>4, <1>5 DEF HInv

\* A lookahead restores the cursor; any other header leaves it at its end.
LEMMA EndExtractHInv ==
  ASSUME HInv, RInv', EndExtract
  PROVE  HInv'
<1>1. /\ pc = "field" /\ pc' = "body" /\ ix' = ix + 1
      /\ cursor_bits' = IF Ex.lookahead THEN entry_cursor ELSE cursor_bits
      /\ UNCHANGED <<ir, current, depth, headers, trace>>
  BY Zenon DEF EndExtract
<1>2. PICK e : Marks(e) /\ Tiled(e) /\ AtMark(e)
  BY DEF HInv
<1>3. Marks(e)' /\ Tiled(e)' /\ EntriesExist(depth)' /\ Extracted(depth)' = Extracted(depth)
  BY <1>1, <1>2, HeadersKept
<1>4. depth > 0 => Extracted(depth - 1)' = Extracted(depth - 1)
  BY <1>1, HeadersKept
<1>5. AtMark(e)'
  BY <1>1, <1>2, MarkInField DEF AtMark
<1>6. HeaderCount'
  <2>1. NExtracts' = NExtracts
    BY <1>1 DEF NExtracts, St
  <2>2. depth > 0 /\ NExtracts \in Nat
    BY <1>1, ExtractedHere
  <2>3. ix \in Nat /\ ix \in 1..NExtracts /\ Len(headers) = Len(Extracted(depth - 1)) + ix
    BY <1>1 DEF HInv, RInv, IInv, TypeOK, ControlOK, HeaderCount, NExtracts
  <2>4. ix = IF ix + 1 <= NExtracts THEN (ix + 1) - 1 ELSE NExtracts
    BY <2>2, <2>3
  <2>5. trace[depth].state = current
    BY <1>1 DEF HInv, HeaderCount
  <2>6. Len(headers') = Len(Extracted(depth - 1)') + IF ix' <= NExtracts' THEN ix' - 1 ELSE NExtracts'
    BY <1>1, <1>4, <2>1, <2>2, <2>3, <2>4
  <2>7. /\ Len(headers) <= Len(Extracted(depth))
        /\ Len(headers) >= Len(Extracted(depth - 1))
    BY <2>2 DEF HInv, HeaderCount
  <2> QED BY <1>1, <1>3, <1>4, <2>2, <2>5, <2>6, <2>7 DEF HeaderCount
<1> QED BY <1>2, <1>3, <1>5, <1>6 DEF HInv

\* An entry adds the extracts of the state entered, and no header yet.
LEMMA EnterStateHInv ==
  ASSUME HInv, RInv', EnterState
  PROVE  HInv'
<1> DEFINE entry == [state |-> current, decision |-> <<"none", 0>>]
<1>1. /\ pc = "enter" /\ trace' = Append(trace, entry)
      /\ UNCHANGED <<ir, current, headers, cursor_bits>>
  BY Zenon DEF EnterState
<1> HIDE DEF entry
<1>2. trace \in Seq(TraceStep) /\ Len(trace) = depth /\ depth \in Nat /\ ir \in Parser
  BY <1>1, TraceTypes, HeaderTypes DEF HInv, RInv, ProgressOK
<1>3. /\ \A k \in 1..depth : trace'[k] = trace[k]
      /\ trace'[depth + 1].state = current
  BY <1>1, <1>2 DEF entry
<1>4. CASE RejectHere("max depth exceeded") /\ UNCHANGED depth
  BY <1>1, <1>3, <1>4, HeadersStay DEF RejectHere, Finish
<1>5. CASE current \in DOMAIN ir.states /\ depth' = depth + 1 /\ pc' = "body" /\ ix' = 1
  <2> DEFINE old == PathExtracts(ir.states, trace, depth)
             new == PathExtracts(ir.states, trace', depth + 1)
  <2>1. PICK e : Marks(e) /\ Tiled(e) /\ AtMark(e)
    BY DEF HInv
  <2>2. /\ EntriesExist(depth) /\ Len(headers) = Len(Extracted(depth))
    BY <1>1 DEF HInv, HeaderCount
  <2>3. \A k \in 1..(depth + 1) : trace'[k].state \in DOMAIN ir.states
    <3> TAKE k \in 1..(depth + 1)
    <3>1. k \in 1..depth \/ k = depth + 1
      BY <1>2
    <3> QED BY <1>3, <1>5, <2>2, <3>1 DEF EntriesExist
  <2>4. Extracted(depth) = old /\ Extracted(depth)' = new
    BY <1>1, <1>5 DEF Extracted, PathExtracts
  <2>5. Extracted(depth - 1)' = old
    <3>1. depth' - 1 = depth
      BY <1>2, <1>5
    <3>2. [k \in 1..(depth' - 1) |-> ir'.states[trace'[k].state].extracts] =
            [k \in 1..depth |-> ir.states[trace[k].state].extracts]
      BY <1>1, <1>3, <3>1
    <3> QED BY <3>2 DEF Extracted, PathExtracts
  <2>6. /\ old \in Seq(Extract) /\ St.extracts \in Seq(Extract)
        /\ new = old \o St.extracts
    <3>1. ir.states \in Seq(State) /\ depth + 1 \in Nat /\ depth + 1 > 0 /\ (depth + 1) - 1 = depth
      BY <1>2 DEF Parser
    <3>2. /\ PathExtracts(ir.states, trace', (depth + 1) - 1) \in Seq(Extract)
          /\ ir.states[trace'[depth + 1].state].extracts \in Seq(Extract)
          /\ new = PathExtracts(ir.states, trace', (depth + 1) - 1)
                     \o ir.states[trace'[depth + 1].state].extracts
      BY <2>3, <3>1, PathExtractsNext
    <3>3. PathExtracts(ir.states, trace', depth) = old
      <4>1. [k \in 1..depth |-> ir.states[trace'[k].state].extracts] =
              [k \in 1..depth |-> ir.states[trace[k].state].extracts]
        BY <1>3
      <4> QED BY <4>1 DEF PathExtracts
    <3> QED BY <1>3, <3>1, <3>2, <3>3 DEF St
  <2> HIDE DEF old, new
  <2>7. \A k \in 1..Len(headers) : new[k] = old[k]
    BY <2>2, <2>4, <2>6
  <2>8. Len(new) = Len(headers) + NExtracts /\ Len(headers) \in Nat /\ NExtracts \in Nat
    BY <2>2, <2>4, <2>6 DEF NExtracts
  <2>9. Marks(e)' /\ Tiled(e)'
    <3>1. \A k \in 1..Len(headers) : Extracted(depth)'[k] = Extracted(depth)[k]
      BY <2>4, <2>7
    <3>2. Marks(e)'
      BY <1>1, <2>1, <3>1 DEF Marks, HeaderEnd
    <3>3. Tiled(e)'
      <4>1. /\ \A k \in 1..Len(headers) :
                 /\ headers[k].instance = InstanceOf(Extracted(depth)'[k])
                 /\ headers[k].start_bit = e[k - 1]
                 /\ Contiguous(headers[k])
        BY <2>1, <3>1 DEF Tiled
      <4> QED BY <1>1, <4>1 DEF Tiled, Contiguous, InstanceOf
    <3> QED BY <3>2, <3>3
  <2>10. AtMark(e)'
    BY <1>1, <1>5, <2>1 DEF AtMark
  <2>11. HeaderCount'
    <3>1. EntriesExist(depth)'
      BY <1>1, <1>5, <2>3 DEF EntriesExist
    <3>2. NExtracts' = NExtracts
      BY <1>1 DEF NExtracts, St
    <3>3. Len(headers) = Len(old)
      BY <2>2, <2>4
    <3>4. 0 = IF 1 <= NExtracts THEN 1 - 1 ELSE NExtracts
      BY <2>8
    <3>5. Len(headers') = Len(Extracted(depth - 1)') + IF ix' <= NExtracts' THEN ix' - 1 ELSE NExtracts'
      <4>1. Len(headers') = Len(Extracted(depth - 1)') + 0
        BY <1>1, <2>5, <2>8, <3>3
      <4> QED BY <1>5, <3>2, <3>4, <4>1
    <3>6. trace'[depth'].state = current'
      BY <1>1, <1>3, <1>5
    <3>7. Len(headers') <= Len(Extracted(depth)') /\ Len(headers') >= Len(Extracted(depth - 1)')
      BY <1>1, <2>4, <2>5, <2>8, <3>3
    <3> QED BY <1>5, <3>1, <3>5, <3>6, <3>7 DEF HeaderCount
  <2> QED BY <2>1, <2>9, <2>10, <2>11 DEF HInv
<1> QED BY <1>4, <1>5, Zenon DEF EnterState

\* A header begins where the last one ended, and is so far empty.
LEMMA BeginExtractHInv ==
  ASSUME HInv, RInv', BeginExtract
  PROVE  HInv'
<1> DEFINE h == [instance |-> InstanceOf(Ex), header_type |-> Ex.header_type,
                 start_bit |-> cursor_bits, fields |-> <<>>]
           n == Len(headers)
           before == Extracted(depth - 1)
<1>1. /\ pc = "body" /\ pc' = "field" /\ ix <= NExtracts
      /\ entry_cursor' = cursor_bits /\ headers' = Append(headers, h)
      /\ UNCHANGED <<ir, ix, current, depth, cursor_bits, trace>>
  BY Zenon DEF BeginExtract, AtExtract
<1>2. PICK e : Marks(e) /\ Tiled(e) /\ AtMark(e)
  BY DEF HInv
<1>3. headers \in Seq(ParsedHeader) /\ n \in Nat /\ DOMAIN headers = 1..n
  BY HeaderTypes DEF HInv
<1>4. h.fields = <<>> /\ h.start_bit = cursor_bits /\ h.instance = InstanceOf(Ex)
  OBVIOUS
<1>5. HeaderEnd(h) = cursor_bits /\ Contiguous(h)
  BY <1>4 DEF HeaderEnd, Contiguous
<1>6. /\ NExtracts \in Nat /\ before \in Seq(Extract) /\ St.extracts \in Seq(Extract)
      /\ Extracted(depth) = before \o St.extracts
  BY <1>1, ExtractedHere
<1>7. n = Len(before) + ix - 1 /\ ix \in 1..Len(St.extracts) /\ ix \in Nat
  BY <1>1, <1>6 DEF HInv, HeaderCount, RInv, IInv, TypeOK, NExtracts
<1>8. Extracted(depth)[n + 1] = Ex /\ n + 1 <= Len(Extracted(depth))
  <2> HIDE DEF before
  <2>1. Len(before) \in Nat /\ n + 1 = Len(before) + ix
    BY <1>6, <1>7
  <2> HIDE DEF n
  <2> QED BY <1>6, <1>7, <2>1 DEF Ex
<1>9. /\ Len(headers') = n + 1 /\ headers'[n + 1] = h
      /\ \A k \in 1..n : headers'[k] = headers[k]
  <2>1. headers \in Seq(ParsedHeader \cup {h})
    BY <1>3
  <2> HIDE DEF h
  <2> QED BY <1>1, <1>3, <2>1
<1>10. depth \in Nat /\ depth > 0 /\ EntriesExist(depth) /\ trace[depth].state = current
  BY <1>1, ExtractedHere, HeaderTypes DEF HInv, HeaderCount
<1>11. Extracted(depth)' = Extracted(depth) /\ Extracted(depth - 1)' = before
  <2>1. \A m \in 0..depth : Extracted(m)' = Extracted(m)
    BY <1>1, <1>10, ExtractedSame
  <2>2. depth \in 0..depth /\ depth - 1 \in 0..depth
    BY <1>10
  <2> QED BY <1>1, <2>1, <2>2
<1> HIDE DEF before, n, h
<1> DEFINE marks == [k \in 0..(n + 1) |-> IF k = n + 1 THEN cursor_bits ELSE e[k]]
<1>12. /\ e \in [0..n -> Nat] /\ e[0] = 0 /\ cursor_bits = e[n] /\ cursor_bits \in Nat
  BY <1>1, <1>2, <1>3 DEF Marks, AtMark, n
<1>13. PICK f : /\ f \in [0..(n + 1) -> Nat] /\ f[n + 1] = cursor_bits
                /\ \A k \in 0..n : f[k] = e[k]
  <2>1. /\ marks \in [0..(n + 1) -> Nat] /\ marks[n + 1] = cursor_bits
        /\ \A k \in 0..n : marks[k] = e[k]
    BY <1>3, <1>12
  <2> HIDE DEF marks
  <2> QED BY <2>1
<1>14. ASSUME NEW k \in 1..(n + 1)
       PROVE  /\ f[k] = IF Extracted(depth)[k].lookahead THEN f[k - 1] ELSE HeaderEnd(headers'[k])
              /\ headers'[k].instance = InstanceOf(Extracted(depth)[k])
              /\ headers'[k].start_bit = f[k - 1]
              /\ Contiguous(headers'[k])
  <2>1. CASE k \in 1..n
    <3>1. k - 1 \in 0..n /\ k \in 0..n
      BY <1>3, <2>1
    <3>2. f[k] = e[k] /\ f[k - 1] = e[k - 1] /\ headers'[k] = headers[k]
      BY <1>9, <1>13, <2>1, <3>1
    <3> QED BY <1>2, <2>1, <3>2 DEF Marks, Tiled, n
  <2>2. CASE k = n + 1
    <3>1. n \in 0..n /\ k - 1 = n
      BY <1>3, <2>2
    <3>2. f[k - 1] = cursor_bits /\ f[k] = cursor_bits /\ headers'[k] = h
      BY <1>9, <1>12, <1>13, <2>2, <3>1
    <3>3. Extracted(depth)[k] = Ex
      BY <1>8, <2>2
    <3> QED BY <1>4, <1>5, <3>2, <3>3
  <2> QED BY <1>3, <2>1, <2>2
<1>15. Marks(f)'
  <2>1. f[0] = 0
    BY <1>3, <1>12, <1>13
  <2>2. f \in [0..Len(headers') -> Nat]
    BY <1>9, <1>13
  <2>3. \A k \in 1..Len(headers') :
          f[k] = IF Extracted(depth)[k].lookahead THEN f[k - 1] ELSE HeaderEnd(headers'[k])
    BY <1>9, <1>14
  <2> QED BY <1>11, <2>1, <2>2, <2>3 DEF Marks, HeaderEnd
<1>16. Tiled(f)'
  BY <1>9, <1>11, <1>14 DEF Tiled, Contiguous, InstanceOf
<1>17. AtMark(f)'
  <2>1. HeaderEnd(headers'[n + 1]) = cursor_bits
    BY <1>5, <1>9
  <2>2. f[(n + 1) - 1] = cursor_bits
    <3>1. n \in 0..n /\ (n + 1) - 1 = n
      BY <1>3
    <3> QED BY <1>12, <1>13, <3>1
  <2> QED BY <1>1, <1>9, <2>1, <2>2 DEF AtMark, HeaderEnd
<1>18. HeaderCount'
  <2>1. EntriesExist(depth)'
    BY <1>1, <1>10 DEF EntriesExist
  <2>2. Len(before) \in Nat /\ n + 1 = Len(before) + ix
    BY <1>3, <1>6, <1>7
  <2>3. Len(headers') <= Len(Extracted(depth)') /\ Len(headers') >= Len(Extracted(depth - 1)')
    BY <1>7, <1>8, <1>9, <1>11, <2>2
  <2>4. Len(headers') = Len(Extracted(depth - 1)') + ix'
    BY <1>1, <1>9, <1>11, <2>2
  <2> QED BY <1>1, <1>10, <2>1, <2>3, <2>4 DEF HeaderCount
<1> QED BY <1>15, <1>16, <1>17, <1>18 DEF HInv

\* A field read lies where the header ends.
LEMMA FieldRead ==
  ASSUME HInv, RInv', pc = "field", pc' = "field",
         UNCHANGED <<ir, ix, current, depth, entry_cursor, trace>>,
         NEW len \in Nat, NEW value, RecordField(len, value), cursor_bits' = cursor_bits + len
  PROVE  HInv'
<1> DEFINE n == Len(headers)
           x == [bit_offset |-> cursor_bits, bit_len |-> len, value |-> value]
           g == [headers[n] EXCEPT !.fields = Append(@, x)]
<1>1. PICK e : Marks(e) /\ Tiled(e) /\ AtMark(e)
  BY DEF HInv
<1>2. /\ headers \in Seq(ParsedHeader) /\ n \in 1..n /\ n \in Nat /\ DOMAIN headers = 1..n
      /\ headers[n] \in ParsedHeader /\ cursor_bits \in Nat /\ entry_cursor \in Nat
  BY LastHeader, HeaderTypes DEF HInv, RInv, IInv, TypeOK
<1>3. HeaderEnd(headers[n]) = cursor_bits /\ Contiguous(headers[n]) /\ x.bit_offset = cursor_bits /\ x.bit_len = len
  BY <1>1, <1>2 DEF AtMark, Tiled
<1> HIDE DEF x
<1>4. /\ g.instance = headers[n].instance /\ g.start_bit = headers[n].start_bit
      /\ Contiguous(g) /\ HeaderEnd(g) = cursor_bits + len
  BY <1>2, <1>3, FieldAppended
<1>5. /\ Len(headers') = n /\ headers'[n] = g
      /\ \A k \in 1..(n - 1) : headers'[k] = headers[k]
  <2>1. headers' = [headers EXCEPT ![n] = g]
    BY Zenon DEF RecordField, x
  <2> HIDE DEF g
  <2> HIDE DEF n
  <2>2. \A k \in 1..(n - 1) : k \in 1..n /\ k # n
    BY <1>2
  <2>3. DOMAIN headers' = 1..n /\ headers'[n] = g /\ \A k \in 1..(n - 1) : headers'[k] = headers[k]
    BY <1>2, <2>1, <2>2
  <2>4. headers' \in Seq(ParsedHeader)
    BY DEF RInv, IInv, TypeOK
  <2>5. Len(headers') = n
    BY <1>2, <2>3, <2>4
  <2> QED BY <2>3, <2>5
<1> HIDE DEF g, n
<1>6. depth \in Nat /\ depth > 0 /\ EntriesExist(depth) /\ trace[depth].state = current
  BY ExtractedHere, HeaderTypes DEF HInv, HeaderCount
<1>7. Extracted(depth)' = Extracted(depth) /\ Extracted(depth - 1)' = Extracted(depth - 1)
  <2>1. \A m \in 0..depth : Extracted(m)' = Extracted(m)
    BY <1>6, ExtractedSame
  <2>2. depth \in 0..depth /\ depth - 1 \in 0..depth
    BY <1>6
  <2> QED BY <2>1, <2>2
<1>8. Extracted(depth)[n] = Ex
  BY LastHeader DEF n
<1>9. e \in [0..n -> Nat] /\ e[0] = 0 /\ entry_cursor = e[n - 1]
  BY <1>1 DEF Marks, AtMark, n
<1> DEFINE marks == [k \in 0..n |-> IF k = n THEN (IF Ex.lookahead THEN e[n - 1] ELSE cursor_bits + len)
                                    ELSE e[k]]
<1>10. PICK f : /\ f \in [0..n -> Nat]
                /\ f[n] = IF Ex.lookahead THEN e[n - 1] ELSE cursor_bits + len
                /\ \A k \in 0..(n - 1) : f[k] = e[k]
  <2>1. e[n - 1] \in Nat /\ cursor_bits + len \in Nat
    BY <1>2, <1>9
  <2>2. /\ marks \in [0..n -> Nat]
        /\ marks[n] = IF Ex.lookahead THEN e[n - 1] ELSE cursor_bits + len
        /\ \A k \in 0..(n - 1) : marks[k] = e[k]
    BY <1>2, <1>9, <2>1
  <2> HIDE DEF marks
  <2> QED BY <2>2
<1> HIDE DEF marks
<1>11. f[n - 1] = e[n - 1]
  <2>1. n - 1 \in 0..(n - 1)
    BY <1>2
  <2> QED BY <1>10, <2>1
<1>12. ASSUME NEW k \in 1..n
       PROVE  /\ f[k] = IF Extracted(depth)[k].lookahead THEN f[k - 1] ELSE HeaderEnd(headers'[k])
              /\ headers'[k].instance = InstanceOf(Extracted(depth)[k])
              /\ headers'[k].start_bit = f[k - 1]
              /\ Contiguous(headers'[k])
  <2>1. CASE k \in 1..(n - 1)
    <3>1. k - 1 \in 0..(n - 1) /\ k \in 0..(n - 1) /\ k \in 1..n
      BY <1>2, <2>1
    <3>2. f[k] = e[k] /\ f[k - 1] = e[k - 1] /\ headers'[k] = headers[k]
      BY <1>5, <1>10, <2>1, <3>1
    <3> QED BY <1>1, <3>1, <3>2 DEF Marks, Tiled, n
  <2>2. CASE k = n
    <3>1. headers[n].instance = InstanceOf(Extracted(depth)[n]) /\ headers[n].start_bit = e[n - 1]
      BY <1>1, <1>2 DEF Tiled, n
    <3>2. f[n] = IF Extracted(depth)[n].lookahead THEN f[n - 1] ELSE HeaderEnd(headers'[n])
      <4>1. HeaderEnd(headers'[n]) = cursor_bits + len
        BY <1>4, <1>5
      <4>2. f[n] = IF Ex.lookahead THEN f[n - 1] ELSE HeaderEnd(headers'[n])
        BY <1>10, <1>11, <4>1
      <4> QED BY <1>8, <4>2
    <3> QED BY <1>4, <1>5, <1>11, <2>2, <3>1, <3>2
  <2> QED BY <1>2, <2>1, <2>2
<1>13. Marks(f)'
  <2>1. f[0] = 0
    BY <1>2, <1>9, <1>10
  <2>2. f \in [0..Len(headers') -> Nat]
    BY <1>5, <1>10
  <2>3. \A k \in 1..Len(headers') :
          f[k] = IF Extracted(depth)[k].lookahead THEN f[k - 1] ELSE HeaderEnd(headers'[k])
    BY <1>5, <1>12
  <2> QED BY <1>7, <2>1, <2>2, <2>3 DEF Marks, HeaderEnd
<1>14. Tiled(f)'
  <2>1. \A k \in 1..Len(headers') :
          /\ headers'[k].instance = InstanceOf(Extracted(depth)[k])
          /\ headers'[k].start_bit = f[k - 1]
          /\ Contiguous(headers'[k])
    BY <1>5, <1>12
  <2> QED BY <1>7, <2>1 DEF Tiled, Contiguous, InstanceOf
<1>15. AtMark(f)'
  BY <1>4, <1>5, <1>9, <1>11 DEF AtMark, HeaderEnd
<1>16. HeaderCount'
  <2>1. EntriesExist(depth)'
    BY <1>6 DEF EntriesExist
  <2>2. /\ n <= Len(Extracted(depth)) /\ n >= Len(Extracted(depth - 1))
        /\ n = Len(Extracted(depth - 1)) + ix
    BY <1>6 DEF HInv, HeaderCount, n
  <2> QED BY <1>5, <1>6, <1>7, <2>1, <2>2 DEF HeaderCount
<1> QED BY <1>13, <1>14, <1>15, <1>16 DEF HInv

LEMMA ReadFixedHInv ==
  ASSUME HInv, RInv', ReadFixed
  PROVE  HInv'
<1>1. /\ pc = "field" /\ fx <= Len(Fields) /\ Width.kind = "bits"
      /\ UNCHANGED <<ir, ix, current, depth, entry_cursor, trace>>
  BY Zenon DEF ReadFixed, AtFixed
<1>2. Width.bits \in Nat
  BY <1>1, FieldTypes DEF HInv, RInv, IInv, FieldWidth
<1>3. CASE /\ RecordField(Width.bits, [uint |-> ReadBits(cursor_bits, Width.bits)])
           /\ cursor_bits' = cursor_bits + Width.bits
           /\ UNCHANGED pc
  BY <1>1, <1>2, <1>3, FieldRead
<1>4. CASE /\ Finish("reject", OobReason(CheckedAdd(cursor_bits, Width.bits)), cursor_bits, ConsumedOnReject)
           /\ UNCHANGED headers
  BY <1>1, <1>4, FinishResult, ReadRejected
<1> QED BY <1>3, <1>4, Zenon DEF ReadFixed

LEMMA ReadRunFieldHInv ==
  ASSUME HInv, RInv', ReadRunField
  PROVE  HInv'
<1> DEFINE end == CheckedAdd(RunLength, cursor_bits)
<1>1. /\ pc = "field" /\ RunLength # Undef
      /\ UNCHANGED <<ir, ix, current, depth, entry_cursor, trace>>
  BY Zenon DEF ReadRunField, AtRun
<1>2. RunLength \in Nat /\ (end # Undef => end = cursor_bits + RunLength)
  <2>1. RunLength \in Word
    BY <1>1, EvalExprType DEF RunLength, HInv, RInv, IInv
  <2>2. cursor_bits \in Nat
    BY DEF HInv, RInv, IInv, TypeOK
  <2> QED BY <2>1, <2>2, CheckedAddProperties, WordProperties
<1> HIDE DEF end
<1>3. CASE /\ end # Undef /\ cursor_bits' = end /\ UNCHANGED pc
           /\ RecordField(RunLength, [bits |-> ReadRun(cursor_bits, RunLength)])
  BY <1>1, <1>2, <1>3, FieldRead
<1>4. CASE Finish("reject", OobReason(end), cursor_bits, ConsumedOnReject) /\ UNCHANGED headers
  BY <1>1, <1>4, FinishResult, ReadRejected
<1> QED BY <1>3, <1>4, Zenon DEF ReadRunField, end

\* An assignment, a region operation.
LEMMA StateOpsHInv ==
  ASSUME HInv, RInv', AssignMetadata \/ PushRegion \/ PopRegion
  PROVE  HInv'
<1>1. /\ pc = "body" /\ UNCHANGED <<ir, current, depth, cursor_bits, headers, trace>>
  BY DEF AssignMetadata, PushRegion, PopRegion, AtAssign, AtRegionOp
<1>2. ix > NExtracts /\ ix + 1 > NExtracts
  <2>1. NExtracts \in Nat /\ NAssigns \in Nat /\ NOps \in Nat
    BY <1>1, StType DEF HInv, RInv, IInv, ControlOK
  <2>2. ix \in (NExtracts + 1)..(NExtracts + NAssigns)
        \/ ix \in (NExtracts + NAssigns + 1)..(NExtracts + NAssigns + NOps)
    BY DEF AssignMetadata, PushRegion, PopRegion, AtAssign, AtRegionOp
  <2> QED BY <2>1, <2>2
<1>3. \/ pc' = pc /\ ix' = ix + 1
      \/ pc' = "done" /\ result'.consumed_bits = cursor_bits
  <2>1. CASE AssignMetadata
    BY <2>1 DEF AssignMetadata
  <2>2. \A reason : RejectHere(reason) => pc' = "done" /\ result'.consumed_bits = cursor_bits
    BY FinishResult DEF RejectHere
  <2>3. CASE PushRegion
    BY <2>2, <2>3, Zenon DEF PushRegion
  <2>4. CASE PopRegion
    BY <2>2, <2>4, Zenon DEF PopRegion
  <2> QED BY <2>1, <2>3, <2>4
<1> QED BY <1>1, <1>2, <1>3, HeadersStay

\* A transition.
LEMMA TransitionHInv ==
  ASSUME HInv, RInv', TakeDirect \/ TakeSelect
  PROVE  HInv'
<1>1. /\ pc = "body" /\ ix = NExtracts + NAssigns + NOps + 1
      /\ UNCHANGED <<ir, depth, cursor_bits, headers>>
  BY Zenon DEF TakeDirect, TakeSelect, AtTransition
<1>2. ix > NExtracts
  <2>1. NExtracts \in Nat /\ NAssigns \in Nat /\ NOps \in Nat
    BY <1>1, StType DEF HInv, RInv, IInv, ControlOK
  <2> QED BY <1>1, <2>1
<1>3. PICK d : Decide(d)
  BY Zenon DEF TakeDirect, TakeSelect
<1>4. \A k \in 1..depth : trace'[k].state = trace[k].state
  <2>1. trace \in Seq(TraceStep) /\ Len(trace) = depth /\ depth \in Nat
    BY <1>1, TraceTypes, HeaderTypes DEF HInv, RInv, ProgressOK
  <2> DEFINE n == Len(trace)
  <2>2. trace' = [trace EXCEPT ![n].decision = d]
    BY <1>3 DEF Decide
  <2>3. \A k \in 1..n : trace[k] \in TraceStep
    BY <2>1
  <2> HIDE DEF n
  <2>4. \A k \in DOMAIN trace : trace'[k] = IF k = n THEN [trace[k] EXCEPT !.decision = d] ELSE trace[k]
    BY <2>2
  <2>5. \A k \in 1..n : [trace[k] EXCEPT !.decision = d].state = trace[k].state
    BY <2>3 DEF TraceStep
  <2>6. DOMAIN trace = 1..n /\ n = depth
    BY <2>1 DEF n
  <2> QED BY <2>4, <2>5, <2>6
<1>5. \/ pc' = "enter"
      \/ pc' = "done" /\ result'.consumed_bits = cursor_bits
  <2>1. (\E t : Goto(t)) \/ RejectHere("no matching select arm")
    BY Zenon DEF TakeDirect, TakeSelect
  <2>2. ASSUME NEW t, Goto(t)
        PROVE  pc' = "enter" \/ (pc' = "done" /\ result'.consumed_bits = cursor_bits)
    <3>1. CASE Finish("accept", "", cursor_bits, cursor_bits)
      BY <3>1, FinishResult
    <3>2. CASE RejectHere(t.reason)
      BY <3>2, FinishResult DEF RejectHere
    <3>3. CASE pc' = "enter"
      BY <3>3
    <3> QED BY <2>2, <3>1, <3>2, <3>3, Zenon DEF Goto
  <2>3. RejectHere("no matching select arm") => pc' = "done" /\ result'.consumed_bits = cursor_bits
    BY FinishResult DEF RejectHere
  <2> QED BY <2>1, <2>2, <2>3, Zenon
<1> QED BY <1>1, <1>2, <1>4, <1>5, HeadersStay

\* The source's Err.
LEMMA MalformedHInv ==
  ASSUME HInv, RInv', Malformed
  PROVE  HInv'
<1>1. /\ pc \in {"enter", "body", "field"} /\ pc' = "done" /\ UNCHANGED <<ir, depth, headers, trace>>
      /\ result'.consumed_bits = IF pc = "field" THEN ConsumedOnReject ELSE cursor_bits
  BY DEF Malformed, StepMalformed, Finish, AtExtract, AtRun, AtAssign, AtRegionOp, AtTransition
<1>2. CASE pc = "field"
  BY <1>1, <1>2, ReadRejected
<1>3. CASE pc \in {"enter", "body"}
  BY <1>1, <1>3, HeadersStay
<1> QED BY <1>1, <1>2, <1>3

LEMMA NextHInv ==
  ASSUME HInv, [Next]_vars
  PROVE  HInv'
<1>1. RInv'
  BY NextRefines DEF HInv
<1>2. CASE Step
  BY <1>1, <1>2, EnterStateHInv, BeginExtractHInv, ReadFixedHInv, ReadRunFieldHInv, EndExtractHInv,
     StateOpsHInv, TransitionHInv, MalformedHInv, Zenon DEF Step
<1>3. CASE UNCHANGED vars
  <2>1. UNCHANGED <<ir, pc, ix, current, depth, cursor_bits, entry_cursor, headers, trace, result>>
    BY <1>3 DEF vars, machine
  <2>2. PICK e : Marks(e) /\ Tiled(e) /\ AtMark(e)
    BY DEF HInv
  <2>3. Marks(e)' /\ Tiled(e)' /\ EntriesExist(depth)' /\ Extracted(depth)' = Extracted(depth)
    BY <2>1, <2>2, HeadersKept
  <2>4. depth > 0 => Extracted(depth - 1)' = Extracted(depth - 1)
    BY <2>1, HeadersKept
  <2>5. AtMark(e)'
    BY <2>1, <2>2 DEF AtMark, HeaderEnd
  <2>6. NExtracts' = NExtracts
    BY <2>1 DEF NExtracts, St
  <2>7. HeaderCount'
    <3>1. pc \in {"body", "field"} => depth > 0
      BY DEF HInv, RInv, ProgressOK
    <3> QED BY <2>1, <2>3, <2>4, <2>6, <3>1 DEF HInv, HeaderCount
  <2> QED BY <1>1, <2>2, <2>3, <2>5, <2>7 DEF HInv
<1> QED BY <1>2, <1>3, Zenon DEF Next, Done

LEMMA InitHInv ==
  ASSUME StartsExist, Init
  PROVE  HInv
<1>1. RInv
  BY InitRefines
<1>2. pc = "enter" /\ headers = <<>> /\ depth = 0 /\ cursor_bits = 0
  BY DEF Init, Fresh
<1> DEFINE e == [k \in {0} |-> 0]
<1>3. Extracted(depth) = <<>>
  <2>1. [k \in 1..depth |-> ir.states[trace[k].state].extracts] = <<>>
    BY <1>2
  <2>2. FlattenSeq(<<>>) = <<>>
    BY DEF FlattenSeq
  <2> QED BY <2>1, <2>2 DEF Extracted
<1>4. Marks(e) /\ Tiled(e) /\ AtMark(e)
  <2>1. Len(headers) = 0 /\ 0..0 = {0} /\ 1..0 = {}
    BY <1>2
  <2> QED BY <1>2, <2>1 DEF Marks, Tiled, AtMark
<1>5. HeaderCount
  BY <1>2, <1>3 DEF HeaderCount, EntriesExist
<1> HIDE DEF e
<1> QED BY <1>1, <1>4, <1>5 DEF HInv

\* The function that the property defines is the one the invariant has.
LEMMA TiledProperty ==
  ASSUME HInv
  PROVE  HeadersTileTheInput
<1> DEFINE n == Len(headers)
           x == Extracted(depth)
           EndAt(f, k) == IF k = 0 THEN 0 ELSE IF x[k].lookahead THEN f[k - 1] ELSE HeaderEnd(headers[k])
           last == CHOOSE f : f = [k \in 0..n |-> EndAt(f, k)]
<1>1. PICK e : Marks(e) /\ Tiled(e) /\ AtMark(e)
  BY DEF HInv
<1>2. n \in Nat /\ DOMAIN headers = 1..n
  BY HeaderTypes DEF HInv
<1>3. /\ e \in [0..n -> Nat] /\ e[0] = 0
      /\ \A k \in 1..n : e[k] = IF x[k].lookahead THEN e[k - 1] ELSE HeaderEnd(headers[k])
  BY <1>1 DEF Marks
<1>4. e = [k \in 0..n |-> EndAt(e, k)]
  <2>1. \A k \in 0..n : e[k] = EndAt(e, k)
    <3> TAKE k \in 0..n
    <3>1. k = 0 \/ k \in 1..n
      BY <1>2
    <3> QED BY <1>3, <3>1
  <2>2. e = [k \in 0..n |-> e[k]]
    BY <1>3
  <2> HIDE DEF EndAt
  <2> QED BY <2>1, <2>2
<1>5. last = [k \in 0..n |-> EndAt(last, k)]
  <2> HIDE DEF EndAt, n
  <2> QED BY <1>4
<1> HIDE DEF last, n, x
<1>6. \A k \in 0..n : last[k] = EndAt(last, k)
  <2> HIDE DEF EndAt
  <2> QED BY <1>5
<1>7. \A k \in 0..n : last[k] = e[k]
  <2> DEFINE S == {k \in 0..n : last[k] = e[k]}
  <2>1. 0 \in S
    BY <1>2, <1>3, <1>6
  <2>2. ASSUME NEW k \in 1..n, k - 1 \in S PROVE k \in S
    <3>1. k \in 0..n /\ k # 0 /\ last[k - 1] = e[k - 1]
      BY <1>2, <2>2
    <3> QED BY <1>3, <1>6, <3>1
  <2> HIDE DEF S
  <2>3. \A k \in 0..n : k \in S
    BY <1>2, <2>1, <2>2, Induction
  <2> QED BY <2>3 DEF S
<1>8. /\ n <= Len(x) /\ (depth > 0 => n >= Len(Extracted(depth - 1)))
  BY DEF HInv, HeaderCount, n, x
<1>9. ASSUME NEW k \in DOMAIN headers
      PROVE  /\ headers[k].instance = InstanceOf(x[k])
             /\ headers[k].start_bit = last[k - 1]
             /\ Contiguous(headers[k])
  <2>1. k \in 1..n /\ k - 1 \in 0..n
    BY <1>2, <1>9
  <2>2. last[k - 1] = e[k - 1]
    BY <1>7, <2>1
  <2> QED BY <1>1, <2>1, <2>2 DEF Tiled, n, x
<1>10. pc = "done" => result.consumed_bits = last[n]
  <2>1. n \in 0..n
    BY <1>2
  <2>2. last[n] = e[n]
    BY <1>7, <2>1
  <2> QED BY <1>1, <2>2 DEF AtMark, n
<1> QED BY <1>8, <1>9, <1>10 DEF HeadersTileTheInput, last, n, x, Contiguous

\* The headers are a prefix of the extracts of the states entered, complete for
\* the states left behind; each begins where the last one that was no lookahead
\* ended, its fields are contiguous, and a verdict consumes up to the end of the
\* last, for every program whose start state exists and every packet.
THEOREM HeadersTile ==
  ASSUME StartsExist
  PROVE  Spec => []HeadersTileTheInput
<1>1. Init => HInv
  BY InitHInv
<1>2. HInv /\ [Next]_vars => HInv'
  BY NextHInv
<1>3. HInv => HeadersTileTheInput
  BY TiledProperty
<1> QED BY <1>1, <1>2, <1>3, PTL DEF Spec

----------------------------------------------------------------------------
(* A step never takes back what the run has reported.                       *)

KeepsHeaders ==
  /\ Len(headers) <= Len(headers')
  /\ \A k \in DOMAIN headers :
       /\ k < Len(headers) => headers'[k] = headers[k]
       /\ Len(headers[k].fields) <= Len(headers'[k].fields)
       /\ \A i \in DOMAIN headers[k].fields : headers'[k].fields[i] = headers[k].fields[i]

KeepsTrace ==
  /\ Len(trace) <= Len(trace')
  /\ \A k \in DOMAIN trace : trace'[k].state = trace[k].state

LEMMA SameReport ==
  ASSUME RInv
  PROVE  /\ UNCHANGED headers => KeepsHeaders
         /\ UNCHANGED trace => KeepsTrace
<1>1. headers \in Seq(ParsedHeader) /\ trace \in Seq(TraceStep)
  BY DEF RInv, IInv, TypeOK
<1>2. \A k \in DOMAIN headers : Len(headers[k].fields) \in Nat
  BY <1>1 DEF ParsedHeader
<1>3. UNCHANGED headers => KeepsHeaders
  BY <1>1, <1>2 DEF KeepsHeaders
<1>4. UNCHANGED trace => KeepsTrace
  BY <1>1 DEF KeepsTrace
<1> QED BY <1>3, <1>4

\* A field is added to the last header.
LEMMA RecordFieldKeeps ==
  ASSUME RInv, pc = "field", NEW len \in Nat, NEW value \in FieldValue, RecordField(len, value)
  PROVE  KeepsHeaders
<1> DEFINE n == Len(headers)
           field == [bit_offset |-> cursor_bits, bit_len |-> len, value |-> value]
           h == [headers[n] EXCEPT !.fields = Append(headers[n].fields, field)]
<1>1. headers \in Seq(ParsedHeader) /\ n \in 1..Len(headers) /\ headers[n] \in ParsedHeader
  BY DEF RInv, IInv, TypeOK, ControlOK
<1>2. field \in ParsedField
  BY DEF RInv, IInv, TypeOK, ParsedField
<1>3. headers' = [headers EXCEPT ![n] = h]
  BY Zenon DEF RecordField
<1>4. /\ headers[n].fields \in Seq(ParsedField)
      /\ h.fields = Append(headers[n].fields, field)
  BY <1>1 DEF ParsedHeader
<1> HIDE DEF field, h
<1>5. /\ Len(headers[n].fields) <= Len(h.fields)
      /\ \A i \in DOMAIN headers[n].fields : h.fields[i] = headers[n].fields[i]
  BY <1>2, <1>4
<1>6. \A k \in DOMAIN headers : Len(headers[k].fields) \in Nat
  BY <1>1 DEF ParsedHeader
<1>7. /\ Len(headers') = n /\ headers'[n] = h
      /\ \A k \in DOMAIN headers : k # n => headers'[k] = headers[k]
  BY <1>1, <1>3
<1> HIDE DEF n
<1>8. \A k \in DOMAIN headers :
        /\ Len(headers[k].fields) <= Len(headers'[k].fields)
        /\ \A i \in DOMAIN headers[k].fields : headers'[k].fields[i] = headers[k].fields[i]
  <2> TAKE k \in DOMAIN headers
  <2>1. CASE k = n
    BY <1>5, <1>7, <2>1
  <2>2. CASE k # n
    <3>1. headers'[k] = headers[k]
      BY <1>7, <2>2
    <3> QED BY <1>6, <3>1
  <2> QED BY <2>1, <2>2
<1>9. Len(headers) <= Len(headers') /\ \A k \in DOMAIN headers : k < Len(headers) => headers'[k] = headers[k]
  BY <1>1, <1>7 DEF n
<1> QED BY <1>8, <1>9 DEF KeepsHeaders

\* A decision is written into the last entry.
LEMMA DecideKeeps ==
  ASSUME RInv, NEW d, Decide(d)
  PROVE  KeepsTrace
<1>1. trace \in Seq(TraceStep)
  BY DEF RInv, IInv, TypeOK
<1> QED BY <1>1 DEF Decide, KeepsTrace, TraceStep

LEMMA StepKeepsHeaders ==
  ASSUME RInv, Step
  PROVE  KeepsHeaders
<1>1. ASSUME BeginExtract PROVE KeepsHeaders
  <2> DEFINE h == [instance |-> InstanceOf(Ex), header_type |-> Ex.header_type,
                   start_bit |-> cursor_bits, fields |-> <<>>]
  <2>1. headers' = Append(headers, h)
    BY <1>1, Zenon DEF BeginExtract
  <2> HIDE DEF h
  <2>2. headers \in Seq(ParsedHeader)
    BY DEF RInv, IInv, TypeOK
  <2>3. Len(headers) <= Len(headers') /\ \A k \in DOMAIN headers : headers'[k] = headers[k]
    BY <2>1, <2>2
  <2>4. \A k \in DOMAIN headers : Len(headers[k].fields) \in Nat
    BY <2>2 DEF ParsedHeader
  <2> QED BY <2>3, <2>4 DEF KeepsHeaders
<1>2. ASSUME ReadFixed PROVE KeepsHeaders
  <2>1. pc = "field" /\ fx <= Len(Fields) /\ Width.kind = "bits"
    BY <1>2 DEF ReadFixed, AtFixed
  <2>2. Width.bits \in Nat
    BY <2>1, FieldTypes DEF RInv, IInv, FieldWidth
  <2>3. CASE RecordField(Width.bits, [uint |-> ReadBits(cursor_bits, Width.bits)])
    <3>1. [uint |-> ReadBits(cursor_bits, Width.bits)] \in FieldValue
      BY <2>2, ReadBitsType DEF FieldValue
    <3> QED BY <2>1, <2>2, <2>3, <3>1, RecordFieldKeeps
  <2>4. CASE UNCHANGED headers
    BY <2>4, SameReport
  <2> QED BY <1>2, <2>3, <2>4, Zenon DEF ReadFixed
<1>3. ASSUME ReadRunField PROVE KeepsHeaders
  <2> DEFINE end == CheckedAdd(RunLength, cursor_bits)
             bits == ReadRun(cursor_bits, RunLength)
  <2>1. pc = "field" /\ RunLength # Undef
    BY <1>3 DEF ReadRunField, AtRun
  <2>2. RunLength \in Nat
    BY <2>1, EvalExprType, WordProperties DEF RunLength
  <2>3. CASE end # Undef /\ end <= BoundBits /\ RecordField(RunLength, [bits |-> bits])
    <3>1. end = RunLength + cursor_bits
      BY <2>1, <2>3, CheckedAddProperties, EvalExprType DEF RunLength, RInv, IInv, TypeOK
    <3>2. [bits |-> bits] \in FieldValue
      <4>1. cursor_bits + RunLength <= Len(packet) /\ packet \in Seq({0, 1}) /\ cursor_bits \in Nat
        BY <2>2, <2>3, <3>1, BoundProperties, InputTypes DEF RInv, IInv, TypeOK, avail_bits
      <4>2. bits \in Seq({0, 1})
        BY <2>2, <4>1 DEF ReadRun
      <4> HIDE DEF bits
      <4> QED BY <4>2 DEF FieldValue
    <3> HIDE DEF bits
    <3> QED BY <2>1, <2>2, <2>3, <3>2, RecordFieldKeeps
  <2>4. CASE UNCHANGED headers
    BY <2>4, SameReport
  <2> QED BY <1>3, <2>3, <2>4, Zenon DEF ReadRunField
<1>4. ASSUME UNCHANGED headers PROVE KeepsHeaders
  BY <1>4, SameReport
<1>5. EnterState \/ EndExtract \/ AssignMetadata \/ PushRegion \/ PopRegion \/ TakeDirect \/ TakeSelect
        \/ Malformed => UNCHANGED headers
  BY Zenon DEF EnterState, EndExtract, AssignMetadata, PushRegion, PopRegion, TakeDirect, TakeSelect,
               Malformed
<1> QED BY <1>1, <1>2, <1>3, <1>4, <1>5, Zenon DEF Step

LEMMA StepKeepsTrace ==
  ASSUME RInv, Step
  PROVE  KeepsTrace
<1>1. ASSUME EnterState PROVE KeepsTrace
  <2> DEFINE entry == [state |-> current, decision |-> <<"none", 0>>]
  <2>1. trace' = Append(trace, entry)
    BY <1>1, Zenon DEF EnterState
  <2> HIDE DEF entry
  <2>2. trace \in Seq(TraceStep)
    BY DEF RInv, IInv, TypeOK
  <2>3. Len(trace) <= Len(trace') /\ \A k \in DOMAIN trace : trace'[k] = trace[k]
    BY <2>1, <2>2
  <2> QED BY <2>3 DEF KeepsTrace
<1>2. ASSUME TakeDirect \/ TakeSelect PROVE KeepsTrace
  BY <1>2, DecideKeeps, Zenon DEF TakeDirect, TakeSelect
<1>3. BeginExtract \/ ReadFixed \/ ReadRunField \/ EndExtract \/ AssignMetadata \/ PushRegion
        \/ PopRegion \/ Malformed => UNCHANGED trace
  BY Zenon DEF BeginExtract, ReadFixed, ReadRunField, EndExtract, AssignMetadata, PushRegion,
               PopRegion, Malformed
<1> QED BY <1>1, <1>2, <1>3, SameReport, Zenon DEF Step

\* What a run has extracted, the states it went through and the bits it has
\* committed stay: each step only adds to them.
LEMMA NextKeepsReport ==
  ASSUME RInv, Next
  PROVE  KeepsHeaders /\ KeepsTrace /\ Committed' >= Committed
<1>1. KeepsHeaders /\ KeepsTrace
  BY StepKeepsHeaders, StepKeepsTrace, SameReport, Zenon DEF Next, Done, vars, machine
<1>2. Committed \in Nat
  <2>1. cursor_bits \in Nat /\ entry_cursor \in Nat /\ result.consumed_bits \in Nat
    BY DEF RInv, IInv, TypeOK, Result
  <2> QED BY <2>1 DEF Committed
<1>3. Implements
  BY NextRefines
<1>4. Bounded!Consume => Committed' > Committed
  BY DEF Bounded!Consume
<1>5. CASE Committed' > Committed
  <2>1. Committed' \in Nat
    BY NextRefines DEF RInv, IInv, TypeOK, Result, Committed
  <2> QED BY <1>1, <1>2, <1>5, <2>1
<1>6. CASE Committed' = Committed
  BY <1>1, <1>2, <1>6
<1> QED BY <1>3, <1>4, <1>5, <1>6
        DEF Implements, Bounded!Next, Bounded!Enter, Bounded!Conclude, Bounded!vars

============================================================================

------------------------- MODULE ConformanceProofs --------------------------
(***************************************************************************)
(* The generated C parser and the interpreter agree on every packet, for    *)
(* every validated program that takes no field of whole bytes twice in a    *)
(* state, at every word and byte size.  The invariant pairs the two runs    *)
(* configuration by configuration; there is one lemma per pair of actions.  *)
(***************************************************************************)
EXTENDS Conformance, AlignmentProofs

----------------------------------------------------------------------------
(* The region array.                                                       *)

\* The array has a place for every region that can be open.
LEMMA NextPowerOfTwoReaches ==
  ASSUME NEW n \in Nat
  PROVE  NextPowerOfTwo(n) \in Nat /\ NextPowerOfTwo(n) >= n /\ NextPowerOfTwo(n) > 0
<1> DEFINE Body(f, k) == IF k = 0 THEN 1 ELSE 2 * f[k - 1]
           power == CHOOSE f : f = [k \in 0..n |-> Body(f, k)]
           step == [t \in (1..n) \X Nat |-> 2 * t[2]]
           S == {k \in 0..n : power[k] \in Nat /\ power[k] > k}
<1>1. \E f : f = [k \in 0..n |-> Body(f, k)]
  <2>1. step \in [(1..n) \X Nat -> Nat]
    OBVIOUS
  <2>2. PICK f : Follows(f, n, Nat, 1, step)
    <3> HIDE DEF step
    <3> QED BY <2>1, Recursion
  <2>3. f \in [0..n -> Nat] /\ f[0] = 1 /\ \A k \in 1..n : f[k] = step[<<k, f[k - 1]>>]
    BY <2>2 DEF Follows
  <2>4. ASSUME NEW k \in 0..n PROVE f[k] = Body(f, k)
    <3>1. CASE k = 0
      BY <2>3, <3>1
    <3>2. CASE k # 0
      <4>1. k \in 1..n /\ f[k - 1] \in Nat
        BY <2>3, <3>2
      <4>2. <<k, f[k - 1]>> \in (1..n) \X Nat /\ f[k] = step[<<k, f[k - 1]>>]
        BY <2>3, <4>1
      <4> QED BY <3>2, <4>2
    <3> QED BY <3>1, <3>2
  <2>5. f = [k \in 0..n |-> f[k]]
    BY <2>3
  <2> HIDE DEF Body
  <2> QED BY <2>4, <2>5
<1>2. power = [k \in 0..n |-> Body(power, k)]
  <2> HIDE DEF Body
  <2> QED BY <1>1
<1>3. NextPowerOfTwo(n) = Min({power[k] : k \in 0..n} \ 0..(n - 1))
  BY Zenon DEF NextPowerOfTwo
<1>4. \A k \in 0..n : power[k] = Body(power, k)
  <2> HIDE DEF Body, power
  <2> QED BY <1>2
<1> HIDE DEF power
<1>5. \A k \in 0..n : k \in S
  <2>1. 0 \in S
    BY <1>4
  <2>2. ASSUME NEW k \in 1..n, k - 1 \in S PROVE k \in S
    <3>1. power[k] = 2 * power[k - 1] /\ k \in 0..n
      BY <1>4
    <3>2. power[k - 1] \in Nat /\ power[k - 1] > k - 1
      BY <2>2
    <3> QED BY <3>1, <3>2
  <2> HIDE DEF S
  <2> QED BY <2>1, <2>2, Induction
<1> DEFINE reaching == {power[k] : k \in 0..n} \ 0..(n - 1)
<1>6. reaching \in SUBSET Nat /\ power[n] \in reaching /\ \A x \in reaching : x >= n /\ x > 0
  BY <1>5
<1> HIDE DEF reaching
<1>7. Min(reaching) \in reaching
  BY <1>6, MinIn
<1> QED BY <1>3, <1>6, <1>7 DEF reaching

LEMMA ArrayFits ==
  ASSUME ir \in Programs
  PROVE  /\ PK_RMASK \in Nat /\ RegionCap \in Nat
         /\ PK_RMASK + 1 >= RegionCap
         /\ \A k \in 0..PK_RMASK : k % (PK_RMASK + 1) = k
<1>1. RegionCap \in Nat
  BY RegionCapType
<1>2. PK_RMASK + 1 = NextPowerOfTwo(RegionCap) /\ PK_RMASK \in Nat
  BY <1>1, NextPowerOfTwoReaches DEF PK_RMASK
<1>3. ASSUME NEW k \in 0..PK_RMASK PROVE k % (PK_RMASK + 1) = k
  <2> DEFINE m == PK_RMASK + 1
  <2>1. m \in Nat /\ m > 0 /\ k \in Nat /\ k < m
    BY <1>2
  <2> HIDE DEF m
  <2>2. k % m = k
    BY <2>1
  <2> QED BY <2>2 DEF m
<1> QED BY <1>1, <1>2, <1>3, NextPowerOfTwoReaches

----------------------------------------------------------------------------
(* Values.                                                                 *)

\* Evaluation from leaves to roots.
Unfolds(values, store, rem) ==
  \A d \in Exprs :
    EvalExpr(d, values, store, rem) =
      IF d.kind # "bin" THEN LeafValue(d, values, store, rem)
      ELSE IF Undef \in {EvalExpr(d.lhs, values, store, rem), EvalExpr(d.rhs, values, store, rem)}
           THEN Undef
      ELSE WrappingOp(d.op, EvalExpr(d.lhs, values, store, rem), EvalExpr(d.rhs, values, store, rem))

LEMMA Evaluation ==
  ASSUME NEW values, \A r \in DOMAIN values : values[r] \in Word,
         NEW store, \A m \in DOMAIN store : store[m] \in Word,
         NEW rem \in Word \cup {Undef}
  PROVE  Unfolds(values, store, rem)
BY EvalExprUnfolds DEF Unfolds

\* An expression that has a value keeps it where more is bound.
Words(f) == \A x \in DOMAIN f : f[x] \in Word
Holds(more, values) == \A r \in DOMAIN values : r \in DOMAIN more /\ more[r] = values[r]

LEMMA MoreBound ==
  ASSUME NEW values, Words(values), NEW more, Words(more), Holds(more, values),
         NEW store, Words(store),
         NEW rem \in Word \cup {Undef}, NEW rem2 \in Word \cup {Undef},
         rem # Undef => rem2 = rem,
         NEW e \in Exprs, EvalExpr(e, values, store, rem) # Undef
  PROVE  EvalExpr(e, more, store, rem2) = EvalExpr(e, values, store, rem)
<1>1. Unfolds(values, store, rem) /\ Unfolds(more, store, rem2)
  BY Evaluation DEF Words
<1>2. \A d \in Exprs : EvalExpr(d, values, store, rem) =
        IF d.kind # "bin" THEN LeafValue(d, values, store, rem)
        ELSE IF Undef \in {EvalExpr(d.lhs, values, store, rem), EvalExpr(d.rhs, values, store, rem)}
             THEN Undef
        ELSE WrappingOp(d.op, EvalExpr(d.lhs, values, store, rem), EvalExpr(d.rhs, values, store, rem))
  BY <1>1, Zenon DEF Unfolds
<1>3. \A d \in Exprs : EvalExpr(d, more, store, rem2) =
        IF d.kind # "bin" THEN LeafValue(d, more, store, rem2)
        ELSE IF Undef \in {EvalExpr(d.lhs, more, store, rem2), EvalExpr(d.rhs, more, store, rem2)}
             THEN Undef
        ELSE WrappingOp(d.op, EvalExpr(d.lhs, more, store, rem2), EvalExpr(d.rhs, more, store, rem2))
  BY <1>1, Zenon DEF Unfolds
<1> DEFINE V(d) == EvalExpr(d, values, store, rem)
           W(d) == EvalExpr(d, more, store, rem2)
           S == {d \in Exprs : d.kind = "bin" /\ V(d) # Undef /\ W(d) # V(d)}
<1>4. ASSUME NEW d \in Exprs, d.kind # "bin", V(d) # Undef PROVE W(d) = V(d)
  <2>1. V(d) = LeafValue(d, values, store, rem) /\ W(d) = LeafValue(d, more, store, rem2)
    <3>1. EvalExpr(d, values, store, rem) = LeafValue(d, values, store, rem)
      BY <1>4, <1>2, Zenon
    <3>2. EvalExpr(d, more, store, rem2) = LeafValue(d, more, store, rem2)
      BY <1>4, <1>3, Zenon
    <3> QED BY <3>1, <3>2
  <2>2. LeafValue(d, values, store, rem) # Undef
    BY <1>4, <2>1
  <2> HIDE DEF V, W
  <2>3. d.kind \in {"constant", "remaining", "field", "metadata"}
    BY <1>4, ExprsAssumption
  <2>4. LeafValue(d, more, store, rem2) = LeafValue(d, values, store, rem)
    <3>1. CASE d.kind = "constant"
      BY <3>1 DEF LeafValue
    <3>2. CASE d.kind = "remaining"
      BY <2>2, <3>2 DEF LeafValue
    <3>3. CASE d.kind = "field"
      BY <2>2, <3>3 DEF LeafValue, Holds
    <3>4. CASE d.kind = "metadata"
      BY <3>4 DEF LeafValue
    <3> QED BY <2>3, <3>1, <3>2, <3>3, <3>4
  <2> QED BY <2>1, <2>4
<1>5. S = {}
  <2> SUFFICES ASSUME S # {} PROVE FALSE
    OBVIOUS
  <2>1. S \in SUBSET {d \in Exprs : d.kind = "bin"}
    OBVIOUS
  <2>2. PICK d \in S : d.lhs \notin S /\ d.rhs \notin S
    <3> HIDE DEF S
    <3> QED BY <2>1, ExprsAreTrees
  <2>3. d \in Exprs /\ d.kind = "bin" /\ V(d) # Undef /\ W(d) # V(d)
    BY <2>2
  <2>4. d.lhs \in Exprs /\ d.rhs \in Exprs
    BY <2>3, ExprsAssumption
  <2>5. V(d) = IF Undef \in {V(d.lhs), V(d.rhs)} THEN Undef ELSE WrappingOp(d.op, V(d.lhs), V(d.rhs))
    BY <2>3, <1>2, Zenon
  <2>6. W(d) = IF Undef \in {W(d.lhs), W(d.rhs)} THEN Undef ELSE WrappingOp(d.op, W(d.lhs), W(d.rhs))
    BY <2>3, <1>3, Zenon
  <2> HIDE DEF V, W
  <2>7. V(d.lhs) # Undef /\ V(d.rhs) # Undef
    BY <2>3, <2>5
  <2>8. W(d.lhs) = V(d.lhs) /\ W(d.rhs) = V(d.rhs)
    BY <1>4, <2>2, <2>4, <2>7
  <2> QED BY <2>3, <2>5, <2>6, <2>7, <2>8
<1>6. V(e) # Undef
  OBVIOUS
<1> HIDE DEF V, W
<1>7. W(e) = V(e)
  BY <1>4, <1>5, <1>6
<1> QED BY <1>7 DEF V, W

----------------------------------------------------------------------------
(* The two runs, side by side.                                             *)

\* The input, the state, the position in it and the budget spent.
SamePlace ==
  /\ cpc = IF pc = "enter" THEN "loop" ELSE pc
  /\ state = current
  /\ iter = IF pc = "enter" THEN depth ELSE depth - 1
  /\ pc # "enter" => cix = ix
  /\ pc = "field" => cfx = fx

\* Under a lookahead the interpreter moves its cursor and the parser another.
Peeking == pc = "field" /\ Ex.lookahead
SameCursor ==
  /\ off = IF Peeking THEN entry_cursor ELSE cursor_bits
  /\ Peeking => poff = cursor_bits

\* The open regions are in the array, whatever it holds above them.
SameRegions ==
  /\ pk_rsp = Len(regions)
  /\ DOMAIN pk_region_end = 0..PK_RMASK
  /\ \A k \in 0..PK_RMASK : pk_region_end[k] \in Word
  /\ \A k \in DOMAIN regions : pk_region_end[k - 1] = regions[k]

\* The struct holds what the interpreter bound.
StructTyped ==
  /\ out = [outcome |-> out.outcome, reason |-> out.reason, consumed_bits |-> out.consumed_bits,
            present |-> out.present, words |-> out.words, runs |-> out.runs, m |-> out.m]
  /\ DOMAIN out.words = Members("bits") /\ DOMAIN out.runs = Members("bit_len")
  /\ \A r \in DOMAIN out.words : out.words[r] \in Word

SameValues ==
  /\ out.m = meta
  /\ \A r \in DOMAIN env : r \in DOMAIN out.words /\ out.words[r] = env[r]

Shows(i, f, h) ==
  IF <<i, f>> \in DOMAIN out.words
  THEN h.value = [uint |-> out.words[<<i, f>>]]
  ELSE /\ <<i, f>> \in DOMAIN out.runs
       /\ out.runs[<<i, f>>] = [bit_off |-> h.bit_offset, bit_len |-> h.bit_len]
IsLast(k) == \A j \in DOMAIN headers : j > k => headers[j].instance # headers[k].instance
HeadersShown ==
  /\ out.present = {headers[k].instance : k \in DOMAIN headers}
  /\ \A k \in DOMAIN headers : IsLast(k) =>
       \A f \in DOMAIN headers[k].fields : Shows(headers[k].instance, f, headers[k].fields[f])

HeaderHere ==
  pc = "field" => /\ headers # <<>>
                  /\ headers[Len(headers)].instance = InstanceOf(Ex)
                  /\ Len(headers[Len(headers)].fields) = fx - 1

Paired ==
  /\ SamePlace /\ SameCursor /\ SameRegions
  /\ StructTyped /\ SameValues /\ HeadersShown /\ HeaderHere

SameEnd ==
  /\ cpc = "returned"
  /\ out.outcome = result.outcome /\ out.consumed_bits = result.consumed_bits
  /\ out.m = meta /\ HeadersShown
  /\ SameReason \/ TruncatedPop

Pair ==
  /\ pc = "idle" => CInit
  /\ pc # "idle" => buf = packet
  /\ Live => Paired
  /\ pc = "done" /\ result.outcome # "err" => SameEnd

\* Both are running, at the same point of the same program.
Abreast ==
  /\ VInv /\ vpc = "valid" /\ RunInv /\ Live
  /\ Paired /\ buf = packet

\* What the parser reads where it is, is what the interpreter reads.
LEMMA SameHere ==
  ASSUME Abreast
  PROVE  /\ bit_len = avail_bits /\ CSt = St
         /\ CExtracts = NExtracts /\ CAssigns = NAssigns /\ COps = NOps
         /\ pc # "enter" => /\ cix = ix /\ CEx = Ex /\ CFields = Fields
                            /\ CAssignOp = AssignOp /\ COp = Op
<1>1. state = current /\ buf = packet /\ (pc # "enter" => cix = ix)
  BY DEF Abreast, Paired, SamePlace
<1>2. bit_len = avail_bits /\ CSt = St
  BY <1>1 DEF bit_len, avail_bits, CSt, St
<1>3. CExtracts = NExtracts /\ CAssigns = NAssigns /\ COps = NOps
  BY <1>2 DEF CExtracts, CAssigns, COps, NExtracts, NAssigns, NOps
<1>4. ASSUME pc # "enter"
      PROVE  CEx = Ex /\ CFields = Fields /\ CAssignOp = AssignOp /\ COp = Op
  <2>1. CEx = Ex
    BY <1>1, <1>2, <1>4 DEF CEx, Ex
  <2>2. CFields = Fields
    BY <2>1 DEF CFields, Fields
  <2>3. CAssignOp = AssignOp
    BY <1>1, <1>2, <1>3, <1>4 DEF CAssignOp, AssignOp
  <2>4. COp = Op
    BY <1>1, <1>2, <1>3, <1>4 DEF COp, Op
  <2> QED BY <2>1, <2>2, <2>3, <2>4
<1> QED BY <1>1, <1>2, <1>3, <1>4

\* The types of what both read.
LEMMA AbreastTypes ==
  ASSUME Abreast
  PROVE  /\ TypeOK /\ ControlOK /\ CursorInsideRegions /\ RegionWords /\ RegionStackFitsCap
         /\ StructureOk /\ ir \in Programs
         /\ avail_bits \in Nat /\ avail_bits + WordBits \in Word /\ WordBits \in Nat
         /\ cursor_bits \in Word /\ entry_cursor \in Nat /\ cursor_bits <= avail_bits
         /\ NExtracts \in Nat /\ NAssigns \in Nat /\ NOps \in Nat /\ ix \in Nat /\ ix > 0 /\ fx \in Nat
         /\ (~Peeking => off = cursor_bits)
<1>1. /\ TypeOK /\ ControlOK /\ CursorInsideRegions /\ RegionWords /\ RegionStackFitsCap
  BY DEF Abreast, RunInv, IInv
<1>2. StructureOk /\ ir \in Programs
  BY <1>1, Licensed DEF Abreast, TypeOK
<1>3. avail_bits \in Nat /\ avail_bits + WordBits \in Word /\ WordBits \in Nat
  BY <1>1, InputTypes, PacketsAssumption, WordBitsAssumption DEF TypeOK, avail_bits
<1>4. cursor_bits \in Word
  BY <1>1, <1>3, WordProperties DEF TypeOK, CursorInsideRegions, Word
<1>5. NExtracts \in Nat /\ NAssigns \in Nat /\ NOps \in Nat /\ ix \in Nat /\ ix > 0 /\ fx \in Nat
  BY LiveState DEF Abreast
<1>6. ~Peeking => off = cursor_bits
  BY DEF Abreast, Paired, SameCursor
<1> QED BY <1>1, <1>2, <1>3, <1>4, <1>5, <1>6 DEF TypeOK, CursorInsideRegions

\* The innermost region is where the masked index looks.
LEMMA InnermostHere ==
  ASSUME Abreast
  PROVE  /\ pk_rsp = Len(regions) /\ pk_rsp \in Nat /\ (pk_rsp = 0 <=> regions = <<>>)
         /\ InnermostEnd \in Word
         /\ regions # <<>> =>
              /\ InnermostEnd = Top /\ Top \in Word /\ cursor_bits <= Top
              /\ RegionCap # 0 /\ pk_rsp - 1 \in 0..PK_RMASK
<1>1. /\ PK_RMASK \in Nat /\ RegionCap \in Nat /\ PK_RMASK + 1 >= RegionCap
      /\ \A k \in 0..PK_RMASK : k % (PK_RMASK + 1) = k
  BY AbreastTypes, ArrayFits
<1>2. /\ pk_rsp = Len(regions)
      /\ \A k \in 0..PK_RMASK : pk_region_end[k] \in Word
      /\ \A k \in DOMAIN regions : pk_region_end[k - 1] = regions[k]
  BY DEF Abreast, Paired, SameRegions
<1>3. /\ regions \in Seq(Nat) /\ Len(regions) <= RegionCap
      /\ \A k \in DOMAIN regions : regions[k] \in Word /\ cursor_bits <= regions[k]
  BY AbreastTypes DEF TypeOK, RegionWords, RegionStackFitsCap, CursorInsideRegions
<1>4. pk_rsp \in Nat /\ (pk_rsp = 0 <=> regions = <<>>)
  BY <1>2, <1>3
<1>5. InnermostEnd \in Word
  <2> DEFINE m == PK_RMASK + 1
             k == pk_rsp - 1
  <2>1. m \in Nat /\ m > 0 /\ k \in Int
    BY <1>1, <1>4
  <2> HIDE DEF m, k
  <2>2. k % m \in 0..(m - 1)
    BY <2>1
  <2>3. (pk_rsp - 1) % (PK_RMASK + 1) \in 0..PK_RMASK
    BY <1>1, <2>2 DEF m, k
  <2> QED BY <1>2, <2>3 DEF InnermostEnd
<1>6. ASSUME regions # <<>>
      PROVE  /\ InnermostEnd = Top /\ Top \in Word /\ cursor_bits <= Top
             /\ RegionCap # 0 /\ pk_rsp - 1 \in 0..PK_RMASK
  <2>1. pk_rsp - 1 \in 0..PK_RMASK /\ RegionCap # 0 /\ pk_rsp \in DOMAIN regions
    BY <1>1, <1>2, <1>3, <1>4, <1>6
  <2>2. InnermostEnd = regions[pk_rsp]
    <3>1. (pk_rsp - 1) % (PK_RMASK + 1) = pk_rsp - 1
      BY <1>1, <2>1
    <3> QED BY <1>2, <2>1, <3>1 DEF InnermostEnd
  <2> QED BY <1>2, <1>3, <2>1, <2>2 DEF Top
<1> QED BY <1>2, <1>4, <1>5, <1>6

\* Words are numbers, and there.
LEMMA WordsAreNumbers ==
  ASSUME NEW v \in Word
  PROVE  v \in Nat /\ v \in Int /\ v # Undef
BY WordProperties

\* A difference of words that is not negative does not wrap.
LEMMA NoWrap ==
  ASSUME NEW a \in Word
  PROVE  a % WordSize = a
<1> DEFINE m == WordSize
<1>1. m \in Nat /\ m > 0 /\ a \in 0..(m - 1)
  BY WordProperties DEF Word
<1> HIDE DEF m
<1>2. a % m = a
  BY <1>1
<1> QED BY <1>2 DEF m

LEMMA Difference ==
  ASSUME NEW a \in Word, NEW b \in Word, b <= a
  PROVE  (a - b) % WordSize = a - b /\ a - b \in Word
<1>1. a - b \in Word
  BY WordProperties DEF Word
<1> QED BY <1>1, NoWrap

LEMMA WrapType ==
  ASSUME NEW a \in Int
  PROVE  a % WordSize \in Word
<1>1. WordSize \in Int /\ WordSize > 0
  BY WordProperties
<1> QED BY <1>1, Division DEF Word

\* Inside a region, what is left of it.
LEMMA SameRemaining ==
  ASSUME Abreast, regions # <<>>, off = cursor_bits
  PROVE  /\ (InnermostEnd - off) % WordSize = Top - cursor_bits
         /\ Top - cursor_bits \in Word /\ RemainingHere = Top - cursor_bits
<1>1. InnermostEnd = Top /\ Top \in Word /\ cursor_bits <= Top /\ cursor_bits \in Word
  BY InnermostHere, AbreastTypes
<1>2. (Top - cursor_bits) % WordSize = Top - cursor_bits /\ Top - cursor_bits \in Word
  BY <1>1, Difference
<1>3. RemainingHere = Top - cursor_bits
  <2>1. Top >= cursor_bits
    BY <1>1, WordProperties
  <2> QED BY <2>1 DEF RemainingHere
<1> QED BY <1>1, <1>2, <1>3

\* An expression the interpreter has a value for has that value in C.
LEMMA SameValue ==
  ASSUME Abreast, NEW e \in Exprs, NEW rem,
         rem = Undef \/ (rem = RemainingHere /\ pc = "body"),
         EvalExpr(e, env, meta, rem) # Undef
  PROVE  CValue(e) = EvalExpr(e, env, meta, rem)
<1> DEFINE rem2 == IF RegionCap = 0 THEN Undef ELSE (InnermostEnd - off) % WordSize
<1>1. /\ Words(env) /\ Words(out.words) /\ Holds(out.words, env) /\ Words(meta)
      /\ out.m = meta
  BY AbreastTypes DEF TypeOK, Abreast, Paired, StructTyped, SameValues, Words, Holds
<1>2. rem2 \in Word \cup {Undef}
  <2>1. InnermostEnd \in Int /\ off \in Int
    <3>1. InnermostEnd \in Word /\ cursor_bits \in Word /\ entry_cursor \in Nat
      BY InnermostHere, AbreastTypes
    <3>2. off \in {cursor_bits, entry_cursor}
      BY DEF Abreast, Paired, SameCursor
    <3> QED BY <3>1, <3>2, WordsAreNumbers
  <2> QED BY <2>1, WrapType
<1>3. rem \in Word \cup {Undef} /\ (rem # Undef => rem2 = rem)
  <2>1. CASE rem = Undef
    BY <2>1
  <2>2. CASE rem = RemainingHere /\ pc = "body" /\ rem # Undef
    <3>1. regions # <<>>
      BY <2>2 DEF RemainingHere
    <3>2. off = cursor_bits
      BY <2>2, AbreastTypes DEF Peeking
    <3>3. RegionCap # 0
      BY <3>1, InnermostHere
    <3> QED BY <2>2, <3>1, <3>2, <3>3, SameRemaining
  <2> QED BY <2>1, <2>2
<1>4. CValue(e) = EvalExpr(e, out.words, meta, rem2)
  BY <1>1 DEF CValue
<1> HIDE DEF rem2
<1>5. EvalExpr(e, out.words, meta, rem2) = EvalExpr(e, env, meta, rem)
  BY <1>1, <1>2, <1>3, MoreBound
<1> QED BY <1>4, <1>5

----------------------------------------------------------------------------
(* Steps.                                                                  *)

\* The position decides which action of the parser comes next.
LEMMA ParserTurnIs ==
  ASSUME Abreast, ParserTurn
  PROVE  /\ pc = "enter" => CLoop
         /\ AtExtract => CExtract
         /\ AtFixed => CFixed
         /\ AtRun => CRun
         /\ pc = "field" /\ fx = Len(Fields) + 1 => CEndExtract
         /\ AtAssign => CAssign
         /\ AtRegionOp => CPush \/ CPop
         /\ AtTransition => CTransition
<1>1. /\ cpc = IF pc = "enter" THEN "loop" ELSE pc
      /\ pc # "enter" => cix = ix
      /\ pc = "field" => cfx = fx
      /\ pc \in {"enter", "body", "field"}
  BY DEF Abreast, Paired, SamePlace, Live
<1>2. CStep
  BY <1>1 DEF ParserTurn
<1>3. /\ CExtracts = NExtracts /\ CAssigns = NAssigns /\ COps = NOps
      /\ pc # "enter" => CFields = Fields
  BY SameHere
<1>4. NExtracts \in Nat /\ NAssigns \in Nat /\ NOps \in Nat /\ ix \in Nat /\ fx \in Nat
  BY AbreastTypes
<1>5. /\ CLoop => cpc = "loop"
      /\ CExtract => cpc = "body" /\ cix <= CExtracts
      /\ CFixed => cpc = "field" /\ cfx <= Len(CFields) /\ CFields[cfx].kind = "bits"
      /\ CRun => cpc = "field" /\ cfx <= Len(CFields) /\ CFields[cfx].kind = "bit_len"
      /\ CEndExtract => cpc = "field" /\ cfx = Len(CFields) + 1
      /\ CAssign => cpc = "body" /\ cix \in (CExtracts + 1)..(CExtracts + CAssigns)
      /\ CPush \/ CPop =>
           cpc = "body" /\ cix \in (CExtracts + CAssigns + 1)..(CExtracts + CAssigns + COps)
      /\ CTransition => cpc = "body" /\ cix = CExtracts + CAssigns + COps + 1
  BY Zenon DEF CLoop, CExtract, CFixed, CRun, CEndExtract, CAssign, CPush, CPop, CTransition
<1>6. CLoop \/ CExtract \/ CFixed \/ CRun \/ CEndExtract \/ CAssign \/ CPush \/ CPop \/ CTransition
  BY <1>2 DEF CStep
<1>7. pc = "enter" => CLoop
  BY <1>1, <1>5, <1>6
<1>8. ASSUME pc = "field"
      PROVE  /\ AtFixed => CFixed
             /\ AtRun => CRun
             /\ fx = Len(Fields) + 1 => CEndExtract
  <2>1. CFixed \/ CRun \/ CEndExtract
    BY <1>1, <1>5, <1>6, <1>8
  <2>2. Len(Fields) \in Nat
    BY <1>8, FieldTypes, AbreastTypes DEF HeaderType
  <2>3. /\ CFixed => fx <= Len(Fields) /\ Fields[fx].kind = "bits"
        /\ CRun => fx <= Len(Fields) /\ Fields[fx].kind = "bit_len"
        /\ CEndExtract => fx = Len(Fields) + 1
    BY <1>1, <1>3, <1>5, <1>8
  <2> QED BY <1>4, <2>1, <2>2, <2>3 DEF AtFixed, AtRun, Width
<1>9. ASSUME pc = "body"
      PROVE  /\ AtExtract => CExtract
             /\ AtAssign => CAssign
             /\ AtRegionOp => CPush \/ CPop
             /\ AtTransition => CTransition
  <2>1. CExtract \/ CAssign \/ CPush \/ CPop \/ CTransition
    BY <1>1, <1>5, <1>6, <1>9
  <2>2. /\ CExtract => ix <= NExtracts
        /\ CAssign => ix \in (NExtracts + 1)..(NExtracts + NAssigns)
        /\ CPush \/ CPop => ix \in (NExtracts + NAssigns + 1)..(NExtracts + NAssigns + NOps)
        /\ CTransition => ix = NExtracts + NAssigns + NOps + 1
    BY <1>1, <1>3, <1>5, <1>9
  <2> QED BY <1>4, <2>1, <2>2 DEF AtExtract, AtAssign, AtRegionOp, AtTransition
<1> QED BY <1>7, <1>8, <1>9 DEF AtFixed, AtRun, AtExtract, AtAssign, AtRegionOp, AtTransition

\* What a step leaves alone.
LEMMA Frame ==
  ASSUME UNCHANGED ir
  PROVE  /\ UNCHANGED <<regions, pk_rsp, pk_region_end>> => SameRegions' = SameRegions
         /\ UNCHANGED out => StructTyped' = StructTyped
         /\ UNCHANGED <<out, env, meta>> => SameValues' = SameValues
         /\ UNCHANGED <<out, headers>> => HeadersShown' = HeadersShown
         /\ \A kind : Members(kind)' = Members(kind)
<1>1. \A kind : Members(kind)' = Members(kind)
  BY DEF Members
<1>2. RegionCap' = RegionCap
  BY StableFacts
<1>3. PK_RMASK' = PK_RMASK
  BY <1>2 DEF PK_RMASK, NextPowerOfTwo
<1>4. UNCHANGED <<regions, pk_rsp, pk_region_end>> => SameRegions' = SameRegions
  BY <1>3 DEF SameRegions
<1>5. UNCHANGED out => StructTyped' = StructTyped
  BY <1>1 DEF StructTyped
<1>6. UNCHANGED <<out, env, meta>> => SameValues' = SameValues
  BY DEF SameValues
<1>7. UNCHANGED <<out, headers>> => HeadersShown' = HeadersShown
  BY DEF HeadersShown, IsLast, Shows
<1> QED BY <1>1, <1>4, <1>5, <1>6, <1>7

\* A return fills in the outcome, and nothing else.
LEMMA ReturnEffect ==
  ASSUME StructTyped, NEW outcome, NEW reason, Return(outcome, reason)
  PROVE  /\ cpc' = "returned"
         /\ out'.outcome = outcome /\ out'.reason = reason /\ out'.consumed_bits = off
         /\ out'.present = out.present /\ out'.words = out.words
         /\ out'.runs = out.runs /\ out'.m = out.m
BY DEF StructTyped, Return

\* Both end with the same outcome.
LEMMA EndTogether ==
  ASSUME Abreast, UNCHANGED <<ir, packet, buf, meta, headers>>,
         NEW outcome, NEW reason, NEW reason2, NEW bit_offset,
         Return(outcome, reason2), Finish(outcome, reason, bit_offset, off),
         reason2 = reason \/ TruncatedPop'
  PROVE  Pair'
<1>1. StructTyped /\ out.m = meta /\ HeadersShown
  BY DEF Abreast, Paired, SameValues
<1>2. /\ cpc' = "returned"
      /\ out'.outcome = outcome /\ out'.reason = reason2 /\ out'.consumed_bits = off
      /\ out'.present = out.present /\ out'.words = out.words
      /\ out'.runs = out.runs /\ out'.m = out.m
  BY <1>1, ReturnEffect
<1>3. /\ pc' = "done" /\ result'.outcome = outcome /\ result'.reason = reason
      /\ result'.consumed_bits = off
  BY DEF Finish
<1>4. HeadersShown'
  BY <1>1, <1>2 DEF HeadersShown, IsLast, Shows
<1>5. SameReason' \/ TruncatedPop'
  BY <1>2, <1>3 DEF SameReason
<1>6. SameEnd'
  BY <1>1, <1>2, <1>3, <1>4, <1>5 DEF SameEnd
<1>7. buf' = packet' /\ ~Live'
  BY <1>3 DEF Abreast, Live
<1> QED BY <1>3, <1>6, <1>7 DEF Pair

\* Both stay in the run.
LEMMA StayTogether ==
  ASSUME Abreast, UNCHANGED <<packet, buf>>, pc' \in {"enter", "body", "field"}, Paired'
  PROVE  Pair'
BY DEF Abreast, Pair, Live

LEMMA EnterTogether ==
  ASSUME Abreast, EnterState, CLoop
  PROVE  Pair'
<1>1. pc = "enter" /\ UNCHANGED <<ir, packet, current, cursor_bits, regions, env, meta, headers>>
  BY DEF EnterState
<1>2. UNCHANGED <<buf, state, iter, off, pk_region_end, pk_rsp>>
  BY DEF CLoop
<1>3. off = cursor_bits /\ iter = depth /\ state = current
  BY <1>1, AbreastTypes DEF Abreast, Paired, SamePlace, Peeking
<1>4. depth \in Nat /\ ir.max_depth \in Nat
  BY AbreastTypes, ProgramTypes DEF TypeOK, Parser
<1>5. CASE depth >= ir.max_depth
  <2>1. ~(depth < ir.max_depth)
    BY <1>4, <1>5
  <2>2. RejectHere("max depth exceeded")
    BY <2>1, Zenon DEF EnterState
  <2>3. Return("reject", "max depth exceeded")
    BY <1>3, <2>1, Zenon DEF CLoop
  <2> QED BY <1>1, <1>2, <1>3, <2>2, <2>3, EndTogether DEF RejectHere
<1>6. CASE depth < ir.max_depth
  <2>1. ~(depth >= ir.max_depth)
    BY <1>4, <1>6
  <2>2. depth' = depth + 1 /\ pc' = "body" /\ ix' = 1
    BY <2>1, Zenon DEF EnterState
  <2>3. cpc' = "body" /\ cix' = 1 /\ UNCHANGED out
    BY <1>3, <2>1, Zenon DEF CLoop
  <2>4. SamePlace' /\ SameCursor' /\ HeaderHere'
    BY <1>1, <1>2, <1>3, <1>4, <2>2, <2>3 DEF SamePlace, SameCursor, Peeking, HeaderHere
  <2>5. SameRegions' /\ StructTyped' /\ SameValues' /\ HeadersShown'
    BY <1>1, <1>2, <2>3, Frame DEF Abreast, Paired
  <2>6. Paired'
    BY <2>4, <2>5 DEF Paired
  <2> QED BY <1>1, <1>2, <2>2, <2>6, StayTogether
<1> QED BY <1>4, <1>5, <1>6

\* The struct has the members of every instance the program extracts.
LEMMA MemberHere ==
  ASSUME Abreast, pc = "field", fx \in 1..Len(Fields)
  PROVE  /\ CMember = <<InstanceOf(Ex), fx>>
         /\ Width.kind = "bits" => CMember \in Members("bits")
         /\ Width.kind = "bit_len" => CMember \in Members("bit_len") /\ CMember \notin Members("bits")
<1>1. CEx = Ex /\ cfx = fx
  BY SameHere DEF Abreast, Paired, SamePlace
<1>2. CMember = <<InstanceOf(Ex), fx>>
  BY <1>1 DEF CMember
<1>3. /\ current \in DOMAIN ir.states /\ ix \in DOMAIN St.extracts
      /\ fx \in DOMAIN ir.header_types[Ex.header_type]
      /\ Width = ir.header_types[Ex.header_type][fx]
  <2>1. Fields \in HeaderType
    BY AbreastTypes, FieldTypes
  <2> QED BY <2>1, AbreastTypes DEF ControlOK, Fields, Width, HeaderType
<1>4. ASSUME NEW kind, Width.kind = kind PROVE CMember \in Members(kind)
  <2>1. Ex \in UNION {{s.extracts[k] : k \in DOMAIN s.extracts} :
                        s \in {ir.states[q] : q \in DOMAIN ir.states}}
    BY <1>3 DEF Ex, St
  <2>2. <<InstanceOf(Ex), fx>> \in
          {<<InstanceOf(Ex), f>> : f \in {f \in DOMAIN ir.header_types[Ex.header_type] :
                                            ir.header_types[Ex.header_type][f].kind = kind}}
    BY <1>3, <1>4
  <2> QED BY <1>2, <2>1, <2>2 DEF Members
<1>5. ASSUME CMember \in Members("bits") PROVE Width.kind = "bits"
  <2>1. PICK ex \in UNION {{s.extracts[k] : k \in DOMAIN s.extracts} :
                             s \in {ir.states[q] : q \in DOMAIN ir.states}} :
          <<InstanceOf(Ex), fx>> \in
            {<<InstanceOf(ex), f>> : f \in {f \in DOMAIN ir.header_types[ex.header_type] :
                                              ir.header_types[ex.header_type][f].kind = "bits"}}
    BY <1>2, <1>5 DEF Members
  <2>2. InstanceOf(ex) = InstanceOf(Ex) /\ ir.header_types[ex.header_type][fx].kind = "bits"
    BY <2>1
  <2>3. ex \in Extracts /\ Ex \in Extracts
    BY <1>3, <2>1 DEF Extracts, ToSet, Ex, St
  <2>4. ex.header_type = Ex.header_type
    BY <2>2, <2>3, AbreastTypes DEF StructureOk, InstancesOk
  <2> QED BY <1>3, <2>2, <2>4
<1> QED BY <1>2, <1>4, <1>5

LEMMA ExtractTogether ==
  ASSUME Abreast, BeginExtract, CExtract
  PROVE  Pair'
<1> DEFINE h == [instance |-> InstanceOf(Ex), header_type |-> Ex.header_type,
                 start_bit |-> cursor_bits, fields |-> <<>>]
<1>1. /\ pc = "body" /\ pc' = "field" /\ fx' = 1 /\ entry_cursor' = cursor_bits
      /\ headers' = Append(headers, h)
      /\ UNCHANGED <<ir, packet, ix, current, depth, cursor_bits, regions, env, meta>>
  BY DEF BeginExtract, AtExtract
<1>2. /\ cpc' = "field" /\ cfx' = 1 /\ poff' = off
      /\ out' = [out EXCEPT !.present = @ \cup {InstanceOf(CEx)}]
      /\ UNCHANGED <<buf, cix, state, iter, off, pk_region_end, pk_rsp>>
  BY DEF CExtract
<1>3. CEx = Ex /\ off = cursor_bits /\ StructTyped /\ HeadersShown /\ headers \in Seq(ParsedHeader)
  BY <1>1, SameHere, AbreastTypes DEF Peeking, Abreast, Paired, TypeOK
<1>4. UNCHANGED <<St, Ex>>
  BY <1>1 DEF St, Ex
<1>5. /\ out'.outcome = out.outcome /\ out'.reason = out.reason
      /\ out'.consumed_bits = out.consumed_bits /\ out'.words = out.words
      /\ out'.runs = out.runs /\ out'.m = out.m /\ out'.present = out.present \cup {InstanceOf(Ex)}
      /\ StructTyped'
  <2>1. out' = [outcome |-> out.outcome, reason |-> out.reason,
                consumed_bits |-> out.consumed_bits,
                present |-> out.present \cup {InstanceOf(Ex)},
                words |-> out.words, runs |-> out.runs, m |-> out.m]
    BY <1>2, <1>3 DEF StructTyped
  <2> QED BY <1>1, <1>3, <2>1, Frame DEF StructTyped
<1> DEFINE n == Len(headers)
<1>6. /\ n \in Nat /\ Len(headers') = n + 1 /\ headers'[n + 1] = h /\ DOMAIN headers = 1..n
      /\ DOMAIN headers' = 1..(n + 1) /\ \A k \in 1..n : headers'[k] = headers[k]
  BY <1>1, <1>3
<1>7. /\ h.instance = InstanceOf(Ex) /\ h.fields = <<>> /\ Len(h.fields) = 0
  OBVIOUS
<1> HIDE DEF h, n
<1>8. HeadersShown'
  <2>1. out'.present = {headers'[k].instance : k \in DOMAIN headers'}
    BY <1>3, <1>5, <1>6, <1>7 DEF HeadersShown
  <2>2. ASSUME NEW k \in DOMAIN headers', IsLast(k)', NEW f \in DOMAIN headers'[k].fields
        PROVE  Shows(headers[k].instance, f, headers[k].fields[f])'
    <3>1. k # n + 1
      BY <1>6, <1>7, <2>2
    <3>2. k \in 1..n /\ headers'[k] = headers[k]
      BY <1>6, <3>1
    <3>3. IsLast(k)
      <4> SUFFICES ASSUME NEW j \in DOMAIN headers, j > k
                   PROVE  headers[j].instance # headers[k].instance
        BY DEF IsLast
      <4>1. j \in DOMAIN headers' /\ headers'[j] = headers[j]
        BY <1>6
      <4> QED BY <2>2, <3>2, <4>1 DEF IsLast
    <3>4. Shows(headers[k].instance, f, headers[k].fields[f])
      BY <1>3, <1>6, <2>2, <3>2, <3>3 DEF HeadersShown
    <3> QED BY <1>5, <3>2, <3>4 DEF Shows
  <2> QED BY <2>1, <2>2 DEF HeadersShown
<1>9. SamePlace' /\ SameCursor' /\ HeaderHere'
  <2>1. SamePlace'
    BY <1>1, <1>2 DEF Abreast, Paired, SamePlace
  <2>2. SameCursor'
    BY <1>1, <1>2, <1>3 DEF SameCursor, Peeking
  <2>3. HeaderHere'
    BY <1>1, <1>4, <1>6, <1>7 DEF HeaderHere
  <2> QED BY <2>1, <2>2, <2>3
<1>10. SameRegions'
  BY <1>1, <1>2, Frame DEF Abreast, Paired
<1>11. SameValues'
  BY <1>1, <1>5 DEF Abreast, Paired, SameValues
<1>12. Paired'
  BY <1>5, <1>8, <1>9, <1>10, <1>11 DEF Paired
<1> QED BY <1>1, <1>2, <1>12, StayTogether

LEMMA EndExtractTogether ==
  ASSUME Abreast, EndExtract, CEndExtract
  PROVE  Pair'
<1>1. /\ pc = "field" /\ pc' = "body" /\ ix' = ix + 1
      /\ cursor_bits' = IF Ex.lookahead THEN entry_cursor ELSE cursor_bits
      /\ UNCHANGED <<ir, packet, current, depth, regions, env, meta, headers>>
  BY DEF EndExtract
<1>2. /\ cpc' = "body" /\ cix' = cix + 1
      /\ UNCHANGED <<buf, state, iter, off, pk_region_end, pk_rsp, out>>
  BY DEF CEndExtract
<1>3. SamePlace' /\ SameCursor' /\ HeaderHere'
  <2>1. SamePlace'
    BY <1>1, <1>2 DEF Abreast, Paired, SamePlace
  <2>2. SameCursor'
    BY <1>1, <1>2 DEF Abreast, Paired, SameCursor, Peeking
  <2>3. HeaderHere'
    BY <1>1 DEF HeaderHere
  <2> QED BY <2>1, <2>2, <2>3
<1>4. SameRegions' /\ StructTyped' /\ SameValues' /\ HeadersShown'
  BY <1>1, <1>2, Frame DEF Abreast, Paired
<1>5. Paired'
  BY <1>3, <1>4 DEF Paired
<1> QED BY <1>1, <1>2, <1>5, StayTogether

\* The mask of the declared width.
LEMMA SameMask ==
  ASSUME NEW v \in Word, NEW bits \in Nat
  PROVE  (IF bits >= WordBits THEN v ELSE BitAnd(v, 2^bits - 1)) = Masked(v, bits)
<1>1. CASE bits >= WordBits
  BY <1>1 DEF Masked
<1>2. CASE ~(bits >= WordBits)
  <2>1. bits \in 0..WordBits
    BY <1>2, WordBitsAssumption
  <2>2. BitAnd(v, 2^bits - 1) = v % 2^bits
    BY <2>1, MaskAssumption
  <2> QED BY <1>2, <2>2 DEF Masked
<1> QED BY <1>1, <1>2

LEMMA AssignTogether ==
  ASSUME Abreast, AssignMetadata, CAssign
  PROVE  Pair'
<1> DEFINE m == AssignOp.metadata
           v == Masked(AssignedValue, ir.metadata[m].bits)
<1>1. /\ AtAssign /\ AssignedValue # Undef /\ m \in DOMAIN meta /\ pc = "body"
      /\ meta' = [meta EXCEPT ![m] = v] /\ ix' = ix + 1
      /\ UNCHANGED <<ir, packet, pc, current, depth, cursor_bits, entry_cursor, regions, env, headers>>
  BY DEF AssignMetadata, MaskedStore, AtAssign
<1>2. /\ cix' = cix + 1
      /\ UNCHANGED <<buf, cpc, state, iter, off, pk_region_end, pk_rsp>>
  BY DEF CAssign
<1>3. CAssignOp = AssignOp /\ StructTyped /\ out.m = meta
  BY <1>1, SameHere DEF Abreast, Paired, SameValues
<1>4. AssignOp \in Assign
  <2>1. St.assigns \in Seq(Assign)
    BY LiveState DEF Abreast, State
  <2>2. ix - NExtracts \in DOMAIN St.assigns
    BY <1>1, <2>1, AbreastTypes DEF AtAssign, NAssigns
  <2> QED BY <2>1, <2>2 DEF AssignOp
<1>5. AssignOp.value \in Exprs
  BY <1>4 DEF Assign
<1>6. CValue(CAssignOp.value) = AssignedValue
  <2>1. EvalExpr(AssignOp.value, env, meta, RemainingHere) # Undef
    BY <1>1 DEF AssignedValue
  <2>2. CValue(AssignOp.value) = EvalExpr(AssignOp.value, env, meta, RemainingHere)
    BY <1>1, <1>5, <2>1, SameValue
  <2> QED BY <1>3, <2>2 DEF AssignedValue
<1>7. AssignedValue \in Word
  BY <1>1, EvalExprType DEF AssignedValue
<1>8. ir.metadata[m].bits \in Nat
  <2>1. ir.metadata \in Seq(MetadataField) /\ m \in DOMAIN ir.metadata
    BY <1>1, AbreastTypes, ProgramTypes DEF Parser, TypeOK
  <2>2. ir.metadata[m] \in MetadataField
    BY <2>1
  <2> QED BY <2>2 DEF MetadataField
<1>9. out' = [out EXCEPT !.m[m] = v]
  <2> DEFINE bits == ir.metadata[m].bits
             rhs == CValue(CAssignOp.value)
  <2>1. out' = [out EXCEPT !.m[CAssignOp.metadata] =
                  IF ir.metadata[CAssignOp.metadata].bits >= WordBits THEN rhs
                  ELSE BitAnd(rhs, 2^(ir.metadata[CAssignOp.metadata].bits) - 1)]
    BY Zenon DEF CAssign
  <2>2. (IF bits >= WordBits THEN rhs ELSE BitAnd(rhs, 2^bits - 1)) = v
    <3>1. rhs \in Word /\ bits \in Nat
      BY <1>6, <1>7, <1>8
    <3> HIDE DEF rhs, bits
    <3>2. (IF bits >= WordBits THEN rhs ELSE BitAnd(rhs, 2^bits - 1)) = Masked(rhs, bits)
      BY <3>1, SameMask
    <3> QED BY <1>6, <3>2 DEF rhs, bits
  <2> HIDE DEF v, rhs
  <2> QED BY <1>3, <2>1, <2>2
<1> HIDE DEF m, v
<1>10. /\ out'.words = out.words /\ out'.runs = out.runs /\ out'.present = out.present
       /\ out'.m = [out.m EXCEPT ![m] = v] /\ StructTyped'
  <2>1. out' = [outcome |-> out.outcome, reason |-> out.reason,
                consumed_bits |-> out.consumed_bits, present |-> out.present,
                words |-> out.words, runs |-> out.runs, m |-> [out.m EXCEPT ![m] = v]]
    BY <1>3, <1>9 DEF StructTyped
  <2> QED BY <1>1, <1>3, <2>1, Frame DEF StructTyped
<1>11. SamePlace' /\ SameCursor' /\ HeaderHere'
  <2>1. SamePlace'
    BY <1>1, <1>2 DEF Abreast, Paired, SamePlace
  <2>2. SameCursor'
    BY <1>1, <1>2 DEF Abreast, Paired, SameCursor, Peeking
  <2>3. HeaderHere'
    BY <1>1 DEF HeaderHere
  <2> QED BY <2>1, <2>2, <2>3
<1>12. SameRegions'
  BY <1>1, <1>2, Frame DEF Abreast, Paired
<1>13. SameValues'
  BY <1>1, <1>3, <1>10 DEF Abreast, Paired, SameValues
<1>14. HeadersShown'
  BY <1>1, <1>10 DEF Abreast, Paired, HeadersShown, IsLast, Shows
<1>15. Paired'
  BY <1>10, <1>11, <1>12, <1>13, <1>14 DEF Paired
<1> QED BY <1>1, <1>2, <1>15, StayTogether

\* A field recorded by both: the struct shows the header as far as it got.
LEMMA RecordTogether ==
  ASSUME Abreast, pc = "field", fx \in 1..Len(Fields), NEW len, NEW value,
         RecordField(len, value),
         out'.present = out.present,
         DOMAIN out'.words = DOMAIN out.words, DOMAIN out'.runs = DOMAIN out.runs,
         \A r \in DOMAIN out.words : r # CMember => out'.words[r] = out.words[r],
         \A r \in DOMAIN out.runs : r # CMember => out'.runs[r] = out.runs[r],
         IF CMember \in DOMAIN out.words THEN value = [uint |-> out'.words[CMember]]
         ELSE /\ CMember \in DOMAIN out.runs
              /\ out'.runs[CMember] = [bit_off |-> cursor_bits, bit_len |-> len]
  PROVE  /\ HeadersShown'
         /\ headers' # <<>> /\ headers'[Len(headers')].instance = InstanceOf(Ex)
         /\ Len(headers'[Len(headers')].fields) = fx
<1> DEFINE n == Len(headers)
           field == [bit_offset |-> cursor_bits, bit_len |-> len, value |-> value]
           last == [headers[n] EXCEPT !.fields = Append(headers[n].fields, field)]
<1>1. headers \in Seq(ParsedHeader) /\ headers # <<>> /\ HeadersShown /\ HeaderHere
  BY AbreastTypes DEF TypeOK, ControlOK, Abreast, Paired
<1>2. n \in DOMAIN headers /\ n \in Nat /\ DOMAIN headers = 1..n /\ headers[n] \in ParsedHeader
  BY <1>1
<1>3. headers[n].instance = InstanceOf(Ex) /\ Len(headers[n].fields) = fx - 1
  BY <1>1 DEF HeaderHere
<1>4. headers[n].fields \in Seq(ParsedField) /\ DOMAIN headers[n].fields = 1..(fx - 1) /\ fx \in Nat
  <2>1. headers[n].fields \in Seq(ParsedField)
    BY <1>2 DEF ParsedHeader
  <2> HIDE DEF n
  <2> QED BY <1>3, <2>1, AbreastTypes
<1>5. headers' = [headers EXCEPT ![n] = last]
  BY Zenon DEF RecordField
<1>6. /\ last.instance = InstanceOf(Ex)
      /\ last.fields = Append(headers[n].fields, field)
  BY <1>2, <1>3 DEF ParsedHeader
<1>7. /\ Len(last.fields) = fx /\ DOMAIN last.fields = 1..fx /\ last.fields[fx] = field
      /\ \A f \in 1..(fx - 1) : last.fields[f] = headers[n].fields[f]
  <2> HIDE DEF field, n, last
  <2> QED BY <1>3, <1>4, <1>6
<1>8. /\ field.bit_offset = cursor_bits /\ field.bit_len = len /\ field.value = value
  OBVIOUS
<1> HIDE DEF last, field, n
<1>9. /\ DOMAIN headers' = 1..n /\ headers'[n] = last /\ Len(headers') = n
      /\ \A k \in 1..(n - 1) : headers'[k] = headers[k]
      /\ \A k \in 1..n : headers'[k].instance = headers[k].instance
  <2>1. DOMAIN headers' = 1..n /\ headers'[n] = last /\ \A k \in 1..(n - 1) : headers'[k] = headers[k]
    BY <1>2, <1>5
  <2>2. headers' \in Seq(ParsedHeader \cup {last})
    BY <1>1, <1>2, <1>5
  <2> QED BY <1>2, <1>3, <1>6, <2>1, <2>2
<1>10. CMember = <<InstanceOf(Ex), fx>>
  BY MemberHere
<1>11. HeadersShown'
  <2>1. out'.present = {headers'[k].instance : k \in DOMAIN headers'}
    BY <1>1, <1>2, <1>9 DEF HeadersShown
  <2>2. ASSUME NEW k \in DOMAIN headers', IsLast(k)', NEW f \in DOMAIN headers'[k].fields
        PROVE  Shows(headers[k].instance, f, headers[k].fields[f])'
    <3>1. IsLast(k) /\ k \in 1..n
      BY <1>2, <1>9, <2>2 DEF IsLast
    <3>2. CASE k = n /\ f = fx
      BY <1>3, <1>6, <1>7, <1>8, <1>9, <1>10, <3>2 DEF Shows
    <3>3. CASE k = n /\ f # fx
      <4>1. f \in 1..(fx - 1) /\ headers'[k].fields[f] = headers[n].fields[f]
        BY <1>4, <1>7, <1>9, <2>2, <3>3
      <4>2. Shows(InstanceOf(Ex), f, headers[n].fields[f])
        BY <1>1, <1>2, <1>3, <1>4, <3>1, <3>3, <4>1 DEF HeadersShown
      <4>3. <<InstanceOf(Ex), f>> # CMember
        BY <1>10, <3>3
      <4>4. headers'[k].instance = InstanceOf(Ex)
        BY <1>3, <1>6, <1>9, <3>3
      <4> QED BY <4>1, <4>2, <4>3, <4>4 DEF Shows
    <3>4. CASE k # n
      <4>1. headers'[k] = headers[k] /\ k \in 1..(n - 1)
        BY <1>2, <1>9, <3>1, <3>4
      <4>2. headers[k].instance # InstanceOf(Ex)
        BY <1>2, <1>3, <3>1, <4>1 DEF IsLast
      <4>3. Shows(headers[k].instance, f, headers[k].fields[f])
        BY <1>1, <1>2, <2>2, <3>1, <4>1 DEF HeadersShown
      <4>4. <<headers[k].instance, f>> # CMember
        BY <1>10, <4>2
      <4> QED BY <4>1, <4>3, <4>4 DEF Shows
    <3> QED BY <3>2, <3>3, <3>4
  <2> QED BY <2>1, <2>2 DEF HeadersShown
<1>12. headers' # <<>>
  BY <1>2, <1>9
<1> QED BY <1>3, <1>6, <1>7, <1>9, <1>11, <1>12

\* The cursor of the parser is the interpreter's, under a lookahead too.
LEMMA CursorHere ==
  ASSUME Abreast, pc = "field"
  PROVE  /\ cur = cursor_bits
         /\ off = (IF Ex.lookahead THEN entry_cursor ELSE cursor_bits)
         /\ off = ConsumedOnReject
<1>1. CEx = Ex
  BY SameHere
<1> QED BY <1>1 DEF cur, Abreast, Paired, SameCursor, Peeking, ConsumedOnReject

\* Widths are at most a word.
LEMMA WidthHere ==
  ASSUME Abreast, AtFixed
  PROVE  Width.bits \in 1..WordBits /\ Width \in ToSet(Fields) /\ fx \in 1..Len(Fields)
<1>1. pc = "field" /\ fx <= Len(Fields) /\ Width.kind = "bits"
  BY DEF AtFixed
<1>2. Fields \in HeaderType /\ fx \in Nat /\ fx > 0
  BY <1>1, AbreastTypes, FieldTypes DEF TypeOK
<1>3. fx \in 1..Len(Fields) /\ Width \in ToSet(Fields)
  <2>1. fx \in 1..Len(Fields) /\ fx \in DOMAIN Fields
    BY <1>1, <1>2 DEF HeaderType
  <2> QED BY <2>1 DEF ToSet, Width
<1>4. Fields \in ToSet(ir.header_types)
  BY <1>1, AbreastTypes DEF ToSet, Fields, ControlOK
<1> QED BY <1>1, <1>3, <1>4, AbreastTypes DEF StructureOk, WidthsOk

\* Loading whole bytes reads the bits of the field: the analysis says that it
\* starts on a byte, and speaks of this extraction of the instance.
LEMMA LoadHere ==
  ASSUME Abreast, AlignmentHolds, WholeBytesOnce, AtFixed
  PROVE  CLoad(cur, Width.bits) = ReadBits(cursor_bits, Width.bits)
<1> DEFINE n == Width.bits
           c == cursor_bits
<1>1. pc = "field" /\ fx <= Len(Fields) /\ Width.kind = "bits" /\ n \in 1..WordBits
  BY WidthHere DEF AtFixed
<1>2. cur = c /\ c \in Nat /\ WordBits \in Nat
  BY <1>1, CursorHere, AbreastTypes DEF TypeOK
<1>3. CReadBits(c, n) = ReadBits(c, n)
  <2>1. buf = packet
    BY DEF Abreast
  <2>2. \A k \in 0..(n - 1) : k < WordBits
    BY <1>1, <1>2
  <2> HIDE DEF n, c
  <2>3. {k \in 0..(n - 1) : buf[c + n - k] = 1}
          = {k \in 0..(n - 1) : k < WordBits /\ packet[c + n - k] = 1}
    BY <2>1, <2>2
  <2> QED BY <2>3 DEF CReadBits, ReadBits
<1>4. CASE n % ByteBits = 0 /\ FieldAlignment(state, InstanceOf(CEx), cfx) = 0
  <2>1. FirstInState
    <3> SUFFICES ASSUME NEW k \in 1..(ix - 1), InstanceOf(St.extracts[k]) = InstanceOf(Ex)
                 PROVE  FALSE
      BY DEF FirstInState
    <3>1. /\ current \in DOMAIN ir.states /\ DOMAIN St.extracts = 1..NExtracts
          /\ ix \in DOMAIN St.extracts /\ NExtracts \in Nat /\ ix \in Nat
      BY <1>1, LiveState, AbreastTypes DEF Abreast, ControlOK
    <3>2. k \in DOMAIN St.extracts /\ k < ix /\ Ex = St.extracts[ix]
      BY <3>1 DEF Ex
    <3>3. \A w \in ToSet(ir.header_types[Ex.header_type]) : w.kind = "bits" => w.bits % ByteBits # 0
      BY <3>1, <3>2 DEF WholeBytesOnce, St
    <3>4. Width \in ToSet(ir.header_types[Ex.header_type])
      BY WidthHere DEF Fields
    <3> QED BY <1>1, <1>4, <3>3, <3>4
  <2>2. state = current /\ CEx = Ex /\ cfx = fx
    BY <1>1, SameHere DEF Abreast, Paired, SamePlace
  <2>3. FieldAlignment(current, InstanceOf(Ex), fx) \in {Unknown, c % ByteBits}
    BY <1>1, <2>1 DEF AlignmentHolds
  <2>4. c % ByteBits = 0
    BY <1>4, <2>2, <2>3 DEF Unknown
  <2>5. (c \div ByteBits) * ByteBits = c
    <3> HIDE DEF c
    <3>1. c \div ByteBits \in Int /\ c = ByteBits * (c \div ByteBits) + (c % ByteBits)
      BY <1>2, ByteBitsType, Division
    <3> DEFINE q == c \div ByteBits
    <3>2. q \in Int /\ c = ByteBits * q + 0
      BY <2>4, <3>1
    <3> HIDE DEF q
    <3>3. ByteBits * q \in Int /\ ByteBits * q = q * ByteBits
      BY <3>2, ByteBitsType
    <3>4. q * ByteBits = c
      BY <3>2, <3>3
    <3> QED BY <3>4 DEF q
  <2>6. CLoad(c, n) = CReadBits((c \div ByteBits) * ByteBits, n)
    <3> HIDE DEF c, n
    <3> QED BY <1>4 DEF CLoad
  <2> QED BY <1>2, <1>3, <2>5, <2>6
<1>5. CASE ~(n % ByteBits = 0 /\ FieldAlignment(state, InstanceOf(CEx), cfx) = 0)
  <2>1. CLoad(c, n) = CReadBits(c, n)
    <3> HIDE DEF c, n
    <3> QED BY <1>5 DEF CLoad
  <2> QED BY <1>2, <1>3, <2>1
<1> QED BY <1>4, <1>5

\* The end of a fixed-width field does not wrap, and is checked alike.
LEMMA FixedEnd ==
  ASSUME Abreast, AtFixed
  PROVE  LET end == cursor_bits + Width.bits
         IN  /\ (cur + CFields[cfx].bits) % WordSize = end
             /\ end \in Word /\ CheckedAdd(cursor_bits, Width.bits) = end
             /\ CFields[cfx] = Width
             /\ end <= BoundBits <=> ~(pk_rsp # 0 /\ end > InnermostEnd) /\ end <= bit_len
             /\ OobReason(end) = IF pk_rsp # 0 /\ end > InnermostEnd
                                 THEN "out of region bounds" ELSE "out of bounds"
<1> DEFINE end == cursor_bits + Width.bits
<1>1. pc = "field" /\ cfx = fx /\ CFields = Fields
  BY SameHere DEF AtFixed, Abreast, Paired, SamePlace
<1>2. CFields[cfx] = Width /\ cur = cursor_bits
  BY <1>1, CursorHere DEF Width
<1>3. /\ cursor_bits \in Nat /\ cursor_bits <= avail_bits /\ avail_bits \in Nat
      /\ avail_bits + WordBits \in Word /\ WordBits \in Nat /\ Width.bits \in 1..WordBits
  BY AbreastTypes, WidthHere DEF TypeOK
<1>4. end \in Word
  <2>1. avail_bits + WordBits < WordSize /\ WordSize \in Int
    BY <1>3, WordProperties DEF Word
  <2> QED BY <1>3, <2>1 DEF Word
<1>5. CheckedAdd(cursor_bits, Width.bits) = end
  BY <1>3, <1>4, WordProperties DEF CheckedAdd
<1>6. bit_len = avail_bits
  BY SameHere
<1>7. /\ pk_rsp = 0 <=> regions = <<>>
      /\ regions # <<>> => InnermostEnd = Top /\ Top \in Word
  BY InnermostHere
<1>8. end # Undef /\ end \in Int /\ (Top \in Word => Top \in Int)
  <2> HIDE DEF end
  <2> QED BY <1>4, WordsAreNumbers
<1>9. (cur + CFields[cfx].bits) % WordSize = end
  <2>1. cur + CFields[cfx].bits = end
    BY <1>2
  <2> HIDE DEF end
  <2> QED BY <1>4, <2>1, NoWrap
<1> HIDE DEF end
<1>10. end <= BoundBits <=> ~(pk_rsp # 0 /\ end > InnermostEnd) /\ end <= bit_len
  BY <1>3, <1>6, <1>7, <1>8 DEF BoundBits
<1>11. OobReason(end) = IF pk_rsp # 0 /\ end > InnermostEnd
                        THEN "out of region bounds" ELSE "out of bounds"
  BY <1>7, <1>8 DEF OobReason
<1> QED BY <1>2, <1>4, <1>5, <1>9, <1>10, <1>11 DEF end

LEMMA FixedTogether ==
  ASSUME Abreast, AlignmentHolds, WholeBytesOnce, ReadFixed, CFixed
  PROVE  Pair'
<1> DEFINE end == cursor_bits + Width.bits
           v == ReadBits(cursor_bits, Width.bits)
           r == <<InstanceOf(Ex), fx>>
<1>1. /\ AtFixed /\ pc = "field"
      /\ UNCHANGED <<ir, packet, ix, current, depth, entry_cursor, regions, meta>>
  BY DEF ReadFixed, AtFixed
<1>2. UNCHANGED <<buf, cix, state, iter, pk_region_end, pk_rsp>>
  BY DEF CFixed
<1>3. /\ (cur + CFields[cfx].bits) % WordSize = end
      /\ end \in Word /\ CheckedAdd(cursor_bits, Width.bits) = end
      /\ CFields[cfx] = Width
      /\ end <= BoundBits <=> ~(pk_rsp # 0 /\ end > InnermostEnd) /\ end <= bit_len
      /\ OobReason(end) = IF pk_rsp # 0 /\ end > InnermostEnd
                          THEN "out of region bounds" ELSE "out of bounds"
  BY <1>1, FixedEnd
<1>4. BoundBits \in Int /\ end \in Int /\ bit_len \in Int
  <2>1. end \in Int
    <3> HIDE DEF end
    <3> QED BY <1>3, WordsAreNumbers
  <2> QED BY <2>1, AbreastTypes, BoundProperties, SameHere
<1>5. CEx = Ex /\ cfx = fx /\ cix = ix /\ iter = depth - 1 /\ off = ConsumedOnReject
  BY <1>1, SameHere, CursorHere DEF Abreast, Paired, SamePlace
<1>6. CASE end > BoundBits
  <2>1. UNCHANGED headers /\ Finish("reject", OobReason(end), cursor_bits, ConsumedOnReject)
    <3>1. ~(end <= BoundBits)
      <4> HIDE DEF end
      <4> QED BY <1>4, <1>6
    <3> QED BY <1>3, <3>1, Zenon DEF ReadFixed
  <2>2. Return("reject", OobReason(end))
    <3>1. pk_rsp # 0 /\ end > InnermostEnd => Return("reject", "out of region bounds")
      BY <1>3, Zenon DEF CFixed
    <3>2. ~(pk_rsp # 0 /\ end > InnermostEnd) => Return("reject", "out of bounds")
      <4> SUFFICES ASSUME ~(pk_rsp # 0 /\ end > InnermostEnd) PROVE Return("reject", "out of bounds")
        OBVIOUS
      <4>1. ~(end <= bit_len)
        <5>1. ~(end <= BoundBits)
          <6> HIDE DEF end
          <6> QED BY <1>4, <1>6
        <5> QED BY <1>3, <5>1, Zenon
      <4> QED BY <1>3, <4>1, Zenon DEF CFixed
    <3> QED BY <1>3, <3>1, <3>2
  <2> QED BY <1>1, <1>2, <1>5, <2>1, <2>2, EndTogether
<1>7. CASE end <= BoundBits
  <2>1. /\ env' = [x \in DOMAIN env \cup {r} |-> IF x = r THEN v ELSE env[x]]
        /\ RecordField(Width.bits, [uint |-> v])
        /\ cursor_bits' = end /\ fx' = fx + 1 /\ UNCHANGED pc
    BY <1>4, <1>7 DEF ReadFixed
  <2>2. /\ out' = [out EXCEPT !.words[CMember] = CLoad(cur, Width.bits)]
        /\ IF Ex.lookahead THEN poff' = end /\ UNCHANGED off ELSE off' = end /\ UNCHANGED poff
        /\ cfx' = cfx + 1 /\ UNCHANGED cpc
    <3>1. ~(pk_rsp # 0 /\ end > InnermostEnd) /\ end <= bit_len
      BY <1>3, <1>7
    <3>2. ~(end > bit_len)
      BY <1>4, <3>1
    <3> QED BY <1>3, <1>5, <3>1, <3>2, Zenon DEF CFixed
  <2>3. CLoad(cur, Width.bits) = v /\ v \in Word
    <3>1. Width.bits \in Nat
      BY <1>1, WidthHere, WordBitsAssumption
    <3> QED BY <1>1, <3>1, LoadHere, ReadBitsType
  <2>4. fx \in 1..Len(Fields) /\ CMember = r /\ r \in Members("bits")
    BY <1>1, WidthHere, MemberHere DEF AtFixed
  <2>5. StructTyped /\ SameValues
    BY DEF Abreast, Paired
  <2> HIDE DEF v, r, end
  <2>6. /\ out'.words = [out.words EXCEPT ![r] = v] /\ out'.runs = out.runs
        /\ out'.present = out.present /\ out'.m = out.m /\ StructTyped'
    <3>1. out' = [outcome |-> out.outcome, reason |-> out.reason,
                  consumed_bits |-> out.consumed_bits, present |-> out.present,
                  words |-> [out.words EXCEPT ![r] = v], runs |-> out.runs, m |-> out.m]
      BY <2>2, <2>3, <2>4, <2>5 DEF StructTyped
    <3> QED BY <1>1, <2>3, <2>4, <2>5, <3>1, Frame DEF StructTyped
  <2>7. /\ DOMAIN out.words = Members("bits") /\ r \in DOMAIN out.words
        /\ out'.words[r] = v /\ DOMAIN out'.words = DOMAIN out.words
    BY <2>4, <2>5, <2>6 DEF StructTyped
  <2>8. /\ HeadersShown'
        /\ headers' # <<>> /\ headers'[Len(headers')].instance = InstanceOf(Ex)
        /\ Len(headers'[Len(headers')].fields) = fx
    BY <1>1, <2>1, <2>4, <2>6, <2>7, RecordTogether
  <2>9. UNCHANGED <<St, Ex>>
    BY <1>1 DEF St, Ex
  <2>10. HeaderHere'
    BY <1>1, <2>1, <2>8, <2>9, AbreastTypes DEF HeaderHere
  <2>11. SamePlace'
    BY <1>1, <1>2, <1>5, <2>1, <2>2 DEF Abreast, Paired, SamePlace
  <2>12. SameCursor'
    <3>1. off = IF Ex.lookahead THEN entry_cursor ELSE cursor_bits
      BY <1>1, CursorHere
    <3> QED BY <1>1, <2>1, <2>2, <2>9, <3>1 DEF SameCursor, Peeking
  <2>13. SameRegions'
    BY <1>1, <1>2, Frame DEF Abreast, Paired
  <2>14. SameValues'
    BY <1>1, <2>1, <2>5, <2>6, <2>7 DEF SameValues
  <2>15. Paired'
    BY <2>6, <2>8, <2>10, <2>11, <2>12, <2>13, <2>14 DEF Paired
  <2> QED BY <1>1, <1>2, <2>1, <2>15, StayTogether
<1> QED BY <1>4, <1>6, <1>7

\* No run of bits is read under a lookahead.
LEMMA RunHere ==
  ASSUME Abreast, AtRun
  PROVE  /\ ~Ex.lookahead /\ off = cursor_bits
         /\ CFields[cfx] = Width /\ Width.expr \in Exprs /\ fx \in 1..Len(Fields)
<1>1. pc = "field" /\ fx <= Len(Fields) /\ Width.kind = "bit_len"
  BY DEF AtRun
<1>2. Fields \in HeaderType /\ Width \in FieldWidth /\ fx \in Nat /\ fx > 0
  BY <1>1, AbreastTypes, FieldTypes DEF TypeOK
<1>3. fx \in 1..Len(Fields) /\ Width \in ToSet(Fields)
  <2>1. fx \in 1..Len(Fields) /\ fx \in DOMAIN Fields
    BY <1>1, <1>2 DEF HeaderType
  <2> QED BY <2>1 DEF ToSet, Width
<1>4. Width.expr \in Exprs
  BY <1>1, <1>2 DEF FieldWidth
<1>5. ~Ex.lookahead
  <2>1. Ex \in Extracts
    <3>1. ix \in DOMAIN St.extracts /\ current \in DOMAIN ir.states
      BY <1>1, AbreastTypes DEF ControlOK
    <3> QED BY <3>1 DEF Ex, St, Extracts, ToSet
  <2>2. Width \in RunWidths(ir.header_types[Ex.header_type])
    BY <1>1, <1>3 DEF RunWidths, Fields
  <2> QED BY <2>1, <2>2, AbreastTypes DEF StructureOk, LookaheadsOk
<1>6. off = cursor_bits
  BY <1>5, AbreastTypes DEF Peeking
<1>7. CFields[cfx] = Width
  BY <1>1, SameHere DEF Abreast, Paired, SamePlace, Width
<1> QED BY <1>3, <1>4, <1>5, <1>6, <1>7

\* The parser compares what is left with the length, the interpreter the end.
LEMMA LengthFits ==
  ASSUME NEW len \in Word, NEW c \in Word, NEW bound \in Word, c <= bound
  PROVE  LET end == CheckedAdd(len, c)
         IN  len > bound - c <=> end = Undef \/ end > bound
<1>1. WordSize \in Int /\ len \in Nat /\ c \in Nat /\ bound \in Nat
      /\ len < WordSize /\ c < WordSize /\ bound < WordSize
  BY WordProperties DEF Word
<1>2. len # Undef /\ \A x \in Word : x # Undef
  BY WordProperties
<1>3. CASE len + c \in Word
  BY <1>1, <1>2, <1>3 DEF CheckedAdd
<1>4. CASE len + c \notin Word
  BY <1>1, <1>2, <1>4 DEF CheckedAdd, Word
<1> QED BY <1>3, <1>4

LEMMA RunEnd ==
  ASSUME Abreast, AtRun, RunLength # Undef
  PROVE  LET end == CheckedAdd(RunLength, cursor_bits)
             crosses == pk_rsp # 0 /\ RunLength > (InnermostEnd - off) % WordSize
             short == RunLength > (bit_len - off) % WordSize
         IN  /\ CValue(Width.expr) = RunLength /\ RunLength \in Word
             /\ (end # Undef /\ end <= BoundBits) <=> (~crosses /\ ~short)
             /\ OobReason(end) = IF crosses THEN "out of region bounds" ELSE "out of bounds"
             /\ (end # Undef /\ end <= BoundBits) => end = RunLength + cursor_bits /\ end \in Word
<1> DEFINE end == CheckedAdd(RunLength, cursor_bits)
           crosses == pk_rsp # 0 /\ RunLength > (InnermostEnd - off) % WordSize
           short == RunLength > (bit_len - off) % WordSize
<1>1. pc = "field" /\ off = cursor_bits /\ Width.expr \in Exprs
  BY RunHere DEF AtRun
<1>2. CValue(Width.expr) = RunLength /\ RunLength \in Word
  <2>1. CValue(Width.expr) = EvalExpr(Width.expr, env, meta, Undef)
    BY <1>1, SameValue DEF RunLength
  <2>2. RunLength \in Word
    BY EvalExprType DEF RunLength
  <2> QED BY <2>1, <2>2 DEF RunLength
<1>3. /\ cursor_bits \in Word /\ avail_bits \in Word /\ cursor_bits <= avail_bits
      /\ bit_len = avail_bits
  <2>1. /\ cursor_bits \in Word /\ avail_bits \in Nat /\ cursor_bits <= avail_bits
        /\ avail_bits + WordBits \in Word /\ WordBits \in Nat /\ bit_len = avail_bits
    BY AbreastTypes, SameHere
  <2>2. avail_bits \in Word
    BY <2>1, WordProperties DEF Word
  <2> QED BY <2>1, <2>2
<1>4. short <=> end = Undef \/ end > avail_bits
  <2>1. (avail_bits - cursor_bits) % WordSize = avail_bits - cursor_bits
    BY <1>3, Difference
  <2>2. RunLength > avail_bits - cursor_bits <=> end = Undef \/ end > avail_bits
    BY <1>2, <1>3, LengthFits
  <2> QED BY <1>1, <1>3, <2>1, <2>2
<1>5. crosses <=> regions # <<>> /\ (end = Undef \/ end > Top)
  <2>1. CASE regions = <<>>
    BY <2>1, InnermostHere
  <2>2. CASE regions # <<>>
    <3>1. /\ pk_rsp # 0 /\ Top \in Word /\ cursor_bits <= Top
          /\ (InnermostEnd - off) % WordSize = Top - cursor_bits
      BY <1>1, <2>2, InnermostHere, SameRemaining
    <3>2. RunLength > Top - cursor_bits <=> end = Undef \/ end > Top
      BY <1>2, <1>3, <3>1, LengthFits
    <3> QED BY <2>2, <3>1, <3>2
  <2> QED BY <2>1, <2>2
<1>6. end # Undef => end = RunLength + cursor_bits /\ end \in Word /\ end \in Int
  <2>1. end # Undef => end = RunLength + cursor_bits /\ end \in Word
    BY DEF CheckedAdd
  <2> HIDE DEF end
  <2> QED BY <2>1, WordsAreNumbers
<1>7. avail_bits \in Int /\ (regions # <<>> => Top \in Int)
  BY <1>3, InnermostHere, WordsAreNumbers
<1> HIDE DEF end, crosses, short
<1>8. (end # Undef /\ end <= BoundBits) <=> (~crosses /\ ~short)
  BY <1>4, <1>5, <1>6, <1>7 DEF BoundBits
<1>9. OobReason(end) = IF crosses THEN "out of region bounds" ELSE "out of bounds"
  BY <1>5 DEF OobReason
<1> QED BY <1>2, <1>6, <1>8, <1>9 DEF end, crosses, short

LEMMA RunTogether ==
  ASSUME Abreast, ReadRunField, CRun
  PROVE  Pair'
<1> DEFINE end == CheckedAdd(RunLength, cursor_bits)
           crosses == pk_rsp # 0 /\ RunLength > (InnermostEnd - off) % WordSize
           short == RunLength > (bit_len - off) % WordSize
           r == <<InstanceOf(Ex), fx>>
<1>1. /\ AtRun /\ pc = "field" /\ RunLength # Undef /\ Width.kind = "bit_len"
      /\ UNCHANGED <<ir, packet, ix, current, depth, entry_cursor, regions, env, meta>>
  BY DEF ReadRunField, AtRun
<1>2. UNCHANGED <<buf, cix, state, iter, poff, pk_region_end, pk_rsp>>
  BY DEF CRun
<1>3. /\ CValue(Width.expr) = RunLength /\ RunLength \in Word
      /\ (end # Undef /\ end <= BoundBits) <=> (~crosses /\ ~short)
      /\ OobReason(end) = IF crosses THEN "out of region bounds" ELSE "out of bounds"
      /\ (end # Undef /\ end <= BoundBits) => end = RunLength + cursor_bits /\ end \in Word
  BY <1>1, RunEnd
<1>4. ~Ex.lookahead /\ off = cursor_bits /\ CFields[cfx] = Width /\ fx \in 1..Len(Fields)
  BY <1>1, RunHere
<1>5. /\ cfx = fx /\ cix = ix /\ iter = depth - 1 /\ off = ConsumedOnReject
      /\ fx \in Nat
  BY <1>1, SameHere, CursorHere, AbreastTypes DEF Abreast, Paired, SamePlace
<1>6. \/ crosses /\ Return("reject", "out of region bounds")
      \/ ~crosses /\ short /\ Return("reject", "out of bounds")
      \/ /\ ~crosses /\ ~short
         /\ out' = [out EXCEPT !.runs[CMember] = [bit_off |-> off, bit_len |-> RunLength]]
         /\ off' = (off + RunLength) % WordSize
         /\ cfx' = cfx + 1 /\ UNCHANGED cpc
  <2> DEFINE vlen == CValue(CFields[cfx].expr)
             over == pk_rsp # 0 /\ vlen > (InnermostEnd - off) % WordSize
             past == vlen > (bit_len - off) % WordSize
  <2>1. \/ over /\ Return("reject", "out of region bounds")
        \/ ~over /\ past /\ Return("reject", "out of bounds")
        \/ /\ ~over /\ ~past
           /\ out' = [out EXCEPT !.runs[CMember] = [bit_off |-> off, bit_len |-> vlen]]
           /\ off' = (off + vlen) % WordSize
           /\ cfx' = cfx + 1 /\ UNCHANGED cpc
    BY Zenon DEF CRun
  <2>2. vlen = RunLength
    BY <1>3, <1>4
  <2>3. over = crosses /\ past = short
    <3> HIDE DEF vlen
    <3> QED BY <2>2
  <2> HIDE DEF over, past, crosses, short, vlen
  <2> QED BY <2>1, <2>2, <2>3
<1>7. \/ /\ end # Undef /\ end <= BoundBits
         /\ RecordField(RunLength, [bits |-> ReadRun(cursor_bits, RunLength)])
         /\ cursor_bits' = end /\ fx' = fx + 1 /\ UNCHANGED pc
      \/ /\ end = Undef \/ end > BoundBits
         /\ Finish("reject", OobReason(end), cursor_bits, ConsumedOnReject)
         /\ UNCHANGED headers
  BY Zenon DEF ReadRunField
<1>8. end # Undef => end \in Int
  <2>1. end # Undef => end \in Word
    BY DEF CheckedAdd
  <2> HIDE DEF end
  <2> QED BY <2>1, WordsAreNumbers
<1>9. BoundBits \in Int
  BY AbreastTypes, BoundProperties
<1> HIDE DEF end, crosses, short
<1>10. CASE end = Undef \/ end > BoundBits
  <2>1. ~(end # Undef /\ end <= BoundBits)
    BY <1>8, <1>9, <1>10
  <2>2. UNCHANGED headers /\ Finish("reject", OobReason(end), cursor_bits, off)
    BY <1>5, <1>7, <2>1
  <2>3. Return("reject", OobReason(end))
    BY <1>3, <1>6, <2>1
  <2> QED BY <1>1, <1>2, <2>2, <2>3, EndTogether
<1>11. CASE end # Undef /\ end <= BoundBits
  <2>1. /\ RecordField(RunLength, [bits |-> ReadRun(cursor_bits, RunLength)])
        /\ cursor_bits' = end /\ fx' = fx + 1 /\ UNCHANGED pc
    BY <1>7, <1>8, <1>9, <1>11
  <2>2. /\ out' = [out EXCEPT !.runs[CMember] = [bit_off |-> off, bit_len |-> RunLength]]
        /\ off' = (off + RunLength) % WordSize
        /\ cfx' = cfx + 1 /\ UNCHANGED cpc
    BY <1>3, <1>6, <1>11
  <2>3. off' = end
    <3>1. off + RunLength = end /\ end \in Word
      <4>1. RunLength \in Int /\ cursor_bits \in Int
        BY <1>3, AbreastTypes, WordsAreNumbers
      <4>2. end = RunLength + cursor_bits /\ end \in Word
        BY <1>3, <1>11
      <4>3. RunLength + cursor_bits = cursor_bits + RunLength
        BY <4>1
      <4> QED BY <1>4, <4>2, <4>3
    <3> QED BY <2>2, <3>1, NoWrap
  <2>4. CMember = r /\ r \in Members("bit_len") /\ r \notin Members("bits")
    BY <1>1, <1>4, MemberHere
  <2>5. StructTyped /\ SameValues
    BY DEF Abreast, Paired
  <2> DEFINE run == [bit_off |-> off, bit_len |-> RunLength]
  <2>6. /\ out'.words = out.words /\ out'.runs = [out.runs EXCEPT ![r] = run]
        /\ out'.present = out.present /\ out'.m = out.m /\ StructTyped'
    <3> HIDE DEF r, run
    <3>1. out' = [outcome |-> out.outcome, reason |-> out.reason,
                  consumed_bits |-> out.consumed_bits, present |-> out.present,
                  words |-> out.words, runs |-> [out.runs EXCEPT ![r] = run], m |-> out.m]
      BY <2>2, <2>4, <2>5 DEF StructTyped, run
    <3> QED BY <1>1, <2>4, <2>5, <3>1, Frame DEF StructTyped
  <2> HIDE DEF run
  <2>7. /\ DOMAIN out.words = Members("bits") /\ DOMAIN out.runs = Members("bit_len")
        /\ out'.runs[r] = run /\ DOMAIN out'.runs = DOMAIN out.runs
        /\ \A x \in DOMAIN out.runs : x # r => out'.runs[x] = out.runs[x]
    BY <2>4, <2>5, <2>6 DEF StructTyped
  <2>8. /\ HeadersShown'
        /\ headers' # <<>> /\ headers'[Len(headers')].instance = InstanceOf(Ex)
        /\ Len(headers'[Len(headers')].fields) = fx
    <3>1. run = [bit_off |-> cursor_bits, bit_len |-> RunLength]
      BY <1>4 DEF run
    <3> QED BY <1>1, <1>4, <2>1, <2>4, <2>6, <2>7, <3>1, RecordTogether
  <2>9. UNCHANGED <<St, Ex>>
    BY <1>1 DEF St, Ex
  <2>10. HeaderHere'
    BY <1>1, <1>5, <2>1, <2>8, <2>9 DEF HeaderHere
  <2>11. SamePlace'
    BY <1>1, <1>2, <1>5, <2>1, <2>2 DEF Abreast, Paired, SamePlace
  <2>12. SameCursor'
    BY <1>4, <2>1, <2>3, <2>9 DEF SameCursor, Peeking
  <2>13. SameRegions'
    BY <1>1, <1>2, Frame DEF Abreast, Paired
  <2>14. SameValues'
    BY <1>1, <2>5, <2>6 DEF SameValues
  <2>15. Paired'
    BY <2>6, <2>8, <2>10, <2>11, <2>12, <2>13, <2>14 DEF Paired
  <2> QED BY <1>1, <1>2, <2>1, <2>15, StayTogether
<1> QED BY <1>8, <1>9, <1>10, <1>11

\* The region operation both are at.
LEMMA RegionOpTyped ==
  ASSUME Abreast, AtRegionOp
  PROVE  /\ COp = Op /\ Op \in RegionOp /\ off = cursor_bits
         /\ cix = ix /\ iter = depth - 1 /\ state = current
<1>1. pc = "body"
  BY DEF AtRegionOp
<1>2. St.region_ops \in Seq(RegionOp)
  BY LiveState DEF Abreast, State
<1>3. ix - NExtracts - NAssigns \in DOMAIN St.region_ops
  BY <1>2, AbreastTypes DEF AtRegionOp, NOps
<1>4. Op \in RegionOp
  BY <1>2, <1>3 DEF Op
<1> QED BY <1>1, <1>4, SameHere, AbreastTypes DEF Abreast, Paired, SamePlace, Peeking

\* Both reject the same pushes; one that is taken has a place in the array.
LEMMA PushEnd ==
  ASSUME Abreast, AtRegionOp, Op.kind = "push", PushLength # Undef
  PROVE  LET end == CheckedAdd(PushLength, cursor_bits)
             lie == end = Undef \/ (regions # <<>> /\ end > Top)
         IN  /\ CValue(COp.len) = PushLength /\ PushLength \in Word
             /\ lie <=> \/ pk_rsp # 0 /\ PushLength > (InnermostEnd - off) % WordSize
                        \/ pk_rsp = 0 /\ PushLength > WordSize - 1 - off
             /\ ~lie => end = off + PushLength /\ end \in Word
<1> DEFINE end == CheckedAdd(PushLength, cursor_bits)
           lie == end = Undef \/ (regions # <<>> /\ end > Top)
<1>1. COp = Op /\ Op \in RegionOp /\ off = cursor_bits /\ pc = "body"
  BY RegionOpTyped DEF AtRegionOp
<1>2. Op.len \in Exprs
  BY <1>1 DEF RegionOp
<1>3. CValue(COp.len) = PushLength /\ PushLength \in Word
  <2>1. EvalExpr(Op.len, env, meta, RemainingHere) # Undef
    BY DEF PushLength
  <2>2. CValue(Op.len) = EvalExpr(Op.len, env, meta, RemainingHere)
    BY <1>1, <1>2, <2>1, SameValue
  <2>3. PushLength \in Word
    BY EvalExprType DEF PushLength
  <2> QED BY <1>1, <2>2, <2>3 DEF PushLength
<1>4. cursor_bits \in Word
  BY AbreastTypes
<1>5. end # Undef => end = PushLength + cursor_bits /\ end \in Word
  BY DEF CheckedAdd
<1>6. ~lie => end = off + PushLength /\ end \in Word
  <2>1. PushLength \in Int /\ cursor_bits \in Int
    BY <1>3, <1>4, WordsAreNumbers
  <2>2. PushLength + cursor_bits = cursor_bits + PushLength
    BY <2>1
  <2> QED BY <1>1, <1>5, <2>2
<1>7. CASE regions # <<>>
  <2>1. /\ pk_rsp # 0 /\ Top \in Word /\ cursor_bits <= Top
        /\ (InnermostEnd - off) % WordSize = Top - cursor_bits
    BY <1>1, <1>7, InnermostHere, SameRemaining
  <2>2. PushLength > Top - cursor_bits <=> end = Undef \/ end > Top
    BY <1>3, <1>4, <2>1, LengthFits
  <2> HIDE DEF end
  <2> QED BY <1>3, <1>6, <1>7, <2>1, <2>2 DEF end
<1>8. CASE regions = <<>>
  <2> DEFINE bound == WordSize - 1
  <2>1. bound \in Word /\ cursor_bits <= bound /\ \A x \in Word : ~(x > bound)
    BY <1>4, WordProperties DEF Word
  <2>2. pk_rsp = 0
    BY <1>8, InnermostHere
  <2> HIDE DEF bound
  <2>3. PushLength > bound - cursor_bits <=> end = Undef \/ end > bound
    BY <1>3, <1>4, <2>1, LengthFits
  <2>4. PushLength > bound - cursor_bits <=> end = Undef
    BY <1>5, <2>1, <2>3
  <2> HIDE DEF end
  <2> QED BY <1>1, <1>3, <1>6, <1>8, <2>2, <2>4 DEF end, bound
<1> QED BY <1>7, <1>8

LEMMA PushTogether ==
  ASSUME Abreast, PushRegion, CPush, RegionStackFitsCap'
  PROVE  Pair'
<1> DEFINE end == CheckedAdd(PushLength, cursor_bits)
           lie == end = Undef \/ (regions # <<>> /\ end > Top)
           lies == \/ pk_rsp # 0 /\ PushLength > (InnermostEnd - off) % WordSize
                   \/ pk_rsp = 0 /\ PushLength > WordSize - 1 - off
                   \/ pk_rsp > PK_RMASK
<1>1. /\ AtRegionOp /\ pc = "body" /\ Op.kind = "push" /\ PushLength # Undef
      /\ UNCHANGED <<ir, packet, current, depth, cursor_bits, env, meta, headers>>
  BY DEF PushRegion, AtRegionOp
<1>2. UNCHANGED <<buf, state, iter, off>>
  BY DEF CPush
<1>3. /\ CValue(COp.len) = PushLength
      /\ lie <=> \/ pk_rsp # 0 /\ PushLength > (InnermostEnd - off) % WordSize
                 \/ pk_rsp = 0 /\ PushLength > WordSize - 1 - off
      /\ ~lie => end = off + PushLength /\ end \in Word
  BY <1>1, PushEnd
<1>4. off = cursor_bits /\ cix = ix /\ iter = depth - 1 /\ state = current
  BY <1>1, RegionOpTyped
<1>5. \/ /\ ~lie
         /\ regions' = Append(regions, end) /\ ix' = ix + 1 /\ UNCHANGED <<pc, result>>
      \/ /\ lie
         /\ RejectHere("region out of bounds") /\ UNCHANGED <<regions, ix>>
  BY Zenon DEF PushRegion
<1>6. \/ lies /\ Return("reject", "region out of bounds")
      \/ /\ ~lies
         /\ pk_region_end' = [pk_region_end EXCEPT ![pk_rsp % (PK_RMASK + 1)] =
                                (off + PushLength) % WordSize]
         /\ pk_rsp' = pk_rsp + 1 /\ cix' = cix + 1 /\ UNCHANGED <<cpc, out>>
  <2> DEFINE rlen == CValue(COp.len)
             over == \/ pk_rsp # 0 /\ rlen > (InnermostEnd - off) % WordSize
                     \/ pk_rsp = 0 /\ rlen > WordSize - 1 - off
                     \/ pk_rsp > PK_RMASK
  <2>1. \/ over /\ Return("reject", "region out of bounds")
        \/ /\ ~over
           /\ pk_region_end' = [pk_region_end EXCEPT ![pk_rsp % (PK_RMASK + 1)] =
                                  (off + rlen) % WordSize]
           /\ pk_rsp' = pk_rsp + 1 /\ cix' = cix + 1 /\ UNCHANGED <<cpc, out>>
    BY Zenon DEF CPush
  <2>2. rlen = PushLength
    BY <1>3
  <2>3. over = lies
    <3> HIDE DEF rlen
    <3> QED BY <2>2
  <2> HIDE DEF over, lies, rlen
  <2> QED BY <2>1, <2>2, <2>3
<1>7. /\ regions \in Seq(Nat) /\ PK_RMASK \in Nat /\ RegionCap \in Nat
      /\ RegionCap <= PK_RMASK + 1 /\ \A k \in 0..PK_RMASK : k % (PK_RMASK + 1) = k
      /\ RegionCap' = RegionCap
  BY <1>1, ArrayFits, AbreastTypes, StableFacts DEF TypeOK
<1>8. /\ pk_rsp = Len(regions) /\ pk_rsp \in Nat
  BY InnermostHere
<1> HIDE DEF end
<1>9. CASE lie
  <2>1. lies
    BY <1>3, <1>9
  <2>2. Return("reject", "region out of bounds")
    <3> HIDE DEF lies
    <3> QED BY <1>6, <2>1
  <2>3. RejectHere("region out of bounds")
    <3> HIDE DEF lie
    <3> QED BY <1>5, <1>9
  <2> QED BY <1>1, <1>2, <1>4, <2>2, <2>3, EndTogether DEF RejectHere
<1>10. CASE ~lie
  <2>1. regions' = Append(regions, end) /\ ix' = ix + 1 /\ UNCHANGED <<pc, result>>
    <3> HIDE DEF lie
    <3> QED BY <1>5, <1>10
  <2>2. end = off + PushLength /\ end \in Word
    BY <1>3, <1>10
  <2>3. end \in Nat
    BY <2>2, WordsAreNumbers
  <2>4. /\ Len(regions') = pk_rsp + 1 /\ regions'[pk_rsp + 1] = end
        /\ DOMAIN regions' = 1..(pk_rsp + 1) /\ DOMAIN regions = 1..pk_rsp
        /\ \A k \in 1..pk_rsp : regions'[k] = regions[k]
    BY <1>7, <1>8, <2>1, <2>3
  <2>5. pk_rsp \in 0..PK_RMASK
    BY <1>7, <1>8, <2>4 DEF RegionStackFitsCap
  <2>6. ~lies
    <3>1. ~(pk_rsp > PK_RMASK)
      BY <2>5, <1>7
    <3> HIDE DEF lie
    <3> QED BY <1>3, <1>10, <3>1, Zenon
  <2>7. /\ pk_region_end' = [pk_region_end EXCEPT ![pk_rsp] = end]
        /\ pk_rsp' = pk_rsp + 1 /\ cix' = cix + 1 /\ UNCHANGED <<cpc, out>>
    <3>1. pk_rsp % (PK_RMASK + 1) = pk_rsp
      BY <1>7, <2>5
    <3>2. (off + PushLength) % WordSize = end
      BY <2>2, NoWrap
    <3> HIDE DEF lies
    <3> QED BY <1>6, <2>6, <3>1, <3>2
  <2>8. SameRegions'
    <3>1. PK_RMASK' = PK_RMASK
      BY <1>7 DEF PK_RMASK, NextPowerOfTwo
    <3>2. /\ DOMAIN pk_region_end = 0..PK_RMASK
          /\ \A k \in 0..PK_RMASK : pk_region_end[k] \in Word
          /\ \A k \in DOMAIN regions : pk_region_end[k - 1] = regions[k]
      BY DEF Abreast, Paired, SameRegions
    <3>3. /\ DOMAIN pk_region_end' = 0..PK_RMASK
          /\ \A k \in 0..PK_RMASK : pk_region_end'[k] \in Word
      BY <2>2, <2>5, <2>7, <3>2
    <3>4. ASSUME NEW k \in DOMAIN regions' PROVE pk_region_end'[k - 1] = regions'[k]
      <4>1. CASE k = pk_rsp + 1
        BY <1>8, <2>4, <2>5, <2>7, <3>2, <4>1
      <4>2. CASE k # pk_rsp + 1
        <5>1. k \in 1..pk_rsp /\ k - 1 # pk_rsp /\ k - 1 \in 0..PK_RMASK
          <6>1. PK_RMASK \in Nat
            BY <1>7
          <6>2. k \in 1..(pk_rsp + 1)
            BY <2>4
          <6> QED BY <1>8, <2>5, <4>2, <6>1, <6>2
        <5> QED BY <2>4, <2>7, <3>2, <5>1
      <4> QED BY <4>1, <4>2
    <3> QED BY <2>4, <2>7, <3>1, <3>3, <3>4 DEF SameRegions
  <2>9. SamePlace' /\ SameCursor' /\ HeaderHere'
    <3>1. SamePlace'
      BY <1>1, <1>2, <1>4, <2>1, <2>7 DEF Abreast, Paired, SamePlace
    <3>2. SameCursor'
      BY <1>1, <1>2, <1>4, <2>1 DEF SameCursor, Peeking
    <3>3. HeaderHere'
      BY <1>1, <2>1 DEF HeaderHere
    <3> QED BY <3>1, <3>2, <3>3
  <2>10. StructTyped' /\ SameValues' /\ HeadersShown'
    BY <1>1, <2>7, Frame DEF Abreast, Paired
  <2>11. Paired'
    BY <2>8, <2>9, <2>10 DEF Paired
  <2> QED BY <1>1, <1>2, <2>1, <2>11, StayTogether
<1> QED BY <1>9, <1>10

LEMMA PopTogether ==
  ASSUME Abreast, PopRegion, CPop
  PROVE  Pair'
<1> DEFINE n == Len(regions)
<1>1. /\ AtRegionOp /\ pc = "body" /\ regions # <<>> /\ regions' = SubSeq(regions, 1, n - 1)
      /\ UNCHANGED <<ir, packet, current, depth, cursor_bits, env, meta, headers>>
  BY DEF PopRegion, AtRegionOp
<1>2. UNCHANGED <<buf, state, iter, off, pk_region_end>>
  BY DEF CPop
<1>3. off = cursor_bits /\ cix = ix /\ iter = depth - 1 /\ state = current
  BY <1>1, RegionOpTyped
<1>4. /\ pk_rsp = n /\ pk_rsp # 0 /\ pk_rsp \in Nat /\ InnermostEnd = Top /\ Top \in Word
      /\ cursor_bits \in Word
  BY <1>1, InnermostHere, AbreastTypes
<1>5. /\ regions' \in Seq(Nat) /\ Len(regions') = n - 1 /\ DOMAIN regions' = 1..(n - 1)
      /\ \A k \in 1..(n - 1) : regions'[k] = regions[k]
      /\ n \in DOMAIN regions /\ DOMAIN regions = 1..n
  <2>1. regions \in Seq(Nat) /\ n \in Nat
    BY AbreastTypes DEF TypeOK
  <2> QED BY <1>1, <2>1, AllButLast
<1>6. pk_rsp' = n - 1
  BY <1>4, Zenon DEF CPop
<1>7. /\ DOMAIN pk_region_end = 0..PK_RMASK
      /\ \A k \in 0..PK_RMASK : pk_region_end[k] \in Word
      /\ \A k \in DOMAIN regions : pk_region_end[k - 1] = regions[k]
  BY DEF Abreast, Paired, SameRegions
<1>8. bit_len' = avail_bits /\ avail_bits \in Nat
  BY <1>2, SameHere, AbreastTypes DEF bit_len
<1>9. CASE cursor_bits < Top
  <2>1. ~(cursor_bits >= Top)
    BY <1>4, <1>9, WordsAreNumbers
  <2> DEFINE reason == IF Top > avail_bits THEN "out of bounds" ELSE "region not exhausted"
  <2>2. RejectHere(reason)
    BY <2>1, Zenon DEF PopRegion
  <2>3. Return("reject", "region not exhausted")
    BY <1>3, <1>4, <2>1, Zenon DEF CPop
  <2>4. reason = "region not exhausted" \/ TruncatedPop'
    <3> SUFFICES ASSUME Top > avail_bits PROVE TruncatedPop'
      OBVIOUS
    <3>1. result'.reason = "out of bounds"
      BY <2>2 DEF RejectHere, Finish
    <3>2. out'.reason = "region not exhausted"
      <4>1. StructTyped
        BY DEF Abreast, Paired
      <4> QED BY <2>3, <4>1, ReturnEffect
    <3>3. pk_region_end'[pk_rsp'] = Top
      BY <1>2, <1>5, <1>6, <1>7 DEF Top
    <3> QED BY <1>2, <1>3, <1>8, <1>9, <3>1, <3>2, <3>3 DEF TruncatedPop
  <2> HIDE DEF reason
  <2> QED BY <1>1, <1>2, <1>3, <2>2, <2>3, <2>4, EndTogether DEF RejectHere
<1>10. CASE ~(cursor_bits < Top)
  <2>1. ix' = ix + 1 /\ UNCHANGED <<pc, result>>
    BY <1>10, Zenon DEF PopRegion
  <2>2. cix' = cix + 1 /\ UNCHANGED <<cpc, out>>
    BY <1>3, <1>4, <1>10, Zenon DEF CPop
  <2>3. SameRegions'
    <3>1. PK_RMASK' = PK_RMASK
      <4>1. RegionCap' = RegionCap
        BY <1>1, StableFacts
      <4> QED BY <4>1 DEF PK_RMASK, NextPowerOfTwo
    <3>2. \A k \in DOMAIN regions' : k \in DOMAIN regions /\ regions'[k] = regions[k]
      BY <1>5
    <3> QED BY <1>2, <1>5, <1>6, <1>7, <3>1, <3>2 DEF SameRegions
  <2>4. SamePlace' /\ SameCursor' /\ HeaderHere'
    <3>1. SamePlace'
      BY <1>1, <1>2, <1>3, <2>1, <2>2 DEF Abreast, Paired, SamePlace
    <3>2. SameCursor'
      BY <1>1, <1>2, <1>3, <2>1 DEF SameCursor, Peeking
    <3>3. HeaderHere'
      BY <1>1, <2>1 DEF HeaderHere
    <3> QED BY <3>1, <3>2, <3>3
  <2>5. StructTyped' /\ SameValues' /\ HeadersShown'
    BY <1>1, <2>2, Frame DEF Abreast, Paired
  <2>6. Paired'
    BY <2>3, <2>4, <2>5 DEF Paired
  <2> QED BY <1>1, <1>2, <2>1, <2>6, StayTogether
<1> QED BY <1>9, <1>10

\* Taking a target.
LEMMA GotoTogether ==
  ASSUME Abreast, AtTransition, CTransition, NEW t, CTarget = t, Goto(t),
         UNCHANGED <<ir, packet, depth, cursor_bits, regions, env, meta, headers>>
  PROVE  Pair'
<1>1. pc = "body"
  BY DEF AtTransition
<1>2. UNCHANGED <<buf, off, pk_region_end, pk_rsp>>
  BY DEF CTransition
<1>3. off = cursor_bits /\ iter = depth - 1 /\ state = current /\ depth \in Nat
  BY <1>1, AbreastTypes DEF Abreast, Paired, SamePlace, Peeking, TypeOK
<1>4. \/ /\ t.kind = "state" /\ state' = t.name /\ iter' = iter + 1 /\ cpc' = "loop"
         /\ UNCHANGED out
      \/ t.kind = "accept" /\ Return("accept", "")
      \/ t.kind = "reject" /\ Return("reject", t.reason)
  BY Zenon DEF CTransition
<1>5. CASE t.kind = "state"
  <2>1. current' = t.name /\ pc' = "enter"
    BY <1>5, Zenon DEF Goto
  <2>2. state' = t.name /\ iter' = iter + 1 /\ cpc' = "loop" /\ UNCHANGED out
    BY <1>4, <1>5
  <2>3. SamePlace'
    BY <1>1, <1>3, <2>1, <2>2 DEF SamePlace
  <2>4. SameCursor' /\ HeaderHere'
    BY <1>1, <1>2, <1>3, <2>1 DEF SameCursor, Peeking, HeaderHere
  <2>5. SameRegions' /\ StructTyped' /\ SameValues' /\ HeadersShown'
    BY <1>2, <2>2, Frame DEF Abreast, Paired
  <2>6. Paired'
    BY <2>3, <2>4, <2>5 DEF Paired
  <2> QED BY <1>2, <2>1, <2>6, StayTogether
<1>6. CASE t.kind = "accept"
  <2>1. Finish("accept", "", cursor_bits, cursor_bits)
    BY <1>6, Zenon DEF Goto
  <2>2. Return("accept", "")
    BY <1>4, <1>6
  <2> QED BY <1>2, <1>3, <2>1, <2>2, EndTogether
<1>7. CASE t.kind = "reject"
  <2>1. Finish("reject", t.reason, cursor_bits, cursor_bits)
    BY <1>7, Zenon DEF Goto, RejectHere
  <2>2. Return("reject", t.reason)
    BY <1>4, <1>7
  <2> QED BY <1>2, <1>3, <2>1, <2>2, EndTogether
<1> QED BY <1>5, <1>6, <1>7, Zenon DEF Goto

\* The transition both are at.
LEMMA TransitionHere ==
  ASSUME Abreast, AtTransition
  PROVE  CSt = St /\ St \in State /\ St.transition \in Transition
<1>1. St \in State
  BY LiveState DEF Abreast
<1> QED BY <1>1, SameHere DEF State

LEMMA DirectTogether ==
  ASSUME Abreast, TakeDirect, CTransition
  PROVE  Pair'
<1>1. /\ AtTransition /\ St.transition.kind = "direct" /\ Goto(St.transition.next)
      /\ UNCHANGED <<ir, packet, depth, cursor_bits, regions, env, meta, headers>>
  BY DEF TakeDirect
<1>2. CTarget = St.transition.next
  BY <1>1, TransitionHere DEF CTarget
<1> QED BY <1>1, <1>2, GotoTogether

\* An entry matches alike.
LEMMA SameEntry ==
  ASSUME NEW entry \in KeysetEntry, NEW key
  PROVE  CEntryMatches(entry, key) <=> EvalEntry(entry, key)
<1>1. CASE entry.kind = "value"
  BY <1>1 DEF CEntryMatches, EvalEntry
<1>2. CASE entry.kind = "masked"
  BY <1>2 DEF CEntryMatches, EvalEntry
<1>3. CASE entry.kind = "range"
  BY <1>3 DEF CEntryMatches, EvalEntry
<1> QED BY <1>1, <1>2, <1>3 DEF KeysetEntry

\* The arms that match are the same.
LEMMA SelectHere ==
  ASSUME Abreast, AtTransition, St.transition.kind = "select",
         \A j \in DOMAIN KeyValues : KeyValues[j] # Undef
  PROVE  CTarget = IF MatchingArms # {} THEN St.transition.arms[Min(MatchingArms)].next
                   ELSE IF St.transition.default_target # NoTarget
                        THEN St.transition.default_target
                   ELSE [kind |-> "reject", reason |-> "no matching select arm"]
<1> DEFINE t == St.transition
           keys == [j \in DOMAIN t.keys |-> CValue(t.keys[j])]
           taken == {i \in DOMAIN t.arms :
                       \A j \in DOMAIN keys : CEntryMatches(t.arms[i].entries[j], keys[j])}
<1>1. CSt = St /\ St \in State /\ t \in Transition /\ KeysOf(St) = t.keys /\ pc = "body"
  BY TransitionHere DEF KeysOf, AtTransition
<1>2. t.keys \in Seq(Exprs) /\ t.arms \in Seq(SelectArm)
  BY <1>1 DEF Transition
<1>3. /\ DOMAIN KeyValues = DOMAIN t.keys
      /\ \A j \in DOMAIN t.keys : KeyValues[j] = EvalExpr(t.keys[j], env, meta, RemainingHere)
  BY <1>1 DEF KeyValues
<1>4. ASSUME NEW j \in DOMAIN t.keys
      PROVE  CValue(t.keys[j]) = KeyValues[j]
  <2>1. t.keys[j] \in Exprs
    BY <1>2
  <2>2. EvalExpr(t.keys[j], env, meta, RemainingHere) # Undef
    BY <1>3
  <2>3. CValue(t.keys[j]) = EvalExpr(t.keys[j], env, meta, RemainingHere)
    BY <1>1, <2>1, <2>2, SameValue
  <2> QED BY <1>3, <2>3
<1>5. /\ DOMAIN keys = DOMAIN t.keys
      /\ \A j \in DOMAIN t.keys : keys[j] = KeyValues[j]
  BY <1>4
<1>6. \A i \in DOMAIN t.arms : t.arms[i] \in SelectArm /\ Len(t.arms[i].entries) = Len(t.keys)
  <2>1. SelectOk(t)
    <3>1. St \in ToSet(ir.states)
      BY LiveState DEF St, ToSet, Abreast
    <3> QED BY <3>1, AbreastTypes DEF StructureOk, TransitionsOk
  <2> QED BY <1>2, <2>1 DEF SelectOk, ToSet
<1>7. Len(KeyValues) = Len(t.keys)
  <2> DEFINE n == Len(t.keys)
  <2>1. n \in Nat /\ DOMAIN t.keys = 1..n
    BY <1>2
  <2>2. KeyValues = [j \in 1..n |-> KeyValues[j]]
    <3> HIDE DEF n
    <3> QED BY <1>1, <2>1 DEF KeyValues
  <2> HIDE DEF n
  <2>3. KeyValues \in Seq({KeyValues[j] : j \in 1..n}) /\ DOMAIN KeyValues = 1..n
    BY <2>1, <2>2
  <2>4. Len(KeyValues) = n
    BY <2>1, <2>3
  <2> QED BY <2>4 DEF n
<1> HIDE DEF keys
<1>8. ASSUME NEW i \in DOMAIN t.arms
      PROVE  ArmMatches(t.arms[i]) <=>
               \A j \in DOMAIN keys : CEntryMatches(t.arms[i].entries[j], keys[j])
  <2>1. t.arms[i].entries \in Seq(KeysetEntry) /\ Len(t.arms[i].entries) = Len(t.keys)
    BY <1>6 DEF SelectArm
  <2>2. \A j \in DOMAIN t.keys : t.arms[i].entries[j] \in KeysetEntry
    BY <1>2, <2>1
  <2> DEFINE entries == t.arms[i].entries
  <2>3. \A j \in DOMAIN t.keys :
          CEntryMatches(entries[j], keys[j]) <=> EvalEntry(entries[j], KeyValues[j])
    <3> HIDE DEF entries
    <3> SUFFICES ASSUME NEW j \in DOMAIN t.keys
                 PROVE  CEntryMatches(entries[j], keys[j]) <=> EvalEntry(entries[j], KeyValues[j])
      OBVIOUS
    <3>1. entries[j] \in KeysetEntry
      BY <2>2 DEF entries
    <3> QED BY <1>5, <3>1, SameEntry
  <2>4. ArmMatches(t.arms[i]) <=> \A j \in DOMAIN t.keys : EvalEntry(entries[j], KeyValues[j])
    BY <1>3, <1>7, <2>1, Zenon DEF ArmMatches
  <2> QED BY <1>5, <2>3, <2>4, Zenon
<1>9. taken = MatchingArms
  BY <1>8, Zenon DEF MatchingArms
<1>10. CTarget = IF taken # {} THEN t.arms[Min(taken)].next
                 ELSE IF t.default_target # NoTarget THEN t.default_target
                 ELSE [kind |-> "reject", reason |-> "no matching select arm"]
  <2>1. CSt.transition = t /\ t.kind # "direct"
    BY <1>1
  <2> QED BY <2>1 DEF CTarget, keys
<1> HIDE DEF taken
<1> QED BY <1>9, <1>10

LEMMA SelectTogether ==
  ASSUME Abreast, TakeSelect, CTransition
  PROVE  Pair'
<1> DEFINE default == St.transition.default_target
<1>1. /\ AtTransition /\ St.transition.kind = "select"
      /\ \A j \in DOMAIN KeyValues : KeyValues[j] # Undef
      /\ UNCHANGED <<ir, packet, depth, cursor_bits, regions, env, meta, headers>>
  BY DEF TakeSelect
<1>2. CTarget = IF MatchingArms # {} THEN St.transition.arms[Min(MatchingArms)].next
                ELSE IF default # NoTarget THEN default
                ELSE [kind |-> "reject", reason |-> "no matching select arm"]
  BY <1>1, SelectHere
<1>3. CASE MatchingArms # {}
  <2>1. Goto(St.transition.arms[Min(MatchingArms)].next)
    BY <1>3, Zenon DEF TakeSelect
  <2> QED BY <1>1, <1>2, <1>3, <2>1, GotoTogether
<1>4. CASE MatchingArms = {} /\ default # NoTarget
  <2>1. Goto(default)
    BY <1>4, Zenon DEF TakeSelect
  <2> QED BY <1>1, <1>2, <1>4, <2>1, GotoTogether
<1>5. CASE MatchingArms = {} /\ default = NoTarget
  <2> DEFINE none == [kind |-> "reject", reason |-> "no matching select arm"]
  <2>1. RejectHere("no matching select arm") /\ UNCHANGED current
    BY <1>5, Zenon DEF TakeSelect
  <2>2. CTarget = none /\ none.kind = "reject" /\ none.reason = "no matching select arm"
    BY <1>2, <1>5
  <2> HIDE DEF none
  <2>3. Goto(none)
    BY <2>1, <2>2 DEF Goto
  <2> QED BY <1>1, <2>2, <2>3, GotoTogether
<1> QED BY <1>3, <1>4, <1>5

\* Where the interpreter errs there is nothing to compare.
LEMMA MalformedTogether ==
  ASSUME Abreast, Malformed, ParserTurn
  PROVE  Pair'
<1>1. pc' = "done" /\ result'.outcome = "err" /\ UNCHANGED packet
  BY DEF Malformed, Finish
<1>2. UNCHANGED buf
  BY DEF ParserTurn, CStep, CLoop, CExtract, CFixed, CRun, CEndExtract, CAssign, CPush, CPop,
         CTransition, c_vars
<1>3. buf' = packet' /\ ~Live'
  BY <1>1, <1>2 DEF Abreast, Live
<1> QED BY <1>1, <1>3 DEF Pair

LEMMA StepPaired ==
  ASSUME Abreast, AlignmentHolds, WholeBytesOnce, RegionStackFitsCap', Step, ParserTurn
  PROVE  Pair'
<1>1. CASE EnterState
  <2>1. pc = "enter"
    BY <1>1 DEF EnterState
  <2> QED BY <1>1, <2>1, ParserTurnIs, EnterTogether
<1>2. CASE BeginExtract
  <2>1. AtExtract
    BY <1>2 DEF BeginExtract
  <2> QED BY <1>2, <2>1, ParserTurnIs, ExtractTogether
<1>3. CASE ReadFixed
  <2>1. AtFixed
    BY <1>3 DEF ReadFixed
  <2> QED BY <1>3, <2>1, ParserTurnIs, FixedTogether
<1>4. CASE ReadRunField
  <2>1. AtRun
    BY <1>4 DEF ReadRunField
  <2> QED BY <1>4, <2>1, ParserTurnIs, RunTogether
<1>5. CASE EndExtract
  <2>1. pc = "field" /\ fx = Len(Fields) + 1
    BY <1>5 DEF EndExtract
  <2> QED BY <1>5, <2>1, ParserTurnIs, EndExtractTogether
<1>6. CASE AssignMetadata
  <2>1. AtAssign
    BY <1>6 DEF AssignMetadata
  <2> QED BY <1>6, <2>1, ParserTurnIs, AssignTogether
<1>7. CASE PushRegion
  <2>1. AtRegionOp /\ Op.kind = "push"
    BY <1>7 DEF PushRegion
  <2>2. CPush \/ CPop
    BY <2>1, ParserTurnIs
  <2>3. CPop => Op.kind = "pop"
    BY <2>1, RegionOpTyped, Zenon DEF CPop
  <2> QED BY <1>7, <2>1, <2>2, <2>3, PushTogether
<1>8. CASE PopRegion
  <2>1. AtRegionOp /\ Op.kind = "pop"
    BY <1>8 DEF PopRegion
  <2>2. CPush \/ CPop
    BY <2>1, ParserTurnIs
  <2>3. CPush => Op.kind = "push"
    BY <2>1, RegionOpTyped, Zenon DEF CPush
  <2> QED BY <1>8, <2>1, <2>2, <2>3, PopTogether
<1>9. CASE TakeDirect
  <2>1. AtTransition
    BY <1>9 DEF TakeDirect
  <2> QED BY <1>9, <2>1, ParserTurnIs, DirectTogether
<1>10. CASE TakeSelect
  <2>1. AtTransition
    BY <1>10 DEF TakeSelect
  <2> QED BY <1>10, <2>1, ParserTurnIs, SelectTogether
<1>11. CASE Malformed
  BY <1>11, MalformedTogether
<1> QED BY <1>1, <1>2, <1>3, <1>4, <1>5, <1>6, <1>7, <1>8, <1>9, <1>10, <1>11, Zenon DEF Step

----------------------------------------------------------------------------
(* The invariant of the two runs.                                          *)

\* Both are called, the parser with an array of garbage.
LEMMA CallPaired ==
  ASSUME AInv, Pair, CallBoth
  PROVE  Pair'
<1>1. /\ pc = "idle" /\ pc' = "enter" /\ UNCHANGED <<ir, current, depth, cursor_bits, regions, env,
                                                    meta, headers>>
  BY DEF CallBoth, StartRun
<1>2. /\ current = ir.start_state /\ depth = 0 /\ cursor_bits = 0 /\ regions = <<>>
      /\ env = [r \in {} |-> 0] /\ headers = <<>>
      /\ meta = [m \in DOMAIN ir.metadata |-> ir.metadata[m].init]
      /\ ir \in Programs
  BY <1>1 DEF AInv, PInv, VInv, Fresh
<1>3. /\ cpc' = "loop" /\ buf' = packet' /\ out' = ZeroedOut /\ state' = ir.start_state
      /\ UNCHANGED <<iter, off, pk_rsp>>
      /\ iter = 0 /\ off = 0 /\ pk_rsp = 0
  BY <1>1 DEF CallBoth, CStart, Pair, CInit
<1>4. pk_region_end' \in [0..PK_RMASK -> Garbage]
  BY DEF CallBoth, CStart
<1>5. \A k \in 0..PK_RMASK : pk_region_end'[k] \in Word
  BY <1>4, GarbageAssumption
<1>6. SamePlace' /\ SameCursor' /\ HeaderHere'
  BY <1>1, <1>2, <1>3 DEF SamePlace, SameCursor, Peeking, HeaderHere
<1>7. SameRegions'
  <2>1. PK_RMASK' = PK_RMASK
    <3>1. RegionCap' = RegionCap
      BY <1>1, StableFacts
    <3> QED BY <3>1 DEF PK_RMASK, NextPowerOfTwo
  <2>2. DOMAIN regions' = {} /\ Len(regions') = 0
    BY <1>1, <1>2
  <2> QED BY <1>3, <1>4, <1>5, <2>1, <2>2 DEF SameRegions
<1>8. /\ out'.present = {} /\ out'.m = meta' /\ StructTyped'
  <2>1. out' = [outcome |-> "running", reason |-> "", consumed_bits |-> 0, present |-> {},
                words |-> [m \in Members("bits") |-> 0],
                runs |-> [m \in Members("bit_len") |-> [bit_off |-> 0, bit_len |-> 0]],
                m |-> meta]
    BY <1>2, <1>3 DEF ZeroedOut
  <2>2. 0 \in Word
    BY WordProperties
  <2>3. \A kind : Members(kind)' = Members(kind)
    BY <1>1, Frame
  <2> QED BY <1>1, <2>1, <2>2, <2>3 DEF StructTyped
<1>9. SameValues' /\ HeadersShown'
  BY <1>1, <1>2, <1>8 DEF SameValues, HeadersShown
<1> QED BY <1>1, <1>3, <1>6, <1>7, <1>8, <1>9 DEF Pair, Paired, Live

\* Nothing happens.
LEMMA StablePair ==
  ASSUME UNCHANGED <<ir, packet, machine, c_vars>>
  PROVE  Pair' = Pair
<1>1. /\ UNCHANGED <<pc, ix, fx, current, depth, cursor_bits, entry_cursor, regions, env, meta,
                     headers, result>>
      /\ UNCHANGED <<buf, cpc, cix, cfx, state, iter, off, poff, pk_region_end, pk_rsp, out>>
  BY DEF machine, c_vars
<1>2. UNCHANGED <<St, Ex, Live>>
  BY <1>1 DEF St, Ex, Live
<1>3. SameRegions' = SameRegions /\ StructTyped' = StructTyped /\ SameValues' = SameValues
      /\ HeadersShown' = HeadersShown
  BY <1>1, Frame
<1>4. SamePlace' = SamePlace /\ SameCursor' = SameCursor /\ HeaderHere' = HeaderHere
  BY <1>1, <1>2 DEF SamePlace, SameCursor, Peeking, HeaderHere
<1>5. Paired' = Paired
  BY <1>3, <1>4 DEF Paired
<1>6. SameEnd' = SameEnd
  BY <1>1, <1>3 DEF SameEnd, SameReason, TruncatedPop, bit_len
<1>7. CInit' = CInit
  BY <1>1 DEF CInit
<1> QED BY <1>1, <1>2, <1>5, <1>6, <1>7 DEF Pair

\* A parser that has returned takes no step.
LEMMA ReturnedWaits ==
  ASSUME ParserTurn, cpc = "returned"
  PROVE  UNCHANGED c_vars
BY DEF ParserTurn, CStep, CLoop, CExtract, CFixed, CRun, CEndExtract, CAssign, CPush, CPop,
       CTransition

\* Only a run that has been called and has not ended takes a step.
LEMMA StepIsLive ==
  ASSUME Step
  PROVE  Live /\ UNCHANGED ir
BY DEF Step, EnterState, BeginExtract, ReadFixed, ReadRunField, EndExtract, AssignMetadata,
       PushRegion, PopRegion, TakeDirect, TakeSelect, Malformed, StepMalformed, AtExtract,
       AtFixed, AtRun, AtAssign, AtRegionOp, AtTransition, Live

\* Both take a turn.
LEMMA TurnPaired ==
  ASSUME AInv, AInv', Pair, WholeBytesOnce, InterpreterTurn, ParserTurn
  PROVE  Pair'
<1>1. CASE Run
  <2>1. Step /\ Live
    BY <1>1, StepIsLive DEF Run
  <2>2. Abreast
    <3>1. pc # "idle"
      BY <2>1 DEF Live
    <3> QED BY <2>1, <3>1 DEF AInv, PInv, Pair, Abreast
  <2>3. RegionStackFitsCap'
    <3>1. pc' # "idle"
      BY <2>1 DEF Step, EnterState, BeginExtract, ReadFixed, ReadRunField, EndExtract,
                  AssignMetadata, PushRegion, PopRegion, TakeDirect, TakeSelect, Malformed, Goto,
                  RejectHere, Finish, Live
    <3> QED BY <3>1 DEF AInv, PInv, RunInv
  <2>4. AlignmentHolds
    BY AlignedHere
  <2> QED BY <2>1, <2>2, <2>3, <2>4, StepPaired
<1>2. CASE pc = "done" /\ UNCHANGED pipeline
  <2>1. pc' = "done" /\ UNCHANGED <<ir, packet, machine, result>>
    BY <1>2 DEF pipeline, vars, machine
  <2>2. CASE result.outcome # "err"
    <3>1. UNCHANGED c_vars
      BY <1>2, <2>2, ReturnedWaits DEF Pair, SameEnd
    <3> QED BY <2>1, <3>1, StablePair
  <2>3. CASE result.outcome = "err"
    <3>1. UNCHANGED buf
      BY DEF ParserTurn, CStep, CLoop, CExtract, CFixed, CRun, CEndExtract, CAssign, CPush, CPop,
             CTransition, c_vars
    <3>2. buf' = packet' /\ result'.outcome = "err" /\ ~Live'
      BY <1>2, <2>1, <2>3, <3>1 DEF Pair, Live
    <3> QED BY <2>1, <3>2 DEF Pair
  <2> QED BY <2>2, <2>3
<1> QED BY <1>1, <1>2 DEF InterpreterTurn

\* The two runs are the analysed run, and one beside it.
LEMMA ConformanceStep ==
  ASSUME [ConformanceNext]_<<pipeline, alignment, c_vars>>
  PROVE  [AlignedNext]_<<pipeline, alignment>>
<1>1. CASE Validate /\ UNCHANGED <<alignment, c_vars>>
  BY <1>1 DEF AlignedNext
<1>2. CASE Analyse /\ UNCHANGED c_vars
  BY <1>2 DEF AlignedNext
<1>3. CASE CallBoth /\ UNCHANGED alignment
  BY <1>3 DEF AlignedNext, CallBoth
<1>4. CASE InterpreterTurn /\ ParserTurn /\ UNCHANGED alignment
  BY <1>4 DEF AlignedNext, InterpreterTurn
<1>5. CASE UNCHANGED <<pipeline, alignment, c_vars>>
  BY <1>5
<1> QED BY <1>1, <1>2, <1>3, <1>4, <1>5, Zenon DEF ConformanceNext

CInv == AInv /\ (WholeBytesOnce => Pair)

LEMMA InitCInv == ConformanceInit => CInv
<1> SUFFICES ASSUME ConformanceInit PROVE CInv
  OBVIOUS
<1>1. AInv /\ CInit
  BY InitAInv DEF ConformanceInit
<1>2. pc = "idle"
  BY DEF ConformanceInit, AlignedInit, PipelineInit
<1> QED BY <1>1, <1>2 DEF CInv, Pair, Live

LEMMA NextCInv ==
  ASSUME CInv, [ConformanceNext]_<<pipeline, alignment, c_vars>>
  PROVE  CInv'
<1>1. AInv /\ AInv'
  BY ConformanceStep, NextAInv DEF CInv
<1>2. SUFFICES ASSUME WholeBytesOnce' PROVE Pair'
  BY <1>1 DEF CInv
<1>3. ASSUME UNCHANGED ir PROVE WholeBytesOnce /\ Pair
  BY <1>2, <1>3 DEF CInv, WholeBytesOnce
<1>4. CASE Validate /\ UNCHANGED <<alignment, c_vars>>
  <2>1. UNCHANGED <<ir, packet, machine, c_vars>>
    BY <1>4 DEF Validate, ValidateStep, CheckStructure, SweepState, EndSweep, CheckUses, VisitState,
                AcceptProgram
  <2> QED BY <1>3, <2>1, StablePair
<1>5. CASE Analyse /\ UNCHANGED c_vars
  <2>1. UNCHANGED <<ir, packet, machine, c_vars>>
    BY <1>5 DEF Analyse, AlignState
  <2> QED BY <1>3, <2>1, StablePair
<1>6. CASE CallBoth /\ UNCHANGED alignment
  <2>1. UNCHANGED ir
    BY <1>6 DEF CallBoth, StartRun
  <2> QED BY <1>1, <1>3, <1>6, <2>1, CallPaired
<1>7. CASE InterpreterTurn /\ ParserTurn /\ UNCHANGED alignment
  <2>1. UNCHANGED ir
    BY <1>7, StepIsLive DEF InterpreterTurn, Run, pipeline, vars
  <2> QED BY <1>1, <1>3, <1>7, <2>1, TurnPaired
<1>8. CASE UNCHANGED <<pipeline, alignment, c_vars>>
  <2>1. UNCHANGED <<ir, packet, machine, c_vars>>
    BY <1>8 DEF pipeline, vars
  <2> QED BY <1>3, <2>1, StablePair
<1> QED BY <1>4, <1>5, <1>6, <1>7, <1>8, Zenon DEF ConformanceNext

----------------------------------------------------------------------------
(* What the invariant says of two runs that have ended.                    *)

LEMMA Greatest ==
  ASSUME NEW n \in Nat, NEW S \in SUBSET (1..n), S # {}
  PROVE  Max(S) \in S /\ \A y \in S : y <= Max(S)
<1> DEFINE T == {n - k : k \in S}
<1>1. T \in SUBSET Nat /\ T # {}
  OBVIOUS
<1>2. PICK t \in T : \A u \in T : t <= u
  <2> HIDE DEF T
  <2> QED BY <1>1, Least
<1>3. PICK x \in S : t = n - x
  BY <1>2
<1>4. \A y \in S : x >= y
  <2> SUFFICES ASSUME NEW y \in S PROVE x >= y
    OBVIOUS
  <2>1. n - x <= n - y
    BY <1>2, <1>3
  <2> QED BY <2>1
<1>5. Max(S) \in S /\ \A y \in S : Max(S) >= y
  BY <1>3, <1>4, Zenon DEF Max
<1> QED BY <1>5

LEMMA ShownIsSame ==
  ASSUME headers \in Seq(ParsedHeader), HeadersShown
  PROVE  SameHeaders
<1>1. out.present = {headers[k].instance : k \in DOMAIN headers}
  BY DEF HeadersShown
<1>2. ASSUME NEW i \in out.present, NEW f \in DOMAIN LastOf(i).fields
      PROVE  LET h == LastOf(i).fields[f]
             IN IF <<i, f>> \in DOMAIN out.words
                THEN h.value = [uint |-> out.words[<<i, f>>]]
                ELSE out.runs[<<i, f>>] = [bit_off |-> h.bit_offset, bit_len |-> h.bit_len]
  <2> DEFINE K == {k \in DOMAIN headers : headers[k].instance = i}
             last == Max(K)
  <2>1. Len(headers) \in Nat /\ DOMAIN headers = 1..Len(headers) /\ K \in SUBSET (1..Len(headers))
        /\ K # {}
    BY <1>1
  <2>2. last \in K /\ \A y \in K : y <= last
    <3> HIDE DEF K
    <3> QED BY <2>1, Greatest
  <2>3. LastOf(i) = headers[last] /\ last \in DOMAIN headers /\ headers[last].instance = i
    BY <2>2 DEF LastOf
  <2> HIDE DEF last
  <2>4. IsLast(last)
    <3> SUFFICES ASSUME NEW j \in DOMAIN headers, j > last, headers[j].instance = i
                 PROVE  FALSE
      BY <2>3 DEF IsLast
    <3>1. j <= last
      BY <2>2
    <3> QED BY <2>1, <2>3, <3>1
  <2>5. Shows(i, f, headers[last].fields[f])
    BY <1>2, <2>3, <2>4 DEF HeadersShown
  <2> QED BY <2>3, <2>5 DEF Shows
<1> QED BY <1>1, <1>2 DEF SameHeaders

LEMMA PairConforms ==
  ASSUME AInv, Pair
  PROVE  ConformsUpToPops
<1> SUFFICES ASSUME BothEnded
             PROVE  /\ out.outcome = result.outcome
                    /\ out.consumed_bits = result.consumed_bits
                    /\ out.m = meta
                    /\ SameHeaders
                    /\ SameReason \/ TruncatedPop
  BY DEF ConformsUpToPops
<1>1. cpc = "returned" /\ result.outcome # "err"
  BY DEF BothEnded
<1>2. pc # "idle" /\ ~Live
  BY <1>1 DEF Pair, CInit, Paired, SamePlace, Live
<1>3. RunInv
  BY <1>2 DEF AInv, PInv
<1>4. pc = "done" /\ headers \in Seq(ParsedHeader)
  BY <1>2, <1>3 DEF RunInv, IInv, TypeOK, Live
<1>5. SameEnd
  BY <1>1, <1>4 DEF Pair
<1> QED BY <1>4, <1>5, ShownIsSame DEF SameEnd

\* Of every validated program that takes no field of whole bytes twice in a
\* state, and on every packet, the generated C parser gives the interpreter's
\* verdict, consumed length, metadata and headers, and its reason but for a pop
\* of a truncated region: the wrapping sums and differences of c.rs, its fixed
\* and uninitialised region array and its loads of whole bytes change nothing
\* (ir-semantics section 6).
THEOREM GeneratedConforms == ConformanceSpec => [](WholeBytesOnce => ConformsUpToPops)
<1>1. CInv => (WholeBytesOnce => ConformsUpToPops)
  BY PairConforms DEF CInv
<1> QED BY <1>1, InitCInv, NextCInv, PTL DEF ConformanceSpec
=============================================================================

--------------------------- MODULE AlignmentProofs ---------------------------
(***************************************************************************)
(* Proofs about the alignment analysis: the invariant of its worklist, that *)
(* what it concludes is exact for the state graph, and that no run of the   *)
(* analysed program contradicts it, for every program, word size, byte size *)
(* and input of the assumptions.                                            *)
(***************************************************************************)
EXTENDS AlignedRuns, PipelineProofs

----------------------------------------------------------------------------
(* Arithmetic modulo a byte.                                               *)

\* A byte is a positive number of bits.
LEMMA ByteBitsType == ByteBits \in Int /\ ByteBits > 0
BY ByteBitsAssumption, PowersAssumption

\* Quotient and remainder.
LEMMA Division ==
  ASSUME NEW d \in Int, d > 0, NEW a \in Int
  PROVE  /\ a \div d \in Int /\ a % d \in 0..(d - 1)
         /\ a = d * (a \div d) + (a % d)
OBVIOUS

\* A multiple of d strictly between -d and d is none.
LEMMA SmallMultiple ==
  ASSUME NEW d \in Int, d > 0, NEW q \in Int, d * q < d, -d < d * q
  PROVE  q = 0
<1>1. CASE q >= 1
  <2>1. d * q >= d
    <3>1. PICK p \in Nat : q = p + 1
      <4>1. q - 1 \in Nat /\ q = (q - 1) + 1
        BY <1>1
      <4> QED BY <4>1
    <3>2. d * p \in Nat /\ d * (p + 1) = d * p + d
      OBVIOUS
    <3> QED BY <3>1, <3>2
  <2>2. d * q \in Int
    OBVIOUS
  <2> QED BY <2>1, <2>2
<1>2. CASE q <= -1
  <2>1. d * q <= -d
    <3>1. PICK p \in Nat : q = -(p + 1)
      <4>1. -q - 1 \in Nat /\ q = -((-q - 1) + 1)
        BY <1>2
      <4> QED BY <4>1
    <3>2. d * p \in Nat /\ d * (-(p + 1)) = -(d * p + d)
      OBVIOUS
    <3> QED BY <3>1, <3>2
  <2>2. d * q \in Int
    OBVIOUS
  <2> QED BY <2>1, <2>2
<1> QED BY <1>1, <1>2

\* Numbers a multiple of d apart have the same remainder.
LEMMA SameRemainder ==
  ASSUME NEW d \in Int, d > 0, NEW a \in Int, NEW q \in Int
  PROVE  (a + d * q) % d = a % d
<1> DEFINE b == a + d * q
           x == a \div d
           y == b \div d
<1>1. b \in Int /\ d * q \in Int
  OBVIOUS
<1>2. x \in Int /\ y \in Int /\ a % d \in 0..(d - 1) /\ b % d \in 0..(d - 1)
      /\ a = d * x + (a % d) /\ b = d * y + (b % d)
  <2>1. a % d \in 0..(d - 1) /\ x \in Int /\ a = d * x + (a % d)
    BY Division
  <2> HIDE DEF b
  <2>2. b % d \in 0..(d - 1) /\ y \in Int /\ b = d * y + (b % d)
    BY <1>1, Division
  <2> QED BY <2>1, <2>2
<1> HIDE DEF x, y
<1>3. d * (y - x - q) = d * y - d * x - d * q
  BY <1>2
<1>4. d * y \in Int /\ d * x \in Int /\ y - x - q \in Int
  BY <1>2
<1>5. d * (y - x - q) = (a % d) - (b % d)
  BY <1>1, <1>2, <1>3, <1>4
<1>6. y - x - q = 0
  BY <1>2, <1>4, <1>5, SmallMultiple
<1>7. d * (y - x - q) = 0
  BY <1>6
<1> QED BY <1>2, <1>5, <1>7

\* Remainders of remainders, sums, differences and products.
LEMMA RemainderAdds ==
  ASSUME NEW d \in Int, d > 0, NEW a \in Int, NEW b \in Int
  PROVE  ((a % d) + (b % d)) % d = (a + b) % d
<1> DEFINE x == a \div d
           y == b \div d
           c == (a % d) + (b % d)
<1>1. x \in Int /\ y \in Int /\ a % d \in Int /\ b % d \in Int
      /\ a = d * x + (a % d) /\ b = d * y + (b % d)
  BY Division
<1>2. c \in Int
  BY <1>1
<1> HIDE DEF x, y
<1>3. d * (x + y) = d * x + d * y /\ d * x \in Int /\ d * y \in Int /\ x + y \in Int
  BY <1>1
<1>4. a + b = c + d * (x + y)
  BY <1>1, <1>3
<1> HIDE DEF c
<1>5. (c + d * (x + y)) % d = c % d
  BY <1>2, <1>3, SameRemainder
<1> QED BY <1>4, <1>5 DEF c

LEMMA RemainderSubtracts ==
  ASSUME NEW d \in Int, d > 0, NEW a \in Int, NEW b \in Int
  PROVE  ((a % d) + (d - (b % d))) % d = (a - b) % d
<1> DEFINE x == a \div d
           y == b \div d
           c == (a % d) + (d - (b % d))
<1>1. x \in Int /\ y \in Int /\ a % d \in Int /\ b % d \in Int
      /\ a = d * x + (a % d) /\ b = d * y + (b % d)
  BY Division
<1>2. c \in Int
  BY <1>1
<1> HIDE DEF x, y
<1>3. d * (x - y - 1) = d * x - d * y - d /\ d * x \in Int /\ d * y \in Int /\ x - y - 1 \in Int
  BY <1>1
<1>4. a - b = c + d * (x - y - 1)
  BY <1>1, <1>3
<1> HIDE DEF c
<1>5. (c + d * (x - y - 1)) % d = c % d
  BY <1>2, <1>3, SameRemainder
<1> QED BY <1>4, <1>5 DEF c

LEMMA RemainderScales ==
  ASSUME NEW d \in Int, d > 0, NEW a \in Int, NEW b \in Int
  PROVE  ((a % d) * b) % d = (a * b) % d
<1> DEFINE x == a \div d
           r == a % d
<1>1. x \in Int /\ r \in Int /\ a = d * x + r
  BY Division
<1> HIDE DEF x, r
<1>2. (d * x + r) * b = r * b + d * (x * b) /\ x * b \in Int /\ r * b \in Int
  BY <1>1
<1>3. (r * b + d * (x * b)) % d = (r * b) % d
  <2> DEFINE p == r * b
             q == x * b
  <2>1. p \in Int /\ q \in Int
    BY <1>2
  <2> HIDE DEF p, q
  <2>2. (p + d * q) % d = p % d
    BY <2>1, SameRemainder
  <2> QED BY <2>2 DEF p, q
<1>4. (a * b) % d = (r * b) % d
  BY <1>1, <1>2, <1>3
<1> QED BY <1>4 DEF r

LEMMA RemainderMultiplies ==
  ASSUME NEW d \in Int, d > 0, NEW a \in Int, NEW b \in Int
  PROVE  ((a % d) * (b % d)) % d = (a * b) % d
<1>1. a % d \in Int /\ b % d \in Int
  BY Division
<1>2. ((a % d) * (b % d)) % d = (a * (b % d)) % d
  BY <1>1, RemainderScales
<1>3. a * (b % d) = (b % d) * a /\ a * b = b * a
  BY <1>1
<1>4. ((b % d) * a) % d = (b * a) % d
  BY RemainderScales
<1> QED BY <1>2, <1>3, <1>4

\* Wrapping to a word does not change the remainder: a byte divides the word.
LEMMA WrapKeepsRemainder ==
  ASSUME NEW a \in Int
  PROVE  (a % WordSize) % ByteBits = a % ByteBits
<1> DEFINE x == a \div WordSize
           y == WordSize \div ByteBits
           r == a % WordSize
<1>1. /\ x \in Int /\ r \in Int /\ a = WordSize * x + r /\ WordSize \in Int
  BY WordProperties, Division
<1>2. y \in Int /\ WordSize = ByteBits * y
  <2>1. y \in Int /\ WordSize = ByteBits * y + (WordSize % ByteBits)
    BY ByteBitsType, WordProperties, Division
  <2>2. ByteBits * y \in Int
    BY <2>1, ByteBitsType
  <2> QED BY <2>1, <2>2, ByteDividesWord
<1> HIDE DEF x, y, r
<1>3. (ByteBits * y) * x = ByteBits * (y * x) /\ y * x \in Int
  BY <1>1, <1>2, ByteBitsType
<1>4. a = r + ByteBits * (y * x)
  <2>1. a = ByteBits * (y * x) + r
    BY <1>1, <1>2, <1>3
  <2>2. ByteBits * (y * x) \in Int
    BY <1>3, ByteBitsType
  <2> QED BY <1>1, <2>1, <2>2
<1> DEFINE p == y * x
<1>5. p \in Int
  BY <1>3
<1> HIDE DEF p
<1>6. (r + ByteBits * p) % ByteBits = r % ByteBits
  BY <1>1, <1>5, ByteBitsType, SameRemainder
<1> QED BY <1>4, <1>6 DEF p, r

----------------------------------------------------------------------------
(* What the analysis says of widths and lengths.                           *)

KnownOrNot == Residue \cup {Unknown}

\* A residue that agrees with a number, or nothing is known of the number.
Tells(r, v) == r = Unknown \/ r = v % ByteBits

LEMMA RemainderType ==
  ASSUME NEW v \in Int
  PROVE  v % ByteBits \in Residue /\ v % ByteBits \in Nat /\ v % ByteBits # Unknown
BY ByteBitsType, Division DEF Residue, Unknown

LEMMA AddModTypes ==
  ASSUME NEW r \in KnownOrNot, NEW s \in KnownOrNot
  PROVE  AddMod(r, s) \in KnownOrNot
<1>1. CASE Unknown \in {r, s}
  BY <1>1 DEF AddMod, KnownOrNot
<1>2. CASE Unknown \notin {r, s}
  <2>1. r + s \in Int
    BY <1>2 DEF KnownOrNot, Residue
  <2> QED BY <1>2, <2>1, RemainderType DEF AddMod, KnownOrNot
<1> QED BY <1>1, <1>2

LEMMA AddModTells ==
  ASSUME NEW r, NEW s, NEW a \in Int, NEW b \in Int, Tells(r, a), Tells(s, b)
  PROVE  Tells(AddMod(r, s), a + b)
<1>1. CASE Unknown \in {r, s}
  BY <1>1 DEF AddMod, Tells
<1>2. CASE Unknown \notin {r, s}
  <2>1. r = a % ByteBits /\ s = b % ByteBits
    BY <1>2 DEF Tells
  <2>2. ((a % ByteBits) + (b % ByteBits)) % ByteBits = (a + b) % ByteBits
    BY ByteBitsType, RemainderAdds
  <2> QED BY <1>2, <2>1, <2>2 DEF AddMod, Tells
<1> QED BY <1>1, <1>2

\* The low bits of the bitwise operations are those of the operands.
LEMMA LowBits ==
  ASSUME NEW a \in Word, NEW b \in Word
  PROVE  /\ BitAnd(a, b) % ByteBits = BitAnd(a % ByteBits, b % ByteBits)
         /\ BitOr(a, b) % ByteBits = BitOr(a % ByteBits, b % ByteBits)
<1> DEFINE Low(S) == {k \in S : 2^k < ByteBits}
<1>1. BitsOf(a % ByteBits) = Low(BitsOf(a)) /\ BitsOf(b % ByteBits) = Low(BitsOf(b))
  BY LowBitsAssumption
<1>2. \A S \in SUBSET (0..(WordBits - 1)) : FromBits(S) % ByteBits = FromBits(Low(S))
  BY LowBitsAssumption
<1>3. /\ BitsOf(a) \cap BitsOf(b) \in SUBSET (0..(WordBits - 1))
      /\ BitsOf(a) \cup BitsOf(b) \in SUBSET (0..(WordBits - 1))
  BY DEF BitsOf
<1>4. /\ Low(BitsOf(a) \cap BitsOf(b)) = Low(BitsOf(a)) \cap Low(BitsOf(b))
      /\ Low(BitsOf(a) \cup BitsOf(b)) = Low(BitsOf(a)) \cup Low(BitsOf(b))
  OBVIOUS
<1> HIDE DEF Low
<1>5. FromBits(BitsOf(a) \cap BitsOf(b)) % ByteBits = FromBits(BitsOf(a % ByteBits) \cap BitsOf(b % ByteBits))
  BY <1>1, <1>2, <1>3, <1>4
<1>6. FromBits(BitsOf(a) \cup BitsOf(b)) % ByteBits = FromBits(BitsOf(a % ByteBits) \cup BitsOf(b % ByteBits))
  BY <1>1, <1>2, <1>3, <1>4
<1> QED BY <1>5, <1>6 DEF BitAnd, BitOr

\* Bitwise operations on residues give residues.
LEMMA BitwiseTypes ==
  ASSUME NEW r \in Residue, NEW s \in Residue
  PROVE  BitAnd(r, s) \in Residue /\ BitOr(r, s) \in Residue
<1>1. r \in Word /\ s \in Word /\ r % ByteBits = r /\ s % ByteBits = s
  <2>1. ByteBits <= WordSize
    BY ByteBitsAssumption, PowersAssumption DEF WordSize
  <2>2. r \in 0..(ByteBits - 1) /\ s \in 0..(ByteBits - 1)
    BY DEF Residue
  <2>3. r % ByteBits = r /\ s % ByteBits = s
    BY <2>2, ByteBitsType
  <2>4. ByteBits \in Int /\ WordSize \in Int
    BY ByteBitsType, WordProperties
  <2>5. \A v \in 0..(ByteBits - 1) : v \in 0..(WordSize - 1)
    BY <2>1, <2>4
  <2> QED BY <2>2, <2>3, <2>5 DEF Word
<1>2. /\ BitAnd(r, s) % ByteBits = BitAnd(r, s)
      /\ BitOr(r, s) % ByteBits = BitOr(r, s)
  BY <1>1, LowBits
<1>3. BitAnd(r, s) \in Int /\ BitOr(r, s) \in Int
  <2>1. /\ BitsOf(r) \cap BitsOf(s) \in SUBSET (0..(WordBits - 1))
        /\ BitsOf(r) \cup BitsOf(s) \in SUBSET (0..(WordBits - 1))
    BY DEF BitsOf
  <2>2. FromBits(BitsOf(r) \cap BitsOf(s)) \in Word /\ FromBits(BitsOf(r) \cup BitsOf(s)) \in Word
    BY <2>1, FromBitsAssumption
  <2>3. BitAnd(r, s) \in Word /\ BitOr(r, s) \in Word
    BY <2>2 DEF BitAnd, BitOr
  <2> QED BY <2>3 DEF Word
<1> QED BY <1>2, <1>3, RemainderType

\* An operation on residues gives a residue, or nothing.
LEMMA CombineTypes ==
  ASSUME NEW e \in Exprs, e.kind = "bin", NEW l \in KnownOrNot, NEW r \in KnownOrNot
  PROVE  CombineMod8(e, l, r) \in KnownOrNot
<1>1. e.op \in BinOps /\ Unknown \in KnownOrNot /\ 0 \in KnownOrNot
  BY ExprsAssumption, RemainderType, ByteBitsType DEF KnownOrNot, Residue
<1>2. \A v \in Int : v % ByteBits \in KnownOrNot
  BY RemainderType DEF KnownOrNot
<1>3. (l # Unknown => l \in Residue /\ l \in Int) /\ (r # Unknown => r \in Residue /\ r \in Int)
  BY DEF KnownOrNot, Residue
<1>4. CASE e.op = "add"
  BY <1>4, AddModTypes DEF CombineMod8
<1>5. CASE e.op = "sub"
  <2>1. CASE r = Unknown
    BY <1>1, <1>5, <2>1, AddModTypes DEF CombineMod8
  <2>2. CASE r # Unknown
    <3>1. AddMod(l, ByteBits - r) \in KnownOrNot
      <4>1. CASE l = Unknown
        BY <1>1, <4>1 DEF AddMod
      <4>2. CASE l # Unknown
        <5>1. l + (ByteBits - r) \in Int
          BY <1>3, <2>2, <4>2, ByteBitsType
        <5> QED BY <1>1, <1>2, <5>1 DEF AddMod
      <4> QED BY <4>1, <4>2
    <3> QED BY <1>5, <2>2, <3>1 DEF CombineMod8
  <2> QED BY <2>1, <2>2
<1>6. CASE e.op = "mul"
  <2>1. CASE Unknown \in {l, r} \/ 0 \in {l, r}
    BY <1>1, <1>6, <2>1 DEF CombineMod8
  <2>2. CASE Unknown \notin {l, r} /\ 0 \notin {l, r}
    <3>1. l * r \in Int
      BY <1>3, <2>2
    <3>2. CombineMod8(e, l, r) = (l * r) % ByteBits
      BY <1>6, <2>2 DEF CombineMod8
    <3> QED BY <1>2, <3>1, <3>2
  <2> QED BY <2>1, <2>2
<1>7. CASE e.op = "shl"
  <2> DEFINE shift == 2^(e.rhs.value % WordBits)
  <2>1. CASE e.rhs.kind # "constant"
    BY <1>1, <1>7, <2>1 DEF CombineMod8
  <2>2. CASE e.rhs.kind = "constant"
    <3>1. shift \in Int
      <4>1. e.rhs \in Exprs
        BY ExprsAssumption
      <4>2. e.rhs.value \in Nat
        BY <2>2, <4>1, ExprsAssumption, WordProperties
      <4> QED BY <4>2, PowerType
    <3>2. CombineMod8(e, l, r) = IF shift % ByteBits = 0 THEN 0 ELSE IF l = Unknown THEN Unknown
                                 ELSE (l * shift) % ByteBits
      BY <1>7, <2>2 DEF CombineMod8
    <3> HIDE DEF shift
    <3>3. l # Unknown => l * shift \in Int
      BY <1>3, <3>1
    <3> QED BY <1>1, <1>2, <3>2, <3>3
  <2> QED BY <2>1, <2>2
<1>8. CASE e.op = "shr"
  BY <1>1, <1>8 DEF CombineMod8
<1>9. CASE e.op \in {"and", "or"}
  <2>1. CASE Unknown \in {l, r}
    BY <1>1, <1>9, <2>1 DEF CombineMod8
  <2>2. CASE Unknown \notin {l, r}
    <3>1. BitAnd(l, r) \in KnownOrNot /\ BitOr(l, r) \in KnownOrNot
      BY <1>3, <2>2, BitwiseTypes DEF KnownOrNot
    <3> QED BY <1>9, <2>2, <3>1 DEF CombineMod8
  <2> QED BY <2>1, <2>2
<1> QED BY <1>1, <1>4, <1>5, <1>6, <1>7, <1>8, <1>9 DEF BinOps

\* An operation on residues agrees with the operation on words, which wraps.
LEMMA CombineTells ==
  ASSUME NEW e \in Exprs, e.kind = "bin", NEW l \in KnownOrNot, NEW r \in KnownOrNot,
         NEW a \in Word, NEW b \in Word, Tells(l, a), Tells(r, b),
         e.rhs.kind = "constant" => b = e.rhs.value
  PROVE  Tells(CombineMod8(e, l, r), WrappingOp(e.op, a, b))
<1>1. e.op \in BinOps /\ a \in Int /\ b \in Int /\ a \in Nat /\ b \in Nat
  BY ExprsAssumption, WordProperties
<1>2. (l # Unknown => l = a % ByteBits) /\ (r # Unknown => r = b % ByteBits)
  BY DEF Tells
<1>3. CASE e.op = "add"
  <2>1. Tells(AddMod(l, r), a + b)
    BY <1>1, AddModTells
  <2>2. ((a + b) % WordSize) % ByteBits = (a + b) % ByteBits
    BY <1>1, WrapKeepsRemainder
  <2> QED BY <1>3, <2>1, <2>2 DEF Tells, CombineMod8, WrappingOp
<1>4. CASE e.op = "sub"
  <2>1. CASE Unknown \in {l, r}
    BY <1>4, <2>1 DEF Tells, CombineMod8, AddMod
  <2>2. CASE Unknown \notin {l, r}
    <3>1. ((a % ByteBits) + (ByteBits - (b % ByteBits))) % ByteBits = (a - b) % ByteBits
      BY <1>1, ByteBitsType, RemainderSubtracts
    <3>2. ((a - b) % WordSize) % ByteBits = (a - b) % ByteBits
      BY <1>1, WrapKeepsRemainder
    <3>3. l = a % ByteBits /\ r = b % ByteBits
      BY <1>2, <2>2
    <3>4. ByteBits - r # Unknown
      BY <3>3, <1>1, ByteBitsType, Division DEF Unknown
    <3>5. CombineMod8(e, l, r) = (l + (ByteBits - r)) % ByteBits
      BY <1>4, <2>2, <3>4 DEF CombineMod8, AddMod
    <3>6. WrappingOp(e.op, a, b) = (a - b) % WordSize
      BY <1>4 DEF WrappingOp
    <3> QED BY <3>1, <3>2, <3>3, <3>5, <3>6 DEF Tells
  <2> QED BY <2>1, <2>2
<1>5. CASE e.op = "mul"
  <2> DEFINE p == a * b
  <2>1. p \in Int /\ WrappingOp(e.op, a, b) = p % WordSize
    BY <1>1, <1>5 DEF WrappingOp
  <2>2. (p % WordSize) % ByteBits = p % ByteBits
    <3> HIDE DEF p
    <3> QED BY <2>1, WrapKeepsRemainder
  <2>3. /\ ((a % ByteBits) * b) % ByteBits = p % ByteBits
        /\ ((b % ByteBits) * a) % ByteBits = p % ByteBits
        /\ ((a % ByteBits) * (b % ByteBits)) % ByteBits = p % ByteBits
    <3>1. a * b = b * a
      BY <1>1
    <3>2. /\ ((a % ByteBits) * b) % ByteBits = (a * b) % ByteBits
          /\ ((b % ByteBits) * a) % ByteBits = (b * a) % ByteBits
      BY <1>1, ByteBitsType, RemainderScales
    <3>3. ((a % ByteBits) * (b % ByteBits)) % ByteBits = (a * b) % ByteBits
      BY <1>1, ByteBitsType, RemainderMultiplies
    <3> QED BY <3>1, <3>2, <3>3, Zenon DEF p
  <2> HIDE DEF p
  <2>4. CASE 0 \in {l, r}
    <3>1. a % ByteBits = 0 \/ b % ByteBits = 0
      BY <1>2, <2>4 DEF Unknown
    <3>2. 0 * b = 0 /\ 0 * a = 0 /\ 0 % ByteBits = 0
      BY <1>1, ByteBitsType
    <3>3. p % ByteBits = 0
      BY <2>3, <3>1, <3>2
    <3>4. CombineMod8(e, l, r) = 0
      BY <1>5, <2>4 DEF CombineMod8
    <3> QED BY <2>1, <2>2, <3>3, <3>4 DEF Tells
  <2>5. CASE 0 \notin {l, r} /\ Unknown \in {l, r}
    BY <1>5, <2>5 DEF Tells, CombineMod8
  <2>6. CASE 0 \notin {l, r} /\ Unknown \notin {l, r}
    <3>1. CombineMod8(e, l, r) = (l * r) % ByteBits
      BY <1>5, <2>6 DEF CombineMod8
    <3>2. l = a % ByteBits /\ r = b % ByteBits
      BY <1>2, <2>6
    <3> QED BY <2>1, <2>2, <2>3, <3>1, <3>2 DEF Tells
  <2> QED BY <2>4, <2>5, <2>6
<1>6. CASE e.op = "shl"
  <2>1. CASE e.rhs.kind # "constant"
    BY <1>6, <2>1 DEF Tells, CombineMod8
  <2>2. CASE e.rhs.kind = "constant"
    <3> DEFINE shift == 2^(b % WordBits)
               p == a * shift
    <3>1. shift \in Int
      BY <1>1, PowerType
    <3>2. CombineMod8(e, l, r) = IF shift % ByteBits = 0 THEN 0 ELSE IF l = Unknown THEN Unknown
                                 ELSE (l * shift) % ByteBits
      BY <1>6, <2>2 DEF CombineMod8
    <3>3. WrappingOp(e.op, a, b) = p % WordSize
      BY <1>6 DEF WrappingOp
    <3> HIDE DEF shift
    <3>4. /\ ((a % ByteBits) * shift) % ByteBits = p % ByteBits
          /\ ((shift % ByteBits) * a) % ByteBits = p % ByteBits
          /\ p \in Int
      <4>1. a * shift = shift * a /\ a * shift \in Int
        BY <1>1, <3>1
      <4>2. /\ ((a % ByteBits) * shift) % ByteBits = (a * shift) % ByteBits
            /\ ((shift % ByteBits) * a) % ByteBits = (shift * a) % ByteBits
        BY <1>1, <3>1, ByteBitsType, RemainderScales
      <4> QED BY <4>1, <4>2, Zenon DEF p
    <3> HIDE DEF p
    <3>5. (p % WordSize) % ByteBits = p % ByteBits
      BY <3>4, WrapKeepsRemainder
    <3>6. CASE shift % ByteBits = 0
      <4>1. 0 * a = 0 /\ 0 % ByteBits = 0
        BY <1>1, ByteBitsType
      <4>2. p % ByteBits = 0
        BY <3>4, <3>6, <4>1
      <4> QED BY <3>2, <3>3, <3>5, <3>6, <4>2 DEF Tells
    <3>7. CASE shift % ByteBits # 0
      <4>1. CASE l = Unknown
        BY <3>2, <3>7, <4>1 DEF Tells
      <4>2. CASE l # Unknown
        BY <1>2, <3>2, <3>3, <3>4, <3>5, <3>7, <4>2 DEF Tells
      <4> QED BY <4>1, <4>2
    <3> QED BY <3>6, <3>7
  <2> QED BY <2>1, <2>2
<1>7. CASE e.op = "shr"
  BY <1>7 DEF Tells, CombineMod8
<1>8. CASE e.op \in {"and", "or"}
  <2>1. CASE Unknown \in {l, r}
    BY <1>8, <2>1 DEF Tells, CombineMod8
  <2>2. CASE Unknown \notin {l, r}
    <3>1. l = a % ByteBits /\ r = b % ByteBits
      BY <1>2, <2>2
    <3> QED BY <1>8, <2>2, <3>1, LowBits DEF Tells, CombineMod8, WrappingOp
  <2> QED BY <2>1, <2>2
<1> QED BY <1>1, <1>3, <1>4, <1>5, <1>6, <1>7, <1>8 DEF BinOps

----------------------------------------------------------------------------
(* The recursive functions of the analysis are what their definitions say.  *)

LEMMA ExprMod8Unfolds ==
  ASSUME NEW e \in Exprs
  PROVE  /\ ExprMod8(e) \in KnownOrNot
         /\ e.kind = "bin" => ExprMod8(e) = CombineMod8(e, ExprMod8(e.lhs), ExprMod8(e.rhs))
         /\ e.kind = "constant" => ExprMod8(e) = e.value % ByteBits
         /\ e.kind \notin {"bin", "constant"} => ExprMod8(e) = Unknown
<1> DEFINE V == KnownOrNot
           Body(f, d) == IF d.kind = "bin" THEN CombineMod8(d, f[d.lhs], f[d.rhs])
                         ELSE IF d.kind = "constant" THEN d.value % ByteBits
                         ELSE Unknown
           mod8 == CHOOSE f : f = [d \in Exprs |-> Body(f, d)]
           leaf == [d \in Exprs |-> IF d.kind = "constant" THEN d.value % ByteBits ELSE Unknown]
           step == [t \in Exprs \X V \X V |->
                      IF t[1].kind = "bin" THEN CombineMod8(t[1], t[2], t[3]) ELSE Unknown]
<1>1. Unknown \in V /\ \A d \in Exprs : d.kind = "constant" => d.value % ByteBits \in V
  BY ExprsAssumption, WordProperties, RemainderType DEF KnownOrNot
<1>2. leaf \in [Exprs -> V]
  BY <1>1
<1>3. step \in [Exprs \X V \X V -> V]
  <2>1. \A d \in Exprs, a, b \in V : d.kind = "bin" => CombineMod8(d, a, b) \in V
    BY CombineTypes
  <2> HIDE DEF V
  <2> QED BY <1>1, <2>1
<1>4. \E f \in [Exprs -> V] : f = [d \in Exprs |-> Body(f, d)]
  <2>1. PICK f \in [Exprs -> V] :
          \A d \in Exprs : /\ d.kind = "bin" => f[d] = step[<<d, f[d.lhs], f[d.rhs]>>]
                           /\ d.kind # "bin" => f[d] = leaf[d]
    <3> HIDE DEF V, leaf, step
    <3>1. \E f : ExprFollows(f, V, leaf, step)
      BY <1>2, <1>3, ExprRecursion
    <3> QED BY <3>1 DEF ExprFollows
  <2>2. ASSUME NEW d \in Exprs
        PROVE  f[d] = Body(f, d)
    <3>1. CASE d.kind # "bin"
      BY <2>1, <3>1
    <3>2. CASE d.kind = "bin"
      <4>1. d.lhs \in Exprs /\ d.rhs \in Exprs
        BY <3>2, ExprsAssumption
      <4>2. f[d.lhs] \in V /\ f[d.rhs] \in V
        BY <4>1
      <4>3. f[d] = step[<<d, f[d.lhs], f[d.rhs]>>]
        BY <2>1, <3>2
      <4> HIDE DEF V
      <4> QED BY <3>2, <4>2, <4>3
    <3> QED BY <3>1, <3>2
  <2>3. f = [d \in Exprs |-> f[d]]
    OBVIOUS
  <2> HIDE DEF Body
  <2> QED BY <2>2, <2>3
<1>5. mod8 = [d \in Exprs |-> Body(mod8, d)]
  <2> HIDE DEF Body
  <2> QED BY <1>4
<1>6. \A d \in Exprs : mod8[d] = Body(mod8, d)
  <2> HIDE DEF Body, mod8
  <2> QED BY <1>5
<1>7. \A d : ExprMod8(d) = mod8[d]
  BY Zenon DEF ExprMod8
<1> HIDE DEF mod8
<1>8. \A d \in Exprs : mod8[d] \in V
  <2> DEFINE S == {d \in Exprs : d.kind = "bin" /\ mod8[d] \notin V}
  <2>1. \A d \in Exprs : d.kind # "bin" => mod8[d] \in V
    BY <1>1, <1>6
  <2>2. S = {}
    <3> SUFFICES ASSUME S # {} PROVE FALSE
      OBVIOUS
    <3>1. S \in SUBSET {d \in Exprs : d.kind = "bin"}
      OBVIOUS
    <3>2. PICK d \in S : d.lhs \notin S /\ d.rhs \notin S
      BY <3>1, ExprsAreTrees
    <3>3. d \in Exprs /\ d.kind = "bin" /\ mod8[d] \notin V
      OBVIOUS
    <3>4. d.lhs \in Exprs /\ d.rhs \in Exprs
      BY <3>3, ExprsAssumption
    <3>5. mod8[d.lhs] \in V /\ mod8[d.rhs] \in V
      BY <2>1, <3>2, <3>4
    <3>6. mod8[d] \in V
      BY <1>6, <3>3, <3>4, <3>5, CombineTypes
    <3> QED BY <3>3, <3>6
  <2> QED BY <2>1, <2>2
<1> QED BY <1>6, <1>7, <1>8, ExprsAssumption

\* What the analysis says of an expression agrees with every value it takes.
LEMMA ExprMod8Tells ==
  ASSUME NEW values, \A r \in DOMAIN values : values[r] \in Word,
         NEW store, \A m \in DOMAIN store : store[m] \in Word,
         NEW rem \in Word \cup {Undef}, NEW e \in Exprs,
         EvalExpr(e, values, store, rem) # Undef
  PROVE  Tells(ExprMod8(e), EvalExpr(e, values, store, rem))
<1> DEFINE v(d) == EvalExpr(d, values, store, rem)
           S == {d \in Exprs : d.kind = "bin" /\ v(d) # Undef /\ ~Tells(ExprMod8(d), v(d))}
<1>1. ASSUME NEW d \in Exprs, d.kind = "constant" PROVE v(d) = d.value
  <2>1. v(d) = LeafValue(d, values, store, rem)
    BY <1>1, EvalExprUnfolds
  <2> QED BY <1>1, <2>1 DEF LeafValue
<1>2. \A d \in Exprs : d.kind # "bin" => Tells(ExprMod8(d), v(d))
  BY <1>1, ExprMod8Unfolds DEF Tells
<1>3. \A d \in Exprs : d.kind = "bin" /\ v(d) # Undef =>
        /\ d.lhs \in Exprs /\ d.rhs \in Exprs
        /\ v(d.lhs) \in Word /\ v(d.rhs) \in Word /\ v(d.lhs) # Undef /\ v(d.rhs) # Undef
        /\ v(d) = WrappingOp(d.op, v(d.lhs), v(d.rhs))
  <2> TAKE d \in Exprs
  <2> HAVE d.kind = "bin" /\ v(d) # Undef
  <2>1. d.lhs \in Exprs /\ d.rhs \in Exprs
    BY ExprsAssumption
  <2>2. v(d) = IF Undef \in {v(d.lhs), v(d.rhs)} THEN Undef ELSE WrappingOp(d.op, v(d.lhs), v(d.rhs))
    <3>1. v(d) = IF d.kind # "bin" THEN LeafValue(d, values, store, rem)
                 ELSE IF Undef \in {v(d.lhs), v(d.rhs)} THEN Undef
                 ELSE WrappingOp(d.op, v(d.lhs), v(d.rhs))
      BY EvalExprUnfolds, SMTT(30)
    <3> HIDE DEF v
    <3> QED BY <3>1
  <2>3. v(d.lhs) \in Word \cup {Undef} /\ v(d.rhs) \in Word \cup {Undef}
    BY EvalExprType
  <2> QED BY <2>1, <2>2, <2>3
<1> HIDE DEF v
<1>4. S = {}
  <2> SUFFICES ASSUME S # {} PROVE FALSE
    OBVIOUS
  <2>1. S \in SUBSET {d \in Exprs : d.kind = "bin"}
    OBVIOUS
  <2>2. PICK d \in S : d.lhs \notin S /\ d.rhs \notin S
    BY <2>1, ExprsAreTrees
  <2>3. d \in Exprs /\ d.kind = "bin" /\ v(d) # Undef /\ ~Tells(ExprMod8(d), v(d))
    OBVIOUS
  <2>4. Tells(ExprMod8(d.lhs), v(d.lhs)) /\ Tells(ExprMod8(d.rhs), v(d.rhs))
    BY <1>2, <1>3, <2>2, <2>3
  <2>5. ExprMod8(d.lhs) \in KnownOrNot /\ ExprMod8(d.rhs) \in KnownOrNot
        /\ ExprMod8(d) = CombineMod8(d, ExprMod8(d.lhs), ExprMod8(d.rhs))
    BY <1>3, <2>3, ExprMod8Unfolds
  <2>6. d.rhs.kind = "constant" => v(d.rhs) = d.rhs.value
    BY <1>1, <1>3, <2>3
  <2>7. Tells(ExprMod8(d), v(d))
    BY <1>3, <2>3, <2>4, <2>5, <2>6, CombineTells
  <2> QED BY <2>3, <2>7
<1> QED BY <1>2, <1>4 DEF v

----------------------------------------------------------------------------
(* Positions: the functions that advance over fields and extracts.          *)

\* A function that follows the same rule up to n is the same up to n.
LEMMA FollowsTo ==
  ASSUME NEW N \in Nat, NEW V, NEW base, NEW step, NEW F, Follows(F, N, V, base, step),
         NEW n \in 0..N, NEW f, f[0] = base,
         \A k \in 1..n : f[k - 1] \in V => f[k] = step[<<k, f[k - 1]>>]
  PROVE  f[n] = F[n]
<1> DEFINE S == {k \in 0..n : f[k] = F[k]}
<1>1. 0 \in S
  BY DEF Follows
<1>2. ASSUME NEW k \in 1..n, k - 1 \in S PROVE k \in S
  <2>1. k \in 1..N /\ k - 1 \in 0..N /\ k \in 0..n
    OBVIOUS
  <2>2. F[k - 1] \in V /\ F[k] = step[<<k, F[k - 1]>>]
    BY <2>1 DEF Follows
  <2>3. f[k - 1] = F[k - 1]
    BY <1>2
  <2> QED BY <2>1, <2>2, <2>3
<1> HIDE DEF S
<1>3. \A k \in 0..n : k \in S
  BY <1>1, <1>2, Induction
<1> QED BY <1>3 DEF S

\* The widths of a header of the schema.
Widths(fields, n) == \A k \in 1..n : fields[k] \in FieldWidth

LEMMA WidthTypes ==
  ASSUME NEW w \in FieldWidth
  PROVE  WidthMod8(w) \in KnownOrNot
BY RemainderType, ExprMod8Unfolds DEF FieldWidth, WidthMod8, KnownOrNot

LEMMA AdvanceUnfolds ==
  ASSUME NEW N \in Nat, NEW fields, Widths(fields, N), NEW r \in KnownOrNot, NEW n \in 0..N
  PROVE  /\ Advance(r, fields, n) \in KnownOrNot
         /\ n = 0 => Advance(r, fields, n) = r
         /\ n # 0 => Advance(r, fields, n) =
                       AddMod(Advance(r, fields, n - 1), WidthMod8(fields[n]))
<1> DEFINE V == KnownOrNot
           step == [c \in (1..N) \X V |-> AddMod(c[2], WidthMod8(fields[c[1]]))]
           Body(f, k) == IF k = 0 THEN r ELSE AddMod(f[k - 1], WidthMod8(fields[k]))
           after(m) == CHOOSE f : f = [k \in 0..m |-> Body(f, k)]
<1>1. \A k \in 1..N : WidthMod8(fields[k]) \in V
  BY WidthTypes DEF Widths
<1>2. step \in [(1..N) \X V -> V]
  BY <1>1, AddModTypes
<1>3. \A k \in 1..N, v \in V : step[<<k, v>>] = AddMod(v, WidthMod8(fields[k]))
  OBVIOUS
<1>4. \A m : Advance(r, fields, m) = after(m)[m]
  BY Zenon DEF Advance
<1> HIDE DEF V, step
<1>5. PICK F : Follows(F, N, V, r, step)
  <2>1. r \in V
    BY DEF V
  <2> QED BY <1>2, <2>1, Recursion
<1>6. ASSUME NEW m \in 0..N
      PROVE  after(m)[m] = F[m]
  <2> DEFINE G == [k \in 0..m |-> F[k]]
  <2>1. \A k \in 0..m : k # 0 => k \in 1..N /\ k - 1 \in 0..m /\ k - 1 \in 0..N
    OBVIOUS
  <2>2. \A k \in 0..m : G[k] = Body(G, k)
    <3> TAKE k \in 0..m
    <3>1. CASE k = 0
      BY <1>5, <3>1 DEF Follows
    <3>2. CASE k # 0
      <4>1. F[k - 1] \in V /\ F[k] = step[<<k, F[k - 1]>>]
        BY <1>5, <2>1, <3>2 DEF Follows
      <4> QED BY <1>3, <2>1, <3>2, <4>1
    <3> QED BY <3>1, <3>2
  <2>3. G = [k \in 0..m |-> G[k]]
    OBVIOUS
  <2> HIDE DEF G, Body
  <2>4. G = [k \in 0..m |-> Body(G, k)]
    BY <2>2, <2>3
  <2>5. after(m) = [k \in 0..m |-> Body(after(m), k)]
    BY <2>4
  <2> HIDE DEF after
  <2>6. \A k \in 0..m : after(m)[k] = Body(after(m), k)
    BY <2>5
  <2>7. after(m)[0] = r
    BY <2>6 DEF Body
  <2>8. \A k \in 1..m : after(m)[k - 1] \in V => after(m)[k] = step[<<k, after(m)[k - 1]>>]
    BY <1>3, <2>6 DEF Body
  <2> QED BY <1>5, <2>7, <2>8, FollowsTo
<1> HIDE DEF after
<1>7. \A m \in 0..N : Advance(r, fields, m) = F[m]
  BY <1>4, <1>6
<1>8. CASE n = 0
  BY <1>5, <1>7, <1>8 DEF Follows, V
<1>9. CASE n # 0
  <2>1. n \in 1..N /\ n - 1 \in 0..N
    BY <1>9
  <2>2. F[n - 1] \in V /\ F[n] \in V /\ F[n] = step[<<n, F[n - 1]>>]
    BY <1>5, <2>1 DEF Follows
  <2> QED BY <1>3, <1>7, <1>9, <2>1, <2>2 DEF V
<1> QED BY <1>8, <1>9

\* The extracts of a state of the schema, of header types that are there.
ExtractsTyped(extracts, n) == \A k \in 1..n : FieldsOf(extracts[k]) \in HeaderType

\* The residue after all of an extract.
After(r, ex) == IF ex.lookahead THEN r ELSE Advance(r, FieldsOf(ex), Len(FieldsOf(ex)))

LEMMA HeaderWidths ==
  ASSUME NEW fields \in HeaderType
  PROVE  Len(fields) \in Nat /\ DOMAIN fields = 1..Len(fields) /\ Widths(fields, Len(fields))
BY DEF HeaderType, Widths

LEMMA AfterTypes ==
  ASSUME NEW r \in KnownOrNot, NEW ex, FieldsOf(ex) \in HeaderType
  PROVE  After(r, ex) \in KnownOrNot
<1>1. Len(FieldsOf(ex)) \in Nat /\ Widths(FieldsOf(ex), Len(FieldsOf(ex)))
  BY HeaderWidths
<1>2. Len(FieldsOf(ex)) \in 0..Len(FieldsOf(ex))
  BY <1>1
<1>3. Advance(r, FieldsOf(ex), Len(FieldsOf(ex))) \in KnownOrNot
  BY <1>1, <1>2, AdvanceUnfolds
<1> QED BY <1>3 DEF After

LEMMA AdvanceAllUnfolds ==
  ASSUME NEW N \in Nat, NEW extracts, ExtractsTyped(extracts, N), NEW r \in KnownOrNot,
         NEW n \in 0..N
  PROVE  /\ AdvanceAll(r, extracts, n) \in KnownOrNot
         /\ n = 0 => AdvanceAll(r, extracts, n) = r
         /\ n # 0 => AdvanceAll(r, extracts, n) =
                       After(AdvanceAll(r, extracts, n - 1), extracts[n])
<1> DEFINE V == KnownOrNot
           step == [c \in (1..N) \X V |-> After(c[2], extracts[c[1]])]
           Body(f, k) == IF k = 0 THEN r
                         ELSE IF extracts[k].lookahead THEN f[k - 1]
                         ELSE Advance(f[k - 1], FieldsOf(extracts[k]), Len(FieldsOf(extracts[k])))
           after(m) == CHOOSE f : f = [k \in 0..m |-> Body(f, k)]
<1>1. step \in [(1..N) \X V -> V]
  BY AfterTypes DEF ExtractsTyped
<1>2. \A k \in 1..N, v \in V : step[<<k, v>>] = After(v, extracts[k])
  OBVIOUS
<1>3. \A m : AdvanceAll(r, extracts, m) = after(m)[m]
  BY Zenon DEF AdvanceAll
<1>4. \A f, k : Body(f, k) = IF k = 0 THEN r ELSE After(f[k - 1], extracts[k])
  BY DEF After
<1> HIDE DEF V, step, Body
<1>5. PICK F : Follows(F, N, V, r, step)
  <2>1. r \in V
    BY DEF V
  <2> QED BY <1>1, <2>1, Recursion
<1>6. ASSUME NEW m \in 0..N
      PROVE  after(m)[m] = F[m]
  <2> DEFINE G == [k \in 0..m |-> F[k]]
  <2>1. \A k \in 0..m : k # 0 => k \in 1..N /\ k - 1 \in 0..m /\ k - 1 \in 0..N
    OBVIOUS
  <2>2. \A k \in 0..m : G[k] = Body(G, k)
    <3> TAKE k \in 0..m
    <3>1. CASE k = 0
      BY <1>4, <1>5, <3>1 DEF Follows
    <3>2. CASE k # 0
      <4>1. F[k - 1] \in V /\ F[k] = step[<<k, F[k - 1]>>]
        BY <1>5, <2>1, <3>2 DEF Follows
      <4> QED BY <1>2, <1>4, <2>1, <3>2, <4>1
    <3> QED BY <3>1, <3>2
  <2>3. G = [k \in 0..m |-> G[k]]
    OBVIOUS
  <2> HIDE DEF G
  <2>4. G = [k \in 0..m |-> Body(G, k)]
    BY <2>2, <2>3
  <2>5. after(m) = [k \in 0..m |-> Body(after(m), k)]
    BY <2>4
  <2> HIDE DEF after
  <2>6. \A k \in 0..m : after(m)[k] = IF k = 0 THEN r ELSE After(after(m)[k - 1], extracts[k])
    BY <1>4, <2>5
  <2>7. after(m)[0] = r
    BY <2>6
  <2>8. \A k \in 1..m : after(m)[k - 1] \in V => after(m)[k] = step[<<k, after(m)[k - 1]>>]
    BY <1>2, <2>6
  <2> QED BY <1>5, <2>7, <2>8, FollowsTo
<1> HIDE DEF after
<1>7. \A m \in 0..N : AdvanceAll(r, extracts, m) = F[m]
  BY <1>3, <1>6
<1>8. CASE n = 0
  BY <1>5, <1>7, <1>8 DEF Follows, V
<1>9. CASE n # 0
  <2>1. n \in 1..N /\ n - 1 \in 0..N
    BY <1>9
  <2>2. F[n - 1] \in V /\ F[n] \in V /\ F[n] = step[<<n, F[n - 1]>>]
    BY <1>5, <2>1 DEF Follows
  <2> QED BY <1>2, <1>7, <1>9, <2>1, <2>2 DEF V
<1> QED BY <1>8, <1>9

\* Two residues that stay different, or are lost together.
Apart(a, b) == \/ a = Unknown /\ b = Unknown
               \/ a # Unknown /\ b # Unknown /\ a # b

LEMMA AddModApart ==
  ASSUME NEW a \in KnownOrNot, NEW b \in KnownOrNot, Apart(a, b), NEW s \in KnownOrNot
  PROVE  Apart(AddMod(a, s), AddMod(b, s))
<1>1. CASE Unknown \in {a, s} \/ Unknown \in {b, s}
  BY <1>1 DEF Apart, AddMod
<1>2. CASE Unknown \notin {a, b, s}
  <2>1. a \in 0..(ByteBits - 1) /\ b \in 0..(ByteBits - 1) /\ s \in 0..(ByteBits - 1) /\ a # b
    BY <1>2 DEF Apart, KnownOrNot, Residue
  <2>2. AddMod(a, s) = (a + s) % ByteBits /\ AddMod(b, s) = (b + s) % ByteBits
    BY <1>2 DEF AddMod
  <2>3. (a + s) % ByteBits # (b + s) % ByteBits
    <3> SUFFICES ASSUME (a + s) % ByteBits = (b + s) % ByteBits PROVE FALSE
      OBVIOUS
    <3>1. /\ ByteBits \in Int /\ ByteBits > 0 /\ a + s \in Int /\ b + s \in Int
          /\ s \in Int /\ ByteBits - s \in Int
      BY <2>1, ByteBitsType
    <3>2. \A x \in 0..(ByteBits - 1) : (((x + s) % ByteBits) + (ByteBits - (s % ByteBits))) % ByteBits = x
      <4> TAKE x \in 0..(ByteBits - 1)
      <4>1. x + s \in Int /\ (x + s) - s = x
        BY <3>1
      <4>2. (((x + s) % ByteBits) + (ByteBits - (s % ByteBits))) % ByteBits = ((x + s) - s) % ByteBits
        BY <3>1, <4>1, RemainderSubtracts
      <4>3. x % ByteBits = x
        BY <3>1
      <4> QED BY <4>1, <4>2, <4>3
    <3> QED BY <2>1, <3>2
  <2>4. (a + s) % ByteBits # Unknown /\ (b + s) % ByteBits # Unknown
    <3>1. a + s \in Int /\ b + s \in Int
      BY <2>1
    <3> QED BY <3>1, RemainderType
  <2> QED BY <2>2, <2>3, <2>4 DEF Apart
<1> QED BY <1>1, <1>2

LEMMA AdvanceApart ==
  ASSUME NEW N \in Nat, NEW fields, Widths(fields, N),
         NEW a \in KnownOrNot, NEW b \in KnownOrNot, Apart(a, b)
  PROVE  Apart(Advance(a, fields, N), Advance(b, fields, N))
<1> DEFINE S == {n \in 0..N : Apart(Advance(a, fields, n), Advance(b, fields, n))}
<1>1. 0 \in S
  BY AdvanceUnfolds
<1>2. ASSUME NEW n \in 1..N, n - 1 \in S PROVE n \in S
  <2>1. n \in 0..N /\ n # 0 /\ n - 1 \in 0..N /\ WidthMod8(fields[n]) \in KnownOrNot
    BY WidthTypes DEF Widths
  <2>2. /\ Advance(a, fields, n - 1) \in KnownOrNot /\ Advance(b, fields, n - 1) \in KnownOrNot
        /\ Advance(a, fields, n) = AddMod(Advance(a, fields, n - 1), WidthMod8(fields[n]))
        /\ Advance(b, fields, n) = AddMod(Advance(b, fields, n - 1), WidthMod8(fields[n]))
    BY <2>1, AdvanceUnfolds
  <2>3. Apart(Advance(a, fields, n - 1), Advance(b, fields, n - 1))
    BY <1>2
  <2> QED BY <2>1, <2>2, <2>3, AddModApart
<1> HIDE DEF S
<1>3. \A n \in 0..N : n \in S
  BY <1>1, <1>2, Induction
<1>4. N \in S
  BY <1>3
<1> QED BY <1>4 DEF S

LEMMA AdvanceAllApart ==
  ASSUME NEW N \in Nat, NEW extracts, ExtractsTyped(extracts, N),
         NEW a \in KnownOrNot, NEW b \in KnownOrNot, Apart(a, b)
  PROVE  Apart(AdvanceAll(a, extracts, N), AdvanceAll(b, extracts, N))
<1> DEFINE S == {n \in 0..N : Apart(AdvanceAll(a, extracts, n), AdvanceAll(b, extracts, n))}
<1>1. 0 \in S
  BY AdvanceAllUnfolds
<1>2. ASSUME NEW n \in 1..N, n - 1 \in S PROVE n \in S
  <2> DEFINE ex == extracts[n]
             x == AdvanceAll(a, extracts, n - 1)
             y == AdvanceAll(b, extracts, n - 1)
  <2>1. n \in 0..N /\ n # 0 /\ n - 1 \in 0..N /\ FieldsOf(ex) \in HeaderType
    BY DEF ExtractsTyped
  <2>2. /\ x \in KnownOrNot /\ y \in KnownOrNot
        /\ AdvanceAll(a, extracts, n) = After(x, ex)
        /\ AdvanceAll(b, extracts, n) = After(y, ex)
    BY <2>1, AdvanceAllUnfolds
  <2>3. Apart(x, y)
    BY <1>2
  <2>4. Apart(After(x, ex), After(y, ex))
    <3> HIDE DEF x, y, ex
    <3>1. Len(FieldsOf(ex)) \in Nat /\ Widths(FieldsOf(ex), Len(FieldsOf(ex)))
      BY <2>1, HeaderWidths
    <3>2. Apart(Advance(x, FieldsOf(ex), Len(FieldsOf(ex))), Advance(y, FieldsOf(ex), Len(FieldsOf(ex))))
      BY <2>2, <2>3, <3>1, AdvanceApart
    <3> QED BY <2>3, <3>2 DEF After
  <2> QED BY <2>1, <2>2, <2>4
<1> HIDE DEF S
<1>3. \A n \in 0..N : n \in S
  BY <1>1, <1>2, Induction
<1>4. N \in S
  BY <1>3
<1> QED BY <1>4 DEF S

----------------------------------------------------------------------------
(* States and their targets.                                               *)

\* Every extract of a valid program is of a header type of the schema.
LEMMA StateExtracts ==
  ASSUME ir \in Programs, StructureOk, NEW q \in DOMAIN ir.states
  PROVE  LET extracts == ir.states[q].extracts
         IN  /\ Len(extracts) \in Nat /\ DOMAIN extracts = 1..Len(extracts)
             /\ \A k \in DOMAIN extracts : extracts[k] \in Extracts
             /\ ExtractsTyped(extracts, Len(extracts))
<1> DEFINE extracts == ir.states[q].extracts
<1>1. ir.states[q] \in State /\ ir.header_types \in Seq(HeaderType)
  BY ProgramTypes
<1>2. extracts \in Seq(Extract)
  BY <1>1 DEF State
<1>3. Len(extracts) \in Nat /\ DOMAIN extracts = 1..Len(extracts)
  BY <1>2
<1>4. \A k \in DOMAIN extracts : extracts[k] \in Extracts
  BY DEF Extracts, ToSet
<1>5. \A k \in DOMAIN extracts : extracts[k].header_type \in DOMAIN ir.header_types
  BY <1>4 DEF StructureOk, InstancesOk
<1>6. \A h \in DOMAIN ir.header_types : ir.header_types[h] \in HeaderType
  BY <1>1
<1> QED BY <1>3, <1>4, <1>5, <1>6 DEF ExtractsTyped, FieldsOf

LEMMA ExitTypes ==
  ASSUME ir \in Programs, StructureOk, NEW q \in DOMAIN ir.states, NEW r \in KnownOrNot
  PROVE  ExitOf(q, r) \in KnownOrNot
<1> DEFINE extracts == ir.states[q].extracts
           n == Len(extracts)
<1>1. n \in Nat /\ n \in 0..n /\ ExtractsTyped(extracts, n)
  BY StateExtracts
<1> HIDE DEF n, extracts
<1>2. AdvanceAll(r, extracts, n) \in KnownOrNot
  BY <1>1, AdvanceAllUnfolds
<1> QED BY <1>2 DEF ExitOf, n, extracts

\* Two entries of a state that are apart stay apart.
LEMMA ExitApart ==
  ASSUME ir \in Programs, StructureOk, NEW q \in DOMAIN ir.states,
         NEW a \in KnownOrNot, NEW b \in KnownOrNot, Apart(a, b)
  PROVE  Apart(ExitOf(q, a), ExitOf(q, b))
<1> DEFINE extracts == ir.states[q].extracts
           n == Len(extracts)
<1>1. n \in Nat /\ ExtractsTyped(extracts, n)
  BY StateExtracts
<1> HIDE DEF n, extracts
<1>2. Apart(AdvanceAll(a, extracts, n), AdvanceAll(b, extracts, n))
  BY <1>1, AdvanceAllApart
<1> QED BY <1>2 DEF ExitOf, n, extracts

\* The targets in a row are the targets of the state.
LEMMA TargetListIs ==
  ASSUME ir \in Programs, NEW q \in DOMAIN ir.states
  PROVE  LET s == ir.states[q]
             T == TargetList(s)
         IN  /\ Len(T) \in Nat
             /\ \A n \in 1..Len(T) : T[n] \in TargetsOf(s)
             /\ \A t \in TargetsOf(s) : \E n \in 1..Len(T) : T[n] = t
<1> DEFINE s == ir.states[q]
           tr == s.transition
<1>1. s \in State
  BY ProgramTypes
<1>2. tr \in Transition
  BY <1>1 DEF State
<1>3. CASE tr.kind = "direct"
  <2>1. TargetList(s) = <<tr.next>> /\ TargetsOf(s) = {tr.next}
    BY <1>3 DEF TargetList, TargetsOf
  <2>2. Len(<<tr.next>>) = 1 /\ <<tr.next>>[1] = tr.next
    OBVIOUS
  <2> QED BY <2>1, <2>2
<1>4. CASE tr.kind # "direct"
  <2>1. tr.arms \in Seq(SelectArm)
    BY <1>2, <1>4 DEF Transition
  <2> DEFINE N == Len(tr.arms)
             arms == [i \in DOMAIN tr.arms |-> tr.arms[i].next]
             S == {tr.arms[i].next : i \in DOMAIN tr.arms} \cup {tr.default_target}
             T == Append(arms, tr.default_target)
  <2>2. N \in Nat /\ DOMAIN tr.arms = 1..N
    BY <2>1
  <2>3. arms \in [1..N -> S]
    BY <2>2
  <2>4. TargetList(s) = T /\ TargetsOf(s) = S
    BY <1>4 DEF TargetList, TargetsOf
  <2>5. \A i \in 1..N : arms[i] = tr.arms[i].next
    BY <2>2
  <2>6. \A t \in S : t = tr.default_target \/ \E i \in 1..N : arms[i] = t
    BY <2>2
  <2>7. tr.default_target \in S
    OBVIOUS
  <2> HIDE DEF N, arms, S
  <2>8. arms \in Seq(S) /\ Len(arms) = N
    BY <2>2, <2>3
  <2>9. /\ Len(T) = N + 1 /\ T[N + 1] = tr.default_target
        /\ \A i \in 1..N : T[i] = arms[i]
    BY <2>7, <2>8
  <2> HIDE DEF T
  <2>10. \A n \in 1..(N + 1) : T[n] \in S
    <3> TAKE n \in 1..(N + 1)
    <3>1. n = N + 1 \/ n \in 1..N
      BY <2>2
    <3> QED BY <2>3, <2>7, <2>9, <3>1
  <2>11. N + 1 \in Nat /\ \A i \in 1..N : i \in 1..(N + 1)
    BY <2>2
  <2>12. \A t \in S : \E n \in 1..(N + 1) : T[n] = t
    BY <2>2, <2>6, <2>9, <2>11
  <2> QED BY <2>4, <2>9, <2>10, <2>11, <2>12
<1> QED BY <1>3, <1>4

\* The elements of a sequence with one more, and with one less.
LEMMA AppendSet ==
  ASSUME NEW S, NEW s \in Seq(S), NEW x \in S
  PROVE  Append(s, x) \in Seq(S) /\ ToSet(Append(s, x)) = ToSet(s) \cup {x}
<1>1. /\ Append(s, x) \in Seq(S) /\ Len(s) \in Nat /\ DOMAIN s = 1..Len(s)
      /\ DOMAIN Append(s, x) = 1..(Len(s) + 1) /\ Append(s, x)[Len(s) + 1] = x
      /\ \A i \in 1..Len(s) : Append(s, x)[i] = s[i]
  OBVIOUS
<1>2. \A i \in 1..(Len(s) + 1) : i = Len(s) + 1 \/ i \in 1..Len(s)
  BY <1>1
<1>3. \A i \in 1..Len(s) : i \in 1..(Len(s) + 1)
  BY <1>1
<1>4. Len(s) + 1 \in 1..(Len(s) + 1)
  BY <1>1
<1> QED BY <1>1, <1>2, <1>3, <1>4 DEF ToSet

LEMMA PopSet ==
  ASSUME NEW S, NEW s \in Seq(S), s # <<>>
  PROVE  /\ Front(s) \in Seq(S) /\ Last(s) \in S
         /\ ToSet(s) = ToSet(Front(s)) \cup {Last(s)}
<1> DEFINE k == Len(s) - 1
<1>1. k \in Nat /\ 1 \in Int /\ k \in Int /\ DOMAIN s = 1..(k + 1)
      /\ Len(s) = k + 1 /\ \A i \in 1..k : s[i] \in S
  OBVIOUS
<1>2. s[k + 1] \in S /\ Last(s) = s[k + 1] /\ Front(s) = SubSeq(s, 1, k)
  <2>1. k + 1 \in DOMAIN s
    BY <1>1
  <2> QED BY <1>1, <2>1 DEF Last, Front
<1> HIDE DEF k
<1>3. /\ SubSeq(s, 1, k) \in Seq(S)
      /\ Len(SubSeq(s, 1, k)) = IF 1 <= k THEN k - 1 + 1 ELSE 0
      /\ \A i \in 1..(k - 1 + 1) : SubSeq(s, 1, k)[i] = s[1 + i - 1]
  BY <1>1, SubSeqProperties
<1> DEFINE t == SubSeq(s, 1, k)
<1>4. t \in Seq(S) /\ Len(t) = k /\ DOMAIN t = 1..k /\ \A i \in 1..k : t[i] = s[i]
  BY <1>1, <1>3
<1> HIDE DEF t
<1>5. \A i \in 1..(k + 1) : i = k + 1 \/ i \in 1..k
  BY <1>1
<1>6. (\A i \in 1..k : i \in 1..(k + 1)) /\ k + 1 \in 1..(k + 1)
  BY <1>1
<1>7. ToSet(s) = ToSet(t) \cup {s[k + 1]}
  BY <1>1, <1>4, <1>5, <1>6 DEF ToSet
<1> QED BY <1>2, <1>4, <1>7 DEF t

----------------------------------------------------------------------------
(* A visit of the worklist.                                                *)

ResidueMap == UNION {[D -> KnownOrNot] : D \in SUBSET DOMAIN ir.states}
Worklist == [align : ResidueMap, todo : Seq(DOMAIN ir.states)]

LEMMA ArriveTypes ==
  ASSUME NEW a \in Worklist, NEW t \in DOMAIN ir.states, NEW e \in KnownOrNot
  PROVE  Arrive(a, t, e) \in Worklist
<1>1. Unknown \in KnownOrNot
  BY DEF KnownOrNot
<1>2. \A r \in KnownOrNot : SetResidue(a.align, t, r) \in ResidueMap
  <2> TAKE r \in KnownOrNot
  <2>1. PICK D \in SUBSET DOMAIN ir.states : a.align \in [D -> KnownOrNot]
    BY DEF Worklist, ResidueMap
  <2>2. SetResidue(a.align, t, r) \in [D \cup {t} -> KnownOrNot]
    BY <2>1 DEF SetResidue
  <2> QED BY <2>2 DEF ResidueMap
<1>3. Append(a.todo, t) \in Seq(DOMAIN ir.states)
  BY AppendSet DEF Worklist
<1> QED BY <1>1, <1>2, <1>3 DEF Arrive, Worklist

\* The visit goes through the targets one by one.
VisitFollows(F, a, q, exit) ==
  LET T == TargetList(ir.states[q])
  IN  /\ F \in [0..Len(T) -> Worklist]
      /\ F[0] = a
      /\ \A n \in 1..Len(T) :
           F[n] = IF T[n].kind = "state" THEN Arrive(F[n - 1], T[n].name, exit) ELSE F[n - 1]

LEMMA VisitedUnfolds ==
  ASSUME ir \in Programs, StructureOk, NEW q \in DOMAIN ir.states, NEW rest,
         [align |-> align, todo |-> rest] \in Worklist, ExitOf(q, align[q]) \in KnownOrNot
  PROVE  \E F : /\ VisitFollows(F, [align |-> align, todo |-> rest], q, ExitOf(q, align[q]))
                /\ Visited(q, rest) = F[Len(TargetList(ir.states[q]))]
<1> DEFINE T == TargetList(ir.states[q])
           N == Len(T)
           V == Worklist
           base == [align |-> align, todo |-> rest]
           exit == ExitOf(q, align[q])
           step == [c \in (1..N) \X V |->
                      IF T[c[1]].kind = "state" THEN Arrive(c[2], T[c[1]].name, exit) ELSE c[2]]
           Body(f, k) == IF k = 0 THEN base
                         ELSE IF T[k].kind = "state" THEN Arrive(f[k - 1], T[k].name, exit)
                         ELSE f[k - 1]
           visited == CHOOSE f : f = [k \in 0..N |-> Body(f, k)]
<1>1. N \in Nat /\ \A n \in 1..N : T[n].kind = "state" => T[n].name \in DOMAIN ir.states
  BY TargetListIs, SuccessorsExist DEF Successors
<1>2. step \in [(1..N) \X V -> V]
  <2>1. \A k \in 1..N, v \in V : T[k].kind = "state" => Arrive(v, T[k].name, exit) \in V
    BY <1>1, ArriveTypes
  <2> HIDE DEF V, T, N, exit
  <2> QED BY <2>1
<1>3. \A k \in 1..N, v \in V :
        step[<<k, v>>] = IF T[k].kind = "state" THEN Arrive(v, T[k].name, exit) ELSE v
  OBVIOUS
<1>4. Visited(q, rest) = visited[N]
  BY Zenon DEF Visited
<1> HIDE DEF V, T, N, exit, base, step
<1>5. PICK F : Follows(F, N, V, base, step)
  <2>1. base \in V
    BY DEF V, base
  <2> QED BY <1>1, <1>2, <2>1, Recursion
<1>6. \A k \in 1..N : k - 1 \in 0..N /\ k \in 0..N /\ k # 0
  BY <1>1
<1>7. \A k \in 1..N : F[k] = IF T[k].kind = "state" THEN Arrive(F[k - 1], T[k].name, exit) ELSE F[k - 1]
  BY <1>3, <1>5, <1>6 DEF Follows
<1>8. F = [k \in 0..N |-> Body(F, k)]
  <2>1. \A k \in 0..N : k # 0 => k \in 1..N
    BY <1>1
  <2>2. \A k \in 0..N : F[k] = Body(F, k)
    BY <1>5, <1>7, <2>1 DEF Follows
  <2>3. F = [k \in 0..N |-> F[k]]
    BY <1>5 DEF Follows
  <2> HIDE DEF Body
  <2> QED BY <2>2, <2>3
<1>9. visited = [k \in 0..N |-> Body(visited, k)]
  <2> HIDE DEF Body
  <2> QED BY <1>8
<1> HIDE DEF visited
<1>10. visited[0] = base
  BY <1>1, <1>9
<1>11. \A k \in 1..N : visited[k - 1] \in V => visited[k] = step[<<k, visited[k - 1]>>]
  <2> TAKE k \in 1..N
  <2>1. visited[k] = Body(visited, k)
    BY <1>6, <1>9
  <2> QED BY <1>3, <1>6, <2>1
<1>12. visited[N] = F[N]
  <2>1. N \in 0..N
    BY <1>1
  <2> QED BY <1>1, <1>5, <1>10, <1>11, <2>1, FollowsTo
<1>13. VisitFollows(F, base, q, exit)
  BY <1>5, <1>7 DEF VisitFollows, Follows, T, N, V
<1> QED BY <1>4, <1>12, <1>13 DEF N, T, base, exit

\* What a visit has done after n targets: it forgets nothing that is to be done,
\* puts on the stack every state it gives a residue or takes one from, and gives
\* the residue at the exit to the targets, or takes it back.
Spread(v, q, exit, rest, n) ==
  LET T == TargetList(ir.states[q])
  IN  /\ ToSet(rest) \subseteq ToSet(v.todo)
      /\ ToSet(v.todo) \subseteq DOMAIN v.align
      /\ \A p \in DOMAIN align : p \in DOMAIN v.align
      /\ \A p \in DOMAIN v.align :
           \/ p \in ToSet(v.todo) /\ (p \in DOMAIN align => v.align[p] = Unknown)
           \/ p \in DOMAIN align /\ v.align[p] = align[p]
      /\ \A m \in 1..n : T[m].kind = "state" =>
           /\ T[m].name \in DOMAIN v.align
           /\ v.align[T[m].name] \in {Unknown, exit}

\* What an arrival does.
Arrived(b, a, t, e) ==
  /\ DOMAIN b.align = DOMAIN a.align \cup {t}
  /\ \A p \in DOMAIN a.align : p # t => b.align[p] = a.align[p]
  /\ t \in DOMAIN a.align /\ a.align[t] = e => b = a
  /\ ~(t \in DOMAIN a.align /\ a.align[t] = e) =>
       /\ b.align[t] = IF t \in DOMAIN a.align THEN Unknown ELSE e
       /\ ToSet(b.todo) = ToSet(a.todo) \cup {t}

LEMMA ArriveEffect ==
  ASSUME NEW a \in Worklist, NEW t \in DOMAIN ir.states, NEW e \in KnownOrNot
  PROVE  Arrived(Arrive(a, t, e), a, t, e)
<1>1. ToSet(Append(a.todo, t)) = ToSet(a.todo) \cup {t}
  BY AppendSet DEF Worklist
<1>2. CASE t \in DOMAIN a.align /\ a.align[t] = e
  BY <1>2 DEF Arrive, Arrived
<1>3. CASE ~(t \in DOMAIN a.align /\ a.align[t] = e)
  <2> DEFINE r == IF t \in DOMAIN a.align THEN Unknown ELSE e
  <2>1. Arrive(a, t, e) = [align |-> SetResidue(a.align, t, r), todo |-> Append(a.todo, t)]
    BY <1>3, Zenon DEF Arrive
  <2>2. /\ DOMAIN SetResidue(a.align, t, r) = DOMAIN a.align \cup {t}
        /\ SetResidue(a.align, t, r)[t] = r
        /\ \A p \in DOMAIN a.align : p # t => SetResidue(a.align, t, r)[p] = a.align[p]
    BY DEF SetResidue
  <2> HIDE DEF r
  <2> QED BY <1>1, <1>3, <2>1, <2>2 DEF r, Arrived
<1> QED BY <1>2, <1>3

LEMMA SpreadStep ==
  ASSUME NEW q, NEW exit \in KnownOrNot, NEW rest, NEW n \in Nat \ {0},
         NEW a \in Worklist, Spread(a, q, exit, rest, n - 1),
         LET T == TargetList(ir.states[q]) IN T[n].kind = "state" => T[n].name \in DOMAIN ir.states
  PROVE  LET T == TargetList(ir.states[q])
         IN Spread(IF T[n].kind = "state" THEN Arrive(a, T[n].name, exit) ELSE a, q, exit, rest, n)
<1> DEFINE T == TargetList(ir.states[q])
           t == T[n].name
           b == Arrive(a, t, exit)
<1>1. \A m \in 1..n : m = n \/ m \in 1..(n - 1)
  OBVIOUS
<1>2. CASE T[n].kind # "state"
  BY <1>1, <1>2 DEF Spread
<1>3. CASE T[n].kind = "state"
  <2>1. t \in DOMAIN ir.states
    BY <1>3
  <2>2. Arrived(b, a, t, exit)
    BY <2>1, ArriveEffect
  <2> HIDE DEF b
  <2> USE DEF Arrived
  <2>3. ToSet(a.todo) \subseteq ToSet(b.todo) /\ ToSet(b.todo) \subseteq DOMAIN b.align
    BY <2>2 DEF Spread
  <2>4. \A p \in DOMAIN b.align :
           \/ p \in ToSet(b.todo) /\ (p \in DOMAIN align => b.align[p] = Unknown)
           \/ p \in DOMAIN align /\ b.align[p] = align[p]
    BY <2>2, <2>3 DEF Spread
  <2>5. t \in DOMAIN b.align /\ b.align[t] \in {Unknown, exit}
    BY <2>2
  <2>6. \A m \in 1..n : T[m].kind = "state" =>
           T[m].name \in DOMAIN b.align /\ b.align[T[m].name] \in {Unknown, exit}
    <3> TAKE m \in 1..n
    <3> HAVE T[m].kind = "state"
    <3>1. CASE T[m].name = t
      BY <2>5, <3>1
    <3>2. CASE T[m].name # t
      <4>1. m \in 1..(n - 1)
        BY <1>1, <3>2
      <4>2. T[m].name \in DOMAIN a.align /\ a.align[T[m].name] \in {Unknown, exit}
        BY <4>1 DEF Spread
      <4> QED BY <2>2, <3>2, <4>2
    <3> QED BY <3>1, <3>2
  <2>7. Spread(b, q, exit, rest, n)
    BY <2>2, <2>3, <2>4, <2>6 DEF Spread
  <2> QED BY <1>3, <2>7 DEF b
<1> QED BY <1>2, <1>3

LEMMA SpreadVisit ==
  ASSUME ir \in Programs, StructureOk, NEW q \in DOMAIN ir.states, NEW exit \in KnownOrNot,
         NEW rest, ToSet(rest) \subseteq DOMAIN align,
         NEW F, VisitFollows(F, [align |-> align, todo |-> rest], q, exit)
  PROVE  LET N == Len(TargetList(ir.states[q])) IN Spread(F[N], q, exit, rest, N)
<1> DEFINE T == TargetList(ir.states[q])
           N == Len(T)
           S == {n \in 0..N : Spread(F[n], q, exit, rest, n)}
<1>1. N \in Nat /\ \A n \in 1..N : T[n].kind = "state" => T[n].name \in DOMAIN ir.states
  BY TargetListIs, SuccessorsExist DEF Successors
<1>2. 0 \in S
  <2>1. F[0] = [align |-> align, todo |-> rest]
    BY DEF VisitFollows
  <2>2. Spread(F[0], q, exit, rest, 0)
    BY <2>1 DEF Spread
  <2> QED BY <1>1, <2>2
<1>3. ASSUME NEW n \in 1..N, n - 1 \in S PROVE n \in S
  <2>1. n \in Nat \ {0} /\ n \in 0..N /\ n - 1 \in 0..N
    BY <1>1
  <2>2. F[n - 1] \in Worklist
    BY <2>1 DEF VisitFollows
  <2>3. F[n] = IF T[n].kind = "state" THEN Arrive(F[n - 1], T[n].name, exit) ELSE F[n - 1]
    BY <2>1 DEF VisitFollows
  <2>4. Spread(F[n - 1], q, exit, rest, n - 1)
    BY <1>3
  <2>5. Spread(IF T[n].kind = "state" THEN Arrive(F[n - 1], T[n].name, exit) ELSE F[n - 1],
               q, exit, rest, n)
    BY <1>1, <2>1, <2>2, <2>4, SpreadStep
  <2>6. Spread(F[n], q, exit, rest, n)
    BY <2>3, <2>5
  <2> QED BY <2>1, <2>6
<1> HIDE DEF S, T, N
<1>4. \A n \in 0..N : n \in S
  BY <1>1, <1>2, <1>3, Induction
<1>5. N \in S
  BY <1>1, <1>4
<1> QED BY <1>5 DEF S, N, T

----------------------------------------------------------------------------
(* The walks of the state graph.                                           *)

Entries == (DOMAIN ir.states) \X KnownOrNot
ArrivalBound == Len(ir.states) * (ByteBits + 1)
HandsOn == [a \in Entries |-> Successors(ir.states[a[1]]) \X {ExitOf(a[1], a[2])}]
ArrivalChain(f) == Reaches(f, ArrivalBound, Entries, {<<ir.start_state, 0>>}, HandsOn)

LEMMA EntryParts ==
  /\ \A a \in Entries : a[1] \in DOMAIN ir.states /\ a[2] \in KnownOrNot /\ a = <<a[1], a[2]>>
  /\ \A q, r : <<q, r>> \in Entries <=> q \in DOMAIN ir.states /\ r \in KnownOrNot
BY DEF Entries

LEMMA ArrivalTypes ==
  ASSUME ir \in Programs, StructureOk
  PROVE  /\ HandsOn \in [Entries -> SUBSET Entries]
         /\ {<<ir.start_state, 0>>} \in SUBSET Entries
         /\ ArrivalBound \in Nat
         /\ IsFiniteSet(Entries) /\ Cardinality(Entries) <= ArrivalBound
<1>1. \A a \in Entries : Successors(ir.states[a[1]]) \X {ExitOf(a[1], a[2])} \in SUBSET Entries
  <2> TAKE a \in Entries
  <2> DEFINE A == Successors(ir.states[a[1]])
             d == ExitOf(a[1], a[2])
             B == DOMAIN ir.states
  <2>1. A \in SUBSET B /\ d \in KnownOrNot
    <3>1. a[1] \in DOMAIN ir.states /\ a[2] \in KnownOrNot
      BY EntryParts
    <3> QED BY <3>1, SuccessorsExist, ExitTypes
  <2> HIDE DEF A, B, d
  <2>2. A \X {d} \in SUBSET (B \X KnownOrNot)
    BY <2>1
  <2> QED BY <2>2 DEF A, B, d, Entries
<1>2. HandsOn \in [Entries -> SUBSET Entries]
  <2> HIDE DEF Entries
  <2> QED BY <1>1 DEF HandsOn
<1>3. <<ir.start_state, 0>> \in Entries
  BY EntryParts, ByteBitsType DEF StructureOk, KnownOrNot, Residue
<1>4. /\ Len(ir.states) \in Nat /\ DOMAIN ir.states = 1..Len(ir.states)
      /\ ByteBits \in Int /\ ByteBits > 0
  BY ProgramTypes, ByteBitsType
<1>5. ArrivalBound \in Nat
  BY <1>4 DEF ArrivalBound
<1>6. IsFiniteSet(DOMAIN ir.states) /\ Cardinality(DOMAIN ir.states) = Len(ir.states)
  BY <1>4, FS_Interval
<1>7. IsFiniteSet(KnownOrNot) /\ Cardinality(KnownOrNot) = ByteBits + 1
  <2>1. KnownOrNot = (-1)..(ByteBits - 1)
    BY <1>4 DEF KnownOrNot, Residue, Unknown
  <2>2. -1 \in Int /\ ByteBits - 1 \in Int /\ ~(-1 > ByteBits - 1) /\ (ByteBits - 1) - (-1) + 1 = ByteBits + 1
    BY <1>4
  <2> QED BY <2>1, <2>2, FS_Interval
<1>8. IsFiniteSet(Entries) /\ Cardinality(Entries) = ArrivalBound
  <2> DEFINE A == DOMAIN ir.states
             B == KnownOrNot
  <2>1. IsFiniteSet(A) /\ IsFiniteSet(B)
    BY <1>6, <1>7
  <2>2. Entries = A \X B
    BY DEF Entries
  <2>3. Cardinality(A) = Len(ir.states) /\ Cardinality(B) = ByteBits + 1
    BY <1>6, <1>7
  <2> HIDE DEF A, B
  <2>4. IsFiniteSet(A \X B) /\ Cardinality(A \X B) = Cardinality(A) * Cardinality(B)
    BY <2>1, FS_Product
  <2> QED BY <2>2, <2>3, <2>4, Zenon DEF ArrivalBound
<1> QED BY <1>2, <1>3, <1>5, <1>8

\* What the walks find is closed: it has the successors of all it holds.
LEMMA ArrivalsClosed ==
  ASSUME ir \in Programs, StructureOk, NEW f, ArrivalChain(f)
  PROVE  /\ f[ArrivalBound] \in SUBSET Entries
         /\ <<ir.start_state, 0>> \in f[ArrivalBound]
         /\ \A q, r : <<q, r>> \in f[ArrivalBound] =>
              \A t \in Successors(ir.states[q]) : <<t, ExitOf(q, r)>> \in f[ArrivalBound]
<1> DEFINE n == ArrivalBound
           U == Entries
           base == {<<ir.start_state, 0>>}
           succ == HandsOn
<1>1. n \in Nat /\ 0 \in 0..n /\ n \in 0..n /\ 0 <= n /\ IsFiniteSet(U) /\ Cardinality(U) <= n
      /\ base # {} /\ succ \in [U -> SUBSET U]
  BY ArrivalTypes
<1>2. Reaches(f, n, U, base, succ)
  BY DEF ArrivalChain
<1>3. \A a \in Entries : succ[a] = Successors(ir.states[a[1]]) \X {ExitOf(a[1], a[2])}
  BY DEF HandsOn
<1>4. <<ir.start_state, 0>> \in base
  OBVIOUS
<1> HIDE DEF n, U, base, succ
<1>5. \A x \in f[n] : succ[x] \subseteq f[n]
  BY <1>1, <1>2, ReachCloses
<1>6. f[0] \subseteq f[n] /\ f[0] = base /\ f[n] \in SUBSET U
  <2>1. \A k \in 0..n : 0 <= k => f[0] \subseteq f[k]
    BY <1>1, <1>2, ReachGrows
  <2> QED BY <1>1, <1>2, <2>1 DEF Reaches
<1>7. ASSUME NEW q, NEW r, <<q, r>> \in f[n], NEW t \in Successors(ir.states[q])
      PROVE  <<t, ExitOf(q, r)>> \in f[n]
  <2>1. <<q, r>> \in Entries
    BY <1>6, <1>7 DEF U
  <2>2. succ[<<q, r>>] = Successors(ir.states[q]) \X {ExitOf(q, r)}
    BY <1>3, <2>1
  <2>3. <<t, ExitOf(q, r)>> \in succ[<<q, r>>]
    BY <1>7, <2>2
  <2> QED BY <1>5, <1>7, <2>3
<1> QED BY <1>4, <1>6, <1>7 DEF n, U

\* The recursive function of the definition is such a chain.
LEMMA ArrivalsIs ==
  ASSUME ir \in Programs, StructureOk
  PROVE  \E f : ArrivalChain(f) /\ Arrivals = f[ArrivalBound]
<1> DEFINE L == ArrivalBound
           U == Entries
           step(S) == S \cup UNION {Successors(ir.states[a[1]]) \X {ExitOf(a[1], a[2])} : a \in S}
           base == {<<ir.start_state, 0>>}
           chosen == CHOOSE f : f = [n \in 0..L |-> IF n = 0 THEN base ELSE step(f[n - 1])]
           succ == HandsOn
<1>1. succ \in [U -> SUBSET U] /\ base \in SUBSET U /\ L \in Nat
  BY ArrivalTypes
<1>2. \A S \in SUBSET U : step(S) = S \cup UNION {succ[a] : a \in S}
  BY DEF HandsOn
<1>3. Arrivals = chosen[L]
  BY DEF Arrivals, ArrivalBound
<1> HIDE DEF succ, step, U, L, base
<1>4. PICK g : Reaches(g, L, U, base, succ)
  BY <1>1, ReachExists
<1>5. g = [n \in 0..L |-> IF n = 0 THEN base ELSE step(g[n - 1])]
  <2>1. g = [n \in 0..L |-> g[n]] /\ g[0] = base
    BY <1>4 DEF Reaches
  <2>2. \A n \in 0..L : n # 0 => n \in 1..L /\ n - 1 \in 0..L
    BY <1>1
  <2>3. \A n \in 0..L : n # 0 => g[n] = step(g[n - 1])
    BY <1>2, <1>4, <2>2 DEF Reaches
  <2> QED BY <2>1, <2>3
<1>6. chosen = [n \in 0..L |-> IF n = 0 THEN base ELSE step(chosen[n - 1])]
  BY <1>5
<1> HIDE DEF chosen
<1>7. Reaches(chosen, L, U, base, succ)
  <2>1. chosen = [n \in 0..L |-> chosen[n]] /\ chosen[0] = base
    BY <1>1, <1>6
  <2>2. \A n \in 1..L : n \in 0..L /\ n # 0
    BY <1>1
  <2>3. \A n \in 1..L : chosen[n] = step(chosen[n - 1])
    BY <1>6, <2>2
  <2>4. \A n \in 1..L : chosen[n - 1] \in SUBSET U =>
          chosen[n] = chosen[n - 1] \cup UNION {succ[x] : x \in chosen[n - 1]}
    BY <1>2, <2>3
  <2> QED BY <1>1, <2>1, <2>4, ReachTypes
<1> QED BY <1>3, <1>7 DEF ArrivalChain, succ, U, L, base

\* Why the analysis says what it says of a state: some walk arrives with the
\* residue, or two walks show that there is none.
Witnessed(q, r, A) ==
  IF r = Unknown THEN \E x, y \in KnownOrNot : <<q, x>> \in A /\ <<q, y>> \in A /\ Apart(x, y)
  ELSE <<q, r>> \in A

\* A set of entries that has the successors of all it holds.
ClosedWalks(A) ==
  \A q \in DOMAIN ir.states, r \in KnownOrNot : <<q, r>> \in A =>
    \A t \in Successors(ir.states[q]) : <<t, ExitOf(q, r)>> \in A

LEMMA ArrivesWitnessed ==
  ASSUME NEW A, NEW q, NEW r \in KnownOrNot, <<q, r>> \in A
  PROVE  Witnessed(q, r, A)
BY DEF Witnessed, Apart

LEMMA HandsOnWitnessed ==
  ASSUME ir \in Programs, StructureOk, NEW A, ClosedWalks(A), NEW q \in DOMAIN ir.states,
         NEW r \in KnownOrNot, Witnessed(q, r, A), NEW t \in Successors(ir.states[q])
  PROVE  Witnessed(t, ExitOf(q, r), A)
<1>1. ExitOf(q, r) \in KnownOrNot
  BY ExitTypes
<1>2. CASE r # Unknown
  BY <1>1, <1>2, ArrivesWitnessed DEF Witnessed, ClosedWalks
<1>3. CASE r = Unknown
  <2>1. PICK x, y \in KnownOrNot : <<q, x>> \in A /\ <<q, y>> \in A /\ Apart(x, y)
    BY <1>3 DEF Witnessed
  <2>2. <<t, ExitOf(q, x)>> \in A /\ <<t, ExitOf(q, y)>> \in A
    BY <2>1 DEF ClosedWalks
  <2>3. /\ Apart(ExitOf(q, x), ExitOf(q, y))
        /\ ExitOf(q, x) \in KnownOrNot /\ ExitOf(q, y) \in KnownOrNot
    BY <2>1, ExitApart, ExitTypes
  <2>4. ExitOf(q, r) = Unknown
    <3>1. Apart(r, r)
      BY <1>3 DEF Apart
    <3>2. Apart(ExitOf(q, r), ExitOf(q, r))
      BY <3>1, ExitApart
    <3> QED BY <3>2 DEF Apart
  <2> QED BY <2>2, <2>3, <2>4 DEF Witnessed
<1> QED BY <1>2, <1>3

\* Two different claims are reason to give up.
LEMMA ConflictWitnessed ==
  ASSUME NEW A, NEW q, NEW r \in KnownOrNot, NEW s \in KnownOrNot, r # s,
         Witnessed(q, r, A), Witnessed(q, s, A)
  PROVE  Witnessed(q, Unknown, A)
<1>1. CASE r = Unknown \/ s = Unknown
  BY <1>1
<1>2. CASE r # Unknown /\ s # Unknown
  <2>1. <<q, r>> \in A /\ <<q, s>> \in A /\ Apart(r, s)
    BY <1>2 DEF Witnessed, Apart
  <2> QED BY <2>1 DEF Witnessed
<1> QED BY <1>1, <1>2

LEMMA WitnessedVisit ==
  ASSUME ir \in Programs, StructureOk, NEW q \in DOMAIN ir.states, NEW exit \in KnownOrNot,
         NEW A, \A t \in Successors(ir.states[q]) : Witnessed(t, exit, A),
         NEW a \in Worklist, \A p \in DOMAIN a.align : Witnessed(p, a.align[p], A),
         NEW F, VisitFollows(F, a, q, exit)
  PROVE  LET v == F[Len(TargetList(ir.states[q]))]
         IN \A p \in DOMAIN v.align : Witnessed(p, v.align[p], A)
<1> DEFINE T == TargetList(ir.states[q])
           N == Len(T)
           Sound(v) == \A p \in DOMAIN v.align : Witnessed(p, v.align[p], A)
           S == {n \in 0..N : Sound(F[n])}
<1>1. N \in Nat /\ \A n \in 1..N : T[n].kind = "state" =>
                     T[n].name \in Successors(ir.states[q]) /\ T[n].name \in DOMAIN ir.states
  BY TargetListIs, SuccessorsExist DEF Successors
<1>2. 0 \in S
  BY <1>1 DEF VisitFollows
<1>3. ASSUME NEW n \in 1..N, n - 1 \in S PROVE n \in S
  <2> DEFINE b == F[n - 1]
             t == T[n].name
             c == Arrive(b, t, exit)
  <2>1. n \in 0..N /\ n - 1 \in 0..N
    BY <1>1
  <2>2. b \in Worklist /\ Sound(b)
    BY <1>3, <2>1 DEF VisitFollows
  <2>3. F[n] = IF T[n].kind = "state" THEN c ELSE b
    BY <2>1 DEF VisitFollows
  <2>4. CASE T[n].kind # "state"
    BY <2>1, <2>2, <2>3, <2>4
  <2>5. CASE T[n].kind = "state"
    <3>1. t \in DOMAIN ir.states /\ Witnessed(t, exit, A)
      BY <1>1, <2>5
    <3> HIDE DEF b, t
    <3>2. Arrived(c, b, t, exit)
      BY <2>2, <3>1, ArriveEffect
    <3> HIDE DEF c
    <3> USE DEF Arrived
    <3>3. \A p \in DOMAIN b.align : b.align[p] \in KnownOrNot
      BY <2>2 DEF Worklist, ResidueMap
    <3>4. ASSUME t \in DOMAIN b.align /\ b.align[t] = exit PROVE Sound(c)
      BY <2>2, <3>2, <3>4
    <3>5. ASSUME t \notin DOMAIN b.align PROVE Sound(c)
      BY <2>2, <3>1, <3>2, <3>5
    <3>6. ASSUME t \in DOMAIN b.align /\ b.align[t] # exit PROVE Sound(c)
      <4>1. Witnessed(t, Unknown, A)
        BY <2>2, <3>1, <3>3, <3>6, ConflictWitnessed
      <4> QED BY <2>2, <3>2, <3>6, <4>1
    <3>7. Sound(c)
      BY <3>4, <3>5, <3>6
    <3> HIDE DEF Sound
    <3> QED BY <2>1, <2>3, <2>5, <3>7
  <2> QED BY <2>4, <2>5
<1> HIDE DEF S, T, N
<1>4. \A n \in 0..N : n \in S
  BY <1>1, <1>2, <1>3, Induction
<1>5. N \in S
  BY <1>1, <1>4
<1> QED BY <1>5 DEF S, N, T

----------------------------------------------------------------------------
(* The invariant of the worklist.                                          *)

\* A visited state has handed its residue on.
Handed(q) ==
  \A t \in Successors(ir.states[q]) :
    t \in DOMAIN align /\ align[t] \in {Unknown, ExitOf(q, align[q])}

MapInv ==
  /\ align \in ResidueMap
  /\ todo \in Seq(DOMAIN ir.states)
  /\ ToSet(todo) \subseteq DOMAIN align
  /\ ir.start_state \in DOMAIN align /\ align[ir.start_state] \in {0, Unknown}
  /\ \A q \in DOMAIN align : q \notin ToSet(todo) => Handed(q)

MapWitnessed ==
  \A f : ArrivalChain(f) => \A q \in DOMAIN align : Witnessed(q, align[q], f[ArrivalBound])

LEMMA InitMapInv ==
  ir \in Programs /\ StructureOk /\ AlignInit => MapInv /\ MapWitnessed
<1> SUFFICES ASSUME ir \in Programs, StructureOk, AlignInit PROVE MapInv /\ MapWitnessed
  OBVIOUS
<1> DEFINE start == ir.start_state
<1>1. start \in DOMAIN ir.states /\ 0 \in KnownOrNot
  BY ByteBitsType DEF StructureOk, KnownOrNot, Residue
<1>2. /\ DOMAIN align = {start} /\ align[start] = 0 /\ todo = <<start>>
      /\ align = [q \in {start} |-> 0]
  BY DEF AlignInit
<1>3. align \in ResidueMap
  <2>1. align \in [{start} -> KnownOrNot]
    BY <1>1, <1>2
  <2>2. {start} \in SUBSET DOMAIN ir.states
    BY <1>1
  <2> QED BY <2>1, <2>2 DEF ResidueMap
<1> HIDE DEF start
<1>4. todo \in Seq(DOMAIN ir.states) /\ ToSet(todo) = {start}
  <2>1. \A B : start \in B => <<start>> \in Seq(B)
    OBVIOUS
  <2>2. DOMAIN <<start>> = {1} /\ <<start>>[1] = start
    OBVIOUS
  <2>3. todo \in Seq(DOMAIN ir.states)
    BY <1>1, <1>2, <2>1
  <2>4. ToSet(<<start>>) = {start}
    <3>1. ToSet(<<start>>) = {<<start>>[i] : i \in DOMAIN <<start>>}
      BY DEF ToSet
    <3> QED BY <2>2, <3>1
  <2>5. ToSet(todo) = {start}
    BY <1>2, <2>4, Zenon
  <2> QED BY <2>3, <2>5
<1>5. MapInv
  BY <1>2, <1>3, <1>4 DEF MapInv, start
<1>6. MapWitnessed
  <2> SUFFICES ASSUME NEW f, ArrivalChain(f) PROVE Witnessed(start, 0, f[ArrivalBound])
    BY <1>2 DEF MapWitnessed
  <2>1. <<start, 0>> \in f[ArrivalBound]
    BY ArrivalsClosed DEF start
  <2> QED BY <1>1, <2>1, ArrivesWitnessed
<1> QED BY <1>5, <1>6

LEMMA NextInitMapInv == (ir \in Programs /\ StructureOk /\ AlignInit)' => (MapInv /\ MapWitnessed)'
BY InitMapInv, PTL

\* What the program decides stays as it is.
LEMMA StableAnalysis ==
  ASSUME UNCHANGED ir
  PROVE  /\ \A r, fields, n : Advance(r, fields, n)' = Advance(r, fields, n)
         /\ \A r, x, n : AdvanceAll(r, x, n)' = AdvanceAll(r, x, n)
         /\ \A q, r : ExitOf(q, r)' = ExitOf(q, r)
         /\ \A q : Successors(ir.states[q])' = Successors(ir.states[q])
         /\ ResidueMap' = ResidueMap
         /\ \A f : ArrivalChain(f)' = ArrivalChain(f)
         /\ ArrivalBound' = ArrivalBound
<1>1. \A r, fields, n : Advance(r, fields, n)' = Advance(r, fields, n)
  BY DEF Advance, AddMod, WidthMod8
<1>2. \A r, x, n : AdvanceAll(r, x, n)' = AdvanceAll(r, x, n)
  BY DEF AdvanceAll, Advance, FieldsOf, AddMod, WidthMod8
<1>3. \A q, r : ExitOf(q, r)' = ExitOf(q, r)
  BY DEF ExitOf, AdvanceAll, Advance, FieldsOf, AddMod, WidthMod8
<1>4. \A q : Successors(ir.states[q])' = Successors(ir.states[q])
  OBVIOUS
<1>5. ResidueMap' = ResidueMap
  BY DEF ResidueMap, KnownOrNot, Residue
<1>6. ArrivalBound' = ArrivalBound
  BY DEF ArrivalBound
<1>7. \A f : ArrivalChain(f)' = ArrivalChain(f)
  <2>1. Entries' = Entries
    BY DEF Entries
  <2>2. HandsOn' = HandsOn
    BY <1>3, <1>4, <2>1 DEF HandsOn
  <2> QED BY <1>6, <2>1, <2>2 DEF ArrivalChain, Reaches
<1> QED BY <1>1, <1>2, <1>3, <1>4, <1>5, <1>6, <1>7

\* A visit preserves the invariant of the worklist, and the reasons.
LEMMA AlignStateMapInv ==
  ASSUME MapInv, MapWitnessed, ir \in Programs, StructureOk, AlignState
  PROVE  MapInv' /\ MapWitnessed'
<1> DEFINE q == Last(todo)
           rest == Front(todo)
           exit == ExitOf(q, align[q])
           base == [align |-> align, todo |-> rest]
           T == TargetList(ir.states[q])
           N == Len(T)
<1>1. todo # <<>> /\ UNCHANGED ir
  BY DEF AlignState
<1>2. /\ rest \in Seq(DOMAIN ir.states) /\ q \in DOMAIN ir.states
      /\ ToSet(todo) = ToSet(rest) \cup {q}
  BY <1>1, PopSet DEF MapInv
<1>3. align \in ResidueMap /\ ToSet(todo) \subseteq DOMAIN align /\ q \in DOMAIN align
  <2>1. align \in ResidueMap /\ ToSet(todo) \subseteq DOMAIN align
    BY DEF MapInv
  <2> HIDE DEF q, rest
  <2> QED BY <1>2, <2>1
<1>4. \A p \in DOMAIN align : align[p] \in KnownOrNot /\ p \in DOMAIN ir.states
  BY <1>3 DEF ResidueMap
<1>5. exit \in KnownOrNot
  BY <1>2, <1>3, <1>4, ExitTypes
<1>6. base \in Worklist
  BY <1>2, <1>3 DEF Worklist
<1>7. PICK F : VisitFollows(F, base, q, exit) /\ Visited(q, rest) = F[N]
  BY <1>2, <1>5, <1>6, VisitedUnfolds
<1>8. align' = F[N].align /\ todo' = F[N].todo
  BY <1>7 DEF AlignState
<1>9. N \in Nat /\ \A t \in Successors(ir.states[q]) :
                     \E m \in 1..N : T[m].kind = "state" /\ T[m].name = t
  <2> DEFINE s == ir.states[q]
  <2>1. N \in Nat /\ \A t \in TargetsOf(s) : \E n \in 1..N : T[n] = t
    BY <1>2, TargetListIs
  <2>2. \A t \in Successors(s) : \E u \in TargetsOf(s) : u.kind = "state" /\ u.name = t
    BY DEF Successors
  <2> HIDE DEF q, s, T, N
  <2>3. \A t \in Successors(s) : \E m \in 1..N : T[m].kind = "state" /\ T[m].name = t
    BY <2>1, <2>2
  <2> QED BY <2>1, <2>3 DEF s
<1>10. F[N] \in Worklist
  BY <1>7, <1>9 DEF VisitFollows
<1>11. Spread(F[N], q, exit, rest, N)
  <2>1. ToSet(rest) \subseteq DOMAIN align
    BY <1>2, <1>3
  <2> QED BY <1>2, <1>5, <1>7, <2>1, SpreadVisit
<1>12. /\ ToSet(rest) \subseteq ToSet(todo')
       /\ ToSet(todo') \subseteq DOMAIN align'
       /\ \A p \in DOMAIN align : p \in DOMAIN align' /\ align'[p] \in {Unknown, align[p]}
       /\ \A p \in DOMAIN align' : p \notin ToSet(todo') => p \in DOMAIN align /\ align'[p] = align[p]
       /\ \A m \in 1..N : T[m].kind = "state" =>
            T[m].name \in DOMAIN align' /\ align'[T[m].name] \in {Unknown, exit}
  BY <1>8, <1>11 DEF Spread
<1> HIDE DEF exit, base, T, N, rest
<1>13. ASSUME NEW p \in DOMAIN align', p \notin ToSet(todo')
       PROVE  Handed(p)'
  <2>1. p \in DOMAIN align /\ align'[p] = align[p]
    BY <1>12, <1>13
  <2> SUFFICES ASSUME NEW t \in Successors(ir.states[p])
               PROVE  t \in DOMAIN align' /\ align'[t] \in {Unknown, ExitOf(p, align[p])}
    BY <1>1, <2>1, StableAnalysis DEF Handed
  <2>2. CASE p = q
    BY <1>9, <1>12, <2>2 DEF exit
  <2>3. CASE p # q
    <3>1. p \notin ToSet(todo)
      BY <1>2, <1>12, <1>13, <2>3
    <3>2. t \in DOMAIN align /\ align[t] \in {Unknown, ExitOf(p, align[p])}
      BY <2>1, <3>1 DEF MapInv, Handed
    <3> QED BY <1>12, <3>2
  <2> QED BY <2>2, <2>3
<1>14. MapInv'
  <2>1. align' \in ResidueMap' /\ todo' \in Seq(DOMAIN ir'.states)
    BY <1>1, <1>8, <1>10, StableAnalysis DEF Worklist
  <2>2. ir'.start_state \in DOMAIN align' /\ align'[ir'.start_state] \in {0, Unknown}
    BY <1>1, <1>12 DEF MapInv
  <2> QED BY <1>12, <1>13, <2>1, <2>2 DEF MapInv
<1>15. MapWitnessed'
  <2> SUFFICES ASSUME NEW f, ArrivalChain(f)
               PROVE  \A p \in DOMAIN align' : Witnessed(p, align'[p], f[ArrivalBound])
    BY <1>1, StableAnalysis DEF MapWitnessed, Witnessed, KnownOrNot, Residue, Apart
  <2> DEFINE A == f[ArrivalBound]
  <2>1. ClosedWalks(A)
    BY ArrivalsClosed DEF ClosedWalks
  <2>2. \A p \in DOMAIN align : Witnessed(p, align[p], A)
    BY DEF MapWitnessed
  <2> HIDE DEF A
  <2>3. \A t \in Successors(ir.states[q]) : Witnessed(t, exit, A)
    BY <1>2, <1>3, <1>4, <2>1, <2>2, HandsOnWitnessed DEF exit
  <2>4. base.align = align
    BY DEF base
  <2>5. \A p \in DOMAIN F[N].align : Witnessed(p, F[N].align[p], A)
    BY <1>2, <1>5, <1>6, <1>7, <2>2, <2>3, <2>4, WitnessedVisit DEF N, T
  <2> QED BY <1>8, <2>5 DEF A
<1> QED BY <1>14, <1>15

LEMMA UnchangedMapInv ==
  ASSUME UNCHANGED <<ir, alignment>>
  PROVE  /\ MapInv' = MapInv
         /\ MapWitnessed' = MapWitnessed
<1>1. UNCHANGED <<ir, align, todo>>
  BY DEF alignment
<1>2. MapInv' = MapInv
  BY <1>1, StableAnalysis DEF MapInv, Handed
<1>3. MapWitnessed' = MapWitnessed
  BY <1>1, StableAnalysis DEF MapWitnessed, Witnessed
<1> QED BY <1>2, <1>3

----------------------------------------------------------------------------
(* The runs of an analysed program.                                        *)

\* What the analysis says before the extract the run is at, and what it says of
\* the field it is at.
ResidueHere == AdvanceAll(align[current], St.extracts, ExtractsRead)
FieldResidue == Advance(ResidueHere, Fields, fx - 1)

CursorTold ==
  Live =>
    /\ current \in DOMAIN align
    /\ IF pc = "field" THEN Tells(ResidueHere, entry_cursor) /\ Tells(FieldResidue, cursor_bits)
       ELSE Tells(ResidueHere, cursor_bits)

\* A run that validation and a finished analysis license.
Analysed == VInv /\ vpc = "valid" /\ RunInv /\ MapInv /\ todo = <<>>

LEMMA AdvanceAllZero ==
  ASSUME NEW r \in KnownOrNot, NEW extracts
  PROVE  AdvanceAll(r, extracts, 0) = r
<1>1. ExtractsTyped(extracts, 0)
  BY DEF ExtractsTyped
<1> QED BY <1>1, AdvanceAllUnfolds

LEMMA RunResidues ==
  ASSUME Analysed, CursorTold, Live
  PROVE  /\ current \in DOMAIN align /\ align[current] \in KnownOrNot
         /\ current \in DOMAIN ir.states
         /\ NExtracts \in Nat /\ ExtractsTyped(St.extracts, NExtracts)
         /\ ExtractsRead \in 0..NExtracts
         /\ cursor_bits \in Nat /\ entry_cursor \in Nat
         /\ ResidueHere \in KnownOrNot
         /\ pc = "field" => /\ ix \in 1..NExtracts /\ ExtractsRead = ix - 1
                            /\ Fields \in HeaderType /\ Len(Fields) \in Nat
                            /\ Widths(Fields, Len(Fields))
                            /\ fx - 1 \in 0..Len(Fields)
                            /\ FieldResidue \in KnownOrNot
<1>1. current \in DOMAIN align
  BY DEF CursorTold
<1>2. align[current] \in KnownOrNot
  BY <1>1 DEF Analysed, MapInv, ResidueMap
<1>3. /\ current \in DOMAIN ir.states /\ NExtracts \in Nat /\ ix \in Nat \ {0} /\ fx \in Nat \ {0}
      /\ pc = "field" => ix <= NExtracts
  BY LiveState DEF Analysed
<1>4. StructureOk /\ ir \in Programs
  BY Licensed DEF Analysed, VInv
<1>5. ExtractsTyped(St.extracts, NExtracts)
  BY <1>3, <1>4, StateExtracts DEF St, NExtracts
<1>6. ExtractsRead \in 0..NExtracts
  BY <1>3 DEF ExtractsRead
<1>7. cursor_bits \in Nat /\ entry_cursor \in Nat
  BY DEF Analysed, RunInv, IInv, TypeOK
<1>8. ResidueHere \in KnownOrNot
  BY <1>2, <1>3, <1>5, <1>6, AdvanceAllUnfolds DEF ResidueHere
<1>9. ASSUME pc = "field"
      PROVE  /\ ix \in 1..NExtracts /\ ExtractsRead = ix - 1
             /\ Fields \in HeaderType /\ Len(Fields) \in Nat
             /\ Widths(Fields, Len(Fields))
             /\ fx - 1 \in 0..Len(Fields)
             /\ FieldResidue \in KnownOrNot
  <2>1. ix \in 1..NExtracts /\ ExtractsRead = ix - 1
    BY <1>3, <1>9 DEF ExtractsRead
  <2>2. Fields \in HeaderType
    BY <1>9, FieldTypes DEF Analysed, RunInv, IInv
  <2>3. Len(Fields) \in Nat /\ Widths(Fields, Len(Fields))
    BY <2>2, HeaderWidths
  <2>4. fx - 1 \in 0..Len(Fields)
    BY <1>3, <1>9, <2>3 DEF Analysed, RunInv, PositionOK
  <2>5. FieldResidue \in KnownOrNot
    BY <1>8, <2>3, <2>4, AdvanceUnfolds DEF FieldResidue
  <2> QED BY <2>1, <2>2, <2>3, <2>4, <2>5
<1> QED BY <1>1, <1>2, <1>3, <1>5, <1>6, <1>7, <1>8, <1>9

\* Before the first extract the residue is the one at the entry.
LEMMA EntersTold ==
  ASSUME UNCHANGED <<ir, align>>, align \in ResidueMap, pc' = "enter", current' \in DOMAIN align,
         Tells(align[current'], cursor_bits')
  PROVE  CursorTold'
<1>1. align[current'] \in KnownOrNot
  BY DEF ResidueMap
<1>2. ExtractsRead' = 0
  BY DEF ExtractsRead
<1>3. ResidueHere' = AdvanceAll(align'[current'], ir'.states[current'].extracts, 0)
  BY <1>2, StableAnalysis DEF ResidueHere, St
<1>4. ResidueHere' = align[current']
  BY <1>1, <1>3, AdvanceAllZero
<1> QED BY <1>4 DEF CursorTold, Tells

\* A step that moves neither the cursor nor the position before the extracts.
LEMMA StaysTold ==
  ASSUME CursorTold, UNCHANGED <<ir, align, current, cursor_bits, ExtractsRead>>,
         pc \in {"enter", "body"}, pc' = "body"
  PROVE  CursorTold'
<1>1. ResidueHere' = ResidueHere
  BY StableAnalysis DEF ResidueHere, St
<1> QED BY <1>1 DEF CursorTold, Live, Tells

LEMMA EndsTold == (pc' = "done") => CursorTold'
BY DEF CursorTold, Live

LEMMA BeginExtractTold ==
  ASSUME Analysed, CursorTold, UNCHANGED align, BeginExtract
  PROVE  CursorTold'
<1>1. /\ pc = "body" /\ ix <= NExtracts /\ pc' = "field" /\ fx' = 1 /\ entry_cursor' = cursor_bits
      /\ UNCHANGED <<ir, ix, current, cursor_bits>> /\ Live
  BY DEF BeginExtract, AtExtract, Live
<1>2. UNCHANGED <<ExtractsRead, ResidueHere>>
  <2>1. UNCHANGED <<St, NExtracts>>
    BY <1>1 DEF St, NExtracts
  <2>2. ExtractsRead' = ExtractsRead
    BY <1>1, <2>1 DEF ExtractsRead
  <2> QED BY <1>1, <2>1, <2>2, StableAnalysis DEF ResidueHere
<1>3. ResidueHere \in KnownOrNot /\ Tells(ResidueHere, cursor_bits)
  BY <1>1, RunResidues DEF CursorTold
<1>4. FieldResidue' = ResidueHere
  <2>1. fx' - 1 = 0
    BY <1>1
  <2>2. FieldResidue' = Advance(ResidueHere, Fields', 0)
    BY <1>1, <1>2, <2>1, StableAnalysis DEF FieldResidue
  <2>3. \A fields : Advance(ResidueHere, fields, 0) = ResidueHere
    <3> TAKE fields
    <3>1. Widths(fields, 0)
      BY DEF Widths
    <3> QED BY <1>3, <3>1, AdvanceUnfolds
  <2> QED BY <2>2, <2>3
<1> QED BY <1>1, <1>2, <1>3, <1>4 DEF CursorTold, Tells

\* A field read moves the cursor by its width.
LEMMA ReadsTold ==
  ASSUME Analysed, CursorTold, UNCHANGED <<ir, align, ix, current, entry_cursor, pc>>,
         pc = "field", fx <= Len(Fields), fx' = fx + 1, NEW len \in Nat,
         cursor_bits' = cursor_bits + len, Tells(WidthMod8(Width), len)
  PROVE  CursorTold'
<1>1. /\ ResidueHere \in KnownOrNot /\ FieldResidue \in KnownOrNot
      /\ Len(Fields) \in Nat /\ Widths(Fields, Len(Fields)) /\ fx - 1 \in 0..Len(Fields)
      /\ cursor_bits \in Nat /\ Tells(ResidueHere, entry_cursor) /\ Tells(FieldResidue, cursor_bits)
  BY RunResidues DEF CursorTold, Live
<1>2. UNCHANGED <<ResidueHere, Fields>>
  <2>1. UNCHANGED <<St, NExtracts, Fields>>
    BY DEF St, NExtracts, Fields, Ex
  <2>2. ExtractsRead' = ExtractsRead
    BY <2>1 DEF ExtractsRead
  <2> QED BY <2>1, <2>2, StableAnalysis DEF ResidueHere
<1>3. fx \in Nat \ {0} /\ fx \in 0..Len(Fields) /\ fx' - 1 = fx /\ fx # 0
  BY <1>1 DEF Analysed, RunInv, IInv, TypeOK
<1>4. FieldResidue' = AddMod(FieldResidue, WidthMod8(Width))
  <2>1. FieldResidue' = Advance(ResidueHere, Fields, fx)
    BY <1>2, <1>3, StableAnalysis DEF FieldResidue
  <2>2. Advance(ResidueHere, Fields, fx) =
          AddMod(Advance(ResidueHere, Fields, fx - 1), WidthMod8(Fields[fx]))
    BY <1>1, <1>3, AdvanceUnfolds
  <2> QED BY <2>1, <2>2 DEF FieldResidue, Width
<1>5. Tells(FieldResidue', cursor_bits')
  <2>1. cursor_bits \in Int /\ len \in Int
    BY <1>1
  <2> QED BY <1>1, <1>4, <2>1, AddModTells
<1> QED BY <1>1, <1>2, <1>5 DEF CursorTold, Tells, Live

LEMMA ReadFixedTold ==
  ASSUME Analysed, CursorTold, UNCHANGED align, ReadFixed
  PROVE  CursorTold'
<1>1. /\ pc = "field" /\ fx <= Len(Fields) /\ Width.kind = "bits"
      /\ UNCHANGED <<ir, ix, current, entry_cursor>>
  BY DEF ReadFixed, AtFixed
<1>2. CASE cursor_bits' = cursor_bits + Width.bits /\ fx' = fx + 1 /\ UNCHANGED pc
  <2>1. Width.bits \in Nat
    BY <1>1, FieldTypes DEF Analysed, RunInv, IInv, FieldWidth
  <2>2. Tells(WidthMod8(Width), Width.bits)
    BY <1>1 DEF WidthMod8, Tells
  <2> QED BY <1>1, <1>2, <2>1, <2>2, ReadsTold
<1>3. CASE pc' = "done"
  BY <1>3, EndsTold
<1> QED BY <1>2, <1>3, Zenon DEF ReadFixed, Finish

LEMMA ReadRunFieldTold ==
  ASSUME Analysed, CursorTold, UNCHANGED align, ReadRunField
  PROVE  CursorTold'
<1>1. /\ pc = "field" /\ fx <= Len(Fields) /\ Width.kind = "bit_len" /\ RunLength # Undef
      /\ UNCHANGED <<ir, ix, current, entry_cursor>>
  BY Zenon DEF ReadRunField, AtRun
<1> DEFINE end == CheckedAdd(RunLength, cursor_bits)
<1>2. CASE end # Undef /\ cursor_bits' = end /\ fx' = fx + 1 /\ UNCHANGED pc
  <2>1. /\ cursor_bits \in Nat /\ TypeOK
    BY DEF Analysed, RunInv, IInv, TypeOK
  <2>2. Width.expr \in Exprs
    BY <1>1, FieldTypes DEF Analysed, RunInv, IInv, FieldWidth
  <2>3. RunLength \in Word
    BY <1>1, EvalExprType DEF RunLength
  <2>4. cursor_bits' = cursor_bits + RunLength /\ RunLength \in Nat
    BY <1>2, <2>1, <2>3, CheckedAddProperties, WordProperties
  <2>5. Tells(ExprMod8(Width.expr), RunLength)
    BY <1>1, <2>1, <2>2, ExprMod8Tells DEF RunLength, TypeOK
  <2>6. Tells(WidthMod8(Width), RunLength)
    BY <1>1, <2>5 DEF WidthMod8
  <2> QED BY <1>1, <1>2, <2>4, <2>6, ReadsTold
<1>3. CASE pc' = "done"
  BY <1>3, EndsTold
<1> QED BY <1>2, <1>3, Zenon DEF ReadRunField, Finish

\* The end of an extract: all of its fields, or none where it is a lookahead.
LEMMA EndExtractTold ==
  ASSUME Analysed, CursorTold, UNCHANGED align, EndExtract
  PROVE  CursorTold'
<1>1. /\ pc = "field" /\ fx = Len(Fields) + 1 /\ pc' = "body" /\ ix' = ix + 1 /\ Live
      /\ cursor_bits' = IF Ex.lookahead THEN entry_cursor ELSE cursor_bits
      /\ UNCHANGED <<ir, current>>
  BY DEF EndExtract, Live
<1>2. /\ NExtracts \in Nat /\ ExtractsTyped(St.extracts, NExtracts) /\ align[current] \in KnownOrNot
      /\ ix \in 1..NExtracts /\ ExtractsRead = ix - 1 /\ Len(Fields) \in Nat
      /\ Tells(ResidueHere, entry_cursor) /\ Tells(FieldResidue, cursor_bits)
  BY <1>1, RunResidues DEF CursorTold
<1>3. UNCHANGED <<St, NExtracts>> /\ ExtractsRead' = ix
  <2>1. UNCHANGED <<St, NExtracts>>
    BY <1>1 DEF St, NExtracts
  <2> QED BY <1>1, <1>2, <2>1 DEF ExtractsRead
<1>4. ResidueHere' = After(ResidueHere, Ex)
  <2>1. ResidueHere' = AdvanceAll(align[current], St.extracts, ix)
    BY <1>1, <1>3, StableAnalysis DEF ResidueHere
  <2>2. ix \in 0..NExtracts /\ ix # 0
    BY <1>2
  <2>3. AdvanceAll(align[current], St.extracts, ix) =
          After(AdvanceAll(align[current], St.extracts, ix - 1), St.extracts[ix])
    BY <1>2, <2>2, AdvanceAllUnfolds
  <2> QED BY <1>2, <2>1, <2>3 DEF ResidueHere, Ex
<1>5. After(ResidueHere, Ex) = IF Ex.lookahead THEN ResidueHere ELSE FieldResidue
  <2>1. fx - 1 = Len(Fields) /\ FieldsOf(Ex) = Fields
    BY <1>1, <1>2 DEF FieldsOf, Fields
  <2> QED BY <2>1 DEF After, FieldResidue
<1> QED BY <1>1, <1>2, <1>4, <1>5 DEF CursorTold, Tells

\* The state a run goes to has the residue the run leaves with, or none.
LEMMA GotoTold ==
  ASSUME Analysed, CursorTold, UNCHANGED <<ir, align, cursor_bits>>, AtTransition,
         NEW t \in TargetsOf(St), Goto(t)
  PROVE  CursorTold'
<1>1. pc = "body" /\ ix = NExtracts + NAssigns + NOps + 1 /\ Live
  BY DEF AtTransition, Live
<1>2. CASE t.kind = "state" /\ current' = t.name /\ pc' = "enter"
  <2>1. t.name \in Successors(ir.states[current])
    BY <1>2 DEF Successors, St
  <2>2. current \in DOMAIN align /\ Tells(ResidueHere, cursor_bits)
    BY <1>1 DEF CursorTold
  <2>3. ResidueHere = ExitOf(current, align[current])
    <3>1. NExtracts \in Nat /\ NAssigns \in Nat /\ NOps \in Nat
      BY <1>1, LiveState DEF Analysed
    <3>2. ExtractsRead = NExtracts
      BY <1>1, <3>1 DEF ExtractsRead
    <3> QED BY <3>2 DEF ResidueHere, ExitOf, St, NExtracts
  <2>4. Handed(current)
    <3>1. ToSet(todo) = {}
      BY DEF Analysed, ToSet
    <3> QED BY <2>2, <3>1 DEF Analysed, MapInv
  <2>5. t.name \in DOMAIN align /\ align[t.name] \in {Unknown, ResidueHere}
    BY <2>1, <2>3, <2>4 DEF Handed
  <2>6. Tells(align[t.name], cursor_bits')
    BY <2>2, <2>5 DEF Tells
  <2>7. align \in ResidueMap
    BY DEF Analysed, MapInv
  <2> QED BY <1>2, <2>5, <2>6, <2>7, EntersTold
<1>3. CASE pc' = "done"
  BY <1>3, EndsTold
<1> QED BY <1>2, <1>3, Zenon DEF Goto, RejectHere, Finish

LEMMA StepTold ==
  ASSUME Analysed, CursorTold, UNCHANGED align, Step
  PROVE  CursorTold'
<1>1. CASE EnterState
  <2>1. pc = "enter" /\ UNCHANGED <<ir, current, cursor_bits>>
    BY <1>1 DEF EnterState
  <2>2. CASE pc' = "body" /\ ix' = 1
    <3>1. NExtracts \in Nat /\ NExtracts' = NExtracts
      BY <2>1, RunResidues DEF Live, NExtracts, St
    <3>2. ExtractsRead' = ExtractsRead
      BY <2>1, <2>2, <3>1 DEF ExtractsRead
    <3> QED BY <2>1, <2>2, <3>2, StaysTold
  <2>3. CASE pc' = "done"
    BY <2>3, EndsTold
  <2> QED BY <1>1, <2>2, <2>3, Zenon DEF EnterState, RejectHere, Finish
<1>2. CASE BeginExtract
  BY <1>2, BeginExtractTold
<1>3. CASE ReadFixed
  BY <1>3, ReadFixedTold
<1>4. CASE ReadRunField
  BY <1>4, ReadRunFieldTold
<1>5. CASE EndExtract
  BY <1>5, EndExtractTold
<1>6. CASE AssignMetadata \/ PushRegion \/ PopRegion
  <2>1. /\ pc = "body" /\ ix > NExtracts /\ UNCHANGED <<ir, current, cursor_bits>>
        /\ pc' = "done" \/ (pc' = "body" /\ ix' = ix + 1)
    <3>1. Live
      BY <1>6 DEF AssignMetadata, PushRegion, PopRegion, AtAssign, AtRegionOp, Live
    <3>2. NExtracts \in Nat /\ NAssigns \in Nat /\ NOps \in Nat /\ ix \in Nat
      BY <3>1, LiveState DEF Analysed
    <3>3. /\ pc = "body" /\ UNCHANGED <<ir, current, cursor_bits>>
          /\ pc' = "done" \/ (pc' = "body" /\ ix' = ix + 1)
      BY <1>6 DEF AssignMetadata, PushRegion, PopRegion, AtAssign, AtRegionOp, RejectHere, Finish
    <3>4. ix > NExtracts
      <4>1. AtAssign \/ AtRegionOp
        BY <1>6 DEF AssignMetadata, PushRegion, PopRegion
      <4> QED BY <3>2, <4>1 DEF AtAssign, AtRegionOp
    <3> QED BY <3>3, <3>4
  <2>2. CASE pc' = "body" /\ ix' = ix + 1
    <3>1. NExtracts \in Nat /\ NExtracts' = NExtracts /\ ix \in Nat
      BY <2>1, LiveState DEF Analysed, Live, NExtracts, St
    <3>2. ExtractsRead' = ExtractsRead
      BY <2>1, <2>2, <3>1 DEF ExtractsRead
    <3> QED BY <2>1, <2>2, <3>2, StaysTold
  <2> QED BY <2>1, <2>2, EndsTold
<1>7. CASE TakeDirect
  <2>1. AtTransition /\ Goto(St.transition.next) /\ UNCHANGED <<ir, cursor_bits>>
    BY <1>7 DEF TakeDirect
  <2>2. St.transition.next \in TargetsOf(St)
    BY <1>7 DEF TakeDirect, TargetsOf
  <2> QED BY <2>1, <2>2, GotoTold
<1>8. CASE TakeSelect
  <2>1. AtTransition /\ St.transition.kind = "select" /\ UNCHANGED <<ir, cursor_bits>>
    BY <1>8 DEF TakeSelect
  <2>2. CASE MatchingArms # {} /\ Goto(St.transition.arms[Min(MatchingArms)].next)
    <3>1. St \in State
      BY <2>1, LiveState DEF AtTransition, Live, Analysed
    <3>2. MatchingArms \in SUBSET Nat /\ MatchingArms \subseteq DOMAIN St.transition.arms
      BY <2>1, <3>1 DEF MatchingArms, State, Transition
    <3>3. Min(MatchingArms) \in DOMAIN St.transition.arms
      BY <2>2, <3>2, MinIn
    <3>4. St.transition.arms[Min(MatchingArms)].next \in TargetsOf(St)
      BY <2>1, <3>3 DEF TargetsOf
    <3> QED BY <2>1, <2>2, <3>4, GotoTold
  <2>3. CASE pc' = "done"
    BY <2>3, EndsTold
  <2>4. CASE Goto(St.transition.default_target)
    <3>1. St.transition.default_target \in TargetsOf(St)
      BY <2>1 DEF TargetsOf
    <3> QED BY <2>1, <2>4, <3>1, GotoTold
  <2> QED BY <1>8, <2>2, <2>3, <2>4, Zenon DEF TakeSelect, RejectHere, Finish
<1>9. CASE Malformed
  BY <1>9, EndsTold DEF Malformed, Finish
<1> QED BY <1>1, <1>2, <1>3, <1>4, <1>5, <1>6, <1>7, <1>8, <1>9, Zenon DEF Step

----------------------------------------------------------------------------
(* The invariant of the analysed runs.                                     *)

AInv ==
  /\ PInv
  /\ vpc # "valid" => AlignInit
  /\ vpc = "valid" => MapInv /\ MapWitnessed
  /\ pc # "idle" => todo = <<>> /\ CursorTold

LEMMA InitAInv == AlignedInit => AInv
<1> SUFFICES ASSUME AlignedInit PROVE AInv
  OBVIOUS
<1>1. PInv /\ AlignInit
  BY InitPInv DEF AlignedInit
<1>2. vpc # "valid" /\ pc = "idle"
  BY DEF AlignedInit, PipelineInit, ValidatorInit
<1> QED BY <1>1, <1>2 DEF AInv

\* A step of the whole is one of the pipeline, or leaves the pipeline alone.
LEMMA AlignedStep ==
  ASSUME [AlignedNext]_<<pipeline, alignment>>
  PROVE  [PipelineNext]_pipeline
<1>1. CASE Analyse
  BY <1>1 DEF Analyse, AlignState, pipeline, vars
<1>2. CASE UNCHANGED <<pipeline, alignment>>
  BY <1>2
<1>3. CASE Validate \/ StartRun \/ Run \/ Finished
  BY <1>3, Zenon DEF PipelineNext
<1> QED BY <1>1, <1>2, <1>3, Zenon DEF AlignedNext

\* What validation leaves to the analysis.
LEMMA ValidStructure ==
  ASSUME PInv, vpc = "valid"
  PROVE  ir \in Programs /\ StructureOk /\ VInv
BY Licensed DEF PInv, VInv

LEMMA StableCursorTold ==
  ASSUME UNCHANGED <<pipeline, alignment>>
  PROVE  CursorTold' = CursorTold
<1>1. UNCHANGED <<ir, pc, ix, fx, current, cursor_bits, entry_cursor, align>>
  BY DEF pipeline, vars, machine, alignment
<1>2. UNCHANGED <<St, NExtracts, Ex, Fields, Live>>
  BY <1>1 DEF St, NExtracts, Ex, Fields, Live
<1>3. ExtractsRead' = ExtractsRead
  BY <1>1, <1>2 DEF ExtractsRead
<1>4. UNCHANGED <<ResidueHere, FieldResidue>>
  <2>1. ResidueHere' = ResidueHere
    BY <1>1, <1>2, <1>3, StableAnalysis DEF ResidueHere
  <2> QED BY <1>1, <1>2, <2>1, StableAnalysis DEF FieldResidue
<1> QED BY <1>1, <1>2, <1>4 DEF CursorTold, Tells

LEMMA NextAInv ==
  ASSUME AInv, [AlignedNext]_<<pipeline, alignment>>
  PROVE  AInv'
<1>1. PInv'
  BY AlignedStep, NextPInv DEF AInv
<1>2. CASE Validate /\ UNCHANGED alignment
  <2>1. vpc # "valid" /\ UNCHANGED <<ir, pc, align, todo>>
    BY <1>2 DEF Validate, ValidateStep, CheckStructure, SweepState, EndSweep, CheckUses, VisitState,
                AcceptProgram, machine, alignment
  <2>2. pc = "idle" /\ AlignInit
    BY <2>1 DEF AInv, PInv
  <2>3. AlignInit'
    BY <2>1, <2>2 DEF AlignInit
  <2>4. vpc' = "valid" => (ir \in Programs /\ StructureOk)'
    BY <1>1 DEF PInv, VInv, StructureFacts
  <2>5. vpc' = "valid" => MapInv' /\ MapWitnessed'
    BY <2>3, <2>4, NextInitMapInv
  <2> QED BY <1>1, <2>1, <2>2, <2>3, <2>5 DEF AInv
<1>3. CASE Analyse
  <2>1. vpc = "valid" /\ AlignState /\ UNCHANGED <<pc, vpc>> /\ todo # <<>>
    BY <1>3 DEF Analyse, AlignState, machine, validator
  <2>2. MapInv /\ MapWitnessed /\ ir \in Programs /\ StructureOk /\ pc = "idle"
    BY <2>1, ValidStructure DEF AInv
  <2>3. MapInv' /\ MapWitnessed'
    BY <2>1, <2>2, AlignStateMapInv
  <2> QED BY <1>1, <2>1, <2>2, <2>3 DEF AInv
<1>4. CASE Aligned /\ StartRun /\ UNCHANGED alignment
  <2>1. /\ vpc = "valid" /\ pc = "idle" /\ pc' = "enter" /\ todo = <<>>
        /\ UNCHANGED <<ir, current, cursor_bits, vpc, align, todo>>
    BY <1>4 DEF Aligned, StartRun, validator, alignment
  <2>2. MapInv /\ MapWitnessed /\ MapInv' /\ MapWitnessed'
    BY <1>4, <2>1, UnchangedMapInv DEF AInv
  <2>3. current = ir.start_state /\ cursor_bits = 0
    BY <2>1 DEF AInv, PInv, Fresh
  <2>4. align[current] \in {0, Unknown} /\ current \in DOMAIN align /\ align \in ResidueMap
    BY <2>2, <2>3 DEF MapInv
  <2>5. Tells(align[current], cursor_bits)
    <3>1. 0 % ByteBits = 0
      BY ByteBitsType
    <3> QED BY <2>3, <2>4, <3>1 DEF Tells
  <2>6. CursorTold'
    BY <2>1, <2>4, <2>5, EntersTold
  <2> QED BY <1>1, <2>1, <2>2, <2>6 DEF AInv
<1>5. CASE Run /\ UNCHANGED alignment
  <2>1. Step /\ UNCHANGED <<validator, align, todo>>
    BY <1>5 DEF Run, alignment
  <2>2. pc # "idle" /\ UNCHANGED ir
    BY <2>1 DEF Step, EnterState, BeginExtract, ReadFixed, ReadRunField, EndExtract, AssignMetadata,
                PushRegion, PopRegion, TakeDirect, TakeSelect, Malformed, StepMalformed, AtExtract,
                AtFixed, AtRun, AtAssign, AtRegionOp, AtTransition
  <2>3. vpc = "valid" /\ vpc' = "valid" /\ Analysed /\ CursorTold /\ MapWitnessed
    BY <2>1, <2>2 DEF AInv, PInv, Analysed, validator
  <2>4. CursorTold'
    BY <2>1, <2>3, StepTold
  <2>5. MapInv' /\ MapWitnessed'
    BY <1>5, <2>2, <2>3, UnchangedMapInv DEF Analysed
  <2> QED BY <1>1, <2>1, <2>3, <2>4, <2>5 DEF AInv, Analysed
<1>6. CASE UNCHANGED <<pipeline, alignment>>
  <2>1. UNCHANGED <<ir, vpc, pc, align, todo>>
    BY <1>6 DEF pipeline, vars, machine, validator, alignment
  <2>2. AlignInit' = AlignInit
    BY <2>1 DEF AlignInit
  <2>3. MapInv' = MapInv /\ MapWitnessed' = MapWitnessed
    BY <1>6, <2>1, UnchangedMapInv
  <2>4. CursorTold' = CursorTold
    BY <1>6, StableCursorTold
  <2> QED BY <1>1, <2>1, <2>2, <2>3, <2>4 DEF AInv
<1> QED BY <1>2, <1>3, <1>4, <1>5, <1>6, Zenon DEF AlignedNext, Finished

\* The invariant of the analysed runs holds in every state of every validation,
\* of the analysis that follows it, and of every run after that.
THEOREM AnalysisInvariance == AlignedSpec => []AInv
BY InitAInv, NextAInv, PTL DEF AlignedSpec

\* The analysis is an addition to the pipeline: what holds of validation and of
\* the runs it licenses holds with the analysis in between.
THEOREM AlignedImplementsPipeline == AlignedSpec => PipelineSpec
<1>1. AlignedInit => PipelineInit
  BY DEF AlignedInit
<1> QED BY <1>1, AlignedStep, PTL DEF AlignedSpec, PipelineSpec

\* What the invariant says of the position of the cursor.
LEMMA AlignedHere ==
  ASSUME AInv
  PROVE  AlignmentHolds
<1>1. ASSUME vpc = "valid", pc = "enter"
      PROVE  current \in DOMAIN align /\ align[current] \in {Unknown, cursor_bits % ByteBits}
  <2>1. current \in DOMAIN align /\ Tells(ResidueHere, cursor_bits) /\ MapInv
    BY <1>1 DEF AInv, CursorTold, Live
  <2>2. align[current] \in KnownOrNot
    BY <2>1 DEF MapInv, ResidueMap
  <2>3. ResidueHere = align[current]
    <3>1. ExtractsRead = 0
      BY <1>1 DEF ExtractsRead
    <3> QED BY <2>2, <3>1, AdvanceAllZero DEF ResidueHere
  <2> QED BY <2>1, <2>3 DEF Tells
<1>2. ASSUME pc = "field", fx <= Len(Fields), FirstInState
      PROVE  /\ FieldAlignment(current, InstanceOf(Ex), fx) \in {Unknown, cursor_bits % ByteBits}
             /\ (AtRun /\ RunOfBytes(current, InstanceOf(Ex), fx) /\ RunLength # Undef) =>
                  RunLength % ByteBits = 0
  <2> DEFINE i == InstanceOf(Ex)
             extracts == ir.states[current].extracts
             these == {k \in DOMAIN extracts : InstanceOf(extracts[k]) = i}
  <2>1. Analysed /\ CursorTold /\ Live /\ StructureOk
    BY <1>2, ValidStructure DEF AInv, PInv, Analysed, Live
  <2>2. /\ NExtracts \in Nat /\ ix \in 1..NExtracts /\ ExtractsRead = ix - 1
        /\ DOMAIN extracts = 1..NExtracts /\ \A k \in 1..NExtracts : extracts[k] \in Extracts
        /\ current \in DOMAIN align /\ Tells(FieldResidue, cursor_bits)
    BY <1>2, <2>1, RunResidues, LiveState DEF Analysed, CursorTold, St
  <2>3. Min(these) = ix
    <3>1. ix \in these
      BY <2>2 DEF Ex, St
    <3>2. \A k \in these : ix <= k
      <4> TAKE k \in these
      <4>1. k \in 1..NExtracts
        BY <2>2
      <4>2. k \notin 1..(ix - 1)
        BY <1>2 DEF FirstInState, St
      <4> QED BY <2>2, <4>1, <4>2
    <3>3. \A k \in these : k \in Nat
      BY <2>2
    <3> HIDE DEF these
    <3>4. /\ Min(these) \in these
          /\ \A k \in these : Min(these) <= k
      BY <3>1, <3>2 DEF Min
    <3> QED BY <3>1, <3>2, <3>3, <3>4
  <2>4. FieldAlignment(current, i, fx) \in {Unknown, FieldResidue}
    <3>1. extracts[ix] = Ex /\ FieldsOf(extracts[ix]) = Fields /\ St.extracts = extracts
      BY DEF Ex, St, FieldsOf, Fields
    <3>2. FieldAlignment(current, i, fx) =
            IF current \notin DOMAIN align \/ align[current] = Unknown THEN Unknown
            ELSE Advance(AdvanceAll(align[current], extracts, Min(these) - 1),
                         FieldsOf(extracts[Min(these)]), fx - 1)
      BY Zenon DEF FieldAlignment
    <3> HIDE DEF these, extracts, i
    <3> QED BY <2>2, <2>3, <3>1, <3>2 DEF FieldResidue, ResidueHere
  <2>5. ASSUME AtRun, RunOfBytes(current, i, fx), RunLength # Undef
        PROVE  RunLength % ByteBits = 0
    <3> DEFINE ex == CHOOSE ex \in ToSet(extracts) : InstanceOf(ex) = i
    <3>1. Ex \in ToSet(extracts) /\ Ex \in Extracts
      BY <2>2 DEF ToSet, Ex, St
    <3>2. ex \in ToSet(extracts) /\ InstanceOf(ex) = i
      BY <3>1
    <3>3. ex \in Extracts
      BY <2>2, <3>2 DEF ToSet
    <3>4. ExprMod8(FieldsOf(ex)[fx].expr) = 0
      BY <2>5 DEF RunOfBytes
    <3> HIDE DEF ex
    <3>5. FieldsOf(ex) = Fields
      BY <2>1, <3>1, <3>2, <3>3 DEF StructureOk, InstancesOk, FieldsOf, Fields
    <3>6. Width.expr \in Exprs /\ TypeOK
      BY <1>2, <2>1, <2>5, FieldTypes DEF AtRun, Analysed, RunInv, IInv, FieldWidth
    <3>7. Tells(ExprMod8(Width.expr), RunLength)
      BY <2>5, <3>6, ExprMod8Tells DEF RunLength, TypeOK
    <3> QED BY <3>4, <3>5, <3>7 DEF Tells, Width, Unknown
  <2>6. FieldAlignment(current, i, fx) \in {Unknown, cursor_bits % ByteBits}
    BY <2>2, <2>4 DEF Tells
  <2> QED BY <2>5, <2>6
<1> QED BY <1>1, <1>2, Zenon DEF AlignmentHolds

\* No run contradicts the analysis: it enters a state with the residue announced,
\* a field read for the first time in its state lies where the analysis says, and
\* a run of bits taken for a range of bytes is one, lengths that wrap included.
THEOREM AlignmentSound == AlignedSpec => []AlignmentHolds
BY AlignedHere, AnalysisInvariance, PTL

\* When the worklist is empty, the map has exactly the states that walks of the
\* state graph reach, with the residue all of them arrive with, or with none where
\* two walks disagree; whatever the order in which states were visited.
THEOREM AlignmentExact == AlignedSpec => []AlignmentIsExact
<1>1. ASSUME AInv PROVE AlignmentIsExact
  <2> SUFFICES ASSUME vpc = "valid", Aligned, pc = "idle", NEW q \in DOMAIN ir.states
               PROVE  LET residues == {a[2] : a \in {a \in Arrivals : a[1] = q}}
                      IN IF residues = {} THEN q \notin DOMAIN align
                         ELSE align[q] = IF Cardinality(residues) = 1
                                         THEN CHOOSE r \in residues : TRUE
                                         ELSE Unknown
    BY Zenon DEF AlignmentIsExact
  <2> DEFINE residues == {a[2] : a \in {a \in Arrivals : a[1] = q}}
  <2>1. MapInv /\ MapWitnessed /\ ir \in Programs /\ StructureOk /\ todo = <<>>
    BY <1>1, ValidStructure DEF AInv, Aligned
  <2>2. \A p \in DOMAIN align : p \in DOMAIN ir.states /\ align[p] \in KnownOrNot /\ Handed(p)
    <3>1. ToSet(todo) = {}
      BY <2>1 DEF ToSet
    <3> QED BY <2>1, <3>1 DEF MapInv, ResidueMap
  <2>3. PICK f : ArrivalChain(f) /\ Arrivals = f[ArrivalBound]
    BY <2>1, ArrivalsIs
  <2>4. /\ \A p \in DOMAIN align : Witnessed(p, align[p], Arrivals)
        /\ Arrivals \in SUBSET Entries
    BY <2>1, <2>3, ArrivalsClosed DEF MapWitnessed
  <2> DEFINE Told(a) == a[1] \in DOMAIN align /\ align[a[1]] \in {Unknown, a[2]}
  <2>5. \A a \in Arrivals : Told(a)
    <3> DEFINE n == ArrivalBound
               S == {k \in 0..n : \A a \in f[k] : Told(a)}
    <3>1. n \in Nat /\ 0 \in 0..n
      BY <2>1, ArrivalTypes
    <3>2. f[0] = {<<ir.start_state, 0>>} /\ \A k \in 0..n : f[k] \in SUBSET Entries
      BY <2>3 DEF ArrivalChain, Reaches
    <3>3. 0 \in S
      BY <2>1, <3>1, <3>2 DEF MapInv
    <3>4. ASSUME NEW k \in 1..n, k - 1 \in S PROVE k \in S
      <4>1. k \in 0..n /\ k - 1 \in 0..n
        BY <3>1
      <4>2. f[k] = f[k - 1] \cup UNION {HandsOn[x] : x \in f[k - 1]}
        BY <2>3 DEF ArrivalChain, Reaches
      <4>3. \A x \in f[k - 1] : Told(x)
        BY <3>4
      <4>4. ASSUME NEW x \in f[k - 1], NEW a \in HandsOn[x] PROVE Told(a)
        <5>1. x \in Entries /\ x[1] \in DOMAIN ir.states /\ x[2] \in KnownOrNot
          BY <3>2, <4>1, EntryParts
        <5>2. a \in Successors(ir.states[x[1]]) \X {ExitOf(x[1], x[2])}
          BY <5>1 DEF HandsOn
        <5>3. a[1] \in Successors(ir.states[x[1]]) /\ a[2] = ExitOf(x[1], x[2])
          BY <5>2
        <5>4. x[1] \in DOMAIN align /\ align[x[1]] \in {Unknown, x[2]}
          BY <4>3
        <5>5. a[1] \in DOMAIN align /\ align[a[1]] \in {Unknown, ExitOf(x[1], align[x[1]])}
          BY <2>2, <5>3, <5>4 DEF Handed
        <5>6. ExitOf(x[1], Unknown) = Unknown
          <6>1. Unknown \in KnownOrNot /\ Apart(Unknown, Unknown)
            BY DEF KnownOrNot, Apart
          <6>2. Apart(ExitOf(x[1], Unknown), ExitOf(x[1], Unknown))
            BY <2>1, <5>1, <6>1, ExitApart
          <6> QED BY <6>2 DEF Apart
        <5> QED BY <5>3, <5>4, <5>5, <5>6
      <4> HIDE DEF Told
      <4> QED BY <4>1, <4>2, <4>3, <4>4
    <3> HIDE DEF S, n, Told
    <3>5. \A k \in 0..n : k \in S
      BY <3>1, <3>3, <3>4, Induction
    <3>6. n \in S
      BY <3>1, <3>5
    <3> QED BY <2>3, <3>6 DEF S, n
  <2>6. \A r : r \in residues <=> <<q, r>> \in Arrivals
    <3>1. \A a \in Arrivals : a = <<a[1], a[2]>>
      BY <2>4, EntryParts
    <3> QED BY <3>1
  <2>7. \A r \in residues : q \in DOMAIN align /\ align[q] \in {Unknown, r}
    <3> TAKE r \in residues
    <3>1. <<q, r>> \in Arrivals
      BY <2>6
    <3>2. Told(<<q, r>>)
      BY <2>5, <3>1
    <3> QED BY <3>2
  <2>8. q \in DOMAIN align =>
          IF align[q] = Unknown
          THEN \E x, y \in residues : Apart(x, y)
          ELSE align[q] \in residues
    BY <2>4, <2>6 DEF Witnessed
  <2>9. IsFiniteSet(residues)
    <3>1. residues \subseteq KnownOrNot
      BY <2>4, <2>6, EntryParts
    <3>2. KnownOrNot = (-1)..(ByteBits - 1) /\ -1 \in Int /\ ByteBits - 1 \in Int
      BY ByteBitsType DEF KnownOrNot, Residue, Unknown
    <3>3. IsFiniteSet(KnownOrNot)
      BY <3>2, FS_Interval
    <3> QED BY <3>1, <3>3, FS_Subset
  <2>10. Cardinality(residues) = 1 <=> \E r : residues = {r}
    BY <2>9, FS_Singleton
  <2> HIDE DEF residues
  <2>11. CASE residues = {}
    BY <2>8, <2>11 DEF residues
  <2>12. CASE residues # {}
    <3>1. q \in DOMAIN align
      BY <2>7, <2>12
    <3>2. CASE align[q] # Unknown
      <4>1. residues = {align[q]}
        BY <2>7, <2>8, <3>1, <3>2
      <4> QED BY <2>10, <4>1 DEF residues
    <3>3. CASE align[q] = Unknown /\ \E r : residues = {r}
      <4>1. residues = {Unknown}
        BY <2>8, <3>1, <3>3 DEF Apart
      <4> QED BY <2>10, <3>3, <4>1 DEF residues
    <3>4. CASE align[q] = Unknown /\ ~\E r : residues = {r}
      BY <2>10, <2>12, <3>4 DEF residues
    <3> QED BY <3>2, <3>3, <3>4
  <2> QED BY <2>11, <2>12
<1> QED BY <1>1, AnalysisInvariance, PTL

----------------------------------------------------------------------------
(* The worklist empties.  What a visit costs is counted in facts: a state   *)
(* without a residue yet has two to lose, a state with one has one.         *)

\* The states without a residue.
Lost == {p \in DOMAIN align : align[p] = Unknown}

\* The sum over the map is a count: whichever order the fold takes the states in.
LEMMA FactsCounted ==
  ASSUME IsFiniteSet(DOMAIN align)
  PROVE  FactsLeft = 2 * Len(ir.states) - (Cardinality(DOMAIN align) + Cardinality(Lost))
<1> DEFINE D == DOMAIN align
           cost(q) == IF align[q] = Unknown THEN 2 ELSE 1
           pick(s) == CHOOSE x \in s : TRUE
           Body(f, s) == IF s = {} THEN 0 ELSE cost(pick(s)) + f[s \ {pick(s)}]
           sum == CHOOSE f : f = [s \in SUBSET D |-> Body(f, s)]
           Count(s) == Cardinality(s) + Cardinality(s \cap Lost)
           g == [s \in SUBSET D |-> Count(s)]
<1>1. FactsLeft = 2 * Len(ir.states) - sum[D]
  BY Zenon DEF FactsLeft, MapThenSumSet, MapThenFoldSet
<1>2. ASSUME NEW s \in SUBSET D
      PROVE  /\ IsFiniteSet(s) /\ Cardinality(s) \in Nat
             /\ IsFiniteSet(s \cap Lost) /\ Cardinality(s \cap Lost) \in Nat
  <2>1. IsFiniteSet(s)
    BY FS_Subset
  <2>2. IsFiniteSet(s \cap Lost)
    <3>1. s \cap Lost \in SUBSET D
      OBVIOUS
    <3> QED BY <3>1, FS_Subset
  <2> QED BY <2>1, <2>2, FS_CardinalityType
<1>3. ASSUME NEW s \in SUBSET D, s # {}
      PROVE  /\ pick(s) \in s /\ s \ {pick(s)} \in SUBSET D
             /\ Cardinality(s \ {pick(s)}) = Cardinality(s) - 1
             /\ Count(s) = cost(pick(s)) + Count(s \ {pick(s)})
  <2> DEFINE x == pick(s)
             r == s \ {x}
  <2>1. x \in s
    BY <1>3
  <2> HIDE DEF x
  <2>2. r \in SUBSET D
    OBVIOUS
  <2>3. Cardinality(r) = Cardinality(s) - 1
    BY <1>2, <2>1, FS_RemoveElement
  <2>4. r \cap Lost = (s \cap Lost) \ {x}
    OBVIOUS
  <2>5. Cardinality((s \cap Lost) \ {x}) =
          IF x \in s \cap Lost THEN Cardinality(s \cap Lost) - 1 ELSE Cardinality(s \cap Lost)
    BY <1>2, FS_RemoveElement
  <2>6. x \in s \cap Lost <=> cost(x) = 2
    BY <2>1 DEF Lost
  <2>7. cost(x) \in {1, 2}
    OBVIOUS
  <2>8. /\ Cardinality(s) \in Nat /\ Cardinality(s \cap Lost) \in Nat
    BY <1>2
  <2> HIDE DEF cost
  <2>9. Count(s) = cost(x) + Count(r)
    <3>1. Cardinality(r \cap Lost) =
            IF x \in s \cap Lost THEN Cardinality(s \cap Lost) - 1 ELSE Cardinality(s \cap Lost)
      BY Zenon, <2>4, <2>5
    <3> HIDE DEF r
    <3> QED BY <2>3, <2>6, <2>7, <2>8, <3>1
  <2> QED BY <2>1, <2>2, <2>3, <2>9 DEF x
<1>4. Count({}) = 0
  <2>1. {} \cap Lost = {}
    OBVIOUS
  <2> QED BY <2>1, FS_EmptySet
<1> HIDE DEF Count, cost, pick
<1>5. g = [s \in SUBSET D |-> Body(g, s)]
  <2>1. \A s \in SUBSET D : Count(s) = Body(g, s)
    <3> TAKE s \in SUBSET D
    <3>1. CASE s = {}
      BY <1>4, <3>1
    <3>2. CASE s # {}
      BY <1>3, <3>2
    <3> QED BY <3>1, <3>2
  <2> HIDE DEF Body
  <2> QED BY <2>1
<1>6. sum = [s \in SUBSET D |-> Body(sum, s)]
  <2> HIDE DEF Body, g
  <2> QED BY <1>5
<1> HIDE DEF sum, g
<1> DEFINE n == Cardinality(D)
           S == {k \in 0..n : \A s \in SUBSET D : Cardinality(s) = k => sum[s] = Count(s)}
<1>7. n \in Nat
  BY <1>2
<1>8. 0 \in S
  <2>1. \A s \in SUBSET D : Cardinality(s) = 0 => s = {}
    BY <1>2, FS_EmptySet
  <2>2. sum[{}] = 0
    BY <1>6
  <2> QED BY <1>4, <1>7, <2>1, <2>2
<1>9. ASSUME NEW k \in 1..n, k - 1 \in S PROVE k \in S
  <2> SUFFICES ASSUME NEW s \in SUBSET D, Cardinality(s) = k
               PROVE  sum[s] = Count(s)
    BY <1>7
  <2>1. s # {}
    BY <1>7, FS_EmptySet
  <2>2. /\ s \ {pick(s)} \in SUBSET D /\ Cardinality(s \ {pick(s)}) = k - 1
        /\ Count(s) = cost(pick(s)) + Count(s \ {pick(s)})
    BY <1>3, <2>1
  <2>3. sum[s \ {pick(s)}] = Count(s \ {pick(s)})
    BY <1>9, <2>2
  <2>4. sum[s] = cost(pick(s)) + sum[s \ {pick(s)}]
    BY <1>6, <2>1
  <2> QED BY <2>2, <2>3, <2>4
<1> HIDE DEF S
<1>10. n \in S
  BY <1>7, <1>8, <1>9, Induction
<1>11. sum[D] = Count(D)
  <2>1. D \in SUBSET D
    OBVIOUS
  <2> QED BY <1>10, <2>1 DEF S, n
<1>12. D \cap Lost = Lost
  BY DEF Lost
<1> QED BY <1>1, <1>11, <1>12 DEF Count

\* A state with a residue is on the stack once.
Once(map, stack) ==
  \A i, j \in 1..Len(stack) : stack[i] = stack[j] /\ map[stack[i]] # Unknown => i = j

\* What a visit of a state with residue `exit` on leaving it has done so far: it
\* takes residues away and gives new ones, or pushes states without a residue
\* only, and none if there was none to hand on.
Spent(v, exit, rest) ==
  /\ DOMAIN align \subseteq DOMAIN v.align
  /\ \A p \in DOMAIN align : v.align[p] \in {align[p], Unknown}
  /\ ToSet(v.todo) \subseteq DOMAIN v.align
  /\ Once(v.align, v.todo)
  /\ v.align = align =>
       /\ exit = Unknown => v.todo = rest
       /\ ToSet(v.todo) \subseteq ToSet(rest) \cup Lost

LEMMA SpentStep ==
  ASSUME NEW exit \in KnownOrNot, NEW rest, NEW a \in Worklist, NEW t \in DOMAIN ir.states,
         align \in ResidueMap, Spent(a, exit, rest)
  PROVE  Spent(Arrive(a, t, exit), exit, rest)
<1> DEFINE b == Arrive(a, t, exit)
<1>1. Arrived(b, a, t, exit)
  BY ArriveEffect
<1>2. CASE t \in DOMAIN a.align /\ a.align[t] = exit
  BY <1>1, <1>2 DEF Arrived
<1>3. CASE ~(t \in DOMAIN a.align /\ a.align[t] = exit)
  <2>1. b.todo = Append(a.todo, t) /\ a.todo \in Seq(DOMAIN ir.states)
    <3>1. b = [align |-> SetResidue(a.align, t, IF t \in DOMAIN a.align THEN Unknown ELSE exit),
               todo |-> Append(a.todo, t)]
      BY <1>3, Zenon DEF Arrive
    <3> QED BY <3>1 DEF Worklist
  <2>2. /\ Len(a.todo) \in Nat /\ Len(b.todo) = Len(a.todo) + 1 /\ b.todo[Len(a.todo) + 1] = t
        /\ \A i \in 1..Len(a.todo) : b.todo[i] = a.todo[i] /\ a.todo[i] \in ToSet(a.todo)
    BY <2>1 DEF ToSet
  <2>3. a.align \in ResidueMap /\ b \in Worklist
    BY ArriveTypes DEF Worklist
  <2>4. b.align \in ResidueMap
    BY <2>3 DEF Worklist
  <2> HIDE DEF b
  <2>5. /\ DOMAIN b.align = DOMAIN a.align \cup {t}
        /\ \A p \in DOMAIN a.align : p # t => b.align[p] = a.align[p]
        /\ b.align[t] = IF t \in DOMAIN a.align THEN Unknown ELSE exit
        /\ ToSet(b.todo) = ToSet(a.todo) \cup {t}
    BY <1>1, <1>3 DEF Arrived
  <2>6. /\ DOMAIN align \subseteq DOMAIN b.align
        /\ \A p \in DOMAIN align : b.align[p] \in {align[p], Unknown}
    <3> SUFFICES ASSUME NEW p \in DOMAIN align
                 PROVE  p \in DOMAIN b.align /\ b.align[p] \in {align[p], Unknown}
      OBVIOUS
    <3>1. p \in DOMAIN a.align /\ a.align[p] \in {align[p], Unknown}
      BY DEF Spent
    <3> QED BY <2>5, <3>1
  <2>7. ToSet(b.todo) \subseteq DOMAIN b.align
    BY <2>5 DEF Spent
  <2>8. Once(b.align, b.todo)
    <3> SUFFICES ASSUME NEW i \in 1..Len(b.todo), NEW j \in 1..Len(b.todo),
                        b.todo[i] = b.todo[j], b.align[b.todo[i]] # Unknown
                 PROVE  i = j
      BY DEF Once
    <3>1. CASE t \in DOMAIN a.align
      <4>1. b.todo[i] # t
        BY <2>5, <3>1
      <4>2. i \in 1..Len(a.todo) /\ j \in 1..Len(a.todo)
        BY <2>2, <4>1
      <4>3. a.todo[i] = a.todo[j] /\ a.todo[i] # t /\ a.todo[i] \in DOMAIN a.align
        BY <2>2, <4>1, <4>2 DEF Spent
      <4>4. a.align[a.todo[i]] # Unknown
        BY <2>5, <2>2, <4>2, <4>3
      <4> QED BY <4>2, <4>3, <4>4 DEF Spent, Once
    <3>2. CASE t \notin DOMAIN a.align
      <4>1. t \notin ToSet(a.todo)
        BY <3>2 DEF Spent
      <4>2. \A k \in 1..Len(b.todo) : k = Len(a.todo) + 1 \/ k \in 1..Len(a.todo)
        BY <2>2
      <4>3. CASE i = Len(a.todo) + 1 \/ j = Len(a.todo) + 1
        BY <2>2, <4>1, <4>2, <4>3
      <4>4. CASE i \in 1..Len(a.todo) /\ j \in 1..Len(a.todo)
        <5>1. a.todo[i] = a.todo[j] /\ a.todo[i] # t /\ a.todo[i] \in DOMAIN a.align
          BY <2>2, <4>1, <4>4 DEF Spent
        <5>2. a.align[a.todo[i]] # Unknown
          BY <2>5, <2>2, <4>4, <5>1
        <5> QED BY <4>4, <5>1, <5>2 DEF Spent, Once
      <4> QED BY <4>2, <4>3, <4>4
    <3> QED BY <3>1, <3>2
  <2>9. ASSUME b.align = align
        PROVE  exit # Unknown /\ ToSet(b.todo) \subseteq ToSet(rest) \cup Lost
    <3>1. t \in DOMAIN align /\ t \in DOMAIN a.align
      BY <2>5, <2>9 DEF Spent
    <3>2. align[t] = Unknown /\ a.align[t] = Unknown
      BY <2>5, <2>9, <3>1 DEF Spent
    <3>3. exit # Unknown
      BY <1>3, <3>1, <3>2
    <3>4. a.align = align
      <4>1. DOMAIN a.align = DOMAIN align
        BY <2>5, <2>9, <3>1
      <4>2. \A p \in DOMAIN align : a.align[p] = align[p]
        BY <2>5, <2>9, <3>2, <4>1
      <4> QED BY <2>3, <4>1, <4>2 DEF ResidueMap
    <3>5. ToSet(a.todo) \subseteq ToSet(rest) \cup Lost /\ t \in Lost
      BY <3>1, <3>2, <3>4 DEF Spent, Lost
    <3> QED BY <2>5, <3>3, <3>5
  <2>10. Spent(b, exit, rest)
    BY <2>6, <2>7, <2>8, <2>9 DEF Spent
  <2> QED BY <2>10 DEF b
<1> QED BY <1>2, <1>3

LEMMA SpentVisit ==
  ASSUME ir \in Programs, StructureOk, NEW q \in DOMAIN ir.states, NEW rest,
         NEW exit \in KnownOrNot, align \in ResidueMap,
         NEW F, VisitFollows(F, [align |-> align, todo |-> rest], q, exit),
         Spent([align |-> align, todo |-> rest], exit, rest)
  PROVE  Spent(F[Len(TargetList(ir.states[q]))], exit, rest)
<1> DEFINE T == TargetList(ir.states[q])
           N == Len(T)
           S == {n \in 0..N : Spent(F[n], exit, rest)}
<1>1. N \in Nat /\ \A n \in 1..N : T[n].kind = "state" => T[n].name \in DOMAIN ir.states
  BY TargetListIs, SuccessorsExist DEF Successors
<1>2. 0 \in S
  BY <1>1 DEF VisitFollows
<1>3. ASSUME NEW n \in 1..N, n - 1 \in S PROVE n \in S
  <2>1. n \in 0..N /\ n - 1 \in 0..N
    BY <1>1
  <2>2. F[n - 1] \in Worklist /\ Spent(F[n - 1], exit, rest)
    BY <1>3, <2>1 DEF VisitFollows
  <2>3. F[n] = IF T[n].kind = "state" THEN Arrive(F[n - 1], T[n].name, exit) ELSE F[n - 1]
    BY <2>1 DEF VisitFollows
  <2>4. T[n].kind = "state" => Spent(Arrive(F[n - 1], T[n].name, exit), exit, rest)
    BY <1>1, <2>2, SpentStep
  <2> QED BY <2>1, <2>2, <2>3, <2>4
<1> HIDE DEF S, T, N
<1>4. N \in S
  <2>1. \A n \in 0..N : n \in S
    BY <1>1, <1>2, <1>3, Induction
  <2> QED BY <1>1, <2>1
<1> QED BY <1>4 DEF S, N, T

\* A residue that is not known at the entry is not known at the exit.
LEMMA ExitUnknown ==
  ASSUME ir \in Programs, StructureOk, NEW q \in DOMAIN ir.states
  PROVE  ExitOf(q, Unknown) = Unknown
<1>1. Unknown \in KnownOrNot /\ Apart(Unknown, Unknown)
  BY DEF KnownOrNot, Apart
<1> QED BY <1>1, ExitApart DEF Apart

\* What a pop leaves.
LEMMA PopParts ==
  ASSUME NEW S, NEW s \in Seq(S), s # <<>>
  PROVE  /\ Len(s) \in Nat \ {0} /\ Len(Front(s)) = Len(s) - 1 /\ Last(s) = s[Len(s)]
         /\ \A i \in 1..(Len(s) - 1) : Front(s)[i] = s[i]
<1>1. Len(s) \in Nat \ {0} /\ Last(s) = s[Len(s)] /\ Front(s) = SubSeq(s, 1, Len(s) - 1)
  BY DEF Last, Front
<1> DEFINE k == Len(s) - 1
<1>2. k \in Nat /\ 1 \in Int /\ k \in Int /\ \A i \in 1..k : s[i] \in S
  BY <1>1
<1>3. /\ SubSeq(s, 1, k) \in Seq(S)
      /\ Len(SubSeq(s, 1, k)) = IF 1 <= k THEN k - 1 + 1 ELSE 0
      /\ \A i \in 1..(k - 1 + 1) : SubSeq(s, 1, k)[i] = s[1 + i - 1]
  BY <1>2, SubSeqProperties
<1>4. k = Len(s) - 1
  OBVIOUS
<1> DEFINE t == SubSeq(s, 1, k)
<1> HIDE DEF k, t
<1>5. Len(t) = k /\ \A i \in 1..k : t[i] = s[i]
  <2>1. k - 1 + 1 = k /\ (1 <= k \/ k = 0) /\ \A i \in 1..k : 1 + i - 1 = i
    BY <1>2
  <2> QED BY <1>3, <2>1 DEF t
<1> QED BY <1>1, <1>4, <1>5 DEF t

\* The map of a visit in the finite set of states, and its counts.
LEMMA CountTypes ==
  ASSUME MapInv, ir \in Programs
  PROVE  /\ IsFiniteSet(DOMAIN align) /\ Cardinality(DOMAIN align) \in Nat
         /\ IsFiniteSet(Lost) /\ Cardinality(Lost) \in Nat
         /\ IsFiniteSet({p \in ToSet(todo) : align[p] # Unknown})
         /\ KnownToVisit \in Nat /\ Len(ir.states) \in Nat /\ Len(todo) \in Nat
         /\ FactsLeft = 2 * Len(ir.states) - (Cardinality(DOMAIN align) + Cardinality(Lost))
<1>1. /\ DOMAIN align \in SUBSET DOMAIN ir.states
      /\ Lost \in SUBSET DOMAIN align
      /\ {p \in ToSet(todo) : align[p] # Unknown} \in SUBSET DOMAIN align
      /\ Len(todo) \in Nat
  BY DEF MapInv, ResidueMap, Lost
<1>2. IsFiniteSet(DOMAIN ir.states) /\ Len(ir.states) \in Nat
  BY ProgramTypes
<1>3. IsFiniteSet(DOMAIN align)
  BY <1>1, <1>2, FS_Subset
<1>4. IsFiniteSet(Lost) /\ IsFiniteSet({p \in ToSet(todo) : align[p] # Unknown})
  BY <1>1, <1>3, FS_Subset
<1>5. KnownToVisit \in Nat
  BY <1>4, FS_CardinalityType DEF KnownToVisit
<1> QED BY <1>1, <1>2, <1>3, <1>4, <1>5, FS_CardinalityType, FactsCounted

LEMMA NextCountTypes ==
  (MapInv /\ ir \in Programs)' =>
    (/\ Cardinality(DOMAIN align) \in Nat /\ IsFiniteSet(DOMAIN align)
     /\ Cardinality(Lost) \in Nat /\ IsFiniteSet(Lost)
     /\ KnownToVisit \in Nat /\ Len(todo) \in Nat
     /\ FactsLeft = 2 * Len(ir.states) - (Cardinality(DOMAIN align) + Cardinality(Lost)))'
BY CountTypes, PTL

\* How far the analysis is from its end: facts first, then what is to be visited.
Descends ==
  \/ FactsLeft' < FactsLeft
  \/ /\ FactsLeft' = FactsLeft
     /\ \/ KnownToVisit' < KnownToVisit
        \/ KnownToVisit' = KnownToVisit /\ Len(todo') < Len(todo)

\* A visit comes closer to the end: it takes a fact away; or it hands on a residue
\* already taken away from its targets, so that it leaves a state with a residue
\* and pushes only such as have none; or it pushes nothing.
LEMMA VisitDescends ==
  ASSUME MapInv, MapWitnessed, Once(align, todo), ir \in Programs, StructureOk, AlignState
  PROVE  Once(align', todo') /\ Descends
<1> DEFINE q == Last(todo)
           rest == Front(todo)
           exit == ExitOf(q, align[q])
           base == [align |-> align, todo |-> rest]
           T == TargetList(ir.states[q])
           N == Len(T)
<1>1. todo # <<>> /\ UNCHANGED ir
  BY DEF AlignState
<1>2. /\ rest \in Seq(DOMAIN ir.states) /\ q \in DOMAIN ir.states
      /\ ToSet(todo) = ToSet(rest) \cup {q}
  BY <1>1, PopSet DEF MapInv
<1>3. align \in ResidueMap /\ ToSet(todo) \subseteq DOMAIN align /\ q \in DOMAIN align
  <2>1. align \in ResidueMap /\ ToSet(todo) \subseteq DOMAIN align
    BY DEF MapInv
  <2> HIDE DEF q, rest
  <2> QED BY <1>2, <2>1
<1>4. \A p \in DOMAIN align : align[p] \in KnownOrNot /\ p \in DOMAIN ir.states
  BY <1>3 DEF ResidueMap
<1>5. exit \in KnownOrNot
  BY <1>2, <1>3, <1>4, ExitTypes
<1>6. base \in Worklist
  BY <1>2, <1>3 DEF Worklist
<1>7. PICK F : VisitFollows(F, base, q, exit) /\ Visited(q, rest) = F[N]
  BY <1>2, <1>5, <1>6, VisitedUnfolds
<1>8. align' = F[N].align /\ todo' = F[N].todo
  BY <1>7 DEF AlignState
<1>9. /\ Len(todo) \in Nat \ {0} /\ Len(rest) = Len(todo) - 1 /\ q = todo[Len(todo)]
      /\ \A i \in 1..(Len(todo) - 1) : rest[i] = todo[i]
  BY <1>1, PopParts DEF MapInv
<1>10. Spent(base, exit, rest)
  <2>1. Once(align, rest)
    <3> HIDE DEF rest, q
    <3> QED BY <1>9 DEF Once
  <2> HIDE DEF exit, q, rest
  <2> QED BY <1>2, <1>3, <2>1 DEF Spent
<1>11. Spent(F[N], exit, rest)
  BY <1>2, <1>3, <1>5, <1>7, <1>10, SpentVisit
<1>12. MapInv'
  BY AlignStateMapInv
<1> HIDE DEF exit, base, T, N, rest, q
<1>13. /\ DOMAIN align \subseteq DOMAIN align'
       /\ \A p \in DOMAIN align : align'[p] \in {align[p], Unknown}
       /\ Once(align', todo')
       /\ align' = align => /\ exit = Unknown => todo' = rest
                            /\ ToSet(todo') \subseteq ToSet(rest) \cup Lost
  BY <1>8, <1>11 DEF Spent
<1>14. ir' \in Programs
  BY <1>1
<1>15. /\ Cardinality(DOMAIN align') \in Nat /\ IsFiniteSet(DOMAIN align')
       /\ Cardinality(Lost') \in Nat /\ IsFiniteSet(Lost')
       /\ KnownToVisit' \in Nat /\ Len(todo') \in Nat
       /\ FactsLeft' = 2 * Len(ir.states) - (Cardinality(DOMAIN align') + Cardinality(Lost'))
  BY <1>1, <1>12, <1>14, NextCountTypes
<1>16. /\ IsFiniteSet(DOMAIN align) /\ Cardinality(DOMAIN align) \in Nat
       /\ IsFiniteSet(Lost) /\ Cardinality(Lost) \in Nat
       /\ IsFiniteSet({p \in ToSet(todo) : align[p] # Unknown})
       /\ KnownToVisit \in Nat /\ Len(ir.states) \in Nat /\ Len(todo) \in Nat
       /\ FactsLeft = 2 * Len(ir.states) - (Cardinality(DOMAIN align) + Cardinality(Lost))
  BY CountTypes
<1>17. CASE align' # align
  <2>1. Lost \in SUBSET Lost' /\ DOMAIN align \in SUBSET DOMAIN align'
    BY <1>13 DEF Lost
  <2>2. DOMAIN align # DOMAIN align' \/ Lost # Lost'
    <3> SUFFICES ASSUME DOMAIN align' = DOMAIN align, Lost' = Lost
                 PROVE  align' = align
      BY <1>17
    <3>1. \A p \in DOMAIN align : align'[p] = align[p]
      BY <1>13 DEF Lost
    <3>2. align' \in ResidueMap'
      BY <1>12 DEF MapInv
    <3>3. align' \in ResidueMap
      BY <1>1, <3>2, StableAnalysis
    <3> QED BY <1>3, <3>1, <3>3 DEF ResidueMap
  <2>3. /\ Cardinality(Lost) <= Cardinality(Lost')
        /\ Cardinality(Lost') = Cardinality(Lost) => Lost' = Lost
    BY <1>15, <2>1, FS_Subset
  <2>4. /\ Cardinality(DOMAIN align) <= Cardinality(DOMAIN align')
        /\ Cardinality(DOMAIN align') = Cardinality(DOMAIN align) => DOMAIN align' = DOMAIN align
    BY <1>15, <2>1, FS_Subset
  <2>5. FactsLeft' < FactsLeft
    <3>1. Cardinality(Lost') # Cardinality(Lost)
            \/ Cardinality(DOMAIN align') # Cardinality(DOMAIN align)
      BY <2>2, <2>3, <2>4
    <3> QED BY <1>15, <1>16, <2>3, <2>4, <3>1, SMTT(30)
  <2> QED BY <1>13, <2>5 DEF Descends
<1>18. CASE align' = align
  <2> DEFINE Known == {p \in ToSet(todo) : align[p] # Unknown}
             Known2 == {p \in ToSet(todo') : align[p] # Unknown}
  <2>1. FactsLeft' = FactsLeft
    <3>1. Lost' = Lost
      BY <1>18 DEF Lost
    <3> QED BY <1>15, <1>16, <1>18, <3>1
  <2>2. KnownToVisit = Cardinality(Known) /\ KnownToVisit' = Cardinality(Known2)
    BY <1>18 DEF KnownToVisit
  <2>3. Known2 \in SUBSET Known /\ q \in ToSet(todo)
    BY <1>2, <1>13, <1>18 DEF Lost
  <2>4. /\ Cardinality(Known2) <= Cardinality(Known)
        /\ Cardinality(Known) = Cardinality(Known2) => Known = Known2
    BY <1>16, <2>3, FS_Subset
  <2>5. CASE align[q] = Unknown
    <3>1. todo' = rest
      BY <1>2, <1>13, <1>18, <2>5, ExitUnknown DEF exit
    <3>2. Len(todo') < Len(todo)
      BY <1>9, <3>1
    <3> HIDE DEF Known, Known2
    <3>3. KnownToVisit' <= KnownToVisit
      BY <2>2, <2>4
    <3> QED BY <1>13, <1>15, <1>16, <2>1, <3>2, <3>3 DEF Descends
  <2>6. CASE align[q] # Unknown
    <3>1. q \notin ToSet(rest)
      <4> SUFFICES ASSUME q \in ToSet(rest) PROVE FALSE
        OBVIOUS
      <4>1. PICK i \in 1..Len(rest) : rest[i] = q
        BY <1>2 DEF ToSet
      <4>2. i \in 1..Len(todo) /\ Len(todo) \in 1..Len(todo) /\ i # Len(todo) /\ todo[i] = q
        BY <1>9, <4>1
      <4> QED BY <1>9, <2>6, <4>2 DEF Once
    <3>2. q \in Known /\ q \notin Known2
      BY <1>13, <1>18, <2>3, <2>6, <3>1 DEF Lost
    <3> HIDE DEF Known, Known2
    <3>3. KnownToVisit' < KnownToVisit
      BY <1>15, <1>16, <2>2, <2>4, <3>2
    <3> QED BY <1>13, <2>1, <3>3 DEF Descends
  <2> QED BY <2>5, <2>6
<1> QED BY <1>17, <1>18

\* What makes it end is that a state with a residue is on the stack once: on it
\* twice, it could be visited, push others, and still be left to visit.
EndInv == AInv /\ Once(align, todo)

LEMMA InitOnce ==
  ASSUME AlignInit
  PROVE  Once(align, todo)
<1>1. Len(todo) = 1
  BY DEF AlignInit
<1> QED BY <1>1 DEF Once

\* The worklist of entry_alignments empties: each visit takes a fact away, or
\* visits a state with a residue for good, or shortens the stack.
THEOREM AnalysisDescends == AlignedSpec => AnalysisEnds
<1>1. AlignedInit => EndInv
  BY InitAInv, InitOnce DEF EndInv, AlignedInit
<1>2. ASSUME EndInv, [AlignedNext]_<<pipeline, alignment>>
      PROVE  EndInv' /\ (todo' # todo => Descends)
  <2>1. AInv'
    BY <1>2, NextAInv DEF EndInv
  <2>2. CASE UNCHANGED alignment
    BY <1>2, <2>1, <2>2 DEF EndInv, alignment, Once
  <2>3. CASE Analyse
    <3>1. vpc = "valid" /\ AlignState
      BY <2>3 DEF Analyse
    <3>2. MapInv /\ MapWitnessed /\ Once(align, todo) /\ ir \in Programs /\ StructureOk
      BY <1>2, <3>1, ValidStructure DEF EndInv, AInv
    <3>3. Once(align', todo') /\ Descends
      BY <3>1, <3>2, VisitDescends
    <3> QED BY <2>1, <3>3 DEF EndInv, Once
  <2> QED BY <1>2, <2>2, <2>3, Zenon DEF AlignedNext
<1>3. EndInv /\ [AlignedNext]_<<pipeline, alignment>> =>
        [todo' # todo => Descends]_<<pipeline, alignment>>
  BY <1>2
<1>4. AlignedSpec => [][todo' # todo => Descends]_<<pipeline, alignment>>
  BY <1>1, <1>2, <1>3, PTL DEF AlignedSpec
<1> QED BY <1>4 DEF AnalysisEnds, Descends
==============================================================================

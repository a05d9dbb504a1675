--------------------------- MODULE ShippedProofs ---------------------------
(***************************************************************************)
(* What the generated parsers never do, for packets of any length, and that *)
(* the masked indices of the eBPF variants change no step of theirs.        *)
(***************************************************************************)
EXTENDS ShippedBpf, TLAPS

----------------------------------------------------------------------------
(* Words.                                                                  *)

\* A sum that stays in a word does not wrap, nor does the difference of two
\* words the second of which is not greater.
LEMMA NoWrap ==
  ASSUME NEW a \in Nat, NEW b \in Nat
  PROVE  /\ a + b < WordSize => Plus(a, b) = a + b
         /\ a < WordSize /\ b <= a => Minus(a, b) = a - b
<1>1. ASSUME NEW x \in Nat, x < WordSize
      PROVE  x % WordSize = x /\ (x + WordSize) % WordSize = x
  BY <1>1, WordSizeAssumption
<1>2. a + b < WordSize => Plus(a, b) = a + b
  BY <1>1 DEF Plus
<1>3. ASSUME a < WordSize, b <= a
      PROVE  Minus(a, b) = a - b
  <2>1. a - b \in Nat /\ a - b < WordSize
    BY <1>3, WordSizeAssumption
  <2>2. (a + WordSize) - b = (a - b) + WordSize
    BY WordSizeAssumption
  <2> QED BY <1>1, <2>1, <2>2 DEF Minus
<1> QED BY <1>2, <1>3

\* Whatever the operands, the results are words.
LEMMA WordResults ==
  ASSUME NEW a \in Nat, NEW b \in Nat, b <= WordSize
  PROVE  /\ Plus(a, b) \in Nat /\ Plus(a, b) < WordSize
         /\ Minus(a, b) \in Nat /\ Minus(a, b) < WordSize
<1>1. a + b \in Nat /\ (a + WordSize) - b \in Nat
  BY WordSizeAssumption
<1> QED BY <1>1, WordSizeAssumption DEF Plus, Minus

\* An element of a sequence.
LEMMA ElementOf ==
  ASSUME NEW S, NEW s \in Seq(S), NEW i \in 1..Len(s)
  PROVE  s[i] \in S
OBVIOUS

\* The powers of two that are asked for.
LEMMA TwoToType ==
  ASSUME NEW n \in Nat, n <= 16
  PROVE  TwoTo(n) \in Nat \ {0}
<1> DEFINE s == <<1, 2, 4, 8, 16, 32, 64, 128, 256, 512, 1024, 2048, 4096, 8192, 16384, 32768, 65536>>
<1>1. s \in Seq(Nat \ {0}) /\ Len(s) = 17
  OBVIOUS
<1>2. TwoTo(n) = s[n + 1]
  BY DEF TwoTo
<1> HIDE DEF s
<1>3. n + 1 \in 1..Len(s)
  BY <1>1
<1>4. s[n + 1] \in Nat \ {0}
  BY <1>1, <1>3, ElementOf
<1> QED BY <1>2, <1>4

\* Eight bits make a byte.
LEMMA TwoToByte ==
  ASSUME NEW n \in Nat, n <= 8
  PROVE  TwoTo(n) <= 256
<1>1. n = 0 \/ n = 1 \/ n = 2 \/ n = 3 \/ n = 4 \/ n = 5 \/ n = 6 \/ n = 7 \/ n = 8
  OBVIOUS
<1> QED BY <1>1 DEF TwoTo

----------------------------------------------------------------------------
(* The invariant.  ReadsAreInside is not inductive: that a run ends before  *)
(* the cursor rests on its length being a number, the length on a member    *)
(* that was loaded in so many bits, and remaining() on the cursor not       *)
(* having passed the region, whose end was written at one line of one case. *)

InputOK == IsPacket(input) /\ bit_len + 1024 < WordSize

CursorOK ==
  /\ off \in Nat /\ off <= bit_len
  /\ line \in 1..15
  /\ depth \in Nat /\ depth <= max_depth[input.parser]

\* A load names consecutive bytes before the cursor, no more than it needs.
GoodTo(load, end) ==
  /\ load \in Load /\ load.bits <= 64
  /\ \A k \in 1..Len(load.bytes) : load.bytes[k] = load.bytes[1] + k - 1
  /\ load # NoLoad =>
       /\ 8 * load.bytes[1] + load.skip + load.bits <= end
       /\ 8 * Len(load.bytes) >= load.skip + load.bits
       /\ 8 * Len(load.bytes) <= load.skip + load.bits + 7
GoodLoad(load) == GoodTo(load, off)

GoodRun(run) == run.bit_off \in Nat /\ run.bit_len \in Nat /\ run.bit_off + run.bit_len <= off

OutShape(o) ==
  /\ o = [outcome |-> o.outcome, reason |-> o.reason, consumed_bits |-> o.consumed_bits,
          present |-> o.present, loads |-> o.loads, runs |-> o.runs,
          m_done |-> o.m_done, m_remaining |-> o.m_remaining]
  /\ o.m_done \in 0..1
  /\ o.m_remaining \in Byte

OutOK ==
  /\ OutShape(out)
  /\ out.outcome \in 0..1
  /\ out.reason \in Reasons
  /\ out.consumed_bits \in Nat /\ out.consumed_bits <= off
  /\ \A m \in DOMAIN out.loads : GoodLoad(out.loads[m])
  /\ \A m \in DOMAIN out.runs : GoodRun(out.runs[m])

Base == InputOK /\ CursorOK /\ OutOK

\* The members that lengths and selects look at, and how wide they are.
Fits(m, n) == m \in DOMAIN out.loads /\ out.loads[m].bits <= n
MembersOK ==
  /\ input.parser = "eth_ipvx_l4" =>
       /\ Fits(<<"ethernet", "ethertype">>, 16) /\ Fits(<<"ipv4", "ihl">>, 4)
       /\ Fits(<<"ipv4", "protocol">>, 8) /\ Fits(<<"ipv6", "next_header">>, 8)
  /\ input.parser = "tlv_items" => Fits(<<"total_len", "total">>, 8) /\ Fits(<<"item", "ln">>, 8)
  /\ input.parser = "counted_items" => Fits(<<"count", "n">>, 8)

RegionOK ==
  /\ pk_rsp \in 0..1
  /\ pk_region_end \in Nat /\ pk_region_end < WordSize
  /\ input.parser = "tlv_items" =>
       /\ state \in {"parse_total", "tlv_loop", "parse_item", "close", "returned"}
       /\ state = "parse_total" =>
            /\ line \in 1..3
            /\ pk_rsp = IF line = 3 THEN 1 ELSE 0
            /\ off = IF line = 1 THEN 0 ELSE 8
  /\ RegionSlotWritten

IInv == Base /\ MembersOK /\ RegionOK

----------------------------------------------------------------------------
(* Values.                                                                 *)

\* A byte of the buffer is a number.
LEMMA ByteOfType ==
  ASSUME InputOK, NEW i
  PROVE  ByteOf(i) \in Nat
<1>1. Byte \subseteq Nat
  BY DEF Byte
<1> QED BY <1>1 DEF InputOK, IsPacket, ByteOf

\* A member of at most two bytes has a value, below 256 if it has one byte.
LEMMA MemberType ==
  ASSUME Base, NEW h, NEW name, NEW n \in Nat, n <= 16, Fits(<<h, name>>, n)
  PROVE  /\ Member(h, name) \in Nat
         /\ n = 8 => Member(h, name) < 256
<1> DEFINE load == out.loads[<<h, name>>]
           bytes == IF Len(load.bytes) = 1 THEN ByteOf(load.bytes[1])
                    ELSE 256 * ByteOf(load.bytes[1]) + ByteOf(load.bytes[2])
           rest == 8 * Len(load.bytes) - load.skip - load.bits
<1>1. GoodLoad(load) /\ load.bits <= n
  BY DEF Base, OutOK, Fits
<1>a. load # NoLoad =>
        /\ 8 * Len(load.bytes) >= load.skip + load.bits
        /\ 8 * Len(load.bytes) <= load.skip + load.bits + 7
  BY <1>1 DEF GoodLoad, GoodTo
<1>2. load.bits \in Nat /\ load.skip \in Nat /\ Len(load.bytes) \in Nat /\ load.bytes \in Seq(Nat)
  <2>1. load \in Load
    BY <1>1, Zenon DEF GoodLoad, GoodTo
  <2> HIDE DEF load
  <2> QED BY <2>1 DEF Load
<1>3. CASE load = NoLoad
  BY <1>3 DEF Member, ValueOf
<1>4. CASE load # NoLoad
  <2>1. rest \in Nat /\ rest <= 16
    <3>1. ASSUME NEW x \in Nat, NEW y \in Nat, NEW z \in Nat, 8 * x >= y + z, 8 * x <= y + z + 7
          PROVE  8 * x - y - z \in Nat /\ 8 * x - y - z <= 16
      BY <3>1
    <3> HIDE DEF load
    <3> QED BY <3>1, <1>a, <1>2, <1>4 DEF rest
  <2>2. load.bits \in Nat /\ load.bits <= 16
    BY <1>1, <1>2
  <2>3. bytes \in Nat
    BY ByteOfType DEF Base
  <2>4. Member(h, name) = (bytes \div TwoTo(rest)) % TwoTo(load.bits)
    BY <1>4 DEF Member, ValueOf
  <2> HIDE DEF bytes, rest
  <2>5. bytes \div TwoTo(rest) \in Nat
    BY <2>1, <2>3, TwoToType
  <2>6. Member(h, name) \in Nat /\ Member(h, name) < TwoTo(load.bits)
    BY <2>2, <2>4, <2>5, TwoToType
  <2>7. ASSUME n = 8
        PROVE  TwoTo(load.bits) <= 256
    BY <1>1, <1>2, <2>7, TwoToByte
  <2> QED BY <2>2, <2>6, <2>7, TwoToType
<1> QED BY <1>3, <1>4

----------------------------------------------------------------------------
(* The statements.                                                         *)

\* A field read at a place: a good load once the cursor is past it.
Reaches(load, n, end) ==
  /\ load \in Load /\ load.bits = n
  /\ \A k \in 1..Len(load.bytes) : load.bytes[k] = load.bytes[1] + k - 1
  /\ 8 * load.bytes[1] + load.skip + n <= end
  /\ 8 * Len(load.bytes) >= load.skip + n
  /\ 8 * Len(load.bytes) <= load.skip + n + 7

\* Consecutive bytes, as many as asked for.
LEMMA RunOfBytes ==
  ASSUME NEW b \in Nat, NEW n \in Nat, n >= 1, NEW s, s = [k \in 1..n |-> b + k - 1]
  PROVE  /\ s \in Seq(Nat) /\ Len(s) = n /\ s[1] = b
         /\ \A k \in 1..Len(s) : s[k] = s[1] + k - 1
<1>1. s \in [1..n -> Nat]
  OBVIOUS
<1>2. s \in Seq(Nat) /\ Len(s) = n
  BY <1>1
<1>3. s[1] = b /\ \A k \in 1..n : s[k] = b + k - 1
  OBVIOUS
<1> QED BY <1>2, <1>3

\* Consecutive bytes that hold the bits asked for, and end where the cursor will be.
LEMMA ConsecutiveReach ==
  ASSUME NEW b \in Nat, NEW len \in Nat, len >= 1, NEW skip \in 0..7, NEW n \in Nat, NEW end \in Nat,
         8 * b + skip + n <= end, 8 * len >= skip + n, 8 * len <= skip + n + 7
  PROVE  Reaches([bytes |-> [k \in 1..len |-> b + k - 1], skip |-> skip, bits |-> n], n, end)
<1> DEFINE s == [k \in 1..len |-> b + k - 1]
<1>1. /\ s \in Seq(Nat) /\ Len(s) = len /\ s[1] = b
      /\ \A k \in 1..Len(s) : s[k] = s[1] + k - 1
  BY RunOfBytes
<1> HIDE DEF s
<1>2. [bytes |-> s, skip |-> skip, bits |-> n] \in Load
  BY <1>1 DEF Load
<1>3. 8 * s[1] + skip + n <= end /\ 8 * Len(s) >= skip + n /\ 8 * Len(s) <= skip + n + 7
  BY <1>1
<1>4. Reaches([bytes |-> s, skip |-> skip, bits |-> n], n, end)
  BY <1>1, <1>2, <1>3 DEF Reaches
<1> QED BY <1>4 DEF s

\* Whole bytes from the cursor: no byte past the end of the field.
LEMMA BytesReached ==
  ASSUME Variant = "c", NEW o \in Nat, NEW n \in Nat, n > 0, n % 8 = 0
  PROVE  Reaches(ByteLoad(o, n), n, o + n)
<1>1. /\ o \div 8 \in Nat /\ 8 * (o \div 8) + 0 + n <= o + n
      /\ n \div 8 \in Nat /\ n \div 8 >= 1 /\ 8 * (n \div 8) = n
  OBVIOUS
<1>2. 8 * (n \div 8) >= 0 + n /\ 8 * (n \div 8) <= 0 + n + 7
  BY <1>1
<1>3. ByteLoad(o, n) = [bytes |-> [k \in 1..(n \div 8) |-> o \div 8 + k - 1], skip |-> 0, bits |-> n]
  BY DEF ByteLoad, ByteIndex
<1> QED BY <1>1, <1>2, <1>3, ConsecutiveReach

\* Bits from the cursor: no byte past the one that holds the last of them.
LEMMA BitsReached ==
  ASSUME Variant = "c", NEW o \in Nat, NEW n \in Nat, n > 0
  PROVE  Reaches(pk_read_bits(o, n), n, o + n)
<1> DEFINE len == ((o % 8) + n + 7) \div 8
<1>1. /\ o \div 8 \in Nat /\ o % 8 \in 0..7 /\ 8 * (o \div 8) + (o % 8) + n <= o + n
      /\ len \in Nat /\ len >= 1
      /\ 8 * len >= (o % 8) + n /\ 8 * len <= (o % 8) + n + 7
  OBVIOUS
<1>2. pk_read_bits(o, n) = [bytes |-> [k \in 1..len |-> o \div 8 + k - 1], skip |-> o % 8, bits |-> n]
  BY DEF pk_read_bits, ByteIndex
<1> HIDE DEF len
<1> DEFINE b == o \div 8
           skip == o % 8
<1>3. /\ b \in Nat /\ o + n \in Nat /\ skip \in 0..7 /\ 8 * b + skip + n <= o + n
      /\ 8 * len >= skip + n /\ 8 * len <= skip + n + 7
  BY <1>1
<1> HIDE DEF b, skip
<1>4. Reaches([bytes |-> [k \in 1..len |-> b + k - 1], skip |-> skip, bits |-> n], n, o + n)
  BY <1>1, <1>3, ConsecutiveReach
<1> QED BY <1>2, <1>4 DEF b, skip

\* A good load stays one when the cursor moves on.
LEMMA GoodLonger ==
  ASSUME NEW load, NEW a \in Nat, NEW b \in Nat, a <= b, GoodTo(load, a)
  PROVE  GoodTo(load, b)
<1>1. CASE load = NoLoad
  BY <1>1 DEF GoodTo
<1>2. CASE load # NoLoad
  <2>1. /\ load = [bytes |-> load.bytes, skip |-> load.skip, bits |-> load.bits]
        /\ load.bytes \in Seq(Nat) /\ Len(load.bytes) \in Nat
        /\ load.skip \in Nat /\ load.bits \in Nat
    BY DEF GoodTo, Load
  <2>2. /\ 8 * load.bytes[1] + load.skip + load.bits <= a
        /\ 8 * Len(load.bytes) >= load.skip + load.bits
    BY <1>2 DEF GoodTo
  <2>3. ASSUME Len(load.bytes) = 0
        PROVE  FALSE
    <3>1. load.skip = 0 /\ load.bits = 0 /\ load.bytes = <<>>
      BY <2>1, <2>2, <2>3
    <3> QED BY <1>2, <2>1, <3>1 DEF NoLoad
  <2>4. load.bytes[1] \in Nat
    BY <2>1, <2>3
  <2>5. 8 * load.bytes[1] + load.skip + load.bits <= b
    BY <2>1, <2>2, <2>4
  <2> QED BY <2>5 DEF GoodTo
<1> QED BY <1>1, <1>2

\* A return keeps what the cursor has passed.
LEMMA ReturnKeeps ==
  ASSUME Base, NEW outcome \in 0..1, NEW reason \in Reasons, NEW result,
         OutShape(result), result.loads = out.loads, result.runs = out.runs,
         Return(outcome, reason, result)
  PROVE  /\ Base'
         /\ out'.loads = out.loads
         /\ state' = "returned" /\ off' = off /\ line' = line /\ UNCHANGED input
<1>1. UNCHANGED <<input, depth, line, off>> /\ state' = "returned"
  BY DEF Return
<1>2. /\ OutShape(out')
      /\ out'.outcome = outcome /\ out'.reason = reason /\ out'.consumed_bits = off
      /\ out'.loads = out.loads /\ out'.runs = out.runs
  BY DEF Return, OutShape
<1>3. OutOK'
  BY <1>1, <1>2 DEF Base, OutOK, CursorOK, GoodLoad, GoodRun
<1>4. InputOK' /\ CursorOK'
  BY <1>1 DEF Base, InputOK, CursorOK, bit_len
<1> QED BY <1>1, <1>2, <1>3, <1>4 DEF Base

\* Only the loop counter and the line move.
LEMMA GotoKeeps ==
  ASSUME Base, NEW s, depth < max_depth[input.parser], Goto(s), UNCHANGED out
  PROVE  /\ Base'
         /\ state' = s /\ off' = off /\ line' = 1 /\ UNCHANGED input
<1>1. depth' = depth + 1 /\ line' = 1 /\ state' = s /\ UNCHANGED <<input, off, out>>
  BY DEF Goto
<1>2. max_depth[input.parser] \in Nat
  BY DEF Base, InputOK, IsPacket, Parsers, max_depth
<1>3. OutOK'
  BY <1>1 DEF Base, OutOK, GoodLoad, GoodRun
<1>4. InputOK' /\ CursorOK'
  BY <1>1, <1>2 DEF Base, InputOK, CursorOK, bit_len
<1> QED BY <1>1, <1>3, <1>4 DEF Base

\* What a statement leaves of the loads: all, or all but one member.
Written(h, name, bits) ==
  /\ DOMAIN out'.loads = DOMAIN out.loads
  /\ \A m \in DOMAIN out.loads :
       out'.loads[m] = out.loads[m] \/ (m = <<h, name>> /\ out'.loads[m].bits = bits)

Stops == state' = "returned" /\ off' = off /\ line' = line /\ out'.loads = out.loads
Advances(n) == state' = state /\ off' = off + n /\ line' = line + 1

FieldOK(f, type) ==
  /\ f.bits \in Nat /\ f.bits > 0 /\ f.bits <= 64
  /\ f.whole => f.bits % 8 = 0
  /\ type \in Nat /\ f.bits <= type

\* Marking a header present touches no other member of the result.
LEMMA PresentShape ==
  ASSUME Base, NEW h
  PROVE  /\ OutShape(Present(h))
         /\ Present(h).loads = out.loads /\ Present(h).runs = out.runs
         /\ Present(h).outcome = out.outcome /\ Present(h).reason = out.reason
         /\ Present(h).consumed_bits = out.consumed_bits
BY DEF Base, OutOK, OutShape, Present

\* A field of fixed width: rejected, or loaded from bytes the cursor then passes.
LEMMA FixedFieldKeeps ==
  ASSUME Variant = "c", Base, NEW h, NEW f, NEW type, FieldOK(f, type), line <= 14,
         FixedField(h, f, type)
  PROVE  /\ Base' /\ UNCHANGED input
         /\ Written(h, f.name, f.bits)
         /\ Stops \/ Advances(f.bits)
<1> USE DEF FieldOK
<1>1. /\ off \in Nat /\ bit_len \in Nat /\ off <= bit_len /\ bit_len + 1024 < WordSize
      /\ Plus(off, f.bits) = off + f.bits
  BY NoWrap, WordSizeAssumption DEF Base, InputOK, IsPacket, CursorOK, bit_len
<1>2. CASE Rejected(PK_R_OUT_OF_BOUNDS, Present(h))
  <2>1. PK_R_OUT_OF_BOUNDS \in Reasons
    BY DEF Reasons
  <2>2. Return(1, PK_R_OUT_OF_BOUNDS, Present(h))
    BY <1>2 DEF Rejected
  <2>3. Base' /\ UNCHANGED input /\ Stops
    BY <2>1, <2>2, PresentShape, ReturnKeeps DEF Stops
  <2> QED BY <2>3 DEF Written, Stops
<1>3. CASE /\ Plus(off, f.bits) <= bit_len
           /\ out' = [Present(h) EXCEPT
                  !.loads[<<h, f.name>>] =
                     Cast(IF f.whole THEN ByteLoad(off, f.bits) ELSE pk_read_bits(off, f.bits), type)]
           /\ off' = Plus(off, f.bits)
           /\ line' = line + 1
           /\ UNCHANGED <<input, state, depth>>
  <2> DEFINE load == IF f.whole THEN ByteLoad(off, f.bits) ELSE pk_read_bits(off, f.bits)
  <2>1. Reaches(load, f.bits, off + f.bits)
    BY <1>1, BytesReached, BitsReached
  <2> HIDE DEF load
  <2>2. Cast(load, type) = load
    BY <2>1 DEF Cast, Reaches
  <2>3. out' = [Present(h) EXCEPT !.loads[<<h, f.name>>] = load]
    BY <1>3, <2>2 DEF load
  <2>4. /\ OutShape(out') /\ out'.loads = [out.loads EXCEPT ![<<h, f.name>>] = load]
        /\ out'.runs = out.runs /\ out'.outcome = out.outcome /\ out'.reason = out.reason
        /\ out'.consumed_bits = out.consumed_bits
    BY <2>3, PresentShape DEF OutShape
  <2>5. /\ DOMAIN out'.loads = DOMAIN out.loads
        /\ \A m \in DOMAIN out.loads : out'.loads[m] = out.loads[m] \/ (m = <<h, f.name>> /\ out'.loads[m] = load)
    BY <2>4
  <2>6. Written(h, f.name, f.bits)
    BY <2>1, <2>5 DEF Written, Reaches
  <2>7. off' = off + f.bits /\ off' <= bit_len /\ line' = line + 1 /\ UNCHANGED <<input, state, depth>>
    BY <1>1, <1>3
  <2>8. GoodTo(load, off')
    BY <2>1, <2>7 DEF GoodTo, Reaches
  <2>9. ASSUME NEW m \in DOMAIN out.loads
        PROVE  GoodTo(out'.loads[m], off')
    <3>1. GoodTo(out.loads[m], off)
      BY DEF Base, OutOK, GoodLoad
    <3>2. CASE out'.loads[m] = out.loads[m]
      BY <1>1, <2>7, <3>1, <3>2, GoodLonger
    <3>3. CASE out'.loads[m] = load
      BY <2>8, <3>3
    <3> QED BY <2>5, <3>2, <3>3
  <2>10. ASSUME NEW m \in DOMAIN out.runs
         PROVE  GoodRun(out.runs[m])'
    BY <1>1, <2>4, <2>7 DEF Base, OutOK, GoodRun
  <2>11. OutOK'
    BY <1>1, <2>4, <2>5, <2>7, <2>9, <2>10 DEF Base, OutOK, GoodLoad
  <2>12. InputOK' /\ CursorOK'
    BY <1>1, <2>7 DEF Base, InputOK, CursorOK, bit_len
  <2> QED BY <2>6, <2>7, <2>11, <2>12 DEF Base, Advances
<1> QED BY <1>2, <1>3 DEF FixedField

\* A run of computed length: rejected, or passed by the cursor.
LEMMA RunFieldKeeps ==
  ASSUME Base, NEW h, NEW name, NEW vlen \in Nat, line <= 14, RunField(h, name, vlen)
  PROVE  /\ Base' /\ UNCHANGED input /\ out'.loads = out.loads
         /\ Stops \/ Advances(vlen)
<1>1. /\ off \in Nat /\ bit_len \in Nat /\ off <= bit_len /\ bit_len + 1024 < WordSize
      /\ Minus(bit_len, off) = bit_len - off
  BY NoWrap, WordSizeAssumption DEF Base, InputOK, IsPacket, CursorOK, bit_len
<1>2. CASE Reject(PK_R_OUT_OF_BOUNDS)
  <2>1. PK_R_OUT_OF_BOUNDS \in Reasons /\ OutShape(out)
    BY DEF Reasons, Base, OutOK
  <2>2. Return(1, PK_R_OUT_OF_BOUNDS, out)
    BY <1>2 DEF Reject, Rejected
  <2> QED BY <2>1, <2>2, ReturnKeeps DEF Stops
<1>3. CASE /\ vlen <= Minus(bit_len, off)
           /\ out' = [out EXCEPT !.runs[<<h, name>>] = [bit_off |-> off, bit_len |-> vlen]]
           /\ off' = Plus(off, vlen)
           /\ line' = line + 1
           /\ UNCHANGED <<input, state, depth>>
  <2> DEFINE run == [bit_off |-> off, bit_len |-> vlen]
  <2>1. off + vlen <= bit_len /\ Plus(off, vlen) = off + vlen
    BY <1>1, <1>3, NoWrap, WordSizeAssumption
  <2>2. /\ OutShape(out') /\ out'.runs = [out.runs EXCEPT ![<<h, name>>] = run]
        /\ out'.loads = out.loads /\ out'.outcome = out.outcome /\ out'.reason = out.reason
        /\ out'.consumed_bits = out.consumed_bits
    BY <1>3 DEF Base, OutOK, OutShape
  <2>3. off' = off + vlen /\ off' <= bit_len /\ line' = line + 1 /\ UNCHANGED <<input, state, depth>>
    BY <1>3, <2>1
  <2>4. run.bit_off \in Nat /\ run.bit_len \in Nat /\ run.bit_off + run.bit_len <= off'
    BY <1>1, <2>3
  <2>5. ASSUME NEW m \in DOMAIN out'.runs
        PROVE  GoodRun(out.runs[m])'
    <3>1. m \in DOMAIN out.runs /\ (out'.runs[m] = run \/ out'.runs[m] = out.runs[m])
      BY <2>2
    <3>2. GoodRun(out.runs[m])
      BY <3>1 DEF Base, OutOK
    <3> QED BY <1>1, <2>3, <2>4, <3>1, <3>2 DEF GoodRun
  <2>6. ASSUME NEW m \in DOMAIN out.loads
        PROVE  GoodTo(out'.loads[m], off')
    <3>1. GoodTo(out.loads[m], off)
      BY DEF Base, OutOK, GoodLoad
    <3> QED BY <1>1, <2>2, <2>3, <3>1, GoodLonger
  <2>7. OutOK'
    BY <1>1, <2>2, <2>3, <2>5, <2>6 DEF Base, OutOK, GoodLoad
  <2>8. InputOK' /\ CursorOK'
    BY <1>1, <2>3 DEF Base, InputOK, CursorOK, bit_len
  <2> QED BY <2>2, <2>3, <2>7, <2>8 DEF Base, Advances
<1> QED BY <1>2, <1>3 DEF RunField

----------------------------------------------------------------------------
(* The tables of fields.                                                   *)

\* Members that are evaluated are loaded in no more bits than MembersOK says.
Narrow(h, name, bits) ==
  /\ h = "ethernet" /\ name = "ethertype" => bits <= 16
  /\ h = "ipv4" /\ name = "ihl" => bits <= 4
  /\ h = "ipv4" /\ name = "protocol" => bits <= 8
  /\ h = "ipv6" /\ name = "next_header" => bits <= 8
  /\ h = "total_len" /\ name = "total" => bits <= 8
  /\ h = "item" /\ name = "ln" => bits <= 8
  /\ h = "count" /\ name = "n" => bits <= 8

\* One member written, in few enough bits.
LEMMA MembersKept ==
  ASSUME MembersOK, UNCHANGED input, NEW h, NEW name, NEW bits,
         Written(h, name, bits), Narrow(h, name, bits)
  PROVE  MembersOK'
BY DEF MembersOK, Fits, Written, Narrow

TableOK(h, fields, struct) ==
  /\ Len(fields) \in Nat /\ Len(fields) <= 13
  /\ \A i \in 1..Len(fields) :
       FieldOK(fields[i], struct[fields[i].name]) /\ Narrow(h, fields[i].name, fields[i].bits)

\* The widths of the Ethernet fields fit their members and what is computed from them.
LEMMA EthernetTable == TableOK("ethernet", EthernetFields, ethernet_t)
<1>1. ASSUME NEW i \in 1..3
      PROVE  FieldOK(EthernetFields[i], ethernet_t[EthernetFields[i].name])
             /\ Narrow("ethernet", EthernetFields[i].name, EthernetFields[i].bits)
  BY DEF EthernetFields, ethernet_t, Whole, FieldOK, Narrow
<1> QED BY <1>1 DEF TableOK, EthernetFields

\* The same of IPv4,
LEMMA Ipv4Table == TableOK("ipv4", Ipv4Fields, ipv4_t)
<1>1. ASSUME NEW i \in 1..13
      PROVE  FieldOK(Ipv4Fields[i], ipv4_t[Ipv4Fields[i].name])
             /\ Narrow("ipv4", Ipv4Fields[i].name, Ipv4Fields[i].bits)
  BY DEF Ipv4Fields, ipv4_t, Whole, Part, FieldOK, Narrow
<1> QED BY <1>1 DEF TableOK, Ipv4Fields

\* of IPv6,
LEMMA Ipv6Table == TableOK("ipv6", Ipv6Fields, ipv6_t)
<1>1. ASSUME NEW i \in 1..6
      PROVE  FieldOK(Ipv6Fields[i], ipv6_t[Ipv6Fields[i].name])
             /\ Narrow("ipv6", Ipv6Fields[i].name, Ipv6Fields[i].bits)
  BY DEF Ipv6Fields, ipv6_t, Whole, Part, FieldOK, Narrow
<1> QED BY <1>1 DEF TableOK, Ipv6Fields

\* of TCP,
LEMMA TcpTable == TableOK("tcp", TcpFields, tcp_t)
<1>1. ASSUME NEW i \in 1..10
      PROVE  FieldOK(TcpFields[i], tcp_t[TcpFields[i].name])
             /\ Narrow("tcp", TcpFields[i].name, TcpFields[i].bits)
  BY DEF TcpFields, tcp_t, Whole, Part, FieldOK, Narrow
<1> QED BY <1>1 DEF TableOK, TcpFields

\* and of UDP.
LEMMA UdpTable == TableOK("udp", UdpFields, udp_t)
<1>1. ASSUME NEW i \in 1..4
      PROVE  FieldOK(UdpFields[i], udp_t[UdpFields[i].name])
             /\ Narrow("udp", UdpFields[i].name, UdpFields[i].bits)
  BY DEF UdpFields, udp_t, Whole, FieldOK, Narrow
<1> QED BY <1>1 DEF TableOK, UdpFields

----------------------------------------------------------------------------
(* What the cases share.                                                   *)

\* The next field of a header.
LEMMA FixedFieldsKeep ==
  ASSUME Variant = "c", Base, MembersOK, NEW h, NEW fields, NEW struct,
         TableOK(h, fields, struct), FixedFields(h, fields, struct)
  PROVE  Base' /\ MembersOK' /\ UNCHANGED input
<1> DEFINE f == fields[line]
           type == struct[f.name]
<1>1. line \in 1..Len(fields) /\ line <= 14
  BY DEF FixedFields, TableOK, Base, CursorOK
<1>2. FieldOK(f, type) /\ Narrow(h, f.name, f.bits) /\ FixedField(h, f, type)
  BY <1>1 DEF FixedFields, TableOK
<1> HIDE DEF f, type
<1>3. Base' /\ UNCHANGED input /\ Written(h, f.name, f.bits)
  BY <1>1, <1>2, FixedFieldKeeps
<1> QED BY <1>2, <1>3, MembersKept

\* No member written.
LEMMA MembersSame ==
  ASSUME MembersOK, UNCHANGED input, out'.loads = out.loads
  PROVE  MembersOK'
BY DEF MembersOK, Fits

\* A run, and the members.
LEMMA RunKeeps ==
  ASSUME Base, MembersOK, NEW h, NEW name, NEW vlen \in Nat, line <= 14, RunField(h, name, vlen)
  PROVE  Base' /\ MembersOK' /\ UNCHANGED input
BY RunFieldKeeps, MembersSame

\* A rejection moves nothing.
LEMMA RejectKeeps ==
  ASSUME Base, MembersOK, NEW reason \in Reasons, Reject(reason)
  PROVE  /\ Base' /\ MembersOK' /\ UNCHANGED input
         /\ Stops
<1>1. Return(1, reason, out) /\ OutShape(out)
  BY DEF Reject, Rejected, Base, OutOK
<1>2. Base' /\ UNCHANGED input /\ Stops
  BY <1>1, ReturnKeeps DEF Stops
<1> QED BY <1>2, MembersSame DEF Stops

\* Nor does an acceptance.
LEMMA AcceptKeeps ==
  ASSUME Base, MembersOK, Accept
  PROVE  /\ Base' /\ MembersOK' /\ UNCHANGED input
         /\ Stops
<1>1. Return(0, PK_R_NONE, out) /\ OutShape(out) /\ PK_R_NONE \in Reasons
  BY DEF Accept, Base, OutOK, Reasons
<1>2. Base' /\ UNCHANGED input /\ Stops
  BY <1>1, ReturnKeeps DEF Stops
<1> QED BY <1>2, MembersSame DEF Stops

\* Nor does a change of state, but for the counter.
LEMMA StateKeeps ==
  ASSUME Base, MembersOK, NEW s, depth < max_depth[input.parser], Goto(s), UNCHANGED out
  PROVE  /\ Base' /\ MembersOK' /\ UNCHANGED input
         /\ state' = s /\ off' = off /\ line' = 1
BY GotoKeeps, MembersSame

\* The other parsers have no region.
LEMMA NoRegion ==
  ASSUME RegionOK, input.parser # "tlv_items", UNCHANGED <<input, pk_region_end, pk_rsp>>
  PROVE  RegionOK'
BY DEF RegionOK, RegionSlotWritten

----------------------------------------------------------------------------
(* Ethernet, IP, and what it carries.                                      *)

\* A case of eth_ipvx_l4 runs within the bound of the loop.
LEMMA EthBudget ==
  ASSUME NEW s, EthIn(s)
  PROVE  depth < max_depth[input.parser] /\ input.parser # "tlv_items"
BY DEF EthIn, max_depth

\* One case of the switch each.
LEMMA ParseEthernetKeeps ==
  ASSUME Variant = "c", IInv, ParseEthernet
  PROVE  IInv'
<1> USE DEF IInv
<1>1. depth < max_depth[input.parser] /\ input.parser # "tlv_items"
  BY EthBudget DEF ParseEthernet
<1>2. UNCHANGED <<pk_region_end, pk_rsp>>
  BY DEF ParseEthernet
<1>3. CASE FixedFields("ethernet", EthernetFields, ethernet_t)
  BY <1>1, <1>2, <1>3, FixedFieldsKeep, EthernetTable, NoRegion
<1>4. CASE LET key0 == Member("ethernet", "ethertype")
           IN CASE key0 = 2048  -> Goto("parse_ipv4") /\ UNCHANGED out
                [] key0 = 34525 -> Goto("parse_ipv6") /\ UNCHANGED out
                [] OTHER        -> Reject(PK_R_UNSUPPORTED_ETHERTYPE)
  <2>1. PK_R_UNSUPPORTED_ETHERTYPE \in Reasons
    BY DEF Reasons, PK_R_UNSUPPORTED_ETHERTYPE
  <2>2. CASE Goto("parse_ipv4") /\ UNCHANGED out
    BY <1>1, <1>2, <2>2, StateKeeps, NoRegion
  <2>3. CASE Goto("parse_ipv6") /\ UNCHANGED out
    BY <1>1, <1>2, <2>3, StateKeeps, NoRegion
  <2>4. CASE Reject(PK_R_UNSUPPORTED_ETHERTYPE)
    BY <1>1, <1>2, <2>1, <2>4, RejectKeeps, NoRegion
  <2> QED BY <1>4, <2>2, <2>3, <2>4
<1> QED BY <1>3, <1>4 DEF ParseEthernet

\* The select that both IP headers share.
LEMMA ByProtocolKeeps ==
  ASSUME IInv, NEW key0, depth < max_depth[input.parser], input.parser # "tlv_items",
         UNCHANGED <<pk_region_end, pk_rsp>>, ByProtocol(key0)
  PROVE  IInv'
<1> USE DEF IInv
<1>1. PK_R_UNSUPPORTED_IP_PROTOCOL \in Reasons
  BY DEF Reasons, PK_R_UNSUPPORTED_IP_PROTOCOL
<1>2. CASE Goto("parse_tcp") /\ UNCHANGED out
  BY <1>2, StateKeeps, NoRegion
<1>3. CASE Goto("parse_udp") /\ UNCHANGED out
  BY <1>3, StateKeeps, NoRegion
<1>4. CASE Reject(PK_R_UNSUPPORTED_IP_PROTOCOL)
  BY <1>1, <1>4, RejectKeeps, NoRegion
<1> QED BY <1>2, <1>3, <1>4 DEF ByProtocol

\* However it wraps, the length of the options is a word.
LEMMA OptionsLength ==
  ASSUME Base, MembersOK, input.parser = "eth_ipvx_l4"
  PROVE  options_len \in Nat
<1>1. Member("ipv4", "ihl") \in Nat
  BY MemberType DEF MembersOK
<1> DEFINE ihl == Member("ipv4", "ihl")
<1> HIDE DEF ihl
<1>2. ihl * 4 \in Nat /\ 20 \in Nat /\ 20 <= WordSize
  BY <1>1, WordSizeAssumption DEF ihl
<1>3. Minus(ihl * 4, 20) \in Nat
  BY <1>2, WordResults
<1>4. (Minus(ihl * 4, 20) * 8) % WordSize \in Nat
  BY <1>3, WordSizeAssumption
<1> QED BY <1>3, <1>4 DEF options_len, ihl

\* The options have a length that may have wrapped.
LEMMA ParseIpv4Keeps ==
  ASSUME Variant = "c", IInv, ParseIpv4
  PROVE  IInv'
<1> USE DEF IInv
<1>1. depth < max_depth[input.parser] /\ input.parser # "tlv_items" /\ input.parser = "eth_ipvx_l4"
  BY EthBudget DEF ParseIpv4, EthIn
<1>2. UNCHANGED <<pk_region_end, pk_rsp>>
  BY DEF ParseIpv4
<1>3. CASE FixedFields("ipv4", Ipv4Fields, ipv4_t)
  BY <1>1, <1>2, <1>3, FixedFieldsKeep, Ipv4Table, NoRegion
<1>4. CASE line = Len(Ipv4Fields) + 1 /\ RunField("ipv4", "options", options_len)
  <2>1. line <= 14
    BY <1>4 DEF Ipv4Fields
  <2> QED BY <1>1, <1>2, <1>4, <2>1, RunKeeps, OptionsLength, NoRegion
<1>5. CASE ByProtocol(Member("ipv4", "protocol"))
  BY <1>1, <1>2, <1>5, ByProtocolKeeps
<1> QED BY <1>3, <1>4, <1>5 DEF ParseIpv4

\* The addresses are runs of 16 bytes.
LEMMA ParseIpv6Keeps ==
  ASSUME Variant = "c", IInv, ParseIpv6
  PROVE  IInv'
<1> USE DEF IInv
<1>1. depth < max_depth[input.parser] /\ input.parser # "tlv_items"
  BY EthBudget DEF ParseIpv6
<1>2. UNCHANGED <<pk_region_end, pk_rsp>>
  BY DEF ParseIpv6
<1>3. CASE FixedFields("ipv6", Ipv6Fields, ipv6_t)
  BY <1>1, <1>2, <1>3, FixedFieldsKeep, Ipv6Table, NoRegion
<1>4. ASSUME NEW name, NEW k \in 1..2, line = Len(Ipv6Fields) + k, RunField("ipv6", name, 16 * 8)
      PROVE  IInv'
  <2>1. line <= 14 /\ 16 * 8 \in Nat
    BY <1>4 DEF Ipv6Fields
  <2> QED BY <1>1, <1>2, <1>4, <2>1, RunKeeps, NoRegion
<1>5. CASE ByProtocol(Member("ipv6", "next_header"))
  BY <1>1, <1>2, <1>5, ByProtocolKeeps
<1> QED BY <1>3, <1>4, <1>5 DEF ParseIpv6

\* The last header, then accept.
LEMMA ParseTcpKeeps ==
  ASSUME Variant = "c", IInv, ParseTcp
  PROVE  IInv'
<1> USE DEF IInv
<1>1. input.parser # "tlv_items" /\ UNCHANGED <<pk_region_end, pk_rsp>>
  BY EthBudget DEF ParseTcp
<1>2. CASE FixedFields("tcp", TcpFields, tcp_t)
  BY <1>1, <1>2, FixedFieldsKeep, TcpTable, NoRegion
<1>3. CASE Accept
  BY <1>1, <1>3, AcceptKeeps, NoRegion
<1> QED BY <1>2, <1>3 DEF ParseTcp

\* The same.
LEMMA ParseUdpKeeps ==
  ASSUME Variant = "c", IInv, ParseUdp
  PROVE  IInv'
<1> USE DEF IInv
<1>1. input.parser # "tlv_items" /\ UNCHANGED <<pk_region_end, pk_rsp>>
  BY EthBudget DEF ParseUdp
<1>2. CASE FixedFields("udp", UdpFields, udp_t)
  BY <1>1, <1>2, FixedFieldsKeep, UdpTable, NoRegion
<1>3. CASE Accept
  BY <1>1, <1>3, AcceptKeeps, NoRegion
<1> QED BY <1>2, <1>3 DEF ParseUdp

----------------------------------------------------------------------------
(* A length, and items inside the region it opens.                          *)

\* A member is what it was when its load is.
LEMMA MemberSame ==
  ASSUME NEW h, NEW name, UNCHANGED input, out'.loads[<<h, name>>] = out.loads[<<h, name>>]
  PROVE  Member(h, name)' = Member(h, name)
BY DEF Member, ValueOf, ByteOf

\* With the region open: it stays open on the same end.
LEMMA OpenStays ==
  ASSUME RegionOK, input.parser = "tlv_items", pk_rsp = 1,
         UNCHANGED <<input, pk_region_end, pk_rsp>>,
         out'.loads[<<"total_len", "total">>] = out.loads[<<"total_len", "total">>],
         off' <= pk_region_end,
         state' \in {"tlv_loop", "parse_item", "close", "returned"}
  PROVE  RegionOK'
<1>1. Member("total_len", "total")' = Member("total_len", "total")
  BY MemberSame
<1> QED BY <1>1 DEF RegionOK, RegionSlotWritten

\* With the region closed: nothing looks at it once the call returns.
LEMMA ClosedStop ==
  ASSUME RegionOK, UNCHANGED <<input, pk_region_end>>, pk_rsp' = 0, state' = "returned"
  PROVE  RegionOK'
BY DEF RegionOK, RegionSlotWritten

\* A field of an item, or the length itself: it ends inside the region.
LEMMA FieldInRegionKeeps ==
  ASSUME Variant = "c", Base, MembersOK, RegionOK, NEW h, NEW f, NEW type, FieldOK(f, type),
         Narrow(h, f.name, f.bits), line <= 14, FieldInRegion(h, f, type)
  PROVE  /\ Base' /\ MembersOK' /\ UNCHANGED input
         /\ Written(h, f.name, f.bits)
         /\ Stops \/ (Advances(f.bits) /\ (pk_rsp # 0 => off' <= pk_region_end))
<1>1. Plus(off, f.bits) = off + f.bits
  BY NoWrap, WordSizeAssumption DEF Base, InputOK, IsPacket, CursorOK, bit_len, FieldOK
<1>2. CASE Rejected(PK_R_OUT_OF_REGION_BOUNDS, Present(h))
  <2>1. PK_R_OUT_OF_REGION_BOUNDS \in Reasons
    BY DEF Reasons
  <2>2. Return(1, PK_R_OUT_OF_REGION_BOUNDS, Present(h))
    BY <1>2 DEF Rejected
  <2>3. Base' /\ UNCHANGED input /\ Stops
    BY <2>1, <2>2, PresentShape, ReturnKeeps DEF Stops
  <2> QED BY <2>3, MembersSame DEF Written, Stops
<1>3. CASE /\ ~(pk_rsp # 0 /\ Plus(off, f.bits) > pk_region_end)
           /\ FixedField(h, f, type)
  <2>1. Base' /\ UNCHANGED input /\ Written(h, f.name, f.bits) /\ (Stops \/ Advances(f.bits))
    BY <1>3, FixedFieldKeeps
  <2>2. MembersOK'
    BY <2>1, MembersKept
  <2>3. ASSUME Advances(f.bits), pk_rsp # 0
        PROVE  off' <= pk_region_end
    BY <1>1, <1>3, <2>3 DEF Advances, RegionOK, FieldOK, Base, CursorOK
  <2> QED BY <2>1, <2>2, <2>3
<1> QED BY <1>2, <1>3 DEF FieldInRegion

\* The value of an item ends inside the region too.
LEMMA RunInRegionKeeps ==
  ASSUME Base, MembersOK, RegionOK, pk_rsp = 1, off <= pk_region_end,
         NEW h, NEW name, NEW vlen \in Nat, line <= 14, RunInRegion(h, name, vlen)
  PROVE  /\ Base' /\ MembersOK' /\ UNCHANGED input /\ out'.loads = out.loads
         /\ Stops \/ (Advances(vlen) /\ off' <= pk_region_end)
<1>1. Minus(pk_region_end, off) = pk_region_end - off /\ off \in Nat /\ pk_region_end \in Nat
  BY NoWrap DEF RegionOK, Base, CursorOK
<1>2. CASE Reject(PK_R_OUT_OF_REGION_BOUNDS)
  <2>1. PK_R_OUT_OF_REGION_BOUNDS \in Reasons
    BY DEF Reasons
  <2> QED BY <1>2, <2>1, RejectKeeps DEF Stops
<1>3. CASE vlen <= Minus(pk_region_end, off) /\ RunField(h, name, vlen)
  <2>1. /\ Base' /\ UNCHANGED input /\ out'.loads = out.loads
        /\ Stops \/ Advances(vlen)
    BY <1>3, RunFieldKeeps
  <2>2. MembersOK'
    BY <2>1, MembersSame
  <2>3. off + vlen <= pk_region_end
    BY <1>1, <1>3
  <2> QED BY <2>1, <2>2, <2>3 DEF Advances
<1>4. vlen \in Nat /\ Minus(pk_region_end, off) \in Nat
  BY <1>1, WordResults, NoWrap DEF RegionOK
<1> QED BY <1>2, <1>3, <1>4 DEF RunInRegion

\* A case of tlv_items runs within the bound of the loop.
LEMMA TlvBudget ==
  ASSUME NEW s, TlvIn(s)
  PROVE  depth < max_depth[input.parser] /\ input.parser = "tlv_items" /\ state = s
BY DEF TlvIn, max_depth

\* The length is loaded, the region pushed, and never twice.
LEMMA ParseTotalKeeps ==
  ASSUME Variant = "c", IInv, ParseTotal
  PROVE  IInv'
<1> USE DEF IInv
<1>1. depth < max_depth[input.parser] /\ input.parser = "tlv_items" /\ state = "parse_total"
  BY TlvBudget DEF ParseTotal
<1>2. /\ line \in 1..3
      /\ pk_rsp = IF line = 3 THEN 1 ELSE 0
      /\ off = IF line = 1 THEN 0 ELSE 8
      /\ pk_region_end \in Nat /\ pk_region_end < WordSize
  BY <1>1 DEF RegionOK
<1>3. CASE /\ line = 1
           /\ FieldInRegion("total_len", Whole("total", 8), total_len_t.total)
           /\ UNCHANGED <<pk_region_end, pk_rsp>>
  <2> DEFINE f == Whole("total", 8)
  <2>1. /\ FieldOK(f, total_len_t.total) /\ Narrow("total_len", f.name, f.bits) /\ f.bits = 8
    BY DEF Whole, total_len_t, FieldOK, Narrow
  <2> HIDE DEF f
  <2>2. FieldInRegion("total_len", f, total_len_t.total)
    BY <1>3 DEF f
  <2>3. Base' /\ MembersOK' /\ UNCHANGED input /\ (Stops \/ Advances(8))
    BY <1>3, <2>1, <2>2, FieldInRegionKeeps
  <2>4. CASE Stops
    BY <1>2, <1>3, <2>3, <2>4, ClosedStop DEF Stops
  <2>5. CASE Advances(8)
    BY <1>1, <1>2, <1>3, <2>3, <2>5 DEF Advances, RegionOK, RegionSlotWritten
  <2> QED BY <2>3, <2>4, <2>5
<1>4. CASE line = 2 /\ PushRegion(Member("total_len", "total") * 8)
  <2> DEFINE total == Member("total_len", "total")
  <2>1. total \in Nat /\ total < 256
    BY <1>1, MemberType DEF MembersOK
  <2>2. CASE Reject(PK_R_REGION_OUT_OF_BOUNDS) /\ UNCHANGED <<pk_region_end, pk_rsp>>
    <3>1. PK_R_REGION_OUT_OF_BOUNDS \in Reasons
      BY DEF Reasons
    <3>2. Base' /\ MembersOK' /\ UNCHANGED input /\ Stops
      BY <2>2, <3>1, RejectKeeps
    <3> QED BY <1>2, <1>4, <2>2, <3>2, ClosedStop DEF Stops
  <2>3. CASE /\ pk_region_end' = Plus(off, total * 8)
             /\ pk_rsp' = pk_rsp + 1
             /\ line' = line + 1
             /\ UNCHANGED <<input, state, depth, off, out>>
    <3>1. Member("total_len", "total")' = total
      BY <2>3, MemberSame
    <3> HIDE DEF total
    <3>2. off = 8 /\ total * 8 \in Nat /\ total * 8 < 2048
      BY <1>2, <1>4, <2>1
    <3>3. Plus(off, total * 8) = 8 + 8 * total /\ 8 + 8 * total < WordSize
      BY <2>1, <3>2, NoWrap, WordSizeAssumption
    <3>4. OutOK' /\ InputOK' /\ CursorOK'
      BY <1>2, <1>4, <2>3
         DEF Base, OutOK, InputOK, CursorOK, bit_len, GoodLoad, GoodRun
    <3>5. MembersOK'
      BY <2>3, MembersSame
    <3>6. RegionOK'
      BY <1>1, <1>2, <1>4, <2>1, <2>3, <3>1, <3>2, <3>3 DEF RegionOK, RegionSlotWritten
    <3> QED BY <3>4, <3>5, <3>6 DEF Base
  <2> QED BY <1>4, <2>2, <2>3 DEF PushRegion
<1>5. CASE line = 3 /\ Goto("tlv_loop") /\ UNCHANGED <<pk_region_end, pk_rsp, out>>
  <2>1. Base' /\ MembersOK' /\ UNCHANGED input /\ state' = "tlv_loop" /\ off' = off
    BY <1>1, <1>5, StateKeeps
  <2>2. pk_rsp = 1 /\ off <= pk_region_end
    BY <1>1, <1>2, <1>5 DEF RegionOK, RegionSlotWritten
  <2> QED BY <1>1, <1>5, <2>1, <2>2, OpenStays
<1> QED BY <1>3, <1>4, <1>5 DEF ParseTotal

\* The states past the push run with the region open.
LEMMA RegionIsOpen ==
  ASSUME IInv, NEW s \in {"tlv_loop", "parse_item", "close"}, TlvIn(s)
  PROVE  /\ depth < max_depth[input.parser] /\ input.parser = "tlv_items"
         /\ pk_rsp = 1 /\ off <= pk_region_end
BY TlvBudget DEF IInv, RegionOK, RegionSlotWritten

\* remaining() looks at a region that is open.
LEMMA TlvLoopKeeps ==
  ASSUME IInv, TlvLoop
  PROVE  IInv'
<1> USE DEF IInv
<1>1. /\ depth < max_depth[input.parser] /\ input.parser = "tlv_items"
      /\ pk_rsp = 1 /\ off <= pk_region_end
  BY RegionIsOpen DEF TlvLoop
<1>2. /\ Goto("close") \/ Goto("parse_item")
      /\ UNCHANGED <<pk_region_end, pk_rsp, out>>
  BY DEF TlvLoop
<1>3. /\ Base' /\ MembersOK' /\ UNCHANGED input /\ off' = off
      /\ state' \in {"close", "parse_item"}
  BY <1>1, <1>2, StateKeeps
<1> QED BY <1>1, <1>2, <1>3, OpenStays

\* The fields of an item fit their members.
LEMMA ItemTable == TableOK("item", TlvItemFields, tlv_item_t)
<1>1. ASSUME NEW i \in 1..2
      PROVE  FieldOK(TlvItemFields[i], tlv_item_t[TlvItemFields[i].name])
             /\ Narrow("item", TlvItemFields[i].name, TlvItemFields[i].bits)
  BY DEF TlvItemFields, tlv_item_t, Whole, FieldOK, Narrow
<1> QED BY <1>1 DEF TableOK, TlvItemFields

\* An item changes neither the region nor the length it was opened with.
LEMMA ParseItemKeeps ==
  ASSUME Variant = "c", IInv, ParseItem
  PROVE  IInv'
<1> USE DEF IInv
<1>1. /\ depth < max_depth[input.parser] /\ input.parser = "tlv_items"
      /\ pk_rsp = 1 /\ off <= pk_region_end
  BY RegionIsOpen DEF ParseItem
<1>2. UNCHANGED <<pk_region_end, pk_rsp>> /\ state = "parse_item"
  BY DEF ParseItem, TlvIn
<1>3. CASE /\ line <= Len(TlvItemFields)
           /\ FieldInRegion("item", TlvItemFields[line], tlv_item_t[TlvItemFields[line].name])
  <2> DEFINE f == TlvItemFields[line]
             type == tlv_item_t[f.name]
  <2>1. line \in 1..Len(TlvItemFields) /\ line <= 14
    BY <1>3, ItemTable DEF TableOK, Base, CursorOK
  <2>2. FieldOK(f, type) /\ Narrow("item", f.name, f.bits) /\ FieldInRegion("item", f, type)
    BY <1>3, <2>1, ItemTable DEF TableOK
  <2> HIDE DEF f, type
  <2>3. /\ Base' /\ MembersOK' /\ UNCHANGED input
        /\ Written("item", f.name, f.bits)
        /\ Stops \/ (Advances(f.bits) /\ (pk_rsp # 0 => off' <= pk_region_end))
    BY <2>1, <2>2, FieldInRegionKeeps
  <2>4. out'.loads[<<"total_len", "total">>] = out.loads[<<"total_len", "total">>]
    BY <1>1, <2>3 DEF Written, MembersOK, Fits
  <2>5. off' <= pk_region_end /\ state' \in {"parse_item", "returned"}
    BY <1>1, <1>2, <2>3 DEF Stops, Advances
  <2> QED BY <1>1, <1>2, <2>3, <2>4, <2>5, OpenStays
<1>4. CASE line = 3 /\ RunInRegion("item", "val", Member("item", "ln") * 8)
  <2> DEFINE vlen == Member("item", "ln") * 8
  <2>1. vlen \in Nat
    BY <1>1, MemberType DEF MembersOK
  <2> HIDE DEF vlen
  <2>2. RunInRegion("item", "val", vlen) /\ line <= 14
    BY <1>4 DEF vlen
  <2>3. /\ Base' /\ MembersOK' /\ UNCHANGED input /\ out'.loads = out.loads
        /\ Stops \/ (Advances(vlen) /\ off' <= pk_region_end)
    BY <1>1, <2>1, <2>2, RunInRegionKeeps
  <2>4. off' <= pk_region_end /\ state' \in {"parse_item", "returned"}
    BY <1>1, <1>2, <2>3 DEF Stops, Advances
  <2> QED BY <1>1, <1>2, <2>3, <2>4, OpenStays
<1>5. CASE line = 4 /\ Goto("tlv_loop") /\ UNCHANGED out
  <2>1. Base' /\ MembersOK' /\ UNCHANGED input /\ state' = "tlv_loop" /\ off' = off
    BY <1>1, <1>5, StateKeeps
  <2> QED BY <1>1, <1>2, <1>5, <2>1, OpenStays
<1> QED BY <1>3, <1>4, <1>5 DEF ParseItem

\* The pop finds the region it closes.
LEMMA CloseKeeps ==
  ASSUME IInv, Close
  PROVE  IInv'
<1> USE DEF IInv
<1>1. pk_rsp = 1 /\ UNCHANGED pk_region_end
  BY RegionIsOpen DEF Close
<1>2. pk_rsp' = 0 /\ (Reject(PK_R_REGION_NOT_EXHAUSTED) \/ Accept)
  BY <1>1 DEF Close
<1>3. PK_R_REGION_NOT_EXHAUSTED \in Reasons
  BY DEF Reasons
<1>4. Base' /\ MembersOK' /\ UNCHANGED input /\ Stops
  BY <1>2, <1>3, RejectKeeps, AcceptKeeps
<1> QED BY <1>1, <1>2, <1>4, ClosedStop DEF Stops

----------------------------------------------------------------------------
(* A count, and that many items.                                           *)

\* A case of counted_items runs within the bound of the loop.
LEMMA CountedBudget ==
  ASSUME NEW s, CountedIn(s)
  PROVE  depth < max_depth[input.parser] /\ input.parser = "counted_items"
BY DEF CountedIn, max_depth

\* Metadata is masked to its width.
LEMMA SetRemainingKeeps ==
  ASSUME Base, MembersOK, NEW v \in Nat, line <= 14, SetRemaining(v)
  PROVE  Base' /\ MembersOK' /\ UNCHANGED input
<1>1. /\ out' = [out EXCEPT !.m_remaining = v % 256]
      /\ line' = line + 1 /\ UNCHANGED <<input, state, depth, off>>
  BY DEF SetRemaining
<1>2. v % 256 \in Byte
  BY DEF Byte
<1>3. /\ OutShape(out') /\ out'.loads = out.loads /\ out'.runs = out.runs
      /\ out'.outcome = out.outcome /\ out'.reason = out.reason
      /\ out'.consumed_bits = out.consumed_bits
  BY <1>1, <1>2 DEF Base, OutOK, OutShape
<1>4. OutOK'
  BY <1>1, <1>3 DEF Base, OutOK, GoodLoad, GoodRun
<1>5. InputOK' /\ CursorOK'
  BY <1>1 DEF Base, InputOK, CursorOK, bit_len
<1>6. MembersOK'
  BY <1>1, <1>3, MembersSame
<1> QED BY <1>1, <1>4, <1>5, <1>6 DEF Base

\* The select on what remains.
LEMMA UntilZeroKeeps ==
  ASSUME Base, MembersOK, depth < max_depth[input.parser], UntilZero
  PROVE  Base' /\ MembersOK' /\ UNCHANGED input
<1>1. (Goto("mark_done") \/ Goto("parse_item")) /\ UNCHANGED out
  BY DEF UntilZero
<1> QED BY <1>1, StateKeeps

\* The count, the first value of the metadata.
LEMMA ParseCountKeeps ==
  ASSUME Variant = "c", IInv, ParseCount
  PROVE  IInv'
<1> USE DEF IInv
<1>1. /\ depth < max_depth[input.parser] /\ input.parser = "counted_items"
      /\ UNCHANGED <<pk_region_end, pk_rsp>>
  BY CountedBudget DEF ParseCount
<1>2. CASE line = 1 /\ FixedField("count", Whole("n", 8), count_t.n)
  <2> DEFINE f == Whole("n", 8)
  <2>1. FieldOK(f, count_t.n) /\ Narrow("count", f.name, f.bits)
    BY DEF Whole, count_t, FieldOK, Narrow
  <2> HIDE DEF f
  <2>2. FixedField("count", f, count_t.n) /\ line <= 14
    BY <1>2 DEF f
  <2>3. Base' /\ UNCHANGED input /\ Written("count", f.name, f.bits)
    BY <2>1, <2>2, FixedFieldKeeps
  <2> QED BY <1>1, <2>1, <2>3, MembersKept, NoRegion
<1>3. CASE line = 2 /\ SetRemaining(Member("count", "n"))
  <2>1. Member("count", "n") \in Nat
    BY <1>1, MemberType DEF MembersOK
  <2> QED BY <1>1, <1>3, <2>1, SetRemainingKeeps, NoRegion
<1>4. CASE line = 3 /\ UntilZero
  BY <1>1, <1>4, UntilZeroKeeps, NoRegion
<1> QED BY <1>2, <1>3, <1>4 DEF ParseCount

\* An item, and one less.
LEMMA ParseCountedKeeps ==
  ASSUME Variant = "c", IInv, ParseCounted
  PROVE  IInv'
<1> USE DEF IInv
<1>1. /\ depth < max_depth[input.parser] /\ input.parser = "counted_items"
      /\ UNCHANGED <<pk_region_end, pk_rsp>>
  BY CountedBudget DEF ParseCounted
<1>2. CASE line = 1 /\ FixedField("item", Whole("v", 8), counted_item_t.v)
  <2> DEFINE f == Whole("v", 8)
  <2>1. FieldOK(f, counted_item_t.v) /\ Narrow("item", f.name, f.bits)
    BY DEF Whole, counted_item_t, FieldOK, Narrow
  <2> HIDE DEF f
  <2>2. FixedField("item", f, counted_item_t.v) /\ line <= 14
    BY <1>2 DEF f
  <2>3. Base' /\ UNCHANGED input /\ Written("item", f.name, f.bits)
    BY <2>1, <2>2, FixedFieldKeeps
  <2> QED BY <1>1, <2>1, <2>3, MembersKept, NoRegion
<1>3. CASE line = 2 /\ SetRemaining(Minus(out.m_remaining, 1))
  <2>1. out.m_remaining \in Nat
    BY DEF Base, OutOK, OutShape, Byte
  <2>2. 1 \in Nat /\ 1 <= WordSize
    BY WordSizeAssumption
  <2>3. Minus(out.m_remaining, 1) \in Nat
    BY <2>1, <2>2, WordResults
  <2> QED BY <1>1, <1>3, <2>3, SetRemainingKeeps, NoRegion
<1>4. CASE line = 3 /\ UntilZero
  BY <1>1, <1>4, UntilZeroKeeps, NoRegion
<1> QED BY <1>2, <1>3, <1>4 DEF ParseCounted

\* The flag, then accept.
LEMMA MarkDoneKeeps ==
  ASSUME IInv, MarkDone
  PROVE  IInv'
<1> USE DEF IInv
<1>1. input.parser # "tlv_items" /\ UNCHANGED <<pk_region_end, pk_rsp>>
  BY CountedBudget DEF MarkDone
<1> DEFINE result == [out EXCEPT !.m_done = 1]
<1>2. OutShape(result) /\ result.loads = out.loads /\ result.runs = out.runs
  BY DEF Base, OutOK, OutShape
<1> HIDE DEF result
<1>3. Return(0, PK_R_NONE, result) /\ PK_R_NONE \in Reasons
  BY DEF MarkDone, Reasons, result
<1>4. Base' /\ UNCHANGED input /\ out'.loads = out.loads
  BY <1>2, <1>3, ReturnKeeps
<1> QED BY <1>1, <1>4, MembersSame, NoRegion

----------------------------------------------------------------------------
(* The invariant of a call.                                                *)

\* The loop that ends without a return.
LEMMA ExhaustedKeeps ==
  ASSUME IInv, Exhausted
  PROVE  IInv'
<1> USE DEF IInv
<1>1. UNCHANGED <<pk_region_end, pk_rsp>> /\ PK_R_MAX_DEPTH_EXCEEDED \in Reasons
  BY DEF Exhausted, Reasons
<1>2. Base' /\ MembersOK' /\ UNCHANGED input /\ Stops
  BY <1>1, RejectKeeps DEF Exhausted
<1>3. CASE input.parser # "tlv_items"
  BY <1>1, <1>2, <1>3, NoRegion
<1>4. CASE input.parser = "tlv_items" /\ pk_rsp = 0
  BY <1>1, <1>2, <1>4, ClosedStop DEF Stops
<1>5. CASE input.parser = "tlv_items" /\ pk_rsp = 1
  <2>1. off <= pk_region_end
    BY <1>5 DEF RegionOK, RegionSlotWritten
  <2> QED BY <1>1, <1>2, <1>5, <2>1, OpenStays DEF Stops
<1> QED BY <1>3, <1>4, <1>5 DEF RegionOK

\* Nothing has been loaded.
LEMMA ZeroIsGood ==
  ASSUME NEW structs, NEW runs, out = ZeroOut(structs, runs), off = 0
  PROVE  /\ OutOK
         /\ \A h \in DOMAIN structs : \A f \in DOMAIN structs[h] : \A n \in Nat : Fits(<<h, f>>, n)
<1>1. /\ OutShape(out)
      /\ out.outcome = 0 /\ out.reason = PK_R_NONE /\ out.consumed_bits = 0
      /\ out.loads = [m \in UNION {{<<h, f>> : f \in DOMAIN structs[h]} : h \in DOMAIN structs} |-> NoLoad]
      /\ out.runs = [m \in runs |-> [bit_off |-> 0, bit_len |-> 0]]
  BY DEF ZeroOut, OutShape, Byte
<1>2. NoLoad \in Load /\ NoLoad.bits = 0 /\ Len(NoLoad.bytes) = 0
  BY DEF NoLoad, Load
<1>3. GoodLoad(NoLoad)
  BY <1>2 DEF GoodLoad, GoodTo
<1>4. \A m \in DOMAIN out.loads : out.loads[m] = NoLoad
  BY <1>1
<1>5. \A m \in DOMAIN out.runs : GoodRun(out.runs[m])
  BY <1>1 DEF GoodRun
<1>6. OutOK
  BY <1>1, <1>3, <1>4, <1>5 DEF OutOK, Reasons
<1>7. ASSUME NEW h \in DOMAIN structs, NEW f \in DOMAIN structs[h], NEW n \in Nat
      PROVE  Fits(<<h, f>>, n)
  <2>1. <<h, f>> \in DOMAIN out.loads
    BY <1>1
  <2> QED BY <1>2, <1>4, <2>1 DEF Fits
<1> QED BY <1>6, <1>7

\* A call starts with nothing loaded and the region array as it was.
LEMMA InitIInv ==
  ASSUME Init
  PROVE  IInv
<1>1. InputOK /\ CursorOK
  BY InputsAssumption DEF Init, Locals, InputOK, CursorOK, IsPacket, Parsers, max_depth, bit_len
<1>2. /\ pk_rsp = 0 /\ line = 1 /\ off = 0
      /\ pk_region_end \in Nat /\ pk_region_end < WordSize
  BY GarbageAssumption, WordSizeAssumption DEF Init, Locals
<1>3. CASE EthStart
  <2> DEFINE structs == [ethernet |-> ethernet_t, ipv4 |-> ipv4_t, ipv6 |-> ipv6_t, tcp |-> tcp_t,
                         udp |-> udp_t]
  <2>1. /\ OutOK
        /\ \A h \in DOMAIN structs : \A f \in DOMAIN structs[h] : \A n \in Nat : Fits(<<h, f>>, n)
    BY <1>2, <1>3, ZeroIsGood DEF EthStart, EthZero
  <2>2. Fits(<<"ethernet", "ethertype">>, 16) /\ Fits(<<"ipv4", "ihl">>, 4)
        /\ Fits(<<"ipv4", "protocol">>, 8) /\ Fits(<<"ipv6", "next_header">>, 8)
    BY <2>1 DEF ethernet_t, ipv4_t, ipv6_t
  <2> QED BY <1>1, <1>2, <1>3, <2>1, <2>2
          DEF EthStart, IInv, Base, MembersOK, RegionOK, RegionSlotWritten
<1>4. CASE TlvStart
  <2> DEFINE structs == [total_len |-> total_len_t, item |-> tlv_item_t]
  <2>1. /\ OutOK
        /\ \A h \in DOMAIN structs : \A f \in DOMAIN structs[h] : \A n \in Nat : Fits(<<h, f>>, n)
    BY <1>2, <1>4, ZeroIsGood DEF TlvStart, TlvZero
  <2>2. Fits(<<"total_len", "total">>, 8) /\ Fits(<<"item", "ln">>, 8)
    BY <2>1 DEF total_len_t, tlv_item_t
  <2> QED BY <1>1, <1>2, <1>4, <2>1, <2>2
          DEF TlvStart, IInv, Base, MembersOK, RegionOK, RegionSlotWritten
<1>5. CASE CountedStart
  <2> DEFINE structs == [count |-> count_t, item |-> counted_item_t]
  <2>1. /\ OutOK
        /\ \A h \in DOMAIN structs : \A f \in DOMAIN structs[h] : \A n \in Nat : Fits(<<h, f>>, n)
    BY <1>2, <1>5, ZeroIsGood DEF CountedStart, CountedZero
  <2>2. Fits(<<"count", "n">>, 8)
    BY <2>1 DEF count_t
  <2> QED BY <1>1, <1>2, <1>5, <2>1, <2>2
          DEF CountedStart, IInv, Base, MembersOK, RegionOK, RegionSlotWritten
<1> QED BY <1>3, <1>4, <1>5 DEF Init

\* One case of Next each.
LEMMA NextIInv ==
  ASSUME Variant = "c", IInv, [Next]_vars
  PROVE  IInv'
<1>1. CASE EthStep
  BY <1>1, ParseEthernetKeeps, ParseIpv4Keeps, ParseIpv6Keeps, ParseTcpKeeps, ParseUdpKeeps DEF EthStep
<1>2. CASE TlvStep
  BY <1>2, ParseTotalKeeps, TlvLoopKeeps, ParseItemKeeps, CloseKeeps DEF TlvStep
<1>3. CASE CountedStep
  BY <1>3, ParseCountKeeps, ParseCountedKeeps, MarkDoneKeeps DEF CountedStep
<1>4. CASE Exhausted
  BY <1>4, ExhaustedKeeps
<1>5. CASE UNCHANGED vars
  <2>1. UNCHANGED <<input, state, depth, line, off, pk_region_end, pk_rsp, out>>
    BY <1>5 DEF vars
  <2>2. InputOK' /\ CursorOK'
    BY <2>1 DEF IInv, Base, InputOK, CursorOK, bit_len
  <2>3. OutOK'
    BY <2>1 DEF IInv, Base, OutOK, GoodLoad, GoodRun
  <2>4. MembersOK'
    BY <2>1, MembersSame DEF IInv
  <2>5. RegionOK'
    <3>1. Member("total_len", "total")' = Member("total_len", "total")
      BY <2>1, MemberSame
    <3> QED BY <2>1, <3>1 DEF IInv, RegionOK, RegionSlotWritten
  <2> QED BY <2>2, <2>3, <2>4, <2>5 DEF IInv, Base
<1> QED BY <1>1, <1>2, <1>3, <1>4, <1>5 DEF Next, Step, Returned

\* No step of a C parser leaves the invariant.
LEMMA SpecIInv ==
  ASSUME Variant = "c"
  PROVE  Init /\ [][Next]_vars => []IInv
<1>1. Init => IInv
  BY InitIInv
<1>2. IInv /\ [Next]_vars => IInv'
  BY NextIInv
<1> QED BY <1>1, <1>2, PTL

----------------------------------------------------------------------------
(* What the invariant says of the properties.                              *)

\* The invariant gives the types,
LEMMA IInvCoreTypeOK ==
  ASSUME IInv
  PROVE  CoreTypeOK
<1> USE DEF IInv, Base, InputOK, CursorOK
<1>1. max_depth[input.parser] \in Nat
  BY DEF IsPacket, Parsers, max_depth
<1>2. bit_len \in Nat
  BY DEF IsPacket, bit_len
<1>3. off \in 0..(WordSize - 1) /\ depth \in 0..max_depth[input.parser]
  BY <1>1, <1>2, WordSizeAssumption
<1>4. pk_rsp \in 0..1 /\ pk_region_end \in 0..(WordSize - 1)
  BY WordSizeAssumption DEF RegionOK
<1>5. out.consumed_bits \in 0..(WordSize - 1)
  BY <1>2, WordSizeAssumption DEF OutOK
<1>6. out.outcome \in 0..1 /\ out.reason \in Reasons /\ out.m_done \in 0..1 /\ out.m_remaining \in Byte
  BY DEF OutOK, OutShape
<1>7. \A m \in DOMAIN out.loads : out.loads[m] \in Load /\ out.loads[m].bits <= 64
  BY DEF OutOK, GoodLoad, GoodTo
<1> QED BY <1>3, <1>4, <1>5, <1>6, <1>7 DEF CoreTypeOK

\* and the places.
LEMMA IInvReadsAreInside ==
  ASSUME IInv
  PROVE  ReadsAreInside
BY DEF IInv, Base, CursorOK, OutOK, GoodLoad, GoodTo, GoodRun, LoadIsInside, ReadsAreInside

\* The C parsers keep their types, on any packet.
THEOREM CoreTypeCorrect ==
  ASSUME Variant = "c"
  PROVE  Spec => []CoreTypeOK
BY SpecIInv, IInvCoreTypeOK, PTL DEF Spec

\* Whatever a packet claims, and however its lengths wrap, the C parsers read no
\* byte past it and report none.
THEOREM ReadsStayInside ==
  ASSUME Variant = "c"
  PROVE  Spec => []ReadsAreInside
BY SpecIInv, IInvReadsAreInside, PTL DEF Spec

\* The slot of the region array is written before it is read, whatever it held.
THEOREM RegionIsWrittenFirst ==
  ASSUME Variant = "c"
  PROVE  Spec => []RegionSlotWritten
<1>1. IInv => RegionSlotWritten
  BY DEF IInv, RegionOK
<1> QED BY <1>1, SpecIInv, PTL DEF Spec

----------------------------------------------------------------------------
(* The masked indices.                                                     *)

\* The buffer of the mask holds every packet.
BufferHolds == \A i \in Inputs : i.bits <= 8 * (PK_BUF_MASK + 1)

\* An index below the size of the buffer is not changed by the mask.
LEMMA MaskIsIdentity ==
  ASSUME NEW i \in Nat, i < PK_BUF_MASK + 1
  PROVE  Bpf!ByteIndex(i) = i
BY MaskAssumption DEF Bpf!ByteIndex, Bpf!MaskedIndex

\* A load of whole bytes that ends inside the buffer is the same load.
LEMMA SameBytes ==
  ASSUME Variant = "c", NEW o \in Nat, NEW n \in Nat, n % 8 = 0, o + n <= 8 * (PK_BUF_MASK + 1)
  PROVE  Bpf!ByteLoad(o, n) = ByteLoad(o, n)
<1>1. ASSUME NEW k \in 1..(n \div 8)
      PROVE  Bpf!ByteIndex(o \div 8 + k - 1) = ByteIndex(o \div 8 + k - 1)
  <2> DEFINE i == o \div 8 + k - 1
  <2>1. i \in Nat /\ i < PK_BUF_MASK + 1
    BY MaskAssumption
  <2> HIDE DEF i
  <2>2. Bpf!ByteIndex(i) = ByteIndex(i)
    BY <2>1, MaskIsIdentity DEF ByteIndex
  <2> QED BY <2>2 DEF i
<1> QED BY <1>1 DEF Bpf!ByteLoad, ByteLoad

\* So is one bit by bit.
LEMMA SameBits ==
  ASSUME Variant = "c", NEW o \in Nat, NEW n \in Nat, o + n <= 8 * (PK_BUF_MASK + 1)
  PROVE  Bpf!pk_read_bits(o, n) = pk_read_bits(o, n)
<1>1. ASSUME NEW k \in 1..(((o % 8) + n + 7) \div 8)
      PROVE  Bpf!ByteIndex(o \div 8 + k - 1) = ByteIndex(o \div 8 + k - 1)
  <2> DEFINE i == o \div 8 + k - 1
  <2>1. i \in Nat /\ i < PK_BUF_MASK + 1
    BY MaskAssumption
  <2> HIDE DEF i
  <2>2. Bpf!ByteIndex(i) = ByteIndex(i)
    BY <2>1, MaskIsIdentity DEF ByteIndex
  <2> QED BY <2>2 DEF i
<1> QED BY <1>1 DEF Bpf!pk_read_bits, pk_read_bits

\* A packet that the buffer holds.
Held == bit_len <= 8 * (PK_BUF_MASK + 1)

\* Whatever loads nothing is the same statement.
LEMMA SameStatements ==
  /\ \A a, b : Bpf!Plus(a, b) = Plus(a, b) /\ Bpf!Minus(a, b) = Minus(a, b)
  /\ \A reason, result : Bpf!Rejected(reason, result) <=> Rejected(reason, result)
  /\ \A reason : Bpf!Reject(reason) <=> Reject(reason)
  /\ Bpf!Accept <=> Accept
  /\ \A s : Bpf!Goto(s) <=> Goto(s)
  /\ \A h : Bpf!Present(h) = Present(h)
  /\ \A load, w : Bpf!Cast(load, w) = Cast(load, w)
  /\ \A h, name : Bpf!Member(h, name) = Member(h, name)
  /\ \A h, name, vlen : Bpf!RunField(h, name, vlen) <=> RunField(h, name, vlen)
<1>1. \A a, b : Bpf!Plus(a, b) = Plus(a, b) /\ Bpf!Minus(a, b) = Minus(a, b)
  BY DEF Bpf!Plus, Plus, Bpf!Minus, Minus
<1>2. \A outcome, reason, result : Bpf!Return(outcome, reason, result) <=> Return(outcome, reason, result)
  BY DEF Bpf!Return, Return
<1>3. \A reason, result : Bpf!Rejected(reason, result) <=> Rejected(reason, result)
  BY <1>2 DEF Bpf!Rejected, Rejected
<1>4. \A reason : Bpf!Reject(reason) <=> Reject(reason)
  BY <1>3 DEF Bpf!Reject, Reject
<1>5. Bpf!Accept <=> Accept
  BY <1>2 DEF Bpf!Accept, Accept, Bpf!PK_R_NONE, PK_R_NONE
<1>6. \A s : Bpf!Goto(s) <=> Goto(s)
  BY DEF Bpf!Goto, Goto
<1>7. \A h : Bpf!Present(h) = Present(h)
  BY DEF Bpf!Present, Present
<1>8. \A load, w : Bpf!Cast(load, w) = Cast(load, w)
  BY DEF Bpf!Cast, Cast
<1>9. \A h, name : Bpf!Member(h, name) = Member(h, name)
  BY DEF Bpf!Member, Member, Bpf!ValueOf, ValueOf, Bpf!ByteOf, ByteOf, Bpf!TwoTo, TwoTo, Bpf!NoLoad, NoLoad
<1>10. \A h, name, vlen : Bpf!RunField(h, name, vlen) <=> RunField(h, name, vlen)
  BY <1>1, <1>4 DEF Bpf!RunField, RunField, Bpf!bit_len, bit_len, Bpf!PK_R_OUT_OF_BOUNDS, PK_R_OUT_OF_BOUNDS
<1> QED BY <1>1, <1>3, <1>4, <1>5, <1>6, <1>7, <1>8, <1>9, <1>10

\* A field that the packet holds is read from the same bytes.
LEMMA SameField ==
  ASSUME Variant = "c", Base, Held, NEW h, NEW f, NEW type, FieldOK(f, type), Bpf!FixedField(h, f, type)
  PROVE  FixedField(h, f, type)
<1>1. off \in Nat /\ Plus(off, f.bits) = off + f.bits /\ bit_len \in Nat
  BY NoWrap, WordSizeAssumption DEF Base, InputOK, IsPacket, CursorOK, bit_len, FieldOK
<1>2. /\ Bpf!Plus(off, f.bits) = Plus(off, f.bits) /\ Bpf!bit_len = bit_len
      /\ Bpf!PK_R_OUT_OF_BOUNDS = PK_R_OUT_OF_BOUNDS
  BY SameStatements DEF Bpf!bit_len, bit_len, Bpf!PK_R_OUT_OF_BOUNDS, PK_R_OUT_OF_BOUNDS
<1>3. CASE Plus(off, f.bits) > bit_len /\ Bpf!Rejected(Bpf!PK_R_OUT_OF_BOUNDS, Bpf!Present(h))
  BY <1>2, <1>3, SameStatements DEF FixedField
<1>4. CASE /\ Plus(off, f.bits) <= bit_len
           /\ out' = [Bpf!Present(h) EXCEPT
                  !.loads[<<h, f.name>>] =
                     Bpf!Cast(IF f.whole THEN Bpf!ByteLoad(off, f.bits) ELSE Bpf!pk_read_bits(off, f.bits), type)]
           /\ off' = Bpf!Plus(off, f.bits)
           /\ line' = line + 1
           /\ UNCHANGED <<input, state, depth>>
  <2>1. off + f.bits <= 8 * (PK_BUF_MASK + 1) /\ f.bits \in Nat /\ (f.whole => f.bits % 8 = 0)
    BY <1>1, <1>4, MaskAssumption DEF Held, FieldOK
  <2>2. (IF f.whole THEN Bpf!ByteLoad(off, f.bits) ELSE Bpf!pk_read_bits(off, f.bits))
          = (IF f.whole THEN ByteLoad(off, f.bits) ELSE pk_read_bits(off, f.bits))
    BY <1>1, <2>1, SameBytes, SameBits
  <2>3. /\ Bpf!Present(h) = Present(h)
        /\ \A load : Bpf!Cast(load, type) = Cast(load, type)
    BY SameStatements
  <2>4. out' = [Present(h) EXCEPT
                  !.loads[<<h, f.name>>] =
                     Cast(IF f.whole THEN ByteLoad(off, f.bits) ELSE pk_read_bits(off, f.bits), type)]
    BY <1>4, <2>2, <2>3
  <2> QED BY <1>2, <1>4, <2>4 DEF FixedField
<1> QED BY <1>2, <1>3, <1>4 DEF Bpf!FixedField

\* The next field of a header is the same field.
LEMMA SameFields ==
  ASSUME Variant = "c", Base, Held, NEW h, NEW fields, NEW struct,
         TableOK(h, fields, struct), Bpf!FixedFields(h, fields, struct)
  PROVE  FixedFields(h, fields, struct)
<1>1. line \in 1..Len(fields) /\ Bpf!FixedField(h, fields[line], struct[fields[line].name])
  BY DEF Bpf!FixedFields, TableOK, Base, CursorOK
<1>2. FieldOK(fields[line], struct[fields[line].name])
  BY <1>1 DEF TableOK
<1> QED BY <1>1, <1>2, SameField DEF FixedFields

\* Each case of the switch, masked, is the case of the C parser.
LEMMA SameParseEthernet ==
  ASSUME Variant = "c", Base, Held, Bpf!ParseEthernet
  PROVE  ParseEthernet
<1>1. Bpf!EthernetFields = EthernetFields /\ Bpf!ethernet_t = ethernet_t
  BY DEF Bpf!EthernetFields, EthernetFields, Bpf!ethernet_t, ethernet_t, Bpf!Whole, Whole
<1>2. Bpf!FixedFields("ethernet", EthernetFields, ethernet_t) => FixedFields("ethernet", EthernetFields, ethernet_t)
  BY EthernetTable, SameFields
<1>3. /\ \A s : Bpf!EthIn(s) <=> EthIn(s)
      /\ Bpf!PK_R_UNSUPPORTED_ETHERTYPE = PK_R_UNSUPPORTED_ETHERTYPE
  BY DEF Bpf!EthIn, EthIn, Bpf!PK_R_UNSUPPORTED_ETHERTYPE, PK_R_UNSUPPORTED_ETHERTYPE
<1> QED BY <1>1, <1>2, <1>3, SameStatements DEF Bpf!ParseEthernet, ParseEthernet

\* The select of both IP headers.
LEMMA SameByProtocol ==
  ASSUME NEW key0, Bpf!ByProtocol(key0)
  PROVE  ByProtocol(key0)
BY SameStatements DEF Bpf!ByProtocol, ByProtocol,
     Bpf!PK_R_UNSUPPORTED_IP_PROTOCOL, PK_R_UNSUPPORTED_IP_PROTOCOL

\* IPv4, options included.
LEMMA SameParseIpv4 ==
  ASSUME Variant = "c", Base, Held, Bpf!ParseIpv4
  PROVE  ParseIpv4
<1>1. Bpf!Ipv4Fields = Ipv4Fields /\ Bpf!ipv4_t = ipv4_t
  BY DEF Bpf!Ipv4Fields, Ipv4Fields, Bpf!ipv4_t, ipv4_t, Bpf!Whole, Whole, Bpf!Part, Part
<1>2. Bpf!FixedFields("ipv4", Ipv4Fields, ipv4_t) => FixedFields("ipv4", Ipv4Fields, ipv4_t)
  BY Ipv4Table, SameFields
<1>3. \A s : Bpf!EthIn(s) <=> EthIn(s)
  BY DEF Bpf!EthIn, EthIn
<1>4. Bpf!options_len = options_len
  BY SameStatements DEF Bpf!options_len, options_len
<1> QED BY <1>1, <1>2, <1>3, <1>4, SameStatements, SameByProtocol DEF Bpf!ParseIpv4, ParseIpv4

\* IPv6.
LEMMA SameParseIpv6 ==
  ASSUME Variant = "c", Base, Held, Bpf!ParseIpv6
  PROVE  ParseIpv6
<1>1. Bpf!Ipv6Fields = Ipv6Fields /\ Bpf!ipv6_t = ipv6_t
  BY DEF Bpf!Ipv6Fields, Ipv6Fields, Bpf!ipv6_t, ipv6_t, Bpf!Whole, Whole, Bpf!Part, Part
<1>2. Bpf!FixedFields("ipv6", Ipv6Fields, ipv6_t) => FixedFields("ipv6", Ipv6Fields, ipv6_t)
  BY Ipv6Table, SameFields
<1>3. \A s : Bpf!EthIn(s) <=> EthIn(s)
  BY DEF Bpf!EthIn, EthIn
<1> QED BY <1>1, <1>2, <1>3, SameStatements, SameByProtocol DEF Bpf!ParseIpv6, ParseIpv6

\* TCP and UDP.
LEMMA SameTransport ==
  ASSUME Variant = "c", Base, Held, Bpf!ParseTcp \/ Bpf!ParseUdp
  PROVE  ParseTcp \/ ParseUdp
<1>1. /\ Bpf!TcpFields = TcpFields /\ Bpf!tcp_t = tcp_t
      /\ Bpf!UdpFields = UdpFields /\ Bpf!udp_t = udp_t
  BY DEF Bpf!TcpFields, TcpFields, Bpf!tcp_t, tcp_t, Bpf!UdpFields, UdpFields, Bpf!udp_t, udp_t,
         Bpf!Whole, Whole, Bpf!Part, Part
<1>2. /\ Bpf!FixedFields("tcp", TcpFields, tcp_t) => FixedFields("tcp", TcpFields, tcp_t)
      /\ Bpf!FixedFields("udp", UdpFields, udp_t) => FixedFields("udp", UdpFields, udp_t)
  BY TcpTable, UdpTable, SameFields
<1>3. \A s : Bpf!EthIn(s) <=> EthIn(s)
  BY DEF Bpf!EthIn, EthIn
<1> QED BY <1>1, <1>2, <1>3, SameStatements DEF Bpf!ParseTcp, ParseTcp, Bpf!ParseUdp, ParseUdp

\* A field inside a region.
LEMMA SameFieldInRegion ==
  ASSUME Variant = "c", Base, Held, NEW h, NEW f, NEW type, FieldOK(f, type),
         Bpf!FieldInRegion(h, f, type)
  PROVE  FieldInRegion(h, f, type)
<1>1. Bpf!PK_R_OUT_OF_REGION_BOUNDS = PK_R_OUT_OF_REGION_BOUNDS
  BY DEF Bpf!PK_R_OUT_OF_REGION_BOUNDS, PK_R_OUT_OF_REGION_BOUNDS
<1>2. Bpf!FixedField(h, f, type) => FixedField(h, f, type)
  BY SameField
<1> QED BY <1>1, <1>2, SameStatements DEF Bpf!FieldInRegion, FieldInRegion

\* The length and the push.
LEMMA SameParseTotal ==
  ASSUME Variant = "c", Base, Held, Bpf!ParseTotal
  PROVE  ParseTotal
<1> DEFINE f == Whole("total", 8)
<1>1. /\ Bpf!Whole("total", 8) = f /\ Bpf!total_len_t.total = total_len_t.total
      /\ Bpf!PK_RMASK = PK_RMASK /\ Bpf!PK_R_REGION_OUT_OF_BOUNDS = PK_R_REGION_OUT_OF_BOUNDS
      /\ \A s : Bpf!TlvIn(s) <=> TlvIn(s)
  BY DEF Bpf!Whole, Whole, Bpf!total_len_t, total_len_t, Bpf!PK_RMASK, PK_RMASK,
         Bpf!PK_R_REGION_OUT_OF_BOUNDS, PK_R_REGION_OUT_OF_BOUNDS, Bpf!TlvIn, TlvIn
<1>2. FieldOK(f, total_len_t.total)
  BY DEF Whole, total_len_t, FieldOK
<1> HIDE DEF f
<1>3. Bpf!FieldInRegion("total_len", f, total_len_t.total) => FieldInRegion("total_len", f, total_len_t.total)
  BY <1>2, SameFieldInRegion
<1>4. \A rlen : Bpf!PushRegion(rlen) => PushRegion(rlen)
  BY <1>1, SameStatements DEF Bpf!PushRegion, PushRegion
<1> QED BY <1>1, <1>3, <1>4, SameStatements DEF Bpf!ParseTotal, ParseTotal, f

\* An item.
LEMMA SameParseItem ==
  ASSUME Variant = "c", Base, Held, Bpf!ParseItem
  PROVE  ParseItem
<1>1. /\ Bpf!TlvItemFields = TlvItemFields /\ Bpf!tlv_item_t = tlv_item_t
      /\ Bpf!PK_R_OUT_OF_REGION_BOUNDS = PK_R_OUT_OF_REGION_BOUNDS
      /\ \A s : Bpf!TlvIn(s) <=> TlvIn(s)
  BY DEF Bpf!TlvItemFields, TlvItemFields, Bpf!tlv_item_t, tlv_item_t, Bpf!Whole, Whole, Bpf!TlvIn, TlvIn,
         Bpf!PK_R_OUT_OF_REGION_BOUNDS, PK_R_OUT_OF_REGION_BOUNDS
<1>2. ASSUME line <= Len(TlvItemFields)
      PROVE  FieldOK(TlvItemFields[line], tlv_item_t[TlvItemFields[line].name])
  BY <1>2, ItemTable DEF TableOK, Base, CursorOK
<1>3. ASSUME line <= Len(TlvItemFields),
             Bpf!FieldInRegion("item", TlvItemFields[line], tlv_item_t[TlvItemFields[line].name])
      PROVE  FieldInRegion("item", TlvItemFields[line], tlv_item_t[TlvItemFields[line].name])
  BY <1>2, <1>3, SameFieldInRegion
<1>4. \A h, name, vlen : Bpf!RunInRegion(h, name, vlen) => RunInRegion(h, name, vlen)
  BY <1>1, SameStatements DEF Bpf!RunInRegion, RunInRegion
<1> QED BY <1>1, <1>3, <1>4, SameStatements DEF Bpf!ParseItem, ParseItem

\* The cases of tlv_items.
LEMMA SameTlvStep ==
  ASSUME Variant = "c", Base, Held, BpfTlvStep
  PROVE  TlvStep
<1>1. /\ \A s : Bpf!TlvIn(s) <=> TlvIn(s)
      /\ Bpf!PK_R_REGION_NOT_EXHAUSTED = PK_R_REGION_NOT_EXHAUSTED
  BY DEF Bpf!TlvIn, TlvIn, Bpf!PK_R_REGION_NOT_EXHAUSTED, PK_R_REGION_NOT_EXHAUSTED
<1>2. Bpf!TlvLoop => TlvLoop
  BY <1>1, SameStatements DEF Bpf!TlvLoop, TlvLoop
<1>3. Bpf!Close => Close
  BY <1>1, SameStatements DEF Bpf!Close, Close
<1> QED BY <1>2, <1>3, SameParseTotal, SameParseItem
        DEF BpfTlvStep, TlvStep, BpfParseTotal, BpfTlvLoop, BpfParseItem, BpfClose

\* The cases of counted_items.
LEMMA SameCountedStep ==
  ASSUME Variant = "c", Base, Held, BpfCountedStep
  PROVE  CountedStep
<1>1. /\ \A s : Bpf!CountedIn(s) <=> CountedIn(s)
      /\ \A v : Bpf!SetRemaining(v) <=> SetRemaining(v)
      /\ Bpf!UntilZero <=> UntilZero
  BY SameStatements DEF Bpf!CountedIn, CountedIn, Bpf!SetRemaining, SetRemaining, Bpf!UntilZero, UntilZero
<1>2. ASSUME NEW name
      PROVE  Bpf!Whole(name, 8) = Whole(name, 8)
  BY DEF Bpf!Whole, Whole
<1>3. /\ Bpf!count_t.n = count_t.n /\ FieldOK(Whole("n", 8), count_t.n)
      /\ Bpf!counted_item_t.v = counted_item_t.v /\ FieldOK(Whole("v", 8), counted_item_t.v)
  BY DEF Bpf!count_t, count_t, Bpf!counted_item_t, counted_item_t, Whole, FieldOK
<1>4. /\ Bpf!FixedField("count", Whole("n", 8), count_t.n) => FixedField("count", Whole("n", 8), count_t.n)
      /\ Bpf!FixedField("item", Whole("v", 8), counted_item_t.v)
           => FixedField("item", Whole("v", 8), counted_item_t.v)
  BY <1>3, SameField
<1>5. Bpf!ParseCount => ParseCount
  BY <1>1, <1>2, <1>3, <1>4, SameStatements DEF Bpf!ParseCount, ParseCount
<1>6. Bpf!ParseCounted => ParseCounted
  BY <1>1, <1>2, <1>3, <1>4, SameStatements DEF Bpf!ParseCounted, ParseCounted
<1>7. Bpf!MarkDone => MarkDone
  <2>1. \A outcome, reason, result : Bpf!Return(outcome, reason, result) <=> Return(outcome, reason, result)
    BY DEF Bpf!Return, Return
  <2> QED BY <1>1, <2>1 DEF Bpf!MarkDone, MarkDone, Bpf!PK_R_NONE, PK_R_NONE
<1> QED BY <1>5, <1>6, <1>7
        DEF BpfCountedStep, CountedStep, BpfParseCount, BpfParseCounted, BpfMarkDone

\* Every step.
LEMMA SameNext ==
  ASSUME Variant = "c", Base, Held, BpfNext
  PROVE  Next
<1>1. CASE BpfEthStep
  BY <1>1, SameParseEthernet, SameParseIpv4, SameParseIpv6, SameTransport
     DEF BpfEthStep, EthStep, BpfParseEthernet, BpfParseIpv4, BpfParseIpv6, BpfParseTcp, BpfParseUdp, Next, Step
<1>2. CASE BpfTlvStep
  BY <1>2, SameTlvStep DEF Next, Step
<1>3. CASE BpfCountedStep
  BY <1>3, SameCountedStep DEF Next, Step
<1>4. CASE BpfExhausted
  <2>1. /\ Bpf!max_depth = max_depth
        /\ Bpf!PK_R_MAX_DEPTH_EXCEEDED = PK_R_MAX_DEPTH_EXCEEDED
    BY DEF Bpf!max_depth, max_depth, Bpf!PK_R_MAX_DEPTH_EXCEEDED, PK_R_MAX_DEPTH_EXCEEDED
  <2> QED BY <1>4, <2>1, SameStatements DEF BpfExhausted, Bpf!Exhausted, Exhausted, Next, Step
<1>5. CASE Returned
  BY <1>5 DEF Next
<1> QED BY <1>1, <1>2, <1>3, <1>4, <1>5 DEF BpfNext, BpfStep

\* The prefix says the length that was written into it.
LEMMA PrefixRoundTrip ==
  ASSUME NEW n \in Nat
  PROVE  PrefixValue(LowByteFirst(n)) = n
<1> DEFINE n1 == n \div 256    n2 == n1 \div 256    n3 == n2 \div 256    n4 == n3 \div 256
           n5 == n4 \div 256   n6 == n5 \div 256    n7 == n6 \div 256
<1>1. \A x \in Nat : x \div 256 \in Nat /\ x = (x % 256) + (256 * (x \div 256))
  OBVIOUS
<1>2. /\ n1 \in Nat /\ n2 \in Nat /\ n3 \in Nat /\ n4 \in Nat /\ n5 \in Nat /\ n6 \in Nat /\ n7 \in Nat
  BY <1>1
<1>3. /\ n6 = (n6 % 256) + (256 * n7) /\ n5 = (n5 % 256) + (256 * n6) /\ n4 = (n4 % 256) + (256 * n5)
      /\ n3 = (n3 % 256) + (256 * n4) /\ n2 = (n2 % 256) + (256 * n3) /\ n1 = (n1 % 256) + (256 * n2)
      /\ n = (n % 256) + (256 * n1)
  BY <1>1, <1>2
<1>4. PrefixValue(LowByteFirst(n))
        = (n % 256) + (256 * ((n1 % 256) + (256 * ((n2 % 256) + (256 * ((n3 % 256) + (256 *
            ((n4 % 256) + (256 * ((n5 % 256) + (256 * ((n6 % 256) + (256 * n7)))))))))))))
  BY DEF PrefixValue, LowByteFirst
<1> HIDE DEF n1, n2, n3, n4, n5, n6, n7
<1> QED BY <1>3, <1>4

\* No statement changes the packet.
LEMMA InputStays ==
  ASSUME [Next]_vars
  PROVE  UNCHANGED input
<1>1. /\ \A s : Goto(s) => UNCHANGED input
      /\ \A outcome, reason, result : Return(outcome, reason, result) => UNCHANGED input
  BY DEF Goto, Return
<1>2. /\ \A reason, result : Rejected(reason, result) => UNCHANGED input
      /\ \A reason : Reject(reason) => UNCHANGED input
      /\ Accept => UNCHANGED input
  BY <1>1 DEF Rejected, Reject, Accept
<1>3. \A h, f, type : FixedField(h, f, type) => UNCHANGED input
  BY <1>2 DEF FixedField
<1>4. /\ \A h, fields, struct : FixedFields(h, fields, struct) => UNCHANGED input
      /\ \A h, f, type : FieldInRegion(h, f, type) => UNCHANGED input
  BY <1>2, <1>3 DEF FixedFields, FieldInRegion
<1>5. \A h, name, vlen : RunField(h, name, vlen) => UNCHANGED input
  BY <1>2 DEF RunField
<1>6. /\ \A h, name, vlen : RunInRegion(h, name, vlen) => UNCHANGED input
      /\ \A rlen : PushRegion(rlen) => UNCHANGED input
  BY <1>2, <1>5 DEF RunInRegion, PushRegion
<1>7. \A key0 : ByProtocol(key0) => UNCHANGED input
  BY <1>1, <1>2 DEF ByProtocol
<1>8. CASE ParseEthernet
  BY <1>1, <1>2, <1>4, <1>8 DEF ParseEthernet
<1>9. CASE ParseIpv4 \/ ParseIpv6
  BY <1>4, <1>5, <1>7, <1>9 DEF ParseIpv4, ParseIpv6
<1>10. CASE ParseTcp \/ ParseUdp
  BY <1>2, <1>4, <1>10 DEF ParseTcp, ParseUdp
<1>11. CASE ParseTotal \/ TlvLoop
  BY <1>1, <1>4, <1>6, <1>11 DEF ParseTotal, TlvLoop
<1>12. CASE ParseItem \/ Close
  BY <1>1, <1>2, <1>4, <1>6, <1>12 DEF ParseItem, Close
<1>13. CASE CountedStep
  BY <1>1, <1>3, <1>13 DEF CountedStep, ParseCount, ParseCounted, MarkDone, SetRemaining, UntilZero
<1>14. CASE Exhausted \/ UNCHANGED vars
  BY <1>2, <1>14 DEF Exhausted, vars
<1> QED BY <1>8, <1>9, <1>10, <1>11, <1>12, <1>13, <1>14 DEF Next, Step, EthStep, TlvStep, Returned

\* The call: the length that the prefix says is the length of the packet.
LEMMA SameInit ==
  ASSUME BufferHolds, BpfInit
  PROVE  Init /\ Held
<1>1. PICK i \in Inputs : /\ input = [i EXCEPT !.bits = PrefixValue(LowByteFirst(i.bits))]
                          /\ Locals /\ (EthStart \/ TlvStart \/ CountedStart)
  BY DEF BpfInit
<1>2. i = [parser |-> i.parser, bits |-> i.bits, bytes |-> i.bytes] /\ i.bits \in Nat
  BY InputsAssumption DEF IsPacket
<1>3. PrefixValue(LowByteFirst(i.bits)) = i.bits
  BY <1>2, PrefixRoundTrip
<1>4. input = i
  BY <1>1, <1>2, <1>3
<1> QED BY <1>1, <1>4 DEF Init, Held, bit_len, BufferHolds

\* When the buffer of the mask holds every packet, the eBPF parser, entered with
\* the length that its prefix says, does only what the C parser does.
THEOREM MaskChangesNothing ==
  ASSUME Variant = "c", BufferHolds
  PROVE  BpfInit /\ [][BpfNext]_vars => Init /\ [][Next]_vars
<1> DEFINE Inv == IInv /\ Held
<1>1. BpfInit => Init /\ Inv
  BY SameInit, InitIInv
<1>2. Inv /\ [BpfNext]_vars => [Next]_vars
  BY SameNext DEF IInv
<1>3. Inv /\ [BpfNext]_vars => Inv'
  <2>1. ASSUME Inv, [BpfNext]_vars
        PROVE  IInv'
    BY <1>2, <2>1, NextIInv
  <2>2. ASSUME Inv, [BpfNext]_vars
        PROVE  Held'
    <3>1. UNCHANGED input
      BY <1>2, <2>2, InputStays
    <3> QED BY <2>2, <3>1 DEF Held, bit_len
  <2> QED BY <2>1, <2>2
<1> HIDE DEF Inv
<1> QED BY <1>1, <1>2, <1>3, PTL

\* So the eBPF parsers too stay inside the packet, read the region's slot only
\* once written, and keep their types.
THEOREM BpfStaysInside ==
  ASSUME Variant = "c", BufferHolds
  PROVE  BpfSpec => [](CoreTypeOK /\ ReadsAreInside /\ RegionSlotWritten)
<1>1. IInv => CoreTypeOK /\ ReadsAreInside /\ RegionSlotWritten
  BY IInvCoreTypeOK, IInvReadsAreInside DEF IInv, RegionOK
<1> QED BY <1>1, MaskChangesNothing, SpecIInv, PTL DEF BpfSpec
=============================================================================

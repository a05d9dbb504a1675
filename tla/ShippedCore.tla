---------------------------- MODULE ShippedCore ----------------------------
(***************************************************************************)
(* The statements that the generated parsers of src/examples are made of:   *)
(* pk_*_parse_core of gen/parser.c and gen/parser.bpf.c.  The three parsers *)
(* differ in the cases of their switch (EthIpvxL4, TlvItems, CountedItems); *)
(* the two variants of each only in the index of a byte load, which the     *)
(* eBPF one masks.                                                          *)
(*                                                                          *)
(* Widths and offsets are those of the code.  A value of up to 64 bits is   *)
(* not computed: a member of the result struct holds the place it was       *)
(* loaded from, and only what a length or a select needs is evaluated.      *)
(***************************************************************************)
EXTENDS Naturals, Sequences

CONSTANTS
  Variant,      \* "c" or "bpf"
  PK_BUF_MASK,  \* 4095, unless set when compiling
  WordSize,     \* 2^64
  Inputs,       \* packets: the parser, the length in bits, the bytes that matter
  Garbage       \* what an uninitialised word may hold

Parsers == {"eth_ipvx_l4", "tlv_items", "counted_items"}
Byte == 0..255
IsPacket(i) ==
  /\ i = [parser |-> i.parser, bits |-> i.bits, bytes |-> i.bytes]
  /\ i.parser \in Parsers
  /\ i.bits \in Nat
  /\ \A k \in DOMAIN i.bytes : i.bytes[k] \in Byte

ASSUME VariantAssumption == Variant \in {"c", "bpf"}
ASSUME WordSizeAssumption == WordSize \in Nat /\ WordSize > 65536
ASSUME MaskAssumption == PK_BUF_MASK \in Nat
\* A buffer is far from filling the address space: no packet is within a few
\* bytes of 2^64 bits.
ASSUME InputsAssumption == \A i \in Inputs : IsPacket(i) /\ i.bits + 1024 < WordSize
ASSUME GarbageAssumption == Garbage \subseteq 0..(WordSize - 1)

VARIABLES
  input,          \* `buf` and `bit_len`
  state,          \* the switch variable, or "returned"
  depth,          \* the counter of the for loop
  line,           \* the next statement of the case
  off,            \* the cursor
  pk_region_end,  \* an array of one: PK_RMASK is zero
  pk_rsp,         \* regions open
  out             \* the result struct

vars == <<input, state, depth, line, off, pk_region_end, pk_rsp, out>>

----------------------------------------------------------------------------
(* Loads.                                                                  *)

bit_len == input.bits

\* buf[i]; what lies past the packet is never asked for.
ByteOf(i) == IF i \in DOMAIN input.bytes THEN input.bytes[i] ELSE 0

\* Mutant of MaskedIndex: a mask of 64 bytes.
TightIndex(i) == i % 64

\* (i) & PK_BUF_MASK, the mask being one less than a power of two.
MaskedIndex(i) == i % (PK_BUF_MASK + 1)

ByteIndex(i) == IF Variant = "bpf" THEN MaskedIndex(i) ELSE i

\* What a load reads: bytes of the buffer, and of these the bits after `skip`.
Load == [bytes : Seq(Nat), skip : 0..7, bits : Nat]
NoLoad == [bytes |-> <<>>, skip |-> 0, bits |-> 0]

\* Whole bytes from buf[off >> 3].
ByteLoad(o, n) ==
  [bytes |-> [k \in 1..(n \div 8) |-> ByteIndex(o \div 8 + k - 1)], skip |-> 0, bits |-> n]

\* n bits, one by one, from bit off.
pk_read_bits(o, n) ==
  [bytes |-> [k \in 1..(((o % 8) + n + 7) \div 8) |-> ByteIndex(o \div 8 + k - 1)],
   skip |-> o % 8, bits |-> n]

\* The cast to a type of w bits keeps the low bits.
Cast(load, w) ==
  IF load.bits <= w THEN load
  ELSE [load EXCEPT !.skip = ((@ + load.bits) - w) % 8, !.bits = w]

\* 2^n, for n of two bytes.
TwoTo(n) == <<1, 2, 4, 8, 16, 32, 64, 128, 256, 512, 1024, 2048, 4096, 8192, 16384, 32768, 65536>>[n + 1]

\* The number a load makes; what is asked for fits in two bytes, and is zero
\* before the load.
ValueOf(load) ==
  LET bytes == IF Len(load.bytes) = 1 THEN ByteOf(load.bytes[1])
               ELSE 256 * ByteOf(load.bytes[1]) + ByteOf(load.bytes[2])
      rest == 8 * Len(load.bytes) - load.skip - load.bits
  IN IF load = NoLoad THEN 0 ELSE (bytes \div TwoTo(rest)) % TwoTo(load.bits)

----------------------------------------------------------------------------
(* Return codes (enum pk_*_reason_t).                                      *)

PK_R_NONE == 0
PK_R_OUT_OF_BOUNDS == 1
PK_R_MAX_DEPTH_EXCEEDED == 2
PK_R_OUT_OF_REGION_BOUNDS == 4
PK_R_REGION_OUT_OF_BOUNDS == 5
PK_R_REGION_NOT_EXHAUSTED == 6
Reasons == {PK_R_NONE, PK_R_OUT_OF_BOUNDS, PK_R_MAX_DEPTH_EXCEEDED, PK_R_OUT_OF_REGION_BOUNDS,
            PK_R_REGION_OUT_OF_BOUNDS, PK_R_REGION_NOT_EXHAUSTED, 16, 17}

Plus(a, b) == (a + b) % WordSize
Minus(a, b) == ((a + WordSize) - b) % WordSize

Return(outcome, reason, result) ==
  /\ out' = [result EXCEPT !.outcome = outcome, !.reason = reason, !.consumed_bits = off]
  /\ state' = "returned"
  /\ UNCHANGED <<input, depth, line, off>>

Rejected(reason, result) == Return(1, reason, result)
Reject(reason) == Rejected(reason, out)
Accept == Return(0, PK_R_NONE, out)

\* state = s; continue;
Goto(s) ==
  /\ state' = s
  /\ depth' = depth + 1
  /\ line' = 1
  /\ UNCHANGED <<input, off>>

----------------------------------------------------------------------------
(* Fields.                                                                 *)

\* A field read as whole bytes, or bit by bit.
Whole(name, n) == [name |-> name, bits |-> n, whole |-> TRUE]
Part(name, n) == [name |-> name, bits |-> n, whole |-> FALSE]

Present(h) == [out EXCEPT !.present = @ \cup {h}]

\* if (off + n > bit_len) reject; load; off += n.  `type` is the width of the
\* member; the header is marked present before its first field.
FixedField(h, f, type) ==
  \/ /\ Plus(off, f.bits) > bit_len
     /\ Rejected(PK_R_OUT_OF_BOUNDS, Present(h))
  \/ /\ Plus(off, f.bits) <= bit_len
     /\ out' = [Present(h) EXCEPT
                  !.loads[<<h, f.name>>] =
                     Cast(IF f.whole THEN ByteLoad(off, f.bits) ELSE pk_read_bits(off, f.bits), type)]
     /\ off' = Plus(off, f.bits)
     /\ line' = line + 1
     /\ UNCHANGED <<input, state, depth>>

\* Mutant of RunField: the end is computed, and may wrap.
RunFieldBySum(h, name, vlen) ==
  \/ /\ Plus(off, vlen) > bit_len
     /\ Reject(PK_R_OUT_OF_BOUNDS)
  \/ /\ Plus(off, vlen) <= bit_len
     /\ out' = [out EXCEPT !.runs[<<h, name>>] = [bit_off |-> off, bit_len |-> vlen]]
     /\ off' = Plus(off, vlen)
     /\ line' = line + 1
     /\ UNCHANGED <<input, state, depth>>

\* if (vlen > bit_len - off) reject; the place and the length; off += vlen.
RunField(h, name, vlen) ==
  \/ /\ vlen > Minus(bit_len, off)
     /\ Reject(PK_R_OUT_OF_BOUNDS)
  \/ /\ vlen <= Minus(bit_len, off)
     /\ out' = [out EXCEPT !.runs[<<h, name>>] = [bit_off |-> off, bit_len |-> vlen]]
     /\ off' = Plus(off, vlen)
     /\ line' = line + 1
     /\ UNCHANGED <<input, state, depth>>

\* The fields of a header, one statement each, through a struct of C types.
FixedFields(h, fields, struct) ==
  /\ line <= Len(fields)
  /\ FixedField(h, fields[line], struct[fields[line].name])

Member(h, name) == ValueOf(out.loads[<<h, name>>])

----------------------------------------------------------------------------
(* The result struct after `*out = zero`.                                  *)

ZeroOut(structs, runs) ==
  [outcome |-> 0, reason |-> PK_R_NONE, consumed_bits |-> 0, present |-> {},
   loads |-> [m \in UNION {{<<h, f>> : f \in DOMAIN structs[h]} : h \in DOMAIN structs} |-> NoLoad],
   runs |-> [m \in runs |-> [bit_off |-> 0, bit_len |-> 0]],
   m_done |-> 0, m_remaining |-> 0]
=============================================================================

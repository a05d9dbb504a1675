----------------------------- MODULE ShippedBpf ----------------------------
(***************************************************************************)
(* The eBPF variants: the same cases with masked indices, entered through   *)
(* pk_entry, which takes the packet behind a prefix with its length and     *)
(* returns one word.                                                        *)
(***************************************************************************)
EXTENDS ShippedParsers

CONSTANT ConsumedSize  \* 2^48
ASSUME ConsumedSizeAssumption == ConsumedSize \in Nat \ {0}

Bpf == INSTANCE ShippedParsers WITH Variant <- "bpf"

(* examples/eth_ipvx_l4/gen/parser.bpf.c                                    *)
BpfParseEthernet == Bpf!ParseEthernet
BpfParseIpv4 == Bpf!ParseIpv4
BpfParseIpv6 == Bpf!ParseIpv6
BpfParseTcp == Bpf!ParseTcp
BpfParseUdp == Bpf!ParseUdp
BpfEthStep == BpfParseEthernet \/ BpfParseIpv4 \/ BpfParseIpv6 \/ BpfParseTcp \/ BpfParseUdp

(* examples/tlv_items/gen/parser.bpf.c                                      *)
BpfParseTotal == Bpf!ParseTotal
BpfTlvLoop == Bpf!TlvLoop
BpfParseItem == Bpf!ParseItem
BpfClose == Bpf!Close
BpfTlvStep == BpfParseTotal \/ BpfTlvLoop \/ BpfParseItem \/ BpfClose

(* examples/counted_items/gen/parser.bpf.c                                  *)
BpfParseCount == Bpf!ParseCount
BpfParseCounted == Bpf!ParseCounted
BpfMarkDone == Bpf!MarkDone
BpfCountedStep == BpfParseCount \/ BpfParseCounted \/ BpfMarkDone

BpfExhausted == Bpf!Exhausted

----------------------------------------------------------------------------
(* pk_entry.                                                               *)

\* The length, eight bytes, the low one first.
LowByteFirst(n) ==
  LET n1 == n \div 256    n2 == n1 \div 256    n3 == n2 \div 256    n4 == n3 \div 256
      n5 == n4 \div 256   n6 == n5 \div 256    n7 == n6 \div 256
  IN <<n % 256, n1 % 256, n2 % 256, n3 % 256, n4 % 256, n5 % 256, n6 % 256, n7>>

\* bit_len |= m[i] << (8 * i), for each of them.
PrefixValue(m) ==
  m[1] + 256 * (m[2] + 256 * (m[3] + 256 * (m[4] +
    256 * (m[5] + 256 * (m[6] + 256 * (m[7] + 256 * m[8]))))))

\* The call with what the frame says.
BpfInit ==
  \E i \in Inputs :
    /\ input = [i EXCEPT !.bits = PrefixValue(LowByteFirst(i.bits))]
    /\ Locals
    /\ EthStart \/ TlvStart \/ CountedStart

\* outcome << 56 | reason << 48: a reason of nine bits would reach the outcome.
Packed(outcome, reason) == 256 * (IF outcome = 1 THEN 1 ELSE reason \div 256) + (reason % 256)

EntryWord == (Packed(out.outcome, out.reason) * ConsumedSize) + (out.consumed_bits % ConsumedSize)

BpfStep == BpfEthStep \/ BpfTlvStep \/ BpfCountedStep \/ BpfExhausted
BpfNext == BpfStep \/ Returned
BpfSpec == BpfInit /\ [][BpfNext]_vars /\ WF_vars(BpfStep)

\* Masking an index changes nothing: with a mask that covers 256 bytes the
\* eBPF parsers do step by step what the C parsers do, on packets of any
\* length, those longer than the buffer of the mask included.
BpfImplementsC == Spec
=============================================================================

----------------------------- MODULE MCShipped -----------------------------
(***************************************************************************)
(* The eBPF variants of the shipped parsers on packets of every length up   *)
(* to past their longest, whole bytes and parts of one, and on some so long *)
(* that the buffer of the mask would not hold them.                         *)
(***************************************************************************)
EXTENDS ShippedBpf

MCWordSize == 2^26
MCGarbage == {0, 8, 2^26 - 1}

Place(load) == [at |-> 8 * load.bytes[1] + load.skip, bits |-> load.bits]

\* The result as a verdict: the word of pk_entry and the struct of pk_*_parse,
\* with the reason in words.
ReasonStr(reason) ==
  CASE input.parser = "eth_ipvx_l4"   -> EthReasonStr(reason)
    [] input.parser = "tlv_items"     -> TlvReasonStr(reason)
    [] input.parser = "counted_items" -> CountedReasonStr(reason)

\* A run of no bytes at offset zero is one that was not read.
FieldsRead ==
  {[header |-> m[1], field |-> m[2], at |-> Place(out.loads[m]).at, bits |-> out.loads[m].bits]
     : m \in {x \in DOMAIN out.loads : out.loads[x] # NoLoad}}
  \cup {[header |-> m[1], field |-> m[2], at |-> out.runs[m].bit_off, bits |-> out.runs[m].bit_len]
     : m \in {x \in DOMAIN out.runs : out.runs[x].bit_off # 0}}

\* Of the verdict, what the caller of pk_entry finds in its word.
Result ==
  [decided   |-> TRUE,
   accepted  |-> (EntryWord \div ConsumedSize) \div 256 = 0,
   reason    |-> ReasonStr((EntryWord \div ConsumedSize) % 256),
   consumed  |-> EntryWord % ConsumedSize,
   present   |-> out.present,
   fields    |-> FieldsRead,
   remaining |-> out.m_remaining,
   done      |-> out.m_done = 1]

Format == INSTANCE WireFormat
            WITH verdict <- IF state = "returned" THEN Result ELSE [decided |-> FALSE]

\* Every call returns, and what it returns is what the description of the
\* parser promises of the packet: verdict, reason, length consumed, headers,
\* the place of each field, metadata.
ImplementsFormat == Format!Spec

\* Whole bytes, one bit less, and three more.
Lengths(n) == {k \in 0..n : k % 8 \in {0, 3, 7}}
Long == {32760, 32768, 40000, MCWordSize - 1025}

Packets(p, ns, bs) == [parser : {p}, bits : ns, bytes : bs]

EthernetBytes == {[i \in {12, 13} |-> IF i = 12 THEN 8 ELSE 6]}
Ipv4Bytes ==
  {[i \in {12, 13, 14, 23} |-> CASE i = 12 -> 8 [] i = 13 -> 0 [] i = 14 -> 64 + words [] i = 23 -> proto]
     : words \in {0, 4, 5, 6, 15}, proto \in {1, 6, 17}}
Ipv6Bytes ==
  {[i \in {12, 13, 20} |-> CASE i = 12 -> 134 [] i = 13 -> 221 [] i = 20 -> proto] : proto \in {1, 6, 17}}

\* Totals that end inside an item, between two, in the packet and past it.
TlvBytes ==
  {[i \in 0..6 |-> IF i = 0 THEN t ELSE IF i \in {1, 3, 5} THEN 1 + i ELSE b[i]]
     : t \in {0, 1, 2, 3, 4, 5, 6, 255}, b \in [{2, 4, 6} -> {0, 1, 2}]}
\* Two items that fill 255 bytes.
FullTlv == [i \in {0, 2, 255} |-> CASE i = 0 -> 255 [] i = 2 -> 251 [] i = 255 -> 0]

Counts == {[i \in {0} |-> c] : c \in (0..8) \cup {255}}

MCInputs ==
  Packets("eth_ipvx_l4", Lengths(760) \cup Long, EthernetBytes \cup Ipv4Bytes \cup Ipv6Bytes)
    \cup Packets("tlv_items", Lengths(64) \cup Long, TlvBytes)
    \cup Packets("tlv_items", {2032, 2040, 2047, 2048} \cup Long, {FullTlv})
    \cup Packets("counted_items", (0..80) \cup Long, Counts)
=============================================================================

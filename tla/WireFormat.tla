----------------------------- MODULE WireFormat ----------------------------
(***************************************************************************)
(* What the three example parsers promise, from their descriptions in       *)
(* src/examples: where the fields of a packet are, which of them are     *)
(* there, and the verdict.  No cursor, no loop, no budget of iterations:    *)
(* a packet has a plan, the fields it announces at their places, and is      *)
(* judged by how much of the plan it holds.                                 *)
(***************************************************************************)
EXTENDS Integers, Sequences, FiniteSetsExt

CONSTANT Inputs  \* packets: the parser, the length in bits, the bytes that matter

VARIABLES input, verdict

ByteAt(packet, i) == IF i \in DOMAIN packet.bytes THEN packet.bytes[i] ELSE 0
WordAt(packet, i) == 256 * ByteAt(packet, i) + ByteAt(packet, i + 1)

\* A header: each field's place in it and width.
Ethernet == [dst |-> <<0, 48>>, src |-> <<48, 48>>, ethertype |-> <<96, 16>>]
IPv4 == [version |-> <<0, 4>>, ihl |-> <<4, 4>>, dscp |-> <<8, 6>>, ecn |-> <<14, 2>>,
         total_len |-> <<16, 16>>, id |-> <<32, 16>>, flags |-> <<48, 3>>,
         frag_offset |-> <<51, 13>>, ttl |-> <<64, 8>>, protocol |-> <<72, 8>>,
         checksum |-> <<80, 16>>, src |-> <<96, 32>>, dst |-> <<128, 32>>]
IPv6 == [version |-> <<0, 4>>, traffic_class |-> <<4, 8>>, flow_label |-> <<12, 20>>,
         payload_length |-> <<32, 16>>, next_header |-> <<48, 8>>, hop_limit |-> <<56, 8>>,
         src |-> <<64, 128>>, dst |-> <<192, 128>>]
TCP == [sport |-> <<0, 16>>, dport |-> <<16, 16>>, seq |-> <<32, 32>>, ack |-> <<64, 32>>,
        data_offset |-> <<96, 4>>, reserved |-> <<100, 4>>, flags |-> <<104, 8>>,
        window |-> <<112, 16>>, checksum |-> <<128, 16>>, urgent |-> <<144, 16>>]
UDP == [sport |-> <<0, 16>>, dport |-> <<16, 16>>, length |-> <<32, 16>>, checksum |-> <<48, 16>>]

Field(h, f, at, n) == [header |-> h, field |-> f, at |-> at, bits |-> n]
Placed(h, layout, base) == {Field(h, f, base + layout[f][1], layout[f][2]) : f \in DOMAIN layout}

----------------------------------------------------------------------------
(* The plan of a packet: its fields, where a region ends, and the verdict  *)
(* when every field is there.                                              *)

Plan(fields, end, final) == [fields |-> fields, end |-> end, final |-> final]
NoEnd == {}

Transport(fields, protocol, base) ==
  CASE protocol = 6  -> Plan(fields \cup Placed("tcp", TCP, base), NoEnd, "accept")
    [] protocol = 17 -> Plan(fields \cup Placed("udp", UDP, base), NoEnd, "accept")
    [] OTHER         -> Plan(fields, NoEnd, "unsupported ip protocol")

\* A header of fewer than five words has no room for itself: options of a
\* length that wraps are in no packet.
WithIPv4(fields, words, protocol) ==
  IF words < 5 THEN Plan(fields \cup Placed("ipv4", IPv4, 112), NoEnd, "out of bounds")
  ELSE Transport(fields \cup Placed("ipv4", IPv4, 112)
                        \cup {Field("ipv4", "options", 272, 32 * (words - 5))},
                 protocol, 112 + 32 * words)

EthPlan(packet) ==
  LET link == Placed("ethernet", Ethernet, 0)
      ethertype == WordAt(packet, 12)
  IN CASE ethertype = 2048  -> WithIPv4(link, ByteAt(packet, 14) % 16, ByteAt(packet, 23))
       [] ethertype = 34525 -> Transport(link \cup Placed("ipv6", IPv6, 112), ByteAt(packet, 20), 432)
       [] OTHER             -> Plan(link, NoEnd, "unsupported ethertype")

\* Items fill the region one after the other; eight states are a length, and
\* two items with the loop around them, or three and no way out.
TlvPlan(packet) ==
  LET end == 8 + 8 * ByteAt(packet, 0)
      start[j \in 0..3] ==
        IF j = 0 THEN 8 ELSE start[j - 1] + 16 + 8 * ByteAt(packet, start[j - 1] \div 8 + 1)
      Item(at) == {Field("item", "kind", at, 8), Field("item", "ln", at + 8, 8),
                   Field("item", "val", at + 16, 8 * ByteAt(packet, at \div 8 + 1))}
  IN Plan({Field("total_len", "total", 0, 8)}
            \cup UNION {Item(start[j]) : j \in {k \in 0..2 : start[k] < end}},
          {end},
          IF \E j \in 0..2 : start[j] = end THEN "accept" ELSE "max depth exceeded")

\* So many items; eight states are a count, six of them, and the end.
CountedPlan(packet) ==
  LET n == ByteAt(packet, 0)
  IN Plan({Field("count", "n", 0, 8)} \cup {Field("item", "v", 8 * j, 8) : j \in 1..Min({n, 7})},
          NoEnd,
          IF n <= 6 THEN "accept" ELSE "max depth exceeded")

PlanOf(packet) ==
  CASE packet.parser = "eth_ipvx_l4"   -> EthPlan(packet)
    [] packet.parser = "tlv_items"     -> TlvPlan(packet)
    [] packet.parser = "counted_items" -> CountedPlan(packet)

----------------------------------------------------------------------------
(* The verdict.                                                            *)

EndOf(f) == f.at + f.bits

\* Past the end of its region, though that may be past the end of the packet.
Outside(f, plan) == f.header = "item" /\ \E e \in plan.end : EndOf(f) > e

\* A field read again replaces the one before.
LastRead(fields) ==
  {f \in fields : ~ \E g \in fields : g.header = f.header /\ g.field = f.field /\ g.at > f.at}

Undecided == [decided |-> FALSE]

Judged(packet, plan, there) ==
  LET missing == plan.fields \ there
      first == CHOOSE f \in missing : \A g \in missing : f.at <= g.at
      items == {f \in there : f.field = "v"}
      reason == IF missing = {} THEN plan.final
                ELSE IF Outside(first, plan) THEN "out of region bounds" ELSE "out of bounds"
  IN [decided   |-> TRUE,
      accepted  |-> reason = "accept",
      reason    |-> IF reason = "accept" THEN "" ELSE reason,
      consumed  |-> Max({0} \cup {EndOf(f) : f \in there}),
      present   |-> {f.header : f \in {g \in plan.fields : g.at <= packet.bits}},
      fields    |-> LastRead(there),
      remaining |-> IF packet.parser = "counted_items" /\ there # {}
                    THEN ByteAt(packet, 0) - Cardinality(items) ELSE 0,
      done      |-> packet.parser = "counted_items" /\ reason = "accept"]

Verdict(packet, plan) ==
  Judged(packet, plan,
         {f \in plan.fields : EndOf(f) <= packet.bits /\ ~Outside(f, plan)})

Init == input \in Inputs /\ verdict = Undecided

\* One step, from no verdict to the verdict of the packet.
Decide ==
  /\ verdict = Undecided
  /\ verdict'.decided
  /\ verdict' = Verdict(input, PlanOf(input))
  /\ UNCHANGED input

Spec == Init /\ [][Decide]_<<input, verdict>> /\ <>verdict.decided
=============================================================================

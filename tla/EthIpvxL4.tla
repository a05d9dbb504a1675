----------------------------- MODULE EthIpvxL4 -----------------------------
(***************************************************************************)
(* examples/eth_ipvx_l4/gen: Ethernet, then IPv4 with options or IPv6, then *)
(* TCP or UDP.  One action per case of the switch, one step per field.      *)
(***************************************************************************)
EXTENDS ShippedCore

\* The structs of parser.h: the width of each member's type.
ethernet_t == [dst |-> 64, src |-> 64, ethertype |-> 16]
ipv4_t == [version |-> 8, ihl |-> 8, dscp |-> 8, ecn |-> 8, total_len |-> 16, id |-> 16, flags |-> 8,
           frag_offset |-> 16, ttl |-> 8, protocol |-> 8, checksum |-> 16, src |-> 32, dst |-> 32]
ipv6_t == [version |-> 8, traffic_class |-> 8, flow_label |-> 32, payload_length |-> 16,
           next_header |-> 8, hop_limit |-> 8]
tcp_t == [sport |-> 16, dport |-> 16, seq |-> 32, ack |-> 32, data_offset |-> 8, reserved |-> 8,
          flags |-> 8, window |-> 16, checksum |-> 16, urgent |-> 16]
udp_t == [sport |-> 16, dport |-> 16, length |-> 16, checksum |-> 16]

EthZero ==
  ZeroOut([ethernet |-> ethernet_t, ipv4 |-> ipv4_t, ipv6 |-> ipv6_t, tcp |-> tcp_t, udp |-> udp_t],
          {<<"ipv4", "options">>, <<"ipv6", "src">>, <<"ipv6", "dst">>})

PK_R_UNSUPPORTED_ETHERTYPE == 16
PK_R_UNSUPPORTED_IP_PROTOCOL == 17

\* *out = zero, and the first state.
EthStart == input.parser = "eth_ipvx_l4" /\ state = "parse_ethernet" /\ out = EthZero

EthReasonStr(reason) ==
  CASE reason = 1 -> "out of bounds"          [] reason = 2 -> "max depth exceeded"
    [] reason = 3 -> "no matching select arm" [] reason = 4 -> "out of region bounds"
    [] reason = 5 -> "region out of bounds"   [] reason = 6 -> "region not exhausted"
    [] reason = 16 -> "unsupported ethertype" [] reason = 17 -> "unsupported ip protocol"
    [] OTHER -> ""

EthIn(s) == input.parser = "eth_ipvx_l4" /\ state = s /\ depth < 4

EthernetFields == <<Whole("dst", 48), Whole("src", 48), Whole("ethertype", 16)>>

ParseEthernet ==
  /\ EthIn("parse_ethernet")
  /\ \/ FixedFields("ethernet", EthernetFields, ethernet_t)
     \/ /\ line = Len(EthernetFields) + 1
        /\ LET key0 == Member("ethernet", "ethertype")
           IN CASE key0 = 2048  -> Goto("parse_ipv4") /\ UNCHANGED out
                [] key0 = 34525 -> Goto("parse_ipv6") /\ UNCHANGED out
                [] OTHER        -> Reject(PK_R_UNSUPPORTED_ETHERTYPE)
  /\ UNCHANGED <<pk_region_end, pk_rsp>>

\* The select of both IP headers.
ByProtocol(key0) ==
  CASE key0 = 6  -> Goto("parse_tcp") /\ UNCHANGED out
    [] key0 = 17 -> Goto("parse_udp") /\ UNCHANGED out
    [] OTHER     -> Reject(PK_R_UNSUPPORTED_IP_PROTOCOL)

Ipv4Fields ==
  <<Part("version", 4), Part("ihl", 4), Part("dscp", 6), Part("ecn", 2), Whole("total_len", 16),
    Whole("id", 16), Part("flags", 3), Part("frag_offset", 13), Whole("ttl", 8),
    Whole("protocol", 8), Whole("checksum", 16), Whole("src", 32), Whole("dst", 32)>>

\* Mutant of options_len: a length that stops at zero.
SaturatingOptions == LET words == Member("ipv4", "ihl") IN IF words < 5 THEN 0 ELSE (words * 4 - 20) * 8

\* ((ihl * 4 - 20) * 8), in words of 64 bits.
options_len == (Minus(Member("ipv4", "ihl") * 4, 20) * 8) % WordSize

ParseIpv4 ==
  /\ EthIn("parse_ipv4")
  /\ \/ FixedFields("ipv4", Ipv4Fields, ipv4_t)
     \/ line = Len(Ipv4Fields) + 1 /\ RunField("ipv4", "options", options_len)
     \/ line = Len(Ipv4Fields) + 2 /\ ByProtocol(Member("ipv4", "protocol"))
  /\ UNCHANGED <<pk_region_end, pk_rsp>>

Ipv6Fields ==
  <<Part("version", 4), Part("traffic_class", 8), Part("flow_label", 20),
    Whole("payload_length", 16), Whole("next_header", 8), Whole("hop_limit", 8)>>

ParseIpv6 ==
  /\ EthIn("parse_ipv6")
  /\ \/ FixedFields("ipv6", Ipv6Fields, ipv6_t)
     \/ line = Len(Ipv6Fields) + 1 /\ RunField("ipv6", "src", 16 * 8)
     \/ line = Len(Ipv6Fields) + 2 /\ RunField("ipv6", "dst", 16 * 8)
     \/ line = Len(Ipv6Fields) + 3 /\ ByProtocol(Member("ipv6", "next_header"))
  /\ UNCHANGED <<pk_region_end, pk_rsp>>

TcpFields ==
  <<Whole("sport", 16), Whole("dport", 16), Whole("seq", 32), Whole("ack", 32),
    Part("data_offset", 4), Part("reserved", 4), Whole("flags", 8), Whole("window", 16),
    Whole("checksum", 16), Whole("urgent", 16)>>

ParseTcp ==
  /\ EthIn("parse_tcp")
  /\ \/ FixedFields("tcp", TcpFields, tcp_t)
     \/ line = Len(TcpFields) + 1 /\ Accept
  /\ UNCHANGED <<pk_region_end, pk_rsp>>

UdpFields == <<Whole("sport", 16), Whole("dport", 16), Whole("length", 16), Whole("checksum", 16)>>

ParseUdp ==
  /\ EthIn("parse_udp")
  /\ \/ FixedFields("udp", UdpFields, udp_t)
     \/ line = Len(UdpFields) + 1 /\ Accept
  /\ UNCHANGED <<pk_region_end, pk_rsp>>

EthStep == ParseEthernet \/ ParseIpv4 \/ ParseIpv6 \/ ParseTcp \/ ParseUdp
=============================================================================

--------------------------- MODULE ShippedParsers --------------------------
(***************************************************************************)
(* The three generated parsers, one call of one of them on one packet, and  *)
(* what such a call never does to the buffer.                               *)
(***************************************************************************)
EXTENDS EthIpvxL4, TlvItems, CountedItems

\* The loop's bound.
max_depth == [eth_ipvx_l4 |-> 4, tlv_items |-> 8, counted_items |-> 8]

\* The loop ends without a return.
Exhausted ==
  /\ state # "returned"
  /\ depth >= max_depth[input.parser]
  /\ Reject(PK_R_MAX_DEPTH_EXCEEDED)
  /\ UNCHANGED <<pk_region_end, pk_rsp>>

\* The region array of tlv_items is not initialised; the others have none.
Locals ==
  /\ depth = 0 /\ line = 1 /\ off = 0 /\ pk_rsp = 0
  /\ pk_region_end \in IF input.parser = "tlv_items" THEN Garbage ELSE {0}

Init == input \in Inputs /\ Locals /\ (EthStart \/ TlvStart \/ CountedStart)

Returned == state = "returned" /\ UNCHANGED vars

Step == EthStep \/ TlvStep \/ CountedStep \/ Exhausted
Next == Step \/ Returned

Spec == Init /\ [][Next]_vars /\ WF_vars(Step)

----------------------------------------------------------------------------
\* The types of the code: the loop counter stays within its bound, which is
\* what ends a parser whose items never do; the one slot of the region array is
\* all that is used; metadata and members fit their widths.
CoreTypeOK ==
  /\ IsPacket(input)
  /\ depth \in 0..max_depth[input.parser]
  /\ line \in 1..15
  /\ off \in 0..(WordSize - 1)
  /\ pk_region_end \in 0..(WordSize - 1)
  /\ pk_rsp \in 0..1
  /\ out.outcome \in 0..1
  /\ out.reason \in Reasons
  /\ out.consumed_bits \in 0..(WordSize - 1)
  /\ out.m_done \in 0..1
  /\ out.m_remaining \in Byte
  /\ \A m \in DOMAIN out.loads : out.loads[m] \in Load /\ out.loads[m].bits <= 64

\* Where a load ends, in bits: its bytes are consecutive and hold all of it.
LoadIsInside(load) ==
  /\ \A k \in 1..Len(load.bytes) : load.bytes[k] = load.bytes[1] + k - 1
  /\ load # NoLoad =>
       /\ 8 * load.bytes[1] + load.skip + load.bits <= off
       /\ 8 * Len(load.bytes) >= load.skip + load.bits

\* The cursor never passes the end of the packet, and what the result names,
\* the bytes of a load and the place of a run, lies before the cursor: the
\* guards keep every access inside the packet, whatever length it claims and
\* however it wraps.
ReadsAreInside ==
  /\ off <= bit_len
  /\ \A m \in DOMAIN out.loads : LoadIsInside(out.loads[m])
  /\ \A m \in DOMAIN out.runs : out.runs[m].bit_off + out.runs[m].bit_len <= off

\* The region array is read uninitialised nowhere: the states that look at it
\* run with the region open, its slot holds the end computed from the length
\* field, and the cursor has not passed it, so remaining() does not wrap.
RegionSlotWritten ==
  input.parser = "tlv_items" =>
    /\ state \in {"tlv_loop", "parse_item", "close"} => pk_rsp = 1
    /\ pk_rsp = 1 => /\ pk_region_end = 8 + 8 * Member("total_len", "total")
                     /\ off <= pk_region_end
=============================================================================

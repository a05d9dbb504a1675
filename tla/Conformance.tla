---------------------------- MODULE Conformance ----------------------------
(***************************************************************************)
(* The contract between the reference interpreter and the generated C       *)
(* parser: one validated program, the alignment analysis, then both on one  *)
(* packet (section 6 of docs/reference/ir-semantics.md; the conformance     *)
(* harness of c.rs).                                                        *)
(*                                                                          *)
(* The two runs share nothing, so their steps may be taken side by side.    *)
(***************************************************************************)
EXTENDS AlignedRuns, CParser

ConformanceInit == AlignedInit /\ CInit

\* The same packet is given to both.
CallBoth == Aligned /\ StartRun /\ CStart(packet')

\* One that has ended waits for the other.
InterpreterTurn == Run \/ (pc = "done" /\ UNCHANGED pipeline)
ParserTurn == CStep \/ (cpc = "returned" /\ UNCHANGED c_vars)

ConformanceNext ==
  \/ Validate /\ UNCHANGED <<alignment, c_vars>>
  \/ Analyse /\ UNCHANGED c_vars
  \/ CallBoth /\ UNCHANGED alignment
  \/ InterpreterTurn /\ ParserTurn /\ UNCHANGED alignment
  \/ vpc = "invalid" /\ UNCHANGED <<pipeline, alignment, c_vars>>

ConformanceSpec == ConformanceInit /\ [][ConformanceNext]_<<pipeline, alignment, c_vars>>

BothEnded == cpc = "returned" /\ result.outcome \in {"accept", "reject"}

SameReason == out.reason = result.reason

\* The interpreter calls a pop short of a region that ends past the input
\* truncation; the generated code does not look at the length of the buffer.
TruncatedPop ==
  /\ result.reason = "out of bounds"
  /\ out.reason = "region not exhausted"
  /\ off < pk_region_end[pk_rsp]
  /\ pk_region_end[pk_rsp] > bit_len

\* The last extraction of an instance, as far as it got.
LastOf(i) == headers[Max({k \in DOMAIN headers : headers[k].instance = i})]

\* The struct holds the last extraction of every instance that was begun, and
\* no other instance is present (c.rs: "keeping the LAST extraction").
SameHeaders ==
  /\ out.present = {headers[k].instance : k \in DOMAIN headers}
  /\ \A i \in out.present : \A f \in DOMAIN LastOf(i).fields :
       LET h == LastOf(i).fields[f]
       IN IF <<i, f>> \in DOMAIN out.words
          THEN h.value = [uint |-> out.words[<<i, f>>]]
          ELSE out.runs[<<i, f>>] = [bit_off |-> h.bit_offset, bit_len |-> h.bit_len]

\* The generated parser gives the interpreter's verdict, consumed length, final
\* metadata and extracted headers, on every packet, with fixed-size storage,
\* wrapping bounds checks and an uninitialised region array; the reject reason
\* too, but for a pop of a truncated region.
ConformsUpToPops ==
  BothEnded =>
    /\ out.outcome = result.outcome
    /\ out.consumed_bits = result.consumed_bits
    /\ out.m = meta
    /\ SameHeaders
    /\ SameReason \/ TruncatedPop

\* The parsers whose fixed-width fields ConformsUpToPops is proved for.  The
\* alignment of a field is looked up by the name of its instance, so a second
\* extraction of an instance in a state loads its fields of whole bytes from
\* the wrong byte (the run byte_load): here no state has one.
WholeBytesOnce ==
  \A s \in {ir.states[q] : q \in DOMAIN ir.states} :
    \A j, k \in DOMAIN s.extracts :
      (j < k /\ InstanceOf(s.extracts[j]) = InstanceOf(s.extracts[k])) =>
        \A w \in ToSet(ir.header_types[s.extracts[k].header_type]) :
          w.kind = "bits" => w.bits % ByteBits # 0

\* The headers are the interpreter's, however the fields are loaded (c.rs,
\* byte_load_expr: "Semantics are identical (big-endian, MSB-first)").
ConformsInHeaders == BothEnded => SameHeaders

\* The reject reason is the interpreter's, always (ir-semantics section 6: "An
\* implementation conforms iff ... it produces the same outcome, reject reason").
ConformsInReason == BothEnded => SameReason
=============================================================================

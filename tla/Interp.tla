----------------------------- MODULE Interp --------------------------------
(***************************************************************************)
(* The reference interpreter in reject mode: run_bits of                    *)
(* rust/pakeles/src/interp/mod.rs.  One step of the specification is one    *)
(* state entry, one field read, one assignment, one region operation or one *)
(* transition.  The run of one program on one packet is deterministic; Init *)
(* chooses the program and the packet.                                      *)
(*                                                                          *)
(* Where the source returns Err (the IR is malformed), the run ends with    *)
(* outcome "err".                                                           *)
(***************************************************************************)
EXTENDS IR

CONSTANTS
  Programs,   \* the parsers to run
  Packets     \* the inputs, sequences of bits

ASSUME ProgramsAssumption == Programs \subseteq Parser

\* The input, and one field past it, can be addressed.
ASSUME PacketsAssumption ==
  \A p \in Packets : p \in Seq({0, 1}) /\ Len(p) + WordBits \in Word

VARIABLES
  packet,        \* the input
  pc,            \* "enter", "body", "field" or "done"
  ix,            \* position in the state's extracts, assigns, region ops, transition
  fx,            \* position in the fields of the header being extracted
  current,       \* the state entered
  depth,         \* states entered so far
  cursor_bits,   \* the next bit to read
  entry_cursor,  \* the cursor when the current extract began
  regions,       \* end offsets of the open regions, innermost last
  env,           \* <<instance, field>> -> value
  meta,          \* the metadata store
  headers,       \* the extracted headers; the one being read is the last
  trace,         \* the states entered and the decision taken in each
  result         \* the outcome

machine == <<pc, ix, fx, current, depth, cursor_bits, entry_cursor, regions,
             env, meta, headers, trace, result>>
vars == <<ir, packet, machine>>

Running == [outcome |-> "running", reason |-> "", bit_offset |-> 0, consumed_bits |-> 0]

BuiltinReasons == {"max depth exceeded", "out of bounds", "out of region bounds",
                   "region out of bounds", "region not exhausted", "no matching select arm"}

----------------------------------------------------------------------------
(* What the current position of the run reads.                             *)

avail_bits == Len(packet)
St == ir.states[current]
NExtracts == Len(St.extracts)
NAssigns == Len(St.assigns)
NOps == Len(St.region_ops)

AtExtract == pc = "body" /\ ix <= NExtracts
AtAssign == pc = "body" /\ ix \in (NExtracts + 1)..(NExtracts + NAssigns)
AtRegionOp == pc = "body" /\ ix \in (NExtracts + NAssigns + 1)..(NExtracts + NAssigns + NOps)
AtTransition == pc = "body" /\ ix = NExtracts + NAssigns + NOps + 1

Ex == St.extracts[ix]
Fields == ir.header_types[Ex.header_type]
Width == Fields[fx]
AtFixed == pc = "field" /\ fx <= Len(Fields) /\ Width.kind = "bits"
AtRun == pc = "field" /\ fx <= Len(Fields) /\ Width.kind = "bit_len"
AssignOp == St.assigns[ix - NExtracts]
Op == St.region_ops[ix - NExtracts - NAssigns]

Top == regions[Len(regions)]
\* Mutant of BoundBits: reads are bounded by the input only.
BoundByInput == avail_bits

BoundBits == IF regions # <<>> /\ Top < avail_bits THEN Top ELSE avail_bits

\* Mutant of OobReason: every failing read inside a region is structural.
OobReasonInRegion(end) ==
  IF regions # <<>> THEN "out of region bounds" ELSE "out of bounds"

\* Crossing the innermost region is structural, whatever the input's length.
OobReason(end) ==
  IF regions # <<>> /\ (end = Undef \/ end > Top) THEN "out of region bounds" ELSE "out of bounds"

\* Mutant of ConsumedOnReject: a rejecting lookahead consumes what it read.
ConsumedByLookahead == cursor_bits

\* A lookahead consumes nothing, even when it rejects.
ConsumedOnReject == IF Ex.lookahead THEN entry_cursor ELSE cursor_bits

\* top.saturating_sub(cursor_bits), where a region is open.
RemainingHere ==
  IF regions = <<>> THEN Undef ELSE IF Top >= cursor_bits THEN Top - cursor_bits ELSE 0

ReadBits(c, n) == FromBits({k \in 0..(n - 1) : k < WordBits /\ packet[c + n - k] = 1})
ReadRun(c, n) == SubSeq(packet, c + 1, c + n)

RunLength == EvalExpr(Width.expr, env, meta, Undef)
AssignedValue == EvalExpr(AssignOp.value, env, meta, RemainingHere)
PushLength == EvalExpr(Op.len, env, meta, RemainingHere)
KeyValues == [j \in DOMAIN KeysOf(St) |-> EvalExpr(KeysOf(St)[j], env, meta, RemainingHere)]

----------------------------------------------------------------------------
(* Ends of a run.                                                          *)

Finish(outcome, reason, bit_offset, consumed) ==
  /\ pc' = "done"
  /\ result' = [outcome |-> outcome, reason |-> reason,
                bit_offset |-> bit_offset, consumed_bits |-> consumed]

RejectHere(reason) == Finish("reject", reason, cursor_bits, cursor_bits)

Decide(decision) == trace' = [trace EXCEPT ![Len(trace)].decision = decision]

\* Mutant of Masked: the value is sign-extended.
SignExtended(v, bits) ==
  IF bits < WordBits /\ v % 2^bits >= 2^(bits - 1) THEN (v % 2^bits) - 2^bits ELSE v

\* Metadata is masked to its declared width.
Masked(v, bits) == IF bits >= WordBits THEN v ELSE v % 2^bits

MaskedStore(m, v) == [meta EXCEPT ![m] = Masked(v, ir.metadata[m].bits)]

----------------------------------------------------------------------------
(* Steps.                                                                  *)

\* Mutant of EnterState: the entry that trips the bound is not recorded.
EnterStateThenRecord ==
  /\ pc = "enter"
  /\ \/ /\ depth >= ir.max_depth
        /\ RejectHere("max depth exceeded")
        /\ UNCHANGED <<depth, ix, trace>>
     \/ /\ depth < ir.max_depth
        /\ current \in DOMAIN ir.states
        /\ trace' = Append(trace, [state |-> current, decision |-> <<"none", 0>>])
        /\ depth' = depth + 1
        /\ pc' = "body"
        /\ ix' = 1
        /\ UNCHANGED result
  /\ UNCHANGED <<ir, packet, fx, current, cursor_bits, entry_cursor, regions, env, meta, headers>>

\* Mutant of EnterState: one entry too many.
EnterStateOnceMore ==
  /\ pc = "enter"
  /\ trace' = Append(trace, [state |-> current, decision |-> <<"none", 0>>])
  /\ \/ /\ depth > ir.max_depth
        /\ RejectHere("max depth exceeded")
        /\ UNCHANGED <<depth, ix>>
     \/ /\ depth <= ir.max_depth
        /\ current \in DOMAIN ir.states
        /\ depth' = depth + 1
        /\ pc' = "body"
        /\ ix' = 1
        /\ UNCHANGED result
  /\ UNCHANGED <<ir, packet, fx, current, cursor_bits, entry_cursor, regions, env, meta, headers>>

\* Mutant of EnterState: the entry is not counted.
EnterStateUncounted ==
  /\ pc = "enter"
  /\ trace' = Append(trace, [state |-> current, decision |-> <<"none", 0>>])
  /\ \/ /\ depth >= ir.max_depth
        /\ RejectHere("max depth exceeded")
        /\ UNCHANGED ix
     \/ /\ depth < ir.max_depth
        /\ current \in DOMAIN ir.states
        /\ pc' = "body"
        /\ ix' = 1
        /\ UNCHANGED result
  /\ UNCHANGED <<ir, packet, fx, current, depth, cursor_bits, entry_cursor, regions, env, meta, headers>>

\* The loop head: record the entry, check the depth budget, count the entry.
EnterState ==
  /\ pc = "enter"
  /\ trace' = Append(trace, [state |-> current, decision |-> <<"none", 0>>])
  /\ \/ /\ depth >= ir.max_depth
        /\ RejectHere("max depth exceeded")
        /\ UNCHANGED <<depth, ix>>
     \/ /\ depth < ir.max_depth
        /\ current \in DOMAIN ir.states
        /\ depth' = depth + 1
        /\ pc' = "body"
        /\ ix' = 1
        /\ UNCHANGED result
  /\ UNCHANGED <<ir, packet, fx, current, cursor_bits, entry_cursor, regions, env, meta, headers>>

BeginExtract ==
  /\ AtExtract
  /\ Ex.header_type \in DOMAIN ir.header_types
  /\ pc' = "field"
  /\ fx' = 1
  /\ entry_cursor' = cursor_bits
  /\ headers' = Append(headers, [instance |-> InstanceOf(Ex), header_type |-> Ex.header_type,
                                 start_bit |-> cursor_bits, fields |-> <<>>])
  /\ UNCHANGED <<ir, packet, ix, current, depth, cursor_bits, regions, env, meta, trace, result>>

RecordField(len, value) ==
  headers' = [headers EXCEPT ![Len(headers)].fields =
                Append(@, [bit_offset |-> cursor_bits, bit_len |-> len, value |-> value])]

\* A fixed-width field: bounded by the innermost region and by the input.
ReadFixed ==
  /\ AtFixed
  /\ \/ /\ cursor_bits + Width.bits <= BoundBits
        /\ LET v == ReadBits(cursor_bits, Width.bits)
           IN  /\ env' = [r \in DOMAIN env \cup {<<InstanceOf(Ex), fx>>} |->
                            IF r = <<InstanceOf(Ex), fx>> THEN v ELSE env[r]]
               /\ RecordField(Width.bits, [uint |-> v])
        /\ cursor_bits' = cursor_bits + Width.bits
        /\ fx' = fx + 1
        /\ UNCHANGED <<pc, result>>
     \/ /\ cursor_bits + Width.bits > BoundBits
        /\ Finish("reject", OobReason(CheckedAdd(cursor_bits, Width.bits)),
                  cursor_bits, ConsumedOnReject)
        /\ UNCHANGED <<env, headers, cursor_bits, fx>>
  /\ UNCHANGED <<ir, packet, ix, current, depth, entry_cursor, regions, meta, trace>>

\* A variable-length field binds no value; its length may have wrapped.
ReadRunField ==
  /\ AtRun
  /\ RunLength # Undef
  /\ LET end == CheckedAdd(RunLength, cursor_bits)
     IN \/ /\ end # Undef /\ end <= BoundBits
           /\ RecordField(RunLength, [bits |-> ReadRun(cursor_bits, RunLength)])
           /\ cursor_bits' = end
           /\ fx' = fx + 1
           /\ UNCHANGED <<pc, result>>
        \/ /\ end = Undef \/ end > BoundBits
           /\ Finish("reject", OobReason(end), cursor_bits, ConsumedOnReject)
           /\ UNCHANGED <<headers, cursor_bits, fx>>
  /\ UNCHANGED <<ir, packet, ix, current, depth, entry_cursor, regions, env, meta, trace>>

\* After the last field: a lookahead restores the cursor.
EndExtract ==
  /\ pc = "field"
  /\ fx = Len(Fields) + 1
  /\ cursor_bits' = IF Ex.lookahead THEN entry_cursor ELSE cursor_bits
  /\ pc' = "body"
  /\ ix' = ix + 1
  /\ UNCHANGED <<ir, packet, fx, current, depth, entry_cursor, regions, env, meta, headers,
                 trace, result>>

AssignMetadata ==
  /\ AtAssign
  /\ AssignedValue # Undef
  /\ AssignOp.metadata \in DOMAIN meta
  /\ meta' = MaskedStore(AssignOp.metadata, AssignedValue)
  /\ ix' = ix + 1
  /\ UNCHANGED <<ir, packet, pc, fx, current, depth, cursor_bits, entry_cursor, regions, env,
                 headers, trace, result>>

\* A push is checked against the enclosing region only.
PushRegion ==
  /\ AtRegionOp
  /\ Op.kind = "push"
  /\ PushLength # Undef
  /\ LET end == CheckedAdd(PushLength, cursor_bits)
         lie == end = Undef \/ (regions # <<>> /\ end > Top)
     IN \/ /\ ~lie
           /\ regions' = Append(regions, end)
           /\ ix' = ix + 1
           /\ UNCHANGED <<pc, result>>
        \/ /\ lie
           /\ RejectHere("region out of bounds")
           /\ UNCHANGED <<regions, ix>>
  /\ UNCHANGED <<ir, packet, fx, current, depth, cursor_bits, entry_cursor, env, meta, headers,
                 trace>>

\* An exact pop: a shortfall past the input is truncation, else structural.
PopRegion ==
  /\ AtRegionOp
  /\ Op.kind = "pop"
  /\ regions # <<>>
  /\ regions' = SubSeq(regions, 1, Len(regions) - 1)
  /\ \/ /\ cursor_bits < Top
        /\ RejectHere(IF Top > avail_bits THEN "out of bounds" ELSE "region not exhausted")
        /\ UNCHANGED ix
     \/ /\ cursor_bits >= Top
        /\ ix' = ix + 1
        /\ UNCHANGED <<pc, result>>
  /\ UNCHANGED <<ir, packet, fx, current, depth, cursor_bits, entry_cursor, env, meta, headers,
                 trace>>

\* Take a target: enter a state, or end the run.
Goto(target) ==
  \/ /\ target.kind = "state"
     /\ current' = target.name
     /\ pc' = "enter"
     /\ UNCHANGED result
  \/ /\ target.kind = "accept"
     /\ Finish("accept", "", cursor_bits, cursor_bits)
     /\ UNCHANGED current
  \/ /\ target.kind = "reject"
     /\ RejectHere(target.reason)
     /\ UNCHANGED current

ArmMatches(arm) ==
  /\ Len(arm.entries) = Len(KeyValues)
  /\ \A j \in DOMAIN KeyValues : EvalEntry(arm.entries[j], KeyValues[j])
MatchingArms == {i \in DOMAIN St.transition.arms : ArmMatches(St.transition.arms[i])}

TakeDirect ==
  /\ AtTransition
  /\ St.transition.kind = "direct"
  /\ Decide(<<"direct", 0>>)
  /\ Goto(St.transition.next)
  /\ UNCHANGED <<ir, packet, ix, fx, depth, cursor_bits, entry_cursor, regions, env, meta, headers>>

\* The first matching arm in declared order, else the default.
TakeSelect ==
  /\ AtTransition
  /\ St.transition.kind = "select"
  /\ \A j \in DOMAIN KeyValues : KeyValues[j] # Undef
  /\ IF MatchingArms # {}
     THEN /\ Decide(<<"arm", Min(MatchingArms)>>)
          /\ Goto(St.transition.arms[Min(MatchingArms)].next)
     ELSE /\ Decide(<<"default", 0>>)
          /\ IF St.transition.default_target = NoTarget
             THEN RejectHere("no matching select arm") /\ UNCHANGED current
             ELSE Goto(St.transition.default_target)
  /\ UNCHANGED <<ir, packet, ix, fx, depth, cursor_bits, entry_cursor, regions, env, meta, headers>>

\* Where the source leaves with Err: a name or a value that is not there.
StepMalformed ==
  \/ pc = "enter" /\ depth < ir.max_depth /\ current \notin DOMAIN ir.states
  \/ AtExtract /\ Ex.header_type \notin DOMAIN ir.header_types
  \/ AtRun /\ RunLength = Undef
  \/ AtAssign /\ (AssignedValue = Undef \/ AssignOp.metadata \notin DOMAIN meta)
  \/ AtRegionOp /\ Op.kind = "push" /\ PushLength = Undef
  \/ AtRegionOp /\ Op.kind = "pop" /\ regions = <<>>
  \/ AtTransition /\ \E j \in DOMAIN KeyValues : KeyValues[j] = Undef

\* An Err carries no result; what was consumed before it stands in for one.
Malformed ==
  /\ StepMalformed
  /\ Finish("err", "", cursor_bits, IF pc = "field" THEN ConsumedOnReject ELSE cursor_bits)
  /\ UNCHANGED <<ir, packet, ix, fx, current, depth, cursor_bits, entry_cursor, regions, env,
                 meta, headers, trace>>

Step ==
  \/ EnterState
  \/ BeginExtract
  \/ ReadFixed
  \/ ReadRunField
  \/ EndExtract
  \/ AssignMetadata
  \/ PushRegion
  \/ PopRegion
  \/ TakeDirect
  \/ TakeSelect
  \/ Malformed

----------------------------------------------------------------------------
(* The configuration a run starts in.                                      *)
Fresh(program) ==
  /\ ix = 1
  /\ fx = 1
  /\ current = program.start_state
  /\ depth = 0
  /\ cursor_bits = 0
  /\ entry_cursor = 0
  /\ regions = <<>>
  /\ env = [r \in {} |-> 0]
  /\ meta = [m \in DOMAIN program.metadata |-> program.metadata[m].init]
  /\ headers = <<>>
  /\ trace = <<>>
  /\ result = Running

Init ==
  /\ ir \in Programs
  /\ packet \in Packets
  /\ pc = "enter"
  /\ Fresh(ir)

Done == pc = "done" /\ UNCHANGED vars

Next == Step \/ Done

Spec == Init /\ [][Next]_vars
FairSpec == Spec /\ WF_vars(Step)
=============================================================================

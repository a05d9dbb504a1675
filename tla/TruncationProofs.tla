-------------------------- MODULE TruncationProofs --------------------------
(***************************************************************************)
(* What more input changes: for every set of programs whose start states    *)
(* exist, every packet and every extension of it.                           *)
(*                                                                          *)
(* Two runs are compared, so the invariant relates two copies of the        *)
(* interpreter's variables.  What one run does by itself is proved of both  *)
(* by InterpProofs: the second copy takes it by substitution.               *)
(***************************************************************************)
EXTENDS Truncation, InterpProofs

Ext == INSTANCE InterpProofs WITH
  packet <- packet2, pc <- pc2, ix <- ix2, fx <- fx2, current <- current2, depth <- depth2,
  cursor_bits <- cursor_bits2, entry_cursor <- entry_cursor2, regions <- regions2, env <- env2,
  meta <- meta2, headers <- headers2, trace <- trace2, result <- result2

----------------------------------------------------------------------------
(* What both copies share.  An instance has operators of its own for what   *)
(* reads no variable; they are the same once their definitions are expanded.*)

LEMMA SameWords ==
  /\ Ext!Word = Word /\ Ext!WordSize = WordSize /\ Ext!Undef = Undef
  /\ Ext!Name = Name /\ Ext!BinOps = BinOps /\ Ext!NoTarget = NoTarget
BY Zenon DEF Ext!Word, Word, Ext!WordSize, WordSize, Ext!Undef, Undef, Ext!Name, Name,
             Ext!NoName, NoName, Ext!BinOps, BinOps, Ext!NoTarget, NoTarget

LEMMA SameFromBits ==
  ASSUME NEW S
  PROVE  Ext!FromBits(S) = FromBits(S)
BY Zenon DEF Ext!FromBits, FromBits, Ext!MapThenSumSet, MapThenSumSet,
             Ext!MapThenFoldSet, MapThenFoldSet

LEMMA SameSchema == Ext!Parser = Parser
BY Zenon
       DEF Ext!Parser, Parser, Ext!State, State, Ext!HeaderType, HeaderType, Ext!MetadataField,
           MetadataField, Ext!Extract, Extract, Ext!Assign, Assign, Ext!RegionOp, RegionOp,
           Ext!Transition, Transition, Ext!SelectArm, SelectArm, Ext!Target, Target,
           Ext!NoTarget, NoTarget, Ext!KeysetEntry, KeysetEntry, Ext!FieldWidth, FieldWidth,
           Ext!Name, Name, Ext!NoName, NoName, Ext!Word, Word, Ext!WordSize, WordSize

LEMMA SameEvalExpr ==
  ASSUME NEW e, NEW values, NEW store, NEW rem
  PROVE  Ext!EvalExpr(e, values, store, rem) = EvalExpr(e, values, store, rem)
BY Zenon
       DEF Ext!EvalExpr, EvalExpr, Ext!LeafValue, LeafValue, Ext!WrappingOp, WrappingOp,
           Ext!BitAnd, BitAnd, Ext!BitOr, BitOr, Ext!BitsOf, BitsOf, Ext!FromBits, FromBits,
           Ext!MapThenSumSet, MapThenSumSet, Ext!MapThenFoldSet, MapThenFoldSet, Ext!Word, Word,
           Ext!WordSize, WordSize, Ext!Undef, Undef

LEMMA SameOperators ==
  /\ \A a, b : Ext!CheckedAdd(a, b) = CheckedAdd(a, b)
  /\ \A a, b : Ext!EvalEntry(a, b) <=> EvalEntry(a, b)
  /\ \A x : Ext!InstanceOf(x) = InstanceOf(x)
  /\ \A x : Ext!KeysOf(x) = KeysOf(x)
  /\ \A S : Ext!Min(S) = Min(S)
  /\ \A v, bits : Ext!Masked(v, bits) = Masked(v, bits)
BY Zenon
       DEF Ext!CheckedAdd, CheckedAdd, Ext!EvalEntry, EvalEntry, Ext!InstanceOf, InstanceOf,
           Ext!KeysOf, KeysOf, Ext!Min, Min, Ext!Masked, Masked, Ext!BitAnd, BitAnd, Ext!BitsOf,
           BitsOf, Ext!FromBits, FromBits, Ext!MapThenSumSet, MapThenSumSet, Ext!MapThenFoldSet,
           MapThenFoldSet, Ext!Word, Word, Ext!WordSize, WordSize, Ext!Undef, Undef, Ext!NoName,
           NoName

\* The run on the extension is a run of the interpreter.
LEMMA MoreIsExt == More!Next <=> Ext!Next
<1> USE DEF More!Running, Ext!Running, More!BuiltinReasons, Ext!BuiltinReasons, More!avail_bits,
           Ext!avail_bits, More!St, Ext!St, More!NExtracts, Ext!NExtracts, More!NAssigns,
           Ext!NAssigns, More!NOps, Ext!NOps, More!AtExtract, Ext!AtExtract, More!AtAssign,
           Ext!AtAssign, More!AtRegionOp, Ext!AtRegionOp, More!AtTransition, Ext!AtTransition,
           More!Ex, Ext!Ex, More!Fields, Ext!Fields, More!Width, Ext!Width, More!AtFixed,
           Ext!AtFixed, More!AtRun, Ext!AtRun, More!AssignOp, Ext!AssignOp, More!Op, Ext!Op,
           More!Top, Ext!Top, More!BoundBits, Ext!BoundBits, More!OobReason, Ext!OobReason,
           More!ConsumedOnReject, Ext!ConsumedOnReject, More!RemainingHere, Ext!RemainingHere,
           More!ReadBits, Ext!ReadBits, More!ReadRun, Ext!ReadRun, More!RunLength, Ext!RunLength,
           More!AssignedValue, Ext!AssignedValue, More!PushLength, Ext!PushLength,
           More!KeyValues, Ext!KeyValues, More!Finish, Ext!Finish, More!RejectHere,
           Ext!RejectHere, More!Decide, Ext!Decide, More!Masked, Ext!Masked, More!MaskedStore,
           Ext!MaskedStore, More!RecordField, Ext!RecordField, More!Goto, Ext!Goto,
           More!ArmMatches, Ext!ArmMatches, More!MatchingArms, Ext!MatchingArms,
           More!StepMalformed, Ext!StepMalformed, More!vars, Ext!vars, More!machine, Ext!machine,
           More!WordSize, Ext!WordSize, More!Word, Ext!Word, More!Undef, Ext!Undef, More!Name,
           Ext!Name, More!NoName, Ext!NoName, More!BinOps, Ext!BinOps, More!BitsOf, Ext!BitsOf,
           More!FromBits, Ext!FromBits, More!BitAnd, Ext!BitAnd, More!BitOr, Ext!BitOr,
           More!WrappingOp, Ext!WrappingOp, More!CheckedAdd, Ext!CheckedAdd, More!LeafValue,
           Ext!LeafValue, More!EvalExpr, Ext!EvalExpr, More!EvalEntry, Ext!EvalEntry,
           More!InstanceOf, Ext!InstanceOf, More!KeysOf, Ext!KeysOf, More!NoTarget, Ext!NoTarget,
           More!MapThenSumSet, Ext!MapThenSumSet, More!MapThenFoldSet, Ext!MapThenFoldSet,
           More!Min, Ext!Min
<1>1. /\ More!KeyValues = Ext!KeyValues
      /\ \A arm : More!ArmMatches(arm) <=> Ext!ArmMatches(arm)
      /\ More!RunLength = Ext!RunLength
      /\ More!AssignedValue = Ext!AssignedValue
      /\ More!PushLength = Ext!PushLength
  BY Zenon
<1>2. More!MatchingArms = Ext!MatchingArms
  BY <1>1, Zenon
<1> HIDE DEF More!KeyValues, Ext!KeyValues, More!ArmMatches, Ext!ArmMatches, More!RunLength,
             Ext!RunLength, More!AssignedValue, Ext!AssignedValue, More!PushLength, Ext!PushLength,
             More!MatchingArms, Ext!MatchingArms
<1>3. /\ \A t : More!Goto(t) <=> Ext!Goto(t)
      /\ \A what : More!Decide(what) <=> Ext!Decide(what)
      /\ \A why : More!RejectHere(why) <=> Ext!RejectHere(why)
  BY Zenon
<1>4. More!EnterState <=> Ext!EnterState
  BY Zenon DEF More!EnterState, Ext!EnterState
<1>5. More!BeginExtract <=> Ext!BeginExtract
  BY Zenon DEF More!BeginExtract, Ext!BeginExtract
<1>6. More!ReadFixed <=> Ext!ReadFixed
  BY Zenon DEF More!ReadFixed, Ext!ReadFixed
<1>7. More!ReadRunField <=> Ext!ReadRunField
  BY <1>1, Zenon DEF More!ReadRunField, Ext!ReadRunField
<1>8. More!EndExtract <=> Ext!EndExtract
  BY Zenon DEF More!EndExtract, Ext!EndExtract
<1>9. More!AssignMetadata <=> Ext!AssignMetadata
  BY <1>1, Zenon DEF More!AssignMetadata, Ext!AssignMetadata
<1>10. More!PushRegion <=> Ext!PushRegion
  BY <1>1, Zenon DEF More!PushRegion, Ext!PushRegion
<1>11. More!PopRegion <=> Ext!PopRegion
  BY Zenon DEF More!PopRegion, Ext!PopRegion
<1>12. More!TakeDirect <=> Ext!TakeDirect
  BY Zenon DEF More!TakeDirect, Ext!TakeDirect
<1> HIDE DEF More!Goto, Ext!Goto, More!Decide, Ext!Decide, More!RejectHere, Ext!RejectHere
<1>13. More!TakeSelect <=> Ext!TakeSelect
  BY <1>1, <1>2, <1>3, Zenon DEF More!TakeSelect, Ext!TakeSelect
<1>14. More!Malformed <=> Ext!Malformed
  BY <1>1, Zenon DEF More!Malformed, Ext!Malformed
<1>15. More!Done <=> Ext!Done
  BY Zenon DEF More!Done, Ext!Done
<1> QED BY <1>4, <1>5, <1>6, <1>7, <1>8, <1>9, <1>10, <1>11, <1>12, <1>13, <1>14, <1>15, Zenon
       DEF More!Next, Ext!Next, More!Step, Ext!Step

LEMMA MoreStarts == More!Fresh(ir) <=> Ext!Fresh(ir)
BY Zenon DEF Ext!Fresh, More!Fresh, Ext!Running, More!Running

\* So what is proved of a run holds of it.
LEMMA ExtFacts ==
  ASSUME Ext!RInv
  PROVE  /\ [Ext!Next]_(Ext!vars) => Ext!RInv'
         /\ Ext!Next => Ext!KeepsHeaders /\ Ext!KeepsTrace /\ Ext!Committed' >= Ext!Committed
         /\ Ext!EnterState => Ext!Turn = "enter"
         /\ Ext!BeginExtract => Ext!Turn = "extract"
         /\ Ext!ReadFixed => Ext!Turn = "bits"
         /\ Ext!ReadRunField => Ext!Turn = "bit_len"
         /\ Ext!EndExtract => Ext!Turn = "end"
         /\ Ext!AssignMetadata => Ext!Turn = "assign"
         /\ Ext!PushRegion => Ext!Turn = "push"
         /\ Ext!PopRegion => Ext!Turn = "pop"
         /\ Ext!TakeDirect => Ext!Turn = "direct"
         /\ Ext!TakeSelect => Ext!Turn = "select"
         /\ Ext!Malformed => Ext!Turn = "malformed"
<1> USE WordBitsAssumption, PowersAssumption, ExprsAssumption, ExprsAreTrees, FromBitsAssumption,
        ProgramsAssumption, PacketsAssumption, SameWords, SameFromBits, SameSchema
<1>1. [Ext!Next]_(Ext!vars) => Ext!RInv'
  BY Ext!NextRefines
<1>2. Ext!Next => Ext!KeepsHeaders /\ Ext!KeepsTrace /\ Ext!Committed' >= Ext!Committed
  BY Ext!NextKeepsReport
<1>3. Ext!IInv
  BY DEF Ext!RInv
<1> QED BY <1>1, <1>2, <1>3, Ext!OneTurn, Zenon

LEMMA ExtInit ==
  ASSUME StartsExist, Ext!Init
  PROVE  Ext!RInv
<1>1. Ext!StartsExist
  BY DEF Ext!StartsExist, StartsExist
<1> QED BY <1>1, WordBitsAssumption, PowersAssumption, ExprsAssumption, ExprsAreTrees,
           FromBitsAssumption, ProgramsAssumption, PacketsAssumption, SameWords, SameFromBits,
           SameSchema, Ext!InitRefines

----------------------------------------------------------------------------
(* The runs in the same configuration: what a step reads, but for the       *)
(* input, is the same.                                                      *)

SameConfig ==
  /\ pc2 = pc /\ ix2 = ix /\ fx2 = fx /\ current2 = current /\ depth2 = depth
  /\ cursor_bits2 = cursor_bits /\ entry_cursor2 = entry_cursor /\ regions2 = regions
  /\ env2 = env /\ meta2 = meta /\ headers2 = headers /\ trace2 = trace /\ result2 = result

LEMMA SamePlace ==
  ASSUME SameConfig
  PROVE  /\ Ext!St = St
         /\ Ext!NExtracts = NExtracts /\ Ext!NAssigns = NAssigns /\ Ext!NOps = NOps
         /\ Ext!Ex = Ex /\ Ext!Fields = Fields /\ Ext!Width = Width
         /\ Ext!AssignOp = AssignOp /\ Ext!Op = Op
         /\ Ext!Top = Top /\ Ext!ConsumedOnReject = ConsumedOnReject
<1> USE DEF SameConfig
<1>1. Ext!St = St
  BY DEF Ext!St, St
<1>2. Ext!NExtracts = NExtracts /\ Ext!NAssigns = NAssigns /\ Ext!NOps = NOps
  BY <1>1 DEF Ext!NExtracts, NExtracts, Ext!NAssigns, NAssigns, Ext!NOps, NOps
<1>3. Ext!Ex = Ex
  BY <1>1 DEF Ext!Ex, Ex
<1>4. Ext!Fields = Fields
  BY <1>3 DEF Ext!Fields, Fields
<1>5. Ext!Width = Width
  BY <1>4 DEF Ext!Width, Width
<1>6. Ext!AssignOp = AssignOp /\ Ext!Op = Op
  BY <1>1, <1>2 DEF Ext!AssignOp, AssignOp, Ext!Op, Op
<1>7. Ext!Top = Top /\ Ext!ConsumedOnReject = ConsumedOnReject
  BY <1>3 DEF Ext!Top, Top, Ext!ConsumedOnReject, ConsumedOnReject
<1> QED BY <1>1, <1>2, <1>3, <1>4, <1>5, <1>6, <1>7

LEMMA SameValues ==
  ASSUME SameConfig
  PROVE  /\ Ext!RunLength = RunLength /\ Ext!AssignedValue = AssignedValue
         /\ Ext!PushLength = PushLength /\ Ext!KeyValues = KeyValues
<1> USE SamePlace DEF SameConfig
<1>1. Ext!RemainingHere = RemainingHere
  BY SameWords DEF Ext!RemainingHere, RemainingHere
<1>2. Ext!RunLength = RunLength
  BY SameWords, SameEvalExpr, Zenon DEF Ext!RunLength, RunLength
<1>3. Ext!AssignedValue = AssignedValue
  BY <1>1, SameEvalExpr, Zenon DEF Ext!AssignedValue, AssignedValue
<1>4. Ext!PushLength = PushLength
  BY <1>1, SameEvalExpr, Zenon DEF Ext!PushLength, PushLength
<1>5. Ext!KeyValues = KeyValues
  <2>1. Ext!KeysOf(Ext!St) = KeysOf(St)
    BY SameOperators, Zenon
  <2> DEFINE keys == KeysOf(St)
  <2>2. Ext!KeyValues = [j \in DOMAIN keys |-> Ext!EvalExpr(keys[j], env, meta, RemainingHere)]
    BY <1>1, <2>1, Zenon DEF Ext!KeyValues
  <2>3. KeyValues = [j \in DOMAIN keys |-> EvalExpr(keys[j], env, meta, RemainingHere)]
    BY Zenon DEF KeyValues
  <2> HIDE DEF keys
  <2>4. \A j \in DOMAIN keys : Ext!EvalExpr(keys[j], env, meta, RemainingHere)
                               = EvalExpr(keys[j], env, meta, RemainingHere)
    BY SameEvalExpr, Zenon
  <2> QED BY <2>2, <2>3, <2>4
<1> QED BY <1>2, <1>3, <1>4, <1>5

LEMMA SameArms ==
  ASSUME SameConfig
  PROVE  Ext!MatchingArms = MatchingArms
<1>1. Ext!St = St /\ Ext!KeyValues = KeyValues
  BY SamePlace, SameValues
<1>2. ASSUME NEW arm
      PROVE  Ext!ArmMatches(arm) <=> ArmMatches(arm)
  BY <1>1, SameOperators, Zenon DEF Ext!ArmMatches, ArmMatches
<1> QED BY <1>1, <1>2, Zenon DEF Ext!MatchingArms, MatchingArms

LEMMA SameTurn ==
  ASSUME SameConfig
  PROVE  Ext!Turn = Turn
<1> USE SamePlace, SameValues DEF SameConfig
<1>1. /\ Ext!AtExtract <=> AtExtract
      /\ Ext!AtAssign <=> AtAssign
      /\ Ext!AtRegionOp <=> AtRegionOp
      /\ Ext!AtTransition <=> AtTransition
      /\ Ext!AtRun <=> AtRun
  BY DEF Ext!AtExtract, AtExtract, Ext!AtAssign, AtAssign, Ext!AtRegionOp, AtRegionOp,
         Ext!AtTransition, AtTransition, Ext!AtRun, AtRun
<1>2. Ext!StepMalformed <=> StepMalformed
  BY <1>1, SameWords, Zenon DEF Ext!StepMalformed, StepMalformed
<1> QED BY <1>2, Zenon DEF Ext!Turn, Turn

\* Ends of the same kind leave the same result.
LEMMA SameFinish ==
  ASSUME NEW o, NEW r, NEW b, NEW c, Finish(o, r, b, c), Ext!Finish(o, r, b, c)
  PROVE  pc2' = pc' /\ result2' = result'
BY Zenon DEF Finish, Ext!Finish

LEMMA SameGoto ==
  ASSUME SameConfig, NEW t, Goto(t), Ext!Goto(t)
  PROVE  pc2' = pc' /\ result2' = result' /\ current2' = current'
<1> USE DEF SameConfig
<1>1. CASE t.kind = "state"
  BY <1>1, Zenon DEF Goto, Ext!Goto
<1>2. CASE t.kind = "accept"
  BY <1>2, SameFinish DEF Goto, Ext!Goto
<1>3. CASE t.kind = "reject"
  BY <1>3, SameFinish DEF Goto, Ext!Goto, RejectHere, Ext!RejectHere
<1> QED BY <1>1, <1>2, <1>3, Zenon DEF Goto

----------------------------------------------------------------------------
(* The runs take the same action.  Only a read and an exact pop look at the *)
(* input; a read that fits the packet fits the extension, and finds the     *)
(* same bits there.                                                         *)

Extension == packet \in Packets /\ packet2 \in Packets /\ IsPrefix(packet, packet2)

\* The run on the packet ends for want of input, and reports what it had.
RunsOut ==
  /\ pc' = "done" /\ result'.reason = "out of bounds"
  /\ result'.consumed_bits = Committed
  /\ UNCHANGED <<headers, trace>>

\* The invariant while the runs are in the same configuration.
Together == RInv /\ Ext!RInv /\ Extension /\ SameConfig

LEMMA ExtensionFacts ==
  ASSUME Extension
  PROVE  /\ packet \in Seq({0, 1}) /\ packet2 \in Seq({0, 1})
         /\ Len(packet) \in Nat /\ Len(packet2) \in Nat /\ Len(packet) <= Len(packet2)
         /\ \A i \in 1..Len(packet) : packet2[i] = packet[i]
<1>1. packet \in Seq({0, 1}) /\ packet2 \in Seq({0, 1})
  BY PacketsAssumption DEF Extension
<1>2. Len(packet) <= Len(packet2)
  BY DEF Extension, IsPrefix
<1>3. SubSeq(packet, 1, Len(packet)) = SubSeq(packet2, 1, Len(packet))
  BY DEF Extension, IsPrefix
<1>4. ASSUME NEW i \in 1..Len(packet) PROVE packet2[i] = packet[i]
  <2>1. SubSeq(packet, 1, Len(packet))[i] = packet[i]
    BY <1>1
  <2>2. SubSeq(packet2, 1, Len(packet))[i] = packet2[i]
    BY <1>1, <1>2
  <2> QED BY <1>3, <2>1, <2>2
<1> QED BY <1>1, <1>2, <1>4

\* The bits of a read inside the packet.
LEMMA SameBits ==
  ASSUME Extension, NEW c \in Nat, NEW n \in Nat, c + n <= Len(packet)
  PROVE  /\ Ext!ReadBits(c, n) = ReadBits(c, n)
         /\ Ext!ReadRun(c, n) = ReadRun(c, n)
<1> USE ExtensionFacts
<1>1. {k \in 0..(n - 1) : k < WordBits /\ packet2[c + n - k] = 1}
      = {k \in 0..(n - 1) : k < WordBits /\ packet[c + n - k] = 1}
  <2>1. \A k \in 0..(n - 1) : packet2[c + n - k] = packet[c + n - k]
    <3> TAKE k \in 0..(n - 1)
    <3>1. c + n - k \in 1..Len(packet)
      OBVIOUS
    <3> QED BY <3>1
  <2> QED BY <2>1
<1>2. Ext!ReadBits(c, n) = ReadBits(c, n)
  BY <1>1, SameFromBits, Zenon DEF Ext!ReadBits, ReadBits
<1>3. SubSeq(packet2, c + 1, c + n) = SubSeq(packet, c + 1, c + n)
  <2>1. \A i \in (c + 1)..(c + n) : packet2[i] = packet[i]
    <3> TAKE i \in (c + 1)..(c + n)
    <3>1. i \in 1..Len(packet)
      OBVIOUS
    <3> QED BY <3>1
  <2> QED BY <2>1, SMTT(30)
<1> QED BY <1>2, <1>3, Zenon DEF Ext!ReadRun, ReadRun

\* A bound that the packet sets may move; one that a region sets does not.
LEMMA BoundsCompared ==
  ASSUME Together
  PROVE  /\ BoundBits \in Nat /\ Ext!BoundBits \in Nat
         /\ BoundBits <= Ext!BoundBits
         /\ BoundBits # Ext!BoundBits =>
              /\ BoundBits = Len(packet)
              /\ regions # <<>> => Ext!BoundBits <= Top
         /\ Ext!BoundBits <= Len(packet2)
         /\ regions # <<>> => Top \in Nat
<1>1. regions # <<>> => Top \in Nat
  BY BoundProperties DEF Together, RInv, IInv
<1>2. Ext!Top = Top /\ regions2 = regions
  BY SamePlace DEF Together, SameConfig
<1>3. /\ Len(packet) \in Nat /\ Len(packet2) \in Nat /\ Len(packet) <= Len(packet2)
      /\ avail_bits = Len(packet) /\ Ext!avail_bits = Len(packet2)
  BY ExtensionFacts DEF Together, avail_bits, Ext!avail_bits
<1> QED BY <1>1, <1>2, <1>3 DEF BoundBits, Ext!BoundBits

\* A read that fails on the packet and not on the extension lacks input.
LEMMA LackOfInput ==
  ASSUME Together, NEW end \in Nat, end > BoundBits, end <= Ext!BoundBits
  PROVE  OobReason(end) = "out of bounds"
<1>1. end # Undef
  BY DEF Undef
<1>2. regions # <<>> => end <= Top /\ Top \in Nat
  BY BoundsCompared
<1> QED BY <1>1, <1>2 DEF OobReason

LEMMA SameOobReason ==
  ASSUME Together, NEW end
  PROVE  Ext!OobReason(end) = OobReason(end)
<1>1. Ext!Top = Top /\ regions2 = regions /\ Ext!Undef = Undef
  BY SamePlace, SameWords DEF Together, SameConfig
<1> QED BY <1>1, Zenon DEF Ext!OobReason, OobReason

\* In a field, a reject consumes what is committed.
LEMMA RejectCommits ==
  ASSUME pc = "field"
  PROVE  ConsumedOnReject = Committed
BY DEF ConsumedOnReject, Committed

\* A field of fixed width.
LEMMA ReadFixedTogether ==
  ASSUME Together, ReadFixed, Ext!ReadFixed
  PROVE  SameConfig' \/ RunsOut
<1> DEFINE n == Width.bits
           v == ReadBits(cursor_bits, n)
           r == <<InstanceOf(Ex), fx>>
<1>1. pc = "field" /\ fx <= Len(Fields) /\ Width.kind = "bits"
  BY DEF ReadFixed, AtFixed
<1>2. n \in Nat /\ cursor_bits \in Nat
  BY <1>1, FieldTypes DEF Together, RInv, IInv, TypeOK, FieldWidth
<1>3. /\ Ext!Width = Width /\ Ext!Ex = Ex /\ Ext!InstanceOf(Ex) = InstanceOf(Ex)
      /\ Ext!ConsumedOnReject = ConsumedOnReject
  BY SamePlace, SameOperators DEF Together
<1>4. /\ UNCHANGED <<ix, current, depth, entry_cursor, regions, meta, trace>>
      /\ UNCHANGED <<ix2, current2, depth2, entry_cursor2, regions2, meta2, trace2>>
  BY Zenon DEF ReadFixed, Ext!ReadFixed
<1>5. SameConfig
  BY DEF Together
<1>6. CASE /\ cursor_bits + n <= BoundBits
  <2>1. cursor_bits + n <= Len(packet) /\ cursor_bits + n <= Ext!BoundBits
    <3>1. BoundBits \in Nat /\ Ext!BoundBits \in Nat /\ BoundBits <= Ext!BoundBits
      BY BoundsCompared
    <3>2. BoundBits <= Len(packet) /\ Len(packet) \in Nat
      BY BoundProperties, ExtensionFacts DEF Together, RInv, IInv, avail_bits
    <3> QED BY <1>2, <1>6, <3>1, <3>2
  <2>2. ~(cursor_bits + n > BoundBits) /\ ~(cursor_bits + n > Ext!BoundBits)
    BY <1>2, <1>6, <2>1, BoundsCompared
  <2>3. Ext!ReadBits(cursor_bits, n) = v
    BY <1>2, <2>1, SameBits DEF Together
  <2> HIDE DEF n, v, r
  <2>4. /\ env' = [x \in DOMAIN env \cup {r} |-> IF x = r THEN v ELSE env[x]]
        /\ RecordField(n, [uint |-> v])
        /\ cursor_bits' = cursor_bits + n /\ fx' = fx + 1 /\ UNCHANGED <<pc, result>>
    BY <2>2, Zenon DEF ReadFixed, n, v, r
  <2>5. /\ env2' = [x \in DOMAIN env2 \cup {r} |-> IF x = r THEN v ELSE env2[x]]
        /\ Ext!RecordField(n, [uint |-> v])
        /\ cursor_bits2' = cursor_bits2 + n /\ fx2' = fx2 + 1 /\ UNCHANGED <<pc2, result2>>
    <3>1. cursor_bits2 = cursor_bits /\ fx2 = fx
      BY <1>5 DEF SameConfig
    <3> QED BY <1>3, <2>2, <2>3, <3>1, Zenon DEF Ext!ReadFixed, n, r
  <2>6. headers2' = headers'
    BY <1>5, <2>4, <2>5, Zenon DEF RecordField, Ext!RecordField, SameConfig
  <2> QED BY <1>4, <1>5, <2>4, <2>5, <2>6 DEF SameConfig
<1>7. CASE cursor_bits + n > BoundBits
  <2>1. ~(cursor_bits + n <= BoundBits)
    BY <1>2, <1>7, BoundsCompared
  <2> DEFINE end == CheckedAdd(cursor_bits, n)
  <2>2. /\ Finish("reject", OobReason(end), cursor_bits, ConsumedOnReject)
        /\ UNCHANGED <<env, headers, cursor_bits, fx>>
    BY <2>1, Zenon DEF ReadFixed
  <2>3. CASE cursor_bits + n <= Ext!BoundBits
    <3>1. /\ cursor_bits + n <= Len(packet2) /\ Len(packet2) + WordBits \in Word
          /\ Len(packet2) \in Nat
      BY <1>2, <2>3, BoundsCompared, ExtensionFacts, PacketsAssumption DEF Together, Extension
    <3>2. cursor_bits + n \in Word
      BY <1>2, <3>1, WordProperties, WordBitsAssumption DEF Word
    <3>3. end = cursor_bits + n /\ end \in Nat
      <4>1. cursor_bits # Undef
        BY <1>2 DEF Undef
      <4> QED BY <1>2, <3>2, <4>1 DEF CheckedAdd
    <3> HIDE DEF end
    <3>4. OobReason(end) = "out of bounds"
      BY <1>7, <2>3, <3>3, LackOfInput
    <3>5. pc' = "done" /\ result'.reason = "out of bounds"
          /\ result'.consumed_bits = ConsumedOnReject
      BY <2>2, <3>4 DEF Finish
    <3> QED BY <1>1, <1>4, <2>2, <3>5, RejectCommits DEF RunsOut
  <2>4. CASE ~(cursor_bits + n <= Ext!BoundBits)
    <3>1. cursor_bits2 = cursor_bits
      BY <1>5 DEF SameConfig
    <3>2. Ext!CheckedAdd(cursor_bits, n) = end /\ Ext!OobReason(end) = OobReason(end)
      BY SameOperators, SameOobReason
    <3> HIDE DEF end, n
    <3>3. /\ Ext!Finish("reject", OobReason(end), cursor_bits, ConsumedOnReject)
          /\ UNCHANGED <<env2, headers2, cursor_bits2, fx2>>
      BY <1>3, <2>4, <3>1, <3>2, Zenon DEF Ext!ReadFixed, n
    <3>4. pc2' = pc' /\ result2' = result'
      BY <2>2, <3>3, SameFinish
    <3> QED BY <1>4, <1>5, <2>2, <3>3, <3>4 DEF SameConfig
  <2> QED BY <2>3, <2>4
<1> QED BY <1>2, <1>6, <1>7, BoundsCompared

\* A field whose length was read; the length does not depend on the input.
LEMMA ReadRunFieldTogether ==
  ASSUME Together, ReadRunField, Ext!ReadRunField
  PROVE  SameConfig' \/ RunsOut
<1> DEFINE n == RunLength
           end == CheckedAdd(n, cursor_bits)
           fits == end # Undef /\ end <= BoundBits
           fits2 == end # Undef /\ end <= Ext!BoundBits
<1>1. pc = "field" /\ n # Undef
  BY DEF ReadRunField, AtRun
<1>2. cursor_bits \in Nat /\ n \in Word /\ n \in Nat
  BY <1>1, EvalExprType, WordProperties DEF Together, RInv, IInv, TypeOK, RunLength
<1>3. /\ Ext!RunLength = n /\ Ext!CheckedAdd(n, cursor_bits) = end
      /\ Ext!ConsumedOnReject = ConsumedOnReject /\ Ext!Undef = Undef
      /\ Ext!OobReason(end) = OobReason(end)
  BY SamePlace, SameValues, SameOperators, SameWords, SameOobReason DEF Together
<1>4. /\ UNCHANGED <<ix, current, depth, entry_cursor, regions, env, meta, trace>>
      /\ UNCHANGED <<ix2, current2, depth2, entry_cursor2, regions2, env2, meta2, trace2>>
  BY Zenon DEF ReadRunField, Ext!ReadRunField
<1>5. SameConfig
  BY DEF Together
<1>6. end # Undef => end = n + cursor_bits /\ end \in Nat
  BY <1>2, CheckedAddProperties
<1>7. BoundBits \in Nat /\ Ext!BoundBits \in Nat /\ BoundBits <= Ext!BoundBits
  BY BoundsCompared
<1>8. /\ fits => fits2
      /\ fits <=> ~(end = Undef \/ end > BoundBits)
      /\ fits2 <=> ~(end = Undef \/ end > Ext!BoundBits)
  <2> HIDE DEF end
  <2> QED BY <1>6, <1>7
<1>a. cursor_bits2 = cursor_bits
  BY <1>5 DEF SameConfig
<1> HIDE DEF end, n
<1>9. CASE fits
  <2>1. cursor_bits + n <= Len(packet)
    <3>1. BoundBits <= Len(packet) /\ Len(packet) \in Nat
      BY BoundProperties, ExtensionFacts DEF Together, RInv, IInv, avail_bits
    <3> QED BY <1>2, <1>6, <1>7, <1>9, <3>1
  <2> DEFINE bits == ReadRun(cursor_bits, n)
  <2>2. Ext!ReadRun(cursor_bits, n) = bits
    BY <1>2, <2>1, SameBits DEF Together
  <2> HIDE DEF bits
  <2>3. /\ RecordField(n, [bits |-> bits]) /\ cursor_bits' = end /\ fx' = fx + 1
        /\ UNCHANGED <<pc, result>>
    BY <1>8, <1>9, Zenon DEF ReadRunField, n, end, bits
  <2>4. /\ Ext!RecordField(n, [bits |-> bits]) /\ cursor_bits2' = end /\ fx2' = fx2 + 1
        /\ UNCHANGED <<pc2, result2>>
    BY <1>3, <1>8, <1>9, <1>a, <2>2, Zenon DEF Ext!ReadRunField
  <2>5. headers2' = headers'
    BY <1>5, <2>3, <2>4, Zenon DEF RecordField, Ext!RecordField, SameConfig
  <2> QED BY <1>4, <1>5, <2>3, <2>4, <2>5 DEF SameConfig
<1>10. CASE ~fits
  <2>1. /\ Finish("reject", OobReason(end), cursor_bits, ConsumedOnReject)
        /\ UNCHANGED <<headers, cursor_bits, fx>>
    BY <1>8, <1>10, Zenon DEF ReadRunField, n, end
  <2>2. CASE fits2
    <3>1. OobReason(end) = "out of bounds"
      BY <1>6, <1>7, <1>8, <1>10, <2>2, LackOfInput
    <3>2. pc' = "done" /\ result'.reason = "out of bounds"
          /\ result'.consumed_bits = ConsumedOnReject
      BY <2>1, <3>1 DEF Finish
    <3> QED BY <1>1, <1>4, <2>1, <3>2, RejectCommits DEF RunsOut
  <2>3. CASE ~fits2
    <3>1. /\ Ext!Finish("reject", OobReason(end), cursor_bits, ConsumedOnReject)
          /\ UNCHANGED <<headers2, cursor_bits2, fx2>>
      BY <1>3, <1>8, <1>a, <2>3, Zenon DEF Ext!ReadRunField
    <3>2. pc2' = pc' /\ result2' = result'
      BY <2>1, <3>1, SameFinish
    <3> QED BY <1>4, <1>5, <2>1, <3>1, <3>2 DEF SameConfig
  <2> QED BY <2>2, <2>3
<1> QED BY <1>9, <1>10

\* An exact pop: short of a region that ends past the packet, input is lacking.
LEMMA PopRegionTogether ==
  ASSUME Together, PopRegion, Ext!PopRegion
  PROVE  SameConfig' \/ RunsOut
<1>1. /\ regions # <<>>
      /\ regions' = SubSeq(regions, 1, Len(regions) - 1)
      /\ UNCHANGED <<fx, current, depth, cursor_bits, entry_cursor, env, meta, headers, trace>>
  BY Zenon DEF PopRegion
<1>2. /\ regions2' = SubSeq(regions2, 1, Len(regions2) - 1)
      /\ UNCHANGED <<fx2, current2, depth2, cursor_bits2, entry_cursor2, env2, meta2, headers2,
                     trace2>>
  BY Zenon DEF Ext!PopRegion
<1>3. SameConfig /\ Ext!Top = Top /\ cursor_bits2 = cursor_bits /\ pc = "body"
  BY SamePlace, Zenon DEF Together, SameConfig, PopRegion, AtRegionOp
<1>4. /\ Top \in Nat /\ cursor_bits \in Nat
      /\ avail_bits \in Nat /\ Ext!avail_bits \in Nat /\ avail_bits <= Ext!avail_bits
  BY <1>1, BoundsCompared, ExtensionFacts
     DEF Together, RInv, IInv, TypeOK, avail_bits, Ext!avail_bits
<1>5. CASE cursor_bits < Top
  <2>1. ~(cursor_bits >= Top)
    BY <1>4, <1>5
  <2> DEFINE reason == IF Top > avail_bits THEN "out of bounds" ELSE "region not exhausted"
             reason2 == IF Top > Ext!avail_bits THEN "out of bounds" ELSE "region not exhausted"
  <2>2. Finish("reject", reason, cursor_bits, cursor_bits) /\ UNCHANGED ix
    BY <2>1, Zenon DEF PopRegion, RejectHere
  <2>3. Ext!Finish("reject", reason2, cursor_bits, cursor_bits) /\ UNCHANGED ix2
    BY <1>3, <2>1, Zenon DEF Ext!PopRegion, Ext!RejectHere
  <2>4. CASE Top > avail_bits
    <3>1. pc' = "done" /\ result'.reason = "out of bounds" /\ result'.consumed_bits = cursor_bits
      BY <2>2, <2>4 DEF Finish
    <3> QED BY <1>1, <1>3, <3>1, CommittedAtCursor DEF RunsOut
  <2>5. CASE ~(Top > avail_bits)
    <3>1. reason2 = reason
      BY <1>4, <2>5
    <3> HIDE DEF reason, reason2
    <3>2. pc2' = pc' /\ result2' = result'
      BY <2>2, <2>3, <3>1, SameFinish
    <3> QED BY <1>1, <1>2, <1>3, <2>2, <2>3, <3>2 DEF SameConfig
  <2> QED BY <2>4, <2>5
<1>6. CASE cursor_bits >= Top
  <2>1. ~(cursor_bits < Top)
    BY <1>4, <1>6
  <2>2. ix' = ix + 1 /\ UNCHANGED <<pc, result>>
    BY <2>1, Zenon DEF PopRegion
  <2>3. ix2' = ix2 + 1 /\ UNCHANGED <<pc2, result2>>
    BY <1>3, <2>1, Zenon DEF Ext!PopRegion
  <2> QED BY <1>1, <1>2, <1>3, <2>2, <2>3 DEF SameConfig
<1> QED BY <1>4, <1>5, <1>6

\* The other actions do not look at the input.
LEMMA EnterStateTogether ==
  ASSUME Together, EnterState, Ext!EnterState
  PROVE  SameConfig'
<1> USE DEF SameConfig
<1>1. SameConfig
  BY DEF Together
<1> DEFINE entry == [state |-> current, decision |-> <<"none", 0>>]
<1>2. /\ trace' = Append(trace, entry) /\ trace2' = Append(trace2, entry)
      /\ UNCHANGED <<fx, current, cursor_bits, entry_cursor, regions, env, meta, headers>>
      /\ UNCHANGED <<fx2, current2, cursor_bits2, entry_cursor2, regions2, env2, meta2, headers2>>
  BY <1>1, Zenon DEF EnterState, Ext!EnterState
<1> HIDE DEF entry
<1>3. depth \in Nat /\ ir.max_depth \in Nat
  BY InputTypes DEF Together, RInv, IInv, TypeOK, Parser
<1>4. CASE depth >= ir.max_depth
  <2>1. ~(depth < ir.max_depth)
    BY <1>3, <1>4
  <2>2. /\ Finish("reject", "max depth exceeded", cursor_bits, cursor_bits)
        /\ UNCHANGED <<depth, ix>>
    BY <2>1, Zenon DEF EnterState, RejectHere
  <2>3. /\ Ext!Finish("reject", "max depth exceeded", cursor_bits, cursor_bits)
        /\ UNCHANGED <<depth2, ix2>>
    BY <1>1, <2>1, Zenon DEF Ext!EnterState, Ext!RejectHere
  <2>4. pc2' = pc' /\ result2' = result'
    BY <2>2, <2>3, SameFinish
  <2> QED BY <1>1, <1>2, <2>2, <2>3, <2>4
<1>5. CASE depth < ir.max_depth
  <2>1. ~(depth >= ir.max_depth)
    BY <1>3, <1>5
  <2>2. depth' = depth + 1 /\ pc' = "body" /\ ix' = 1 /\ UNCHANGED result
    BY <2>1, Zenon DEF EnterState
  <2>3. depth2' = depth2 + 1 /\ pc2' = "body" /\ ix2' = 1 /\ UNCHANGED result2
    BY <1>1, <2>1, Zenon DEF Ext!EnterState
  <2> QED BY <1>1, <1>2, <2>2, <2>3
<1> QED BY <1>3, <1>4, <1>5

LEMMA ExtractTogether ==
  ASSUME Together, \/ BeginExtract /\ Ext!BeginExtract
                   \/ EndExtract /\ Ext!EndExtract
  PROVE  SameConfig'
<1>1. SameConfig /\ Ext!Ex = Ex /\ Ext!InstanceOf(Ex) = InstanceOf(Ex)
  BY SamePlace, SameOperators DEF Together
<1>2. CASE BeginExtract /\ Ext!BeginExtract
  BY <1>1, <1>2, Zenon DEF BeginExtract, Ext!BeginExtract, SameConfig
<1>3. CASE EndExtract /\ Ext!EndExtract
  BY <1>1, <1>3, Zenon DEF EndExtract, Ext!EndExtract, SameConfig
<1> QED BY <1>2, <1>3

LEMMA AssignMetadataTogether ==
  ASSUME Together, AssignMetadata, Ext!AssignMetadata
  PROVE  SameConfig'
<1>1. SameConfig /\ Ext!AssignOp = AssignOp /\ Ext!AssignedValue = AssignedValue
  BY SamePlace, SameValues DEF Together
<1>2. Ext!MaskedStore(AssignOp.metadata, AssignedValue) = MaskedStore(AssignOp.metadata, AssignedValue)
  BY <1>1, SameOperators, Zenon DEF Ext!MaskedStore, MaskedStore, SameConfig
<1> QED BY <1>1, <1>2, Zenon DEF AssignMetadata, Ext!AssignMetadata, SameConfig

LEMMA PushRegionTogether ==
  ASSUME Together, PushRegion, Ext!PushRegion
  PROVE  SameConfig'
<1> DEFINE end == CheckedAdd(PushLength, cursor_bits)
           lie == end = Undef \/ (regions # <<>> /\ end > Top)
<1>1. /\ SameConfig /\ Ext!Top = Top /\ Ext!PushLength = PushLength /\ Ext!Undef = Undef
      /\ Ext!CheckedAdd(PushLength, cursor_bits) = end
  BY SamePlace, SameValues, SameWords, SameOperators DEF Together
<1>2. /\ UNCHANGED <<fx, current, depth, cursor_bits, entry_cursor, env, meta, headers, trace>>
      /\ UNCHANGED <<fx2, current2, depth2, cursor_bits2, entry_cursor2, env2, meta2, headers2, trace2>>
  BY Zenon DEF PushRegion, Ext!PushRegion
<1>3. regions2 = regions /\ cursor_bits2 = cursor_bits
  BY <1>1 DEF SameConfig
<1>4. CASE lie
  <2>1. Finish("reject", "region out of bounds", cursor_bits, cursor_bits) /\ UNCHANGED <<regions, ix>>
    BY <1>4, Zenon DEF PushRegion, RejectHere
  <2>2. /\ Ext!Finish("reject", "region out of bounds", cursor_bits, cursor_bits)
        /\ UNCHANGED <<regions2, ix2>>
    BY <1>1, <1>3, <1>4, Zenon DEF Ext!PushRegion, Ext!RejectHere
  <2>3. pc2' = pc' /\ result2' = result'
    BY <2>1, <2>2, SameFinish
  <2> QED BY <1>1, <1>2, <2>1, <2>2, <2>3 DEF SameConfig
<1>5. CASE ~lie
  <2>1. regions' = Append(regions, end) /\ ix' = ix + 1 /\ UNCHANGED <<pc, result>>
    BY <1>5, Zenon DEF PushRegion
  <2>2. regions2' = Append(regions2, end) /\ ix2' = ix2 + 1 /\ UNCHANGED <<pc2, result2>>
    BY <1>1, <1>3, <1>5, Zenon DEF Ext!PushRegion
  <2> HIDE DEF end
  <2> QED BY <1>1, <1>2, <2>1, <2>2 DEF SameConfig
<1> QED BY <1>4, <1>5

LEMMA TakeDirectTogether ==
  ASSUME Together, TakeDirect, Ext!TakeDirect
  PROVE  SameConfig'
<1>1. SameConfig /\ Ext!St = St
  BY SamePlace DEF Together
<1>2. /\ Decide(<<"direct", 0>>) /\ Ext!Decide(<<"direct", 0>>)
      /\ Goto(St.transition.next) /\ Ext!Goto(St.transition.next)
      /\ UNCHANGED <<ix, fx, depth, cursor_bits, entry_cursor, regions, env, meta, headers>>
      /\ UNCHANGED <<ix2, fx2, depth2, cursor_bits2, entry_cursor2, regions2, env2, meta2, headers2>>
  BY <1>1, Zenon DEF TakeDirect, Ext!TakeDirect
<1>3. trace2' = trace'
  BY <1>1, <1>2, Zenon DEF Decide, Ext!Decide, SameConfig
<1>4. pc2' = pc' /\ result2' = result' /\ current2' = current'
  BY <1>1, <1>2, SameGoto
<1> QED BY <1>1, <1>2, <1>3, <1>4 DEF SameConfig

LEMMA TakeSelectTogether ==
  ASSUME Together, TakeSelect, Ext!TakeSelect
  PROVE  SameConfig'
<1> DEFINE i == Min(MatchingArms)
           default == St.transition.default_target
<1>1. /\ SameConfig /\ Ext!St = St /\ Ext!MatchingArms = MatchingArms
      /\ Ext!Min(MatchingArms) = i /\ Ext!NoTarget = NoTarget
  BY SamePlace, SameArms, SameOperators, SameWords DEF Together
<1>2. /\ UNCHANGED <<ix, fx, depth, cursor_bits, entry_cursor, regions, env, meta, headers>>
      /\ UNCHANGED <<ix2, fx2, depth2, cursor_bits2, entry_cursor2, regions2, env2, meta2, headers2>>
  BY Zenon DEF TakeSelect, Ext!TakeSelect
<1>3. ASSUME NEW d, Decide(d), Ext!Decide(d)
      PROVE  trace2' = trace'
  BY <1>1, <1>3, Zenon DEF Decide, Ext!Decide, SameConfig
<1>4. trace2' = trace' /\ pc2' = pc' /\ result2' = result' /\ current2' = current'
  <2>1. CASE MatchingArms # {}
    <3>1. /\ Decide(<<"arm", i>>) /\ Ext!Decide(<<"arm", i>>)
          /\ Goto(St.transition.arms[i].next) /\ Ext!Goto(St.transition.arms[i].next)
      BY <1>1, <2>1, Zenon DEF TakeSelect, Ext!TakeSelect
    <3> HIDE DEF i
    <3> QED BY <1>1, <1>3, <3>1, SameGoto
  <2>2. CASE MatchingArms = {}
    <3>1. Decide(<<"default", 0>>) /\ Ext!Decide(<<"default", 0>>)
      BY <1>1, <2>2, Zenon DEF TakeSelect, Ext!TakeSelect
    <3>2. CASE default = NoTarget
      <4>1. /\ Finish("reject", "no matching select arm", cursor_bits, cursor_bits)
            /\ UNCHANGED current
        BY <2>2, <3>2, Zenon DEF TakeSelect, RejectHere
      <4>2. /\ Ext!Finish("reject", "no matching select arm", cursor_bits, cursor_bits)
            /\ UNCHANGED current2
        BY <1>1, <2>2, <3>2, Zenon DEF Ext!TakeSelect, Ext!RejectHere, SameConfig
      <4> QED BY <1>1, <1>3, <3>1, <4>1, <4>2, SameFinish DEF SameConfig
    <3>3. CASE default # NoTarget
      <4>1. Goto(default) /\ Ext!Goto(default)
        BY <1>1, <2>2, <3>3, Zenon DEF TakeSelect, Ext!TakeSelect
      <4> HIDE DEF default
      <4> QED BY <1>1, <1>3, <3>1, <4>1, SameGoto
    <3> QED BY <3>2, <3>3
  <2> QED BY <2>1, <2>2
<1> QED BY <1>1, <1>2, <1>4 DEF SameConfig

LEMMA MalformedTogether ==
  ASSUME Together, Malformed, Ext!Malformed
  PROVE  SameConfig'
<1> DEFINE consumed == IF pc = "field" THEN ConsumedOnReject ELSE cursor_bits
<1>1. SameConfig /\ Ext!ConsumedOnReject = ConsumedOnReject
  BY SamePlace DEF Together
<1>2. /\ Finish("err", "", cursor_bits, consumed)
      /\ UNCHANGED <<ix, fx, current, depth, cursor_bits, entry_cursor, regions, env, meta,
                     headers, trace>>
  BY Zenon DEF Malformed
<1>3. /\ Ext!Finish("err", "", cursor_bits, consumed)
      /\ UNCHANGED <<ix2, fx2, current2, depth2, cursor_bits2, entry_cursor2, regions2, env2,
                     meta2, headers2, trace2>>
  BY <1>1, Zenon DEF Ext!Malformed, SameConfig
<1> HIDE DEF consumed
<1>4. pc2' = pc' /\ result2' = result'
  BY <1>2, <1>3, SameFinish
<1> QED BY <1>1, <1>2, <1>3, <1>4 DEF SameConfig

\* From one configuration, both runs step to one, or the shorter input ends.
LEMMA StepTogether ==
  ASSUME Together, Step, Ext!Step
  PROVE  SameConfig' \/ RunsOut
<1>1. Ext!Turn = Turn
  BY SameTurn DEF Together
<1>2. IInv /\ Ext!RInv
  BY DEF Together, RInv
<1>3. \/ EnterState /\ Ext!EnterState
      \/ BeginExtract /\ Ext!BeginExtract
      \/ ReadFixed /\ Ext!ReadFixed
      \/ ReadRunField /\ Ext!ReadRunField
      \/ EndExtract /\ Ext!EndExtract
      \/ AssignMetadata /\ Ext!AssignMetadata
      \/ PushRegion /\ Ext!PushRegion
      \/ PopRegion /\ Ext!PopRegion
      \/ TakeDirect /\ Ext!TakeDirect
      \/ TakeSelect /\ Ext!TakeSelect
      \/ Malformed /\ Ext!Malformed
  BY <1>1, <1>2, OneTurn, ExtFacts DEF Step, Ext!Step
<1> QED BY <1>3, EnterStateTogether, ExtractTogether, ReadFixedTogether, ReadRunFieldTogether,
           AssignMetadataTogether, PushRegionTogether, PopRegionTogether, TakeDirectTogether,
           TakeSelectTogether, MalformedTogether

----------------------------------------------------------------------------
(* The inductive invariant: the runs stay in one configuration until the    *)
(* packet's has ended, and after it unless it ran out of input; from then   *)
(* on the other is ahead of it.                                             *)

\* The longer run has reported what the shorter one has, and committed c bits.
AheadBy(c) ==
  /\ Len(headers) <= Len(headers2)
  /\ \A k \in DOMAIN headers :
       /\ k < Len(headers) => headers2[k] = headers[k]
       /\ Len(headers[k].fields) <= Len(headers2[k].fields)
       /\ \A i \in DOMAIN headers[k].fields : headers2[k].fields[i] = headers[k].fields[i]
  /\ Len(trace) <= Len(trace2)
  /\ \A k \in DOMAIN trace : trace2[k].state = trace[k].state
  /\ c <= Ext!Committed

TruncationInv ==
  /\ RInv /\ Ext!RInv /\ Extension
  /\ pc # "done" => SameConfig
  /\ pc = "done" => IF Truncated THEN AheadBy(result.consumed_bits) ELSE SameConfig

LEMMA ReportTypes ==
  ASSUME RInv
  PROVE  /\ headers \in Seq(ParsedHeader) /\ trace \in Seq(TraceStep)
         /\ \A k \in DOMAIN headers : Len(headers[k].fields) \in Nat
         /\ Committed \in Nat
<1>1. headers \in Seq(ParsedHeader) /\ trace \in Seq(TraceStep)
  BY DEF RInv, IInv, TypeOK
<1>2. cursor_bits \in Nat /\ entry_cursor \in Nat /\ result.consumed_bits \in Nat
  BY DEF RInv, IInv, TypeOK, Result
<1>3. Committed \in Nat
  BY <1>2 DEF Committed
<1> QED BY <1>1, <1>3 DEF ParsedHeader

\* The same of the longer run.
ExtReport ==
  /\ Len(headers2) \in Nat /\ Len(trace2) \in Nat
  /\ DOMAIN headers2 = 1..Len(headers2) /\ DOMAIN trace2 = 1..Len(trace2)
  /\ \A k \in DOMAIN headers2 : /\ Len(headers2[k].fields) \in Nat
                                /\ DOMAIN headers2[k].fields = 1..Len(headers2[k].fields)
  /\ Ext!Committed \in Nat

LEMMA ExtReportTypes == Ext!RInv => ExtReport
<1> SUFFICES ASSUME Ext!RInv PROVE ExtReport
  OBVIOUS
<1>1. headers2 \in Seq(Ext!ParsedHeader) /\ trace2 \in Seq(Ext!TraceStep)
  BY DEF Ext!RInv, Ext!IInv, Ext!TypeOK
<1>2. cursor_bits2 \in Nat /\ entry_cursor2 \in Nat /\ result2.consumed_bits \in Nat
  BY DEF Ext!RInv, Ext!IInv, Ext!TypeOK, Ext!Result
<1>3. Ext!Committed \in Nat
  BY <1>2 DEF Ext!Committed
<1> QED BY <1>1, <1>3 DEF Ext!ParsedHeader, ExtReport

\* In one configuration neither is ahead.
LEMMA SameIsAhead ==
  ASSUME RInv, SameConfig
  PROVE  AheadBy(Committed)
<1>1. Ext!Committed = Committed
  BY SamePlace DEF Ext!Committed, Committed, SameConfig
<1> QED BY <1>1, ReportTypes DEF AheadBy, SameConfig

\* A run that is ahead stays ahead.
LEMMA StaysAhead ==
  ASSUME RInv, Ext!RInv, NEW CONSTANT c \in Nat, AheadBy(c), Ext!Next, UNCHANGED <<headers, trace>>
  PROVE  AheadBy(c)'
<1>1. Ext!RInv' /\ Ext!KeepsHeaders /\ Ext!KeepsTrace /\ Ext!Committed' >= Ext!Committed
  BY ExtFacts
<1>2. ExtReport
  BY ExtReportTypes
<1>3. ExtReport'
  BY <1>1, ExtReportTypes, PTL
<1>4. /\ Len(headers) \in Nat /\ Len(trace) \in Nat
      /\ DOMAIN headers = 1..Len(headers) /\ DOMAIN trace = 1..Len(trace)
      /\ \A k \in DOMAIN headers : /\ Len(headers[k].fields) \in Nat
                                   /\ DOMAIN headers[k].fields = 1..Len(headers[k].fields)
  BY ReportTypes DEF ParsedHeader
<1>5. c <= Ext!Committed'
  BY <1>1, <1>2, <1>3 DEF AheadBy, ExtReport
<1>6. Len(trace) <= Len(trace2') /\ \A k \in DOMAIN trace : trace2'[k].state = trace[k].state
  BY <1>1, <1>2, <1>3, <1>4 DEF Ext!KeepsTrace, AheadBy, ExtReport
<1>7. Len(headers) <= Len(headers2')
  BY <1>1, <1>2, <1>3, <1>4 DEF Ext!KeepsHeaders, AheadBy, ExtReport
<1>8. ASSUME NEW k \in DOMAIN headers
      PROVE  /\ k < Len(headers) => headers2'[k] = headers[k]
             /\ Len(headers[k].fields) <= Len(headers2'[k].fields)
             /\ \A i \in DOMAIN headers[k].fields : headers2'[k].fields[i] = headers[k].fields[i]
  <2>1. k \in DOMAIN headers2 /\ k \in DOMAIN headers2' /\ (k < Len(headers) => k < Len(headers2))
    BY <1>2, <1>3, <1>4, <1>7 DEF AheadBy, ExtReport
  <2>2. k < Len(headers) => headers2'[k] = headers[k]
    BY <1>1, <2>1 DEF Ext!KeepsHeaders, AheadBy
  <2>3. /\ Len(headers[k].fields) <= Len(headers2[k].fields)
        /\ Len(headers2[k].fields) <= Len(headers2'[k].fields)
        /\ Len(headers[k].fields) \in Nat /\ Len(headers2[k].fields) \in Nat
        /\ Len(headers2'[k].fields) \in Nat
    BY <1>1, <1>2, <1>3, <1>4, <2>1 DEF Ext!KeepsHeaders, AheadBy, ExtReport
  <2>4. \A i \in DOMAIN headers[k].fields :
          /\ i \in DOMAIN headers2[k].fields
          /\ headers2[k].fields[i] = headers[k].fields[i]
    BY <1>2, <1>4, <2>1, <2>3 DEF AheadBy, ExtReport
  <2>5. \A i \in DOMAIN headers2[k].fields : headers2'[k].fields[i] = headers2[k].fields[i]
    BY <1>1, <2>1 DEF Ext!KeepsHeaders
  <2> QED BY <2>2, <2>3, <2>4, <2>5
<1> QED BY <1>5, <1>6, <1>7, <1>8 DEF AheadBy

LEMMA InitTruncationInv ==
  ASSUME StartsExist, TruncationInit
  PROVE  TruncationInv
<1>1. Init /\ Extension /\ pc2 = "enter" /\ Ext!Fresh(ir)
  BY MoreStarts DEF TruncationInit, Init, Extension
<1>2. RInv
  BY <1>1, InitRefines
<1>3. Ext!RInv
  <2>1. Ext!Init
    BY <1>1 DEF Ext!Init, Init, Extension
  <2> QED BY <2>1, ExtInit
<1>4. SameConfig /\ pc = "enter"
  BY <1>1 DEF Init, Fresh, Ext!Fresh, Running, Ext!Running, SameConfig
<1> QED BY <1>1, <1>2, <1>3, <1>4 DEF TruncationInv

\* A run that is over takes no step.
LEMMA StepIsNotOver ==
  /\ Step => pc # "done"
  /\ Ext!Step => pc2 # "done"
<1>1. Step => pc # "done"
  BY Zenon DEF Step, EnterState, BeginExtract, ReadFixed, ReadRunField, EndExtract, AssignMetadata,
        PushRegion, PopRegion, TakeDirect, TakeSelect, Malformed, StepMalformed,
        AtExtract, AtFixed, AtRun, AtAssign, AtRegionOp, AtTransition
<1>2. Ext!Step => pc2 # "done"
  BY Zenon DEF Ext!Step, Ext!EnterState, Ext!BeginExtract, Ext!ReadFixed, Ext!ReadRunField,
        Ext!EndExtract, Ext!AssignMetadata, Ext!PushRegion, Ext!PopRegion, Ext!TakeDirect,
        Ext!TakeSelect, Ext!Malformed, Ext!StepMalformed, Ext!AtExtract, Ext!AtFixed, Ext!AtRun,
        Ext!AtAssign, Ext!AtRegionOp, Ext!AtTransition
<1> QED BY <1>1, <1>2

LEMMA NextTruncationInv ==
  ASSUME TruncationInv, [TruncationNext]_runs
  PROVE  TruncationInv'
<1> USE DEF TruncationInv
<1>1. CASE TruncationNext
  <2>1. Next /\ Ext!Next
    BY <1>1, MoreIsExt DEF TruncationNext
  <2>2. RInv' /\ Ext!RInv'
    BY <2>1, NextRefines, ExtFacts
  <2>3. Extension'
    BY <2>1, Zenon DEF Extension, Next, Step, Done, vars, EnterState, BeginExtract, ReadFixed,
       ReadRunField, EndExtract, AssignMetadata, PushRegion, PopRegion, TakeDirect, TakeSelect,
       Malformed, Ext!Next, Ext!Step, Ext!Done, Ext!vars, Ext!EnterState, Ext!BeginExtract,
       Ext!ReadFixed, Ext!ReadRunField, Ext!EndExtract, Ext!AssignMetadata, Ext!PushRegion,
       Ext!PopRegion, Ext!TakeDirect, Ext!TakeSelect, Ext!Malformed
  <2>4. ASSUME SameConfig'
        PROVE  TruncationInv'
    <3>1. AheadBy(Committed)'
      BY <2>2, <2>4, SameIsAhead, PTL
    <3>2. pc' = "done" => Committed' = result'.consumed_bits
      BY DEF Committed
    <3> QED BY <2>2, <2>3, <2>4, <3>1, <3>2 DEF AheadBy
  <2>5. CASE Step
    <3>1. Together /\ pc2 # "done"
      BY <2>5, StepIsNotOver DEF Together, SameConfig
    <3>2. Ext!Step
      BY <2>1, <3>1 DEF Ext!Next, Ext!Done
    <3>3. CASE RunsOut
      <4>1. PICK c : c = Committed
        OBVIOUS
      <4>2. AheadBy(c) /\ c \in Nat
        BY <3>1, <4>1, SameIsAhead, ReportTypes DEF Together
      <4>3. AheadBy(c)'
        BY <2>1, <3>3, <4>2, StaysAhead DEF RunsOut
      <4>4. pc' = "done" /\ Truncated' /\ result'.consumed_bits = c
        BY <3>3, <4>1 DEF RunsOut, Truncated
      <4> QED BY <2>2, <2>3, <4>3, <4>4 DEF AheadBy
    <3> QED BY <2>4, <2>5, <3>1, <3>2, <3>3, StepTogether
  <2>6. CASE Done
    <3>1. pc = "done" /\ UNCHANGED vars
      BY <2>6 DEF Done
    <3>2. CASE Truncated
      <4>1. PICK c : c = result.consumed_bits
        OBVIOUS
      <4>2. AheadBy(c) /\ c \in Nat /\ UNCHANGED <<headers, trace>>
        BY <3>1, <3>2, <4>1, ReportTypes DEF vars, machine, Committed
      <4>3. AheadBy(c)'
        BY <2>1, <4>2, StaysAhead
      <4>4. pc' = "done" /\ Truncated' /\ result'.consumed_bits = c
        BY <3>1, <3>2, <4>1 DEF vars, machine, Truncated
      <4> QED BY <2>2, <2>3, <4>3, <4>4 DEF AheadBy
    <3>3. CASE ~Truncated
      <4>1. pc2 = "done"
        BY <3>1, <3>3 DEF SameConfig
      <4>2. UNCHANGED Ext!vars
        BY <2>1, <4>1, StepIsNotOver DEF Ext!Next, Ext!Done
      <4>3. SameConfig'
        BY <3>1, <3>3, <4>2 DEF SameConfig, vars, machine, Ext!vars, Ext!machine
      <4> QED BY <2>4, <4>3
    <3> QED BY <3>2, <3>3
  <2> QED BY <2>1, <2>5, <2>6 DEF Next
<1>2. CASE UNCHANGED runs
  <2>1. UNCHANGED vars /\ UNCHANGED Ext!vars
    BY <1>2 DEF runs, vars, machine, machine2, Ext!vars, Ext!machine
  <2>2. RInv' /\ Ext!RInv'
    BY <2>1, NextRefines, ExtFacts
  <2>3. UNCHANGED <<packet, pc, ix, fx, current, depth, cursor_bits, entry_cursor, regions, env,
                    meta, headers, trace, result>>
    BY <2>1 DEF vars, machine
  <2>4. UNCHANGED <<packet2, pc2, ix2, fx2, current2, depth2, cursor_bits2, entry_cursor2,
                    regions2, env2, meta2, headers2, trace2, result2>> /\ UNCHANGED ir
    BY <2>1 DEF Ext!vars, Ext!machine
  <2>5. Extension' /\ Truncated' = Truncated
    BY <2>3, <2>4 DEF Extension, Truncated
  <2>6. SameConfig => SameConfig'
    BY <2>3, <2>4 DEF SameConfig
  <2>7. Ext!Committed' = Ext!Committed
    <3>1. Ext!Ex' = Ext!Ex
      BY <2>4 DEF Ext!Ex, Ext!St
    <3> QED BY <2>4, <3>1 DEF Ext!Committed
  <2>8. AheadBy(result.consumed_bits) => AheadBy(result.consumed_bits)'
    BY <2>3, <2>4, <2>7 DEF AheadBy
  <2> QED BY <2>2, <2>3, <2>5, <2>6, <2>8
<1> QED BY <1>1, <1>2

LEMMA TruncationInvariance ==
  ASSUME StartsExist
  PROVE  TruncationSpec => []TruncationInv
<1>1. TruncationInit => TruncationInv
  BY InitTruncationInv
<1>2. TruncationInv /\ [TruncationNext]_runs => TruncationInv'
  BY NextTruncationInv
<1> QED BY <1>1, <1>2, PTL DEF TruncationSpec

----------------------------------------------------------------------------
(* The theorems.                                                           *)

\* Only "out of bounds" is about the end of the input: after any other verdict
\* of run_bits (accept, a reject of the program's, a structural one, an Err),
\* more bits change nothing of the report.
THEOREM VerdictsFinal ==
  ASSUME StartsExist
  PROVE  TruncationSpec => []OtherVerdictsAreFinal
<1>1. TruncationInv => OtherVerdictsAreFinal
  BY DEF TruncationInv, OtherVerdictsAreFinal, SameConfig, Report, Report2
<1> QED BY <1>1, TruncationInvariance, PTL

\* What run_bits reports of a truncated packet is the beginning of what it
\* reports of more of it: headers, states and consumed bits.
THEOREM TruncatedPrefix ==
  ASSUME StartsExist
  PROVE  TruncationSpec => []TruncatedRunIsAPrefix
<1>1. TruncationInv => TruncatedRunIsAPrefix
  <2> SUFFICES ASSUME TruncationInv, pc = "done", pc2 = "done", Truncated
               PROVE  TruncatedRunIsAPrefix
    BY DEF TruncatedRunIsAPrefix
  <2>1. AheadBy(result.consumed_bits) /\ RInv /\ ExtReport
    BY ExtReportTypes DEF TruncationInv
  <2>2. Ext!Committed = result2.consumed_bits
    BY DEF Ext!Committed
  <2>3. result2.consumed_bits >= result.consumed_bits
    <3>1. result.consumed_bits \in Nat /\ result2.consumed_bits \in Nat
      BY <2>1, <2>2 DEF ExtReport, RInv, IInv, TypeOK, Result
    <3> QED BY <2>1, <2>2, <3>1 DEF AheadBy
  <2>4. ASSUME NEW k \in DOMAIN headers
        PROVE  IsPrefix(headers[k].fields, headers2[k].fields)
    <3> DEFINE s == headers[k].fields
               t == headers2[k].fields
    <3>1. headers \in Seq(ParsedHeader) /\ s \in Seq(ParsedField) /\ DOMAIN headers = 1..Len(headers)
      <4>1. headers \in Seq(ParsedHeader)
        BY <2>1, ReportTypes
      <4>2. headers[k] \in ParsedHeader
        BY <4>1
      <4> QED BY <4>1, <4>2 DEF ParsedHeader
    <3>2. k \in DOMAIN headers2
      BY <2>1, <3>1 DEF AheadBy, ExtReport
    <3>3. t \in Seq(Ext!ParsedField)
      <4>1. headers2 \in Seq(Ext!ParsedHeader)
        BY DEF TruncationInv, Ext!RInv, Ext!IInv, Ext!TypeOK
      <4>2. headers2[k] \in Ext!ParsedHeader
        BY <3>2, <4>1
      <4> QED BY <4>2 DEF Ext!ParsedHeader
    <3>4. Len(s) <= Len(t) /\ \A i \in 1..Len(s) : t[i] = s[i]
      BY <2>1, <3>1 DEF AheadBy
    <3> HIDE DEF s, t
    <3>5. SubSeq(s, 1, Len(s)) = SubSeq(t, 1, Len(s))
      BY <3>1, <3>3, <3>4
    <3> QED BY <3>4, <3>5 DEF IsPrefix, s, t
  <2>5. \A k \in DOMAIN headers : k < Len(headers) => headers[k] = headers2[k]
    BY <2>1 DEF AheadBy
  <2>6. \A k \in DOMAIN trace : trace[k].state = trace2[k].state
    BY <2>1 DEF AheadBy
  <2> QED BY <2>1, <2>3, <2>4, <2>5, <2>6 DEF TruncatedRunIsAPrefix, AheadBy
<1> QED BY <1>1, TruncationInvariance, PTL
=============================================================================

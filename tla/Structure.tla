----------------------------- MODULE Structure -----------------------------
(***************************************************************************)
(* The structural checks of validation (validate_with_limits of             *)
(* rust/pakeles/src/ir/validate.rs): what every stage that takes a          *)
(* ValidatedIr may rely on, whatever the later analyses find.               *)
(***************************************************************************)
EXTENDS IR, SequencesExt

CONSTANT MaxParseDepth   \* limits.max_parse_depth

ASSUME MaxParseDepthAssumption == MaxParseDepth \in Nat

Extracts == UNION {ToSet(s.extracts) : s \in ToSet(ir.states)}
Instances == {InstanceOf(ex) : ex \in Extracts}
RunWidths(h) == {w \in ToSet(h) : w.kind = "bit_len"}
Pushes(s) == {op \in ToSet(s.region_ops) : op.kind = "push"}

BudgetOk == ir.max_depth \in 1..MaxParseDepth

WidthsOk ==
  /\ \A h \in ToSet(ir.header_types) : \A w \in ToSet(h) :
       w.kind = "bits" => w.bits \in 1..WordBits
  /\ \A m \in ToSet(ir.metadata) : m.bits \in 1..WordBits /\ m.init < 2^m.bits

\* Every extract names a header type, and an instance has one type only.
InstancesOk ==
  /\ \A ex \in Extracts : ex.header_type \in DOMAIN ir.header_types
  /\ \A e1, e2 \in Extracts :
       InstanceOf(e1) = InstanceOf(e2) => e1.header_type = e2.header_type

\* A peeked type is all fixed-width.
LookaheadsOk ==
  \A ex \in Extracts : ex.lookahead => RunWidths(ir.header_types[ex.header_type]) = {}

FieldRefsResolve(e) ==
  \A r \in FieldRefs(e) :
    \E ex \in Extracts : InstanceOf(ex) = r.header
                           /\ r.field \in DOMAIN ir.header_types[ex.header_type]
MetadataRefsResolve(e) == \A r \in MetadataRefs(e) : r.name \in DOMAIN ir.metadata

\* Lengths of runs and of regions are functions of fields and constants.
LengthOk(e) == FieldRefsResolve(e) /\ MetadataRefs(e) = {} /\ ~ContainsRemaining(e)
LengthsOk ==
  /\ \A h \in ToSet(ir.header_types) : \A w \in RunWidths(h) : LengthOk(w.expr)
  /\ \A s \in ToSet(ir.states) : \A op \in Pushes(s) : LengthOk(op.len)

AssignsOk ==
  \A s \in ToSet(ir.states) : \A a \in ToSet(s.assigns) :
    /\ a.metadata \in DOMAIN ir.metadata
    /\ FieldRefsResolve(a.value) /\ MetadataRefsResolve(a.value)

TargetOk(t) ==
  /\ t # NoTarget
  /\ t.kind = "state" => t.name \in DOMAIN ir.states

\* The width of a key that is a plain fixed field or metadata reference.
KeyWidth(k) ==
  IF k.kind = "field"
  THEN LET ex == CHOOSE ex \in Extracts : InstanceOf(ex) = k.header
           w == ir.header_types[ex.header_type][k.field]
       IN IF w.kind = "bits" THEN w.bits ELSE WordBits
  ELSE IF k.kind = "metadata" THEN ir.metadata[k.name].bits ELSE WordBits

EntryOk(entry, k) ==
  \/ entry.kind = "value"  /\ entry.value < 2^KeyWidth(k)
  \/ entry.kind = "masked" /\ entry.value < 2^KeyWidth(k) /\ entry.mask < 2^KeyWidth(k)
  \/ entry.kind = "range"  /\ entry.lo <= entry.hi /\ entry.hi < 2^KeyWidth(k)

SelectOk(t) ==
  /\ t.keys # <<>>
  /\ \A k \in ToSet(t.keys) : FieldRefsResolve(k) /\ MetadataRefsResolve(k)
  /\ \A arm \in ToSet(t.arms) :
       /\ Len(arm.entries) = Len(t.keys)
       /\ \A j \in DOMAIN t.keys : EntryOk(arm.entries[j], t.keys[j])

TransitionsOk ==
  \A s \in ToSet(ir.states) :
    /\ \A t \in TargetsOf(s) : TargetOk(t)
    /\ s.transition.kind = "select" => SelectOk(s.transition)

StructureOk ==
  /\ BudgetOk
  /\ WidthsOk
  /\ ir.start_state \in DOMAIN ir.states
  /\ InstancesOk
  /\ LookaheadsOk
  /\ LengthsOk
  /\ AssignsOk
  /\ TransitionsOk
=============================================================================

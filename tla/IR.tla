------------------------------- MODULE IR ----------------------------------
(***************************************************************************)
(* The intermediate representation every Pakeles tool consumes              *)
(* (proto/pakeles/ir/v1alpha1/ir.proto) and the evaluation of its           *)
(* expressions and keyset entries (rust/pakeles/src/interp/eval.rs).        *)
(*                                                                          *)
(* A name is the position of its declaration: states, header types, fields  *)
(* and metadata are sequences, and a reference is an index into one.  So    *)
(* names are unique by construction, and an unresolved name is an index     *)
(* outside the domain.  Header instances share the name space of header     *)
(* types, as in the source: an extract without an instance name uses the    *)
(* name of its type.                                                        *)
(*                                                                          *)
(* Machine words are WordBits wide (64 in the source; u64 and usize).       *)
(***************************************************************************)
EXTENDS Integers, Sequences, FiniteSets, FiniteSetsExt

CONSTANTS
  WordBits,   \* width of u64 and usize
  Exprs,      \* the expressions programs are built from, closed under operands
  Reasons     \* the reject reasons programs author

VARIABLE ir   \* the parser the tools work on; no step changes it

ASSUME WordBitsAssumption == WordBits \in Nat \ {0}

\* The powers of two up to the word size, as the arithmetic the provers
\* do not know.
ASSUME PowersAssumption ==
  \A k \in 0..WordBits : 2^k \in Nat \ {0} /\ 2^k <= 2^WordBits

WordSize == 2^WordBits
Word == 0..(WordSize - 1)

\* A u64 or usize that is not there: None of an Option, Err of a Result.
Undef == -1

----------------------------------------------------------------------------
(* The schema.                                                             *)

NoName == 0
Name == Nat \ {NoName}

BinOps == {"add", "sub", "mul", "shl", "shr", "and", "or"}

Constant(v)       == [kind |-> "constant", value |-> v]
FieldRef(i, f)    == [kind |-> "field", header |-> i, field |-> f]
MetadataRef(m)    == [kind |-> "metadata", name |-> m]
RemainingExpr     == [kind |-> "remaining"]
Bin(op, a, b)     == [kind |-> "bin", op |-> op, lhs |-> a, rhs |-> b]

ASSUME ExprsAssumption ==
  \A e \in Exprs :
    \/ e.kind = "constant" /\ e.value \in Word
    \/ e.kind = "field" /\ e.header \in Name /\ e.field \in Name
    \/ e.kind = "metadata" /\ e.name \in Name
    \/ e.kind = "remaining"
    \/ e.kind = "bin" /\ e.op \in BinOps /\ e.lhs \in Exprs /\ e.rhs \in Exprs

\* Expressions are finite trees: some operation of a set of them has no operand
\* in the set.
ASSUME ExprsAreTrees ==
  \A S \in SUBSET {e \in Exprs : e.kind = "bin"} :
    S # {} => \E e \in S : e.lhs \notin S /\ e.rhs \notin S

FieldWidth == [kind : {"bits"}, bits : Nat] \cup [kind : {"bit_len"}, expr : Exprs]
HeaderType == Seq(FieldWidth)
MetadataField == [bits : Nat, init : Word]

Extract == [header_type : Name, instance : Nat, lookahead : BOOLEAN]
Assign == [metadata : Name, value : Exprs]
RegionOp == [kind : {"push"}, len : Exprs] \cup [kind : {"pop"}]

NoTarget == [kind |-> "unset"]
Target == [kind : {"state"}, name : Name] \cup [kind : {"accept"}]
            \cup [kind : {"reject"}, reason : Reasons]

KeysetEntry == [kind : {"value"}, value : Word]
                 \cup [kind : {"masked"}, value : Word, mask : Word]
                 \cup [kind : {"range"}, lo : Word, hi : Word]
SelectArm == [entries : Seq(KeysetEntry), next : Target]
Transition == [kind : {"direct"}, next : Target]
                \cup [kind : {"select"}, keys : Seq(Exprs), arms : Seq(SelectArm),
                      default_target : Target \cup {NoTarget}]

State == [extracts : Seq(Extract), assigns : Seq(Assign),
          region_ops : Seq(RegionOp), transition : Transition]

Parser == [header_types : Seq(HeaderType), metadata : Seq(MetadataField),
           states : Seq(State), start_state : Name, max_depth : Nat]

\* The instance an extract binds: its own name, or its type's.
InstanceOf(ex) == IF ex.instance = NoName THEN ex.header_type ELSE ex.instance

----------------------------------------------------------------------------
(* Word arithmetic.  Shift counts are taken modulo the word width.         *)

BitsOf(a) == {k \in 0..(WordBits - 1) : (a \div 2^k) % 2 = 1}
FromBits(S) == MapThenSumSet(LAMBDA k : 2^k, S)

\* Bits of a word make a word: a sum over a set, which the provers do not know.
ASSUME FromBitsAssumption == \A S \in SUBSET (0..(WordBits - 1)) : FromBits(S) \in Word

BitAnd(a, b) == FromBits(BitsOf(a) \cap BitsOf(b))
BitOr(a, b) == FromBits(BitsOf(a) \cup BitsOf(b))

WrappingOp(op, a, b) ==
  CASE op = "add" -> (a + b) % WordSize
    [] op = "sub" -> (a - b) % WordSize
    [] op = "mul" -> (a * b) % WordSize
    [] op = "shl" -> (a * 2^(b % WordBits)) % WordSize
    [] op = "shr" -> a \div 2^(b % WordBits)
    [] op = "and" -> BitAnd(a, b)
    [] op = "or"  -> BitOr(a, b)

\* usize::checked_add, of an optional left operand.
CheckedAdd(a, b) == IF a # Undef /\ a + b \in Word THEN a + b ELSE Undef

----------------------------------------------------------------------------
(* Evaluation.  env maps <<instance, field>> pairs to words, meta is the   *)
(* metadata store, rem the value of remaining() or Undef where there is    *)
(* none.  The result is Undef where the source returns Err.                *)

\* An expression that has no operands.
LeafValue(e, env, meta, rem) ==
  CASE e.kind = "constant"  -> e.value
    [] e.kind = "remaining" -> rem
    [] e.kind = "field"     -> IF <<e.header, e.field>> \in DOMAIN env
                               THEN env[<<e.header, e.field>>] ELSE Undef
    [] e.kind = "metadata"  -> IF e.name \in DOMAIN meta THEN meta[e.name] ELSE Undef

EvalExpr(expr, env, meta, rem) ==
  LET eval[e \in Exprs] ==
        IF e.kind # "bin" THEN LeafValue(e, env, meta, rem)
        ELSE IF Undef \in {eval[e.lhs], eval[e.rhs]} THEN Undef
        ELSE WrappingOp(e.op, eval[e.lhs], eval[e.rhs])
  IN IF eval[expr] \in Word THEN eval[expr] ELSE Undef

EvalEntry(entry, key) ==
  \/ entry.kind = "value"  /\ key = entry.value
  \/ entry.kind = "masked" /\ BitAnd(key, entry.mask) = BitAnd(entry.value, entry.mask)
  \/ entry.kind = "range"  /\ entry.lo <= key /\ key <= entry.hi

\* The subexpressions of an expression, and what it refers to.
SubExprs(expr) ==
  LET sub[e \in Exprs] == {e} \cup (IF e.kind = "bin" THEN sub[e.lhs] \cup sub[e.rhs] ELSE {})
  IN sub[expr]
FieldRefs(expr) == {e \in SubExprs(expr) : e.kind = "field"}
MetadataRefs(expr) == {e \in SubExprs(expr) : e.kind = "metadata"}
ContainsRemaining(expr) == \E e \in SubExprs(expr) : e.kind = "remaining"

----------------------------------------------------------------------------
(* The state graph.                                                        *)

TargetsOf(s) ==
  IF s.transition.kind = "direct" THEN {s.transition.next}
  ELSE {s.transition.arms[i].next : i \in DOMAIN s.transition.arms}
         \cup {s.transition.default_target}
Successors(s) == {t.name : t \in {t \in TargetsOf(s) : t.kind = "state"}}
StateInstances(s) == {InstanceOf(s.extracts[i]) : i \in DOMAIN s.extracts}
KeysOf(s) == IF s.transition.kind = "select" THEN s.transition.keys ELSE <<>>

\* Mutant of RegionCap: the states that push, and not their pushes.
PushingStates ==
  Cardinality({q \in DOMAIN ir.states :
                 \E j \in DOMAIN ir.states[q].region_ops : ir.states[q].region_ops[j].kind = "push"})

\* The push operations of state q, and their number in the parser.
PushesOf(q) ==
  {<<q, j>> : j \in {j \in DOMAIN ir.states[q].region_ops :
                      ir.states[q].region_ops[j].kind = "push"}}
RegionCap == Cardinality(UNION {PushesOf(q) : q \in DOMAIN ir.states})
=============================================================================

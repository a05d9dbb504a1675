------------------------------ MODULE CParser ------------------------------
(***************************************************************************)
(* The C99 parser that rust/pakeles/src/codegen/c.rs generates, as it runs: *)
(* <p>_parse zeroes the result struct and <p>_parse_core loops over the     *)
(* states.  The struct keeps one header per instance, the last extraction,  *)
(* and its values are the environment expressions read.  Regions live in a  *)
(* fixed array, indexed through a mask; word arithmetic wraps.              *)
(*                                                                          *)
(* A fixed-width field is read bit by bit, or as whole bytes where the      *)
(* alignment analysis of the generator says that it starts on one.  The     *)
(* names are those of the generated code.                                   *)
(***************************************************************************)
EXTENDS Alignment

CONSTANT Garbage   \* what an uninitialised word may hold

ASSUME GarbageAssumption == Garbage \subseteq Word

\* A mask of n ones keeps the n low bits: arithmetic of powers of two that the
\* provers do not know.
ASSUME MaskAssumption ==
  \A n \in 0..WordBits : \A v \in Word : BitAnd(v, 2^n - 1) = v % 2^n

VARIABLES
  buf,            \* the input, a sequence of bits
  cpc,            \* "idle", "loop", "body", "field" or "returned"
  cix,            \* position in the state's extracts, assigns, region ops, transition
  cfx,            \* position in the fields of the header being extracted
  state,          \* the switch variable
  iter,           \* `depth`, the counter of the for loop
  off,            \* the cursor
  poff,           \* the cursor of a lookahead
  pk_region_end,  \* the region array
  pk_rsp,         \* regions open
  out             \* the result struct

c_vars == <<buf, cpc, cix, cfx, state, iter, off, poff, pk_region_end, pk_rsp, out>>

----------------------------------------------------------------------------
(* Generated constants and locals.                                         *)

bit_len == Len(buf)

\* usize::next_power_of_two.
NextPowerOfTwo(n) ==
  LET power[k \in 0..n] == IF k = 0 THEN 1 ELSE 2 * power[k - 1]
  IN Min({power[k] : k \in 0..n} \ 0..(n - 1))

\* Mutant of PK_RMASK: half the array.
NarrowMask == NextPowerOfTwo(RegionCap) \div 2 - 1

PK_RMASK == NextPowerOfTwo(RegionCap) - 1

\* The members of the result struct: a word for every fixed-width field of an
\* instance, an offset and a length for every run.
Members(kind) ==
  UNION {{<<InstanceOf(ex), f>> :
            f \in {f \in DOMAIN ir.header_types[ex.header_type] :
                     ir.header_types[ex.header_type][f].kind = kind}} :
           ex \in UNION {{s.extracts[k] : k \in DOMAIN s.extracts} :
                           s \in {ir.states[q] : q \in DOMAIN ir.states}}}

\* After `*out = zero` and the metadata initialisers.
ZeroedOut ==
  [outcome |-> "running", reason |-> "", consumed_bits |-> 0,
   present |-> {},
   words |-> [m \in Members("bits") |-> 0],
   runs |-> [m \in Members("bit_len") |-> [bit_off |-> 0, bit_len |-> 0]],
   m |-> [m \in DOMAIN ir.metadata |-> ir.metadata[m].init]]

CSt == ir.states[state]
CExtracts == Len(CSt.extracts)
CAssigns == Len(CSt.assigns)
COps == Len(CSt.region_ops)
CEx == CSt.extracts[cix]
CMember == <<InstanceOf(CEx), cfx>>
CFields == ir.header_types[CEx.header_type]
CAssignOp == CSt.assigns[cix - CExtracts]
COp == CSt.region_ops[cix - CExtracts - CAssigns]

cur == IF CEx.lookahead THEN poff ELSE off

\* pk_region_end[(pk_rsp - 1u) & PK_RMASK]
InnermostEnd == pk_region_end[(pk_rsp - 1) % (PK_RMASK + 1)]

\* expr_c: members never read hold zero; shift counts are masked.
CValue(e) == EvalExpr(e, out.words, out.m, IF RegionCap = 0 THEN Undef
                                           ELSE (InnermostEnd - off) % WordSize)

\* pk_read_bits: n bits from cursor c.
CReadBits(c, n) == FromBits({k \in 0..(n - 1) : buf[c + n - k] = 1})

\* Mutant of CLoad: whole bytes whatever the cursor.
CLoadBytes(c, n) ==
  IF n % ByteBits = 0 THEN CReadBits((c \div ByteBits) * ByteBits, n) ELSE CReadBits(c, n)

\* byte_load_expr: whole bytes from the byte the cursor is in, where generating
\* found the field aligned.
CLoad(c, n) ==
  IF n % ByteBits = 0 /\ FieldAlignment(state, InstanceOf(CEx), cfx) = 0
  THEN CReadBits((c \div ByteBits) * ByteBits, n)
  ELSE CReadBits(c, n)

Return(outcome, reason) ==
  /\ cpc' = "returned"
  /\ out' = [out EXCEPT !.outcome = outcome, !.reason = reason, !.consumed_bits = off]

----------------------------------------------------------------------------
(* Steps.                                                                  *)

\* The region array is not initialised.
CStart(input) ==
  /\ cpc = "idle"
  /\ cpc' = "loop"
  /\ buf' = input
  /\ out' = ZeroedOut
  /\ state' = ir.start_state
  /\ pk_region_end' \in [0..PK_RMASK -> Garbage]
  /\ UNCHANGED <<cix, cfx, iter, off, poff, pk_rsp>>

CLoop ==
  /\ cpc = "loop"
  /\ \/ /\ iter < ir.max_depth
        /\ cpc' = "body"
        /\ cix' = 1
        /\ UNCHANGED out
     \/ /\ iter >= ir.max_depth
        /\ Return("reject", "max depth exceeded")
        /\ UNCHANGED cix
  /\ UNCHANGED <<buf, cfx, state, iter, off, poff, pk_region_end, pk_rsp>>

CExtract ==
  /\ cpc = "body" /\ cix <= CExtracts
  /\ cpc' = "field"
  /\ cfx' = 1
  /\ poff' = off
  /\ out' = [out EXCEPT !.present = @ \cup {InstanceOf(CEx)}]
  /\ UNCHANGED <<buf, cix, state, iter, off, pk_region_end, pk_rsp>>

\* Mutant of CFixed: the buffer first, then the region end.
CFixedBufferFirst ==
  /\ cpc = "field" /\ cfx <= Len(CFields) /\ CFields[cfx].kind = "bits"
  /\ LET end == (cur + CFields[cfx].bits) % WordSize
     IN \/ /\ end > bit_len
           /\ Return("reject", "out of bounds")
           /\ UNCHANGED <<cfx, off, poff>>
        \/ /\ end <= bit_len
           /\ pk_rsp # 0 /\ end > InnermostEnd
           /\ Return("reject", "out of region bounds")
           /\ UNCHANGED <<cfx, off, poff>>
        \/ /\ ~(pk_rsp # 0 /\ end > InnermostEnd)
           /\ end <= bit_len
           /\ out' = [out EXCEPT !.words[CMember] = CLoad(cur, CFields[cfx].bits)]
           /\ IF CEx.lookahead THEN poff' = end /\ UNCHANGED off
                               ELSE off' = end /\ UNCHANGED poff
           /\ cfx' = cfx + 1
           /\ UNCHANGED cpc
  /\ UNCHANGED <<buf, cix, state, iter, pk_region_end, pk_rsp>>

\* The region end first, then the buffer; sums of a cursor and a width.
CFixed ==
  /\ cpc = "field" /\ cfx <= Len(CFields) /\ CFields[cfx].kind = "bits"
  /\ LET end == (cur + CFields[cfx].bits) % WordSize
     IN \/ /\ pk_rsp # 0 /\ end > InnermostEnd
           /\ Return("reject", "out of region bounds")
           /\ UNCHANGED <<cfx, off, poff>>
        \/ /\ ~(pk_rsp # 0 /\ end > InnermostEnd)
           /\ end > bit_len
           /\ Return("reject", "out of bounds")
           /\ UNCHANGED <<cfx, off, poff>>
        \/ /\ ~(pk_rsp # 0 /\ end > InnermostEnd)
           /\ end <= bit_len
           /\ out' = [out EXCEPT !.words[CMember] = CLoad(cur, CFields[cfx].bits)]
           /\ IF CEx.lookahead THEN poff' = end /\ UNCHANGED off
                               ELSE off' = end /\ UNCHANGED poff
           /\ cfx' = cfx + 1
           /\ UNCHANGED cpc
  /\ UNCHANGED <<buf, cix, state, iter, pk_region_end, pk_rsp>>

\* Subtractions, as the length may have wrapped.
CRun ==
  /\ cpc = "field" /\ cfx <= Len(CFields) /\ CFields[cfx].kind = "bit_len"
  /\ LET vlen == CValue(CFields[cfx].expr)
         crosses == pk_rsp # 0 /\ vlen > (InnermostEnd - off) % WordSize
         short == vlen > (bit_len - off) % WordSize
     IN \/ /\ crosses
           /\ Return("reject", "out of region bounds")
           /\ UNCHANGED <<cfx, off>>
        \/ /\ ~crosses /\ short
           /\ Return("reject", "out of bounds")
           /\ UNCHANGED <<cfx, off>>
        \/ /\ ~crosses /\ ~short
           /\ out' = [out EXCEPT !.runs[CMember] = [bit_off |-> off, bit_len |-> vlen]]
           /\ off' = (off + vlen) % WordSize
           /\ cfx' = cfx + 1
           /\ UNCHANGED cpc
  /\ UNCHANGED <<buf, cix, state, iter, poff, pk_region_end, pk_rsp>>

CEndExtract ==
  /\ cpc = "field" /\ cfx = Len(CFields) + 1
  /\ cpc' = "body"
  /\ cix' = cix + 1
  /\ UNCHANGED <<buf, cfx, state, iter, off, poff, pk_region_end, pk_rsp, out>>

CAssign ==
  /\ cpc = "body" /\ cix \in (CExtracts + 1)..(CExtracts + CAssigns)
  /\ LET bits == ir.metadata[CAssignOp.metadata].bits
         rhs == CValue(CAssignOp.value)
     IN out' = [out EXCEPT !.m[CAssignOp.metadata] =
                  IF bits >= WordBits THEN rhs ELSE BitAnd(rhs, 2^bits - 1)]
  /\ cix' = cix + 1
  /\ UNCHANGED <<buf, cpc, cfx, state, iter, off, poff, pk_region_end, pk_rsp>>

\* Checked against the enclosing region, the word size, and the array.
CPush ==
  /\ cpc = "body" /\ cix \in (CExtracts + CAssigns + 1)..(CExtracts + CAssigns + COps)
  /\ COp.kind = "push"
  /\ LET rlen == CValue(COp.len)
         lies == \/ pk_rsp # 0 /\ rlen > (InnermostEnd - off) % WordSize
                 \/ pk_rsp = 0 /\ rlen > WordSize - 1 - off
                 \/ pk_rsp > PK_RMASK
     IN \/ /\ lies
           /\ Return("reject", "region out of bounds")
           /\ UNCHANGED <<cix, pk_region_end, pk_rsp>>
        \/ /\ ~lies
           /\ pk_region_end' =
                [pk_region_end EXCEPT ![pk_rsp % (PK_RMASK + 1)] = (off + rlen) % WordSize]
           /\ pk_rsp' = pk_rsp + 1
           /\ cix' = cix + 1
           /\ UNCHANGED <<cpc, out>>
  /\ UNCHANGED <<buf, cfx, state, iter, off, poff>>

\* Every shortfall is "region not exhausted", past the end of the buffer too.
CPop ==
  /\ cpc = "body" /\ cix \in (CExtracts + CAssigns + 1)..(CExtracts + CAssigns + COps)
  /\ COp.kind = "pop"
  /\ pk_rsp' = IF pk_rsp = 0 THEN 0 ELSE pk_rsp - 1
  /\ \/ /\ pk_rsp = 0 \/ off < InnermostEnd
        /\ Return("reject", "region not exhausted")
        /\ UNCHANGED cix
     \/ /\ pk_rsp # 0 /\ off >= InnermostEnd
        /\ cix' = cix + 1
        /\ UNCHANGED <<cpc, out>>
  /\ UNCHANGED <<buf, cfx, state, iter, off, poff, pk_region_end>>

\* entry_c: the mask is applied to the key, and to the value when generating.
CEntryMatches(entry, key) ==
  CASE entry.kind = "value"  -> key = entry.value
    [] entry.kind = "masked" -> BitAnd(key, entry.mask) = BitAnd(entry.value, entry.mask)
    [] entry.kind = "range"  -> entry.lo <= key /\ key <= entry.hi

\* The target of the if chain: the first arm all of whose entries match.
CTarget ==
  LET t == CSt.transition
  IN IF t.kind = "direct" THEN t.next
     ELSE LET keys == [j \in DOMAIN t.keys |-> CValue(t.keys[j])]
              taken == {i \in DOMAIN t.arms :
                          \A j \in DOMAIN keys : CEntryMatches(t.arms[i].entries[j], keys[j])}
          IN IF taken # {} THEN t.arms[Min(taken)].next
             ELSE IF t.default_target # NoTarget THEN t.default_target
             ELSE [kind |-> "reject", reason |-> "no matching select arm"]

\* emit_target; `continue` counts the iteration.
CTransition ==
  /\ cpc = "body" /\ cix = CExtracts + CAssigns + COps + 1
  /\ \/ /\ CTarget.kind = "state"
        /\ state' = CTarget.name
        /\ iter' = iter + 1
        /\ cpc' = "loop"
        /\ UNCHANGED out
     \/ /\ CTarget.kind = "accept"
        /\ Return("accept", "")
        /\ UNCHANGED <<state, iter>>
     \/ /\ CTarget.kind = "reject"
        /\ Return("reject", CTarget.reason)
        /\ UNCHANGED <<state, iter>>
  /\ UNCHANGED <<buf, cix, cfx, off, poff, pk_region_end, pk_rsp>>

CStep ==
  \/ CLoop
  \/ CExtract
  \/ CFixed
  \/ CRun
  \/ CEndExtract
  \/ CAssign
  \/ CPush
  \/ CPop
  \/ CTransition

CInit ==
  /\ buf = <<>>
  /\ cpc = "idle"
  /\ cix = 1
  /\ cfx = 1
  /\ state = ir.start_state
  /\ iter = 0
  /\ off = 0
  /\ poff = 0
  /\ pk_region_end = [k \in {} |-> 0]
  /\ pk_rsp = 0
  /\ out = [outcome |-> "running"]
=============================================================================

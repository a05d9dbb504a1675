-------------------------------- MODULE Zoo --------------------------------
(***************************************************************************)
(* Programs for the model-checking modules: the repository's examples       *)
(* (examples/tlv_items, examples/counted_items, examples/eth_ipvx_l4)       *)
(* scaled down to a few bits, and programs that reach what those do not:    *)
(* nested regions with wrapping lengths, masked and range keys, an instance *)
(* extracted twice, a region left open at accept.                           *)
(***************************************************************************)
EXTENDS IR

Fixed(n) == [kind |-> "bits", bits |-> n]
Opaque(e) == [kind |-> "bit_len", expr |-> e]

Take(h) == [header_type |-> h, instance |-> NoName, lookahead |-> FALSE]
TakeAs(h, i) == [header_type |-> h, instance |-> i, lookahead |-> FALSE]
Peek(h) == [header_type |-> h, instance |-> NoName, lookahead |-> TRUE]
PeekAs(h, i) == [header_type |-> h, instance |-> i, lookahead |-> TRUE]

Set(m, e) == [metadata |-> m, value |-> e]
Meta(bits, init) == [bits |-> bits, init |-> init]
Push(e) == [kind |-> "push", len |-> e]
Pop == [kind |-> "pop"]

To(q) == [kind |-> "state", name |-> q]
Accept == [kind |-> "accept"]
Refuse(reason) == [kind |-> "reject", reason |-> reason]

Is(v) == [kind |-> "value", value |-> v]
Mask(v, m) == [kind |-> "masked", value |-> v, mask |-> m]
Between(lo, hi) == [kind |-> "range", lo |-> lo, hi |-> hi]

Direct(t) == [kind |-> "direct", next |-> t]
Arm(entries, t) == [entries |-> entries, next |-> t]
Select(keys, arms, t) ==
  [kind |-> "select", keys |-> keys, arms |-> arms, default_target |-> t]

StateOf(extracts, assigns, ops, transition) ==
  [extracts |-> extracts, assigns |-> assigns, region_ops |-> ops, transition |-> transition]
ParserOf(header_types, metadata, states, max_depth) ==
  [header_types |-> header_types, metadata |-> metadata, states |-> states,
   start_state |-> 1, max_depth |-> max_depth]

StartingAt(q, p) == [p EXCEPT !.start_state = q]

----------------------------------------------------------------------------
\* examples/tlv_items: a length opens a region, items fill it exactly.
TlvItems ==
  ParserOf(<< <<Fixed(3)>>, <<Fixed(1), Fixed(1), Opaque(FieldRef(2, 2))>> >>, <<>>,
    << StateOf(<<Take(1)>>, <<>>, <<Push(FieldRef(1, 1))>>, Direct(To(2))),
       StateOf(<<>>, <<>>, <<>>,
               Select(<<RemainingExpr>>, <<Arm(<<Is(0)>>, To(4))>>, To(3))),
       StateOf(<<Take(2)>>, <<>>, <<>>, Direct(To(2))),
       StateOf(<<>>, <<>>, <<Pop>>, Direct(Accept)) >>, 6)

\* examples/counted_items: a counter in metadata bounds the loop.
CountedItems ==
  ParserOf(<< <<Fixed(2)>>, <<Fixed(1)>> >>, <<Meta(1, 0), Meta(2, 0)>>,
    << StateOf(<<Take(1)>>, <<Set(2, FieldRef(1, 1))>>, <<>>,
               Select(<<MetadataRef(2)>>, <<Arm(<<Is(0)>>, To(3))>>, To(2))),
       StateOf(<<Take(2)>>, <<Set(2, Bin("sub", MetadataRef(2), Constant(1)))>>, <<>>,
               Select(<<MetadataRef(2)>>, <<Arm(<<Is(0)>>, To(3))>>, To(2))),
       StateOf(<<>>, <<Set(1, Constant(1))>>, <<>>, Direct(Accept)) >>, 4)

\* examples/eth_ipvx_l4: peek at the version, then extract one of two headers.
PeekVersion ==
  ParserOf(<< <<Fixed(1)>>, <<Fixed(1), Fixed(2)>>, <<Fixed(2), Opaque(Constant(3))>> >>, <<>>,
    << StateOf(<<Peek(1)>>, <<>>, <<>>,
               Select(<<FieldRef(1, 1)>>, <<Arm(<<Is(0)>>, To(2)), Arm(<<Is(1)>>, To(3))>>,
                      Refuse("unknown"))),
       StateOf(<<Take(2), PeekAs(2, 4)>>, <<>>, <<>>, Direct(Accept)),
       StateOf(<<Take(3)>>, <<>>, <<>>, Direct(Accept)) >>, 3)

\* A record inside a record; both lengths may wrap below zero.
NestedRecords ==
  ParserOf(<< <<Fixed(2)>>, <<Fixed(2)>>,
              <<Opaque(Bin("sub", FieldRef(2, 1), Constant(1))), Fixed(1)>> >>,
    <<Meta(2, 1)>>,
    << StateOf(<<Take(1)>>, <<>>,
               <<Push(Bin("sub", Bin("shl", FieldRef(1, 1), Constant(1)), Constant(2)))>>,
               Direct(To(2))),
       StateOf(<<Take(2)>>, <<Set(1, RemainingExpr)>>, <<Push(FieldRef(2, 1))>>, Direct(To(3))),
       StateOf(<<Take(3)>>, <<>>, <<>>,
               Select(<<RemainingExpr, MetadataRef(1)>>,
                      <<Arm(<<Is(0), Between(0, 1)>>, To(4)),
                        Arm(<<Between(0, 9), Is(2)>>, Refuse("unknown"))>>, Accept)),
       StateOf(<<>>, <<>>, <<Pop, Pop>>, Direct(Accept)) >>, 4)

\* One instance extracted in a loop, keyed by mask, or, and and.
MaskedLoop ==
  ParserOf(<< <<Fixed(1), Fixed(2)>> >>, <<Meta(3, 0)>>,
    << StateOf(<<Take(1)>>,
               <<Set(1, Bin("or", Bin("shl", MetadataRef(1), Constant(1)), FieldRef(1, 1)))>>,
               <<>>,
               Select(<<FieldRef(1, 2), Bin("and", MetadataRef(1), Constant(3))>>,
                      <<Arm(<<Mask(2, 2), Between(1, 3)>>, To(1)),
                        Arm(<<Is(1), Mask(0, 0)>>, Refuse("unknown"))>>, To(2))),
       StateOf(<<TakeAs(1, 2)>>, <<Set(1, Bin("mul", FieldRef(2, 2), FieldRef(1, 2)))>>, <<>>,
               Select(<<Bin("shr", MetadataRef(1), FieldRef(1, 1))>>,
                      <<Arm(<<Between(2, 4)>>, Accept)>>, To(2))) >>, 4)

\* Frames whose length need not be what they hold, one after the other.
Frames ==
  ParserOf(<< <<Fixed(2)>>, <<Fixed(1)>> >>, <<>>,
    << StateOf(<<Take(1)>>, <<>>, <<Push(FieldRef(1, 1))>>, Direct(To(2))),
       StateOf(<<Take(2)>>, <<>>, <<Pop>>,
               Select(<<FieldRef(2, 1)>>, <<Arm(<<Is(1)>>, To(1))>>, Accept)) >>, 4)

ZooPrograms == {TlvItems, CountedItems, PeekVersion, NestedRecords, MaskedLoop, Frames}

\* The expressions these programs are built from.
ZooExprs ==
  LET counter == MetadataRef(2)
      outer == Bin("shl", FieldRef(1, 1), Constant(1))
      shifted == Bin("shl", MetadataRef(1), Constant(1))
  IN {Constant(v) : v \in 1..3} \cup {FieldRef(i, f) : i, f \in {1, 2}}
       \cup {MetadataRef(1), counter, RemainingExpr, outer, shifted,
             Bin("sub", counter, Constant(1)), Bin("sub", FieldRef(2, 1), Constant(1)),
             Bin("sub", outer, Constant(2)), Bin("or", shifted, FieldRef(1, 1)),
             Bin("and", MetadataRef(1), Constant(3)), Bin("mul", FieldRef(2, 2), FieldRef(1, 2)),
             Bin("shr", MetadataRef(1), FieldRef(1, 1))}

\* Every sequence of at most n bits.
BitStrings(n) == UNION {[1..k -> {0, 1}] : k \in 0..n}
=============================================================================

------------------------------ MODULE MCSymex -------------------------------
(* Small parsers through the symbolic engine, then every packet.           *)
EXTENDS Symex, TermMeaning, Zoo

\* A tag peeked at whole and read again in two parts; a length that wraps.
PeekSplit ==
  ParserOf(<< <<Fixed(2)>>, <<Fixed(1), Fixed(1)>> >>, <<>>,
    << StateOf(<<Peek(1)>>, <<>>, <<>>,
               Select(<<FieldRef(1, 1)>>, <<Arm(<<Is(2)>>, To(2))>>, Refuse("unknown"))),
       StateOf(<<Take(2)>>, <<>>, <<>>,
               Select(<<FieldRef(2, 1), FieldRef(2, 2)>>, <<Arm(<<Is(1), Is(1)>>, Accept)>>,
                      Refuse("unknown"))) >>, 3)

\* A body whose length is a field less one, and a body after it.
Bodies ==
  ParserOf(<< <<Fixed(2), Opaque(Bin("sub", FieldRef(1, 1), Constant(1))), Fixed(1)>>,
              <<Fixed(1), Opaque(FieldRef(2, 1))>> >>, <<>>,
    << StateOf(<<Take(1), Take(2)>>, <<>>, <<>>,
               Select(<<FieldRef(1, 3), FieldRef(2, 1)>>,
                      <<Arm(<<Is(1), Is(0)>>, Accept)>>, Refuse("unknown"))) >>, 2)

\* Two arms of one target, next to each other and around a third.
Neighbours ==
  ParserOf(<< <<Fixed(2)>> >>, <<>>,
    << StateOf(<<Take(1)>>, <<>>, <<>>,
               Select(<<FieldRef(1, 1)>>,
                      <<Arm(<<Is(0)>>, Accept), Arm(<<Is(2)>>, Accept)>>, Refuse("unknown"))) >>, 2)
Split ==
  ParserOf(<< <<Fixed(2)>> >>, <<>>,
    << StateOf(<<Take(1)>>, <<>>, <<>>,
               Select(<<FieldRef(1, 1)>>,
                      <<Arm(<<Is(0)>>, Accept), Arm(<<Mask(1, 1)>>, Refuse("unknown")),
                        Arm(<<Is(1)>>, Accept)>>, Refuse("unknown"))) >>, 2)

\* A region shorter than what is read in it; a push that wraps and still fits.
TooShort ==
  ParserOf(<< <<Fixed(2)>> >>, <<>>,
    << StateOf(<<>>, <<>>, <<Push(Constant(1))>>, Direct(To(2))),
       StateOf(<<Take(1)>>, <<>>, <<Pop>>, Direct(Accept)) >>, 3)
WrappingPush ==
  ParserOf(<< <<Fixed(1)>> >>, <<>>,
    << StateOf(<<Take(1)>>, <<>>, <<Push(Bin("sub", FieldRef(1, 1), Constant(3)))>>, Direct(To(2))),
       StateOf(<<Take(1)>>, <<>>, <<Pop>>, Direct(Accept)) >>, 3)

\* Arms that overlap, in the order that decides.
Overlapping ==
  ParserOf(<< <<Fixed(2)>> >>, <<>>,
    << StateOf(<<Take(1)>>, <<>>, <<>>,
               Select(<<FieldRef(1, 1)>>,
                      <<Arm(<<Mask(1, 1)>>, Accept), Arm(<<Between(1, 2)>>, Refuse("unknown")),
                        Arm(<<Is(3)>>, To(1))>>, Refuse("unknown"))) >>, 2)

\* A lookahead inside a region, read again in other pieces.
PeekInRegion ==
  ParserOf(<< <<Fixed(2)>>, <<Fixed(1), Fixed(1)>> >>, <<>>,
    << StateOf(<<Take(1)>>, <<>>, <<Push(FieldRef(1, 1))>>, Direct(To(2))),
       StateOf(<<PeekAs(1, 3)>>, <<>>, <<>>,
               Select(<<FieldRef(3, 1)>>, <<Arm(<<Is(1)>>, To(3))>>, Accept)),
       StateOf(<<Take(2)>>, <<>>, <<Pop>>,
               Select(<<FieldRef(2, 2)>>, <<Arm(<<Is(1)>>, Accept)>>, Refuse("unknown"))) >>, 4)

\* Bodies after a lookahead: of a length the engine knows a floor of only, and
\* before a read that the lookahead may overlap.
PeekThenBodies(last) ==
  ParserOf(<< <<Fixed(2)>>, <<Fixed(3)>>, <<Opaque(FieldRef(1, 1)), last>> >>, <<>>,
    << StateOf(<<Take(1), Peek(2), Take(3)>>, <<>>, <<>>, Direct(Accept)) >>, 2)
Overhang == PeekThenBodies(Opaque(Constant(2)))
Unsupported == PeekThenBodies(Fixed(1))

\* A region whose length decides whether what follows is reached.
Framed ==
  ParserOf(<< <<Fixed(2)>>, <<Fixed(1)>> >>, <<>>,
    << StateOf(<<Take(1)>>, <<>>, <<Push(FieldRef(1, 1))>>, Direct(To(2))),
       StateOf(<<Take(2)>>, <<>>, <<>>,
               Select(<<RemainingExpr>>, <<Arm(<<Is(0)>>, To(3)), Arm(<<Is(1)>>, To(2))>>, Accept)),
       StateOf(<<>>, <<>>, <<Pop>>, Direct(Accept)) >>, 4)

Replaying == {TlvItems, CountedItems, PeekVersion, NestedRecords, PeekSplit, Bodies, Overlapping,
              PeekInRegion, Framed, Unsupported}
Failing == {Split, TooShort, WrappingPush}
Misnamed == {Neighbours, Frames, Overhang}
MCExprs ==
  ZooExprs \cup {Constant(v) : v \in 1..3} \cup {FieldRef(i, f) : i \in 1..3, f \in 1..3}
    \cup {Bin("sub", FieldRef(1, 1), Constant(v)) : v \in {1, 3}}
MCPrograms == Replaying \cup Failing \cup Misnamed
MCReasons == {"unknown"}
MCPackets == BitStrings(6)
MCLadder == <<3, 6>>
MCLimits == {[max_paths |-> 1000, max_solver_checks |-> 1000],
             [max_paths |-> 4, max_solver_checks |-> 1000],
             [max_paths |-> 1000, max_solver_checks |-> 5]}
=============================================================================

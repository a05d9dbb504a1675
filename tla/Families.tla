------------------------------ MODULE Families -----------------------------
(* Families of small programs, valid and not, for validation and what      *)
(* follows it.                                                             *)
EXTENDS Zoo

\* Three states over two header types, one of them with a run: which field
\* references survive the must-analysis.
Tag == <<Fixed(1)>>
Counted(e) == <<Fixed(1), Opaque(e)>>
TagField == FieldRef(1, 1)
OwnCount == FieldRef(2, 1)

On(e, t, u) == Select(<<e>>, <<Arm(<<Is(0)>>, t)>>, u)

UseExtracts == {<<>>, <<Take(1)>>, <<Peek(1), Take(2)>>}
UseTransitions == {Direct(To(2)), Direct(To(3)), On(TagField, To(2), To(3)),
                   On(OwnCount, To(1), Accept)}
UseStates == {StateOf(x, <<>>, <<>>, t) : x \in UseExtracts, t \in UseTransitions}
LastStates == {StateOf(x, <<>>, <<>>, On(TagField, Accept, To(2))) : x \in UseExtracts}
                \cup {StateOf(<<>>, <<Set(1, OwnCount)>>, <<>>, Direct(Accept))}
UsePrograms ==
  {StartingAt(q, ParserOf(<<Tag, Counted(e)>>, <<Meta(1, 0)>>, <<s1, s2, s3>>, 4)) :
     q \in {1, 3}, e \in {OwnCount, TagField}, s1 \in UseStates, s2 \in UseStates, s3 \in LastStates}
UseExprs == {TagField, OwnCount}
\* Three states that open and close regions: a length from a field, constant
\* lengths, remaining() in a key and in an assignment, pops that may underflow.
Room == <<Fixed(2)>>
RoomField == FieldRef(2, 1)
Two == Constant(2)
RegionHeads ==
  {StateOf(x, a, ops, t) :
     x \in {<<Take(1)>>, <<Take(2)>>}, a \in {<<>>, <<Set(1, RemainingExpr)>>},
     ops \in {<<>>, <<Push(RoomField)>>, <<Push(RoomField), Push(Two)>>},
     t \in {Direct(To(2)), On(MetadataRef(1), To(2), To(3))}}
RegionBodies ==
  {StateOf(x, a, ops, t) :
     x \in {<<>>, <<Take(1)>>}, a \in {<<>>, <<Set(1, RemainingExpr)>>},
     ops \in {<<>>, <<Pop>>, <<Push(Two)>>, <<Pop, Push(RoomField)>>},
     t \in {On(RemainingExpr, To(3), To(2)), On(MetadataRef(1), To(1), To(3)), Direct(To(3))}}
RegionTails ==
  {StateOf(x, <<>>, ops, Direct(Accept)) :
     x \in {<<>>, <<Take(2)>>}, ops \in {<<>>, <<Pop>>, <<Pop, Pop>>}}
RegionPrograms ==
  {ParserOf(<<Tag, Room>>, <<Meta(1, 0)>>, <<s1, s2, s3>>, 4) :
     s1 \in RegionHeads, s2 \in RegionBodies, s3 \in RegionTails}
RegionExprs == {RoomField, Two, RemainingExpr, MetadataRef(1)}

\* Three states over a bit, two bits and a run, whose length takes every form
\* an expression has; loops, joins and a lookahead.
AlignLengths ==
  LET field == FieldRef(3, 1)
      doubled == Bin("mul", field, Constant(2))
  IN {field, doubled, Bin("shl", field, Constant(1)), Bin("shl", Constant(3), Constant(4)),
      Bin("sub", doubled, Constant(2)), Bin("sub", Constant(1), Constant(2)),
      Bin("add", doubled, Constant(3)), Bin("mul", Constant(3), Constant(3)),
      Bin("and", doubled, Constant(2)), Bin("or", doubled, Constant(1)),
      Bin("shr", Constant(2), field), Bin("shl", Constant(1), field)}
AlignExprs == AlignLengths \cup {FieldRef(3, 1), MetadataRef(1)} \cup {Constant(v) : v \in 1..4}
AlignExtracts == {<<Take(1)>>, <<Peek(1), Take(2)>>, <<Take(1), Take(3)>>}
AlignSplit(t, u) == On(MetadataRef(1), t, u)
AlignPrograms ==
  {ParserOf(<< <<Fixed(1)>>, <<Fixed(2)>>, <<Fixed(2), Opaque(e)>> >>, <<Meta(1, 0)>>,
            <<StateOf(x1, <<>>, <<>>, AlignSplit(To(2), To(3))),
              StateOf(x2, <<>>, <<>>, t2), StateOf(x3, <<>>, <<>>, t3)>>, 4) :
     e \in AlignLengths, x1 \in AlignExtracts, x2 \in AlignExtracts,
     x3 \in {<<>>, <<Take(1), Take(3)>>},
     t2 \in {Direct(To(3)), AlignSplit(To(2), To(3))},
     t3 \in {Direct(Accept), AlignSplit(To(1), Accept), AlignSplit(To(2), To(2))}}

\* A variable-length field whose length is a later field of its own header.
ForwardPrograms ==
  {ParserOf(<< <<Opaque(FieldRef(1, 2)), Fixed(1)>> >>, <<>>,
            <<StateOf(<<Take(1)>>, <<>>, <<>>, t)>>, 3) :
     t \in {Direct(Accept), On(FieldRef(1, 2), To(1), Accept)}}
ForwardExprs == {FieldRef(1, 2)}

\* A select key that is a variable-length field.
RunKeyPrograms ==
  {ParserOf(<< <<Fixed(1), Opaque(FieldRef(1, 1))>> >>, <<>>,
            <<StateOf(<<Take(1)>>, <<>>, <<>>, On(FieldRef(1, 2), t, Accept))>>, 3) :
     t \in {To(1), Accept}}
RunKeyExprs == {FieldRef(1, 1), FieldRef(1, 2)}

\* A byte and a half, taken twice in one state: the second lies off a byte.
TwicePrograms ==
  {ParserOf(<< <<Fixed(2), Fixed(1)>> >>, <<>>,
            <<StateOf(<<Take(1), ex>>, <<>>, <<>>, t)>>, 2) :
     ex \in {Take(1), Peek(1), TakeAs(1, 2)}, t \in {Direct(Accept), On(TagField, To(1), Accept)}}
TwiceExprs == {TagField}

LoosePrograms == RegionPrograms \cup ForwardPrograms \cup RunKeyPrograms
LooseExprs == {RoomField, Two, RemainingExpr, MetadataRef(1), FieldRef(1, 1), FieldRef(1, 2)}
=============================================================================

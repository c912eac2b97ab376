------------------------------- MODULE MCFill -------------------------------
(***************************************************************************)
(* Instances of Fill: reduced forms of the catalogue's arrangements (the   *)
(* identity, a transpose, a padded tile with its rows split, an exact      *)
(* interleave), records check refuses, and containers cut at every kind of *)
(* place: inside an element, in a hole, around the tensor.                 *)
(***************************************************************************)
EXTENDS Fill, Arrange

CONSTANT Shapes  \* the shapes a ratified record is then used on

Record(rank, subs, perm) ==
  [rank |-> rank, subs |-> subs, perm |-> perm, candidate |-> FALSE,
   evidence |-> TRUE]

Sub(axis, extent) == [axis |-> axis, extent |-> extent]

Contiguous == Record(0, <<>>, <<>>)
Transposed == Record(2, <<Sub(1, <<Dim(1)>>), Sub(2, <<Dim(2)>>)>>, <<2, 1>>)
ChannelsLast == Record(3, <<Sub(1, <<Dim(1)>>), Sub(2, <<Dim(2)>>),
                            Sub(3, <<Dim(3)>>)>>, <<1, 3, 2>>)
Tiled == Record(2, <<Sub(1, <<Ceil(<<Dim(1), Over(Lit(4))>>)>>),
                     Sub(1, <<Lit(2)>>), Sub(1, <<Lit(2)>>),
                     Sub(2, <<Ceil(<<Dim(2), Over(Lit(2))>>)>>),
                     Sub(2, <<Lit(2)>>)>>, <<1, 4, 3, 2, 5>>)
Interleaved == Record(2, <<Sub(1, <<Dim(1), Over(Lit(2))>>),
                           Sub(1, <<Lit(2)>>), Sub(2, <<Dim(2)>>)>>,
                      <<3, 1, 2>>)
Padded == Record(2, <<Sub(1, <<Dim(1)>>),
                      Sub(2, <<Ceil(<<Dim(2), Over(Lit(4))>>), Lit(4)>>)>>,
                 <<1, 2>>)
RowPadded == Record(2, <<Sub(1, <<Ceil(<<Dim(1), Over(Lit(4))>>), Lit(4)>>),
                         Sub(2, <<Dim(2)>>)>>, <<1, 2>>)
Truncating == Record(1, <<Sub(1, <<Lit(2)>>)>>, <<1>>)
Doubled == Record(2, <<Sub(1, <<Dim(1)>>), Sub(2, <<Dim(2)>>)>>, <<1, 1>>)
Skipping == Record(2, <<Sub(1, <<Dim(1)>>), Sub(3, <<Dim(2)>>)>>, <<2, 1>>)
Unreached == Record(1, <<Sub(1, <<Dim(1), Over(Lit(3))>>),
                         Sub(1, <<Lit(1), Lit(3)>>)>>, <<2, 1>>)
Wish == [Transposed EXCEPT !.candidate = TRUE]

MCRecords == {Contiguous, Transposed, ChannelsLast, Tiled, Interleaved,
              Padded, RowPadded, Truncating, Doubled, Skipping, Unreached,
              Wish}

MCShapes == {<<2>>, <<3>>, <<2, 3>>, <<4, 2>>, <<3, 3>>, <<5, 3>>, <<2, 3, 2>>}

Data(length) == [hole |-> FALSE, length |-> length, held |-> length,
                 lead |-> 1]
Hole(length) == [hole |-> TRUE, length |-> length, held |-> 0, lead |-> 0]
Torn(length) == [Data(length) EXCEPT !.held = length - 1]

Tensor(record, shape, element, container, offset) ==
  [record |-> record, shape |-> shape, element |-> element,
   container |-> container, offset |-> offset]

MCTensors ==
  {Tensor(r, s, e, c, o) :
     r \in {Contiguous, Transposed, Tiled, Interleaved, Padded},
     s \in {<<2, 3>>, <<3, 3>>}, e \in {2},
     c \in {<<Data(5), Data(13)>>, <<Data(1), Hole(4), Data(7)>>}, o \in {0}}
  \cup {Tensor(Tiled, <<3, 3>>, 1, <<Data(3), Hole(2), Data(9)>>, 2),
        Tensor(RowPadded, <<3, 3>>, 1, <<Data(4), Data(5)>>, 0),
        Tensor(ChannelsLast, <<2, 2, 2>>, 1, <<Data(3), Data(0), Data(5)>>, 0),
        Tensor(Transposed, <<2, 3>>, 1, <<Data(3), Torn(3)>>, 0),
        Tensor(Wish, <<2, 3>>, 1, <<Data(6)>>, 0),
        Tensor(Contiguous, <<2, 3>>, 0, <<Data(6)>>, 0)}

MCStreamed ==
  {Tensor(Tiled, <<2, 3>>, 1, <<Data(3), Data(3), Data(9)>>, 2),
   Tensor(Transposed, <<3, 3>>, 2, <<Data(1), Hole(4), Data(14)>>, 0),
   Tensor(Interleaved, <<2, 3>>, 1, <<Data(3), Torn(3), Data(4)>>, 0)}

MCRooms == [b1 |-> 12, b2 |-> 24]

(* The verifier is exact: a record that passes check is never refuted, and *)
(* a ratified record maps the elements of every shape it accepts one to    *)
(* one onto the destination's unpadded places.                             *)
RatifiedIsOneToOne ==
  wished # NoWish =>
    /\ Check(wished.record) => wished.verdict \in {"ratified", "unreached"}
    /\ wished.verdict = "ratified" =>
         \A shape \in Shapes :
           LET plan == Plan(wished.record, shape)
               places == [e \in 0..(plan.source - 1) |->
                 {d \in 0..(plan.dest - 1) :
                    Meaning(wished.record, shape, d) = e}]
           IN plan.ok => \A e \in 0..(plan.source - 1) :
                           Cardinality(places[e]) = 1
=============================================================================

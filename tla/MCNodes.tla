------------------------------- MODULE MCNodes -------------------------------
(* Messages of each sort of tag, nested to both sides of the depth, with    *)
(* more nodes than the pool or the limit, cut short at every byte, and      *)
(* several in a row; maps with keys of each sort, some of them twice, lists *)
(* of numbers on both sides of the limits, and texts that are long, broken  *)
(* or no text.                                                              *)
EXTENDS Nodes

Letters(n) == [i \in 1..n |-> 97]
Item(d) == EncodeStr(Word(Len(d), 4)) \o d
Blob(d) == EncodeBin(Word(Len(d), 4)) \o d
Num(n) == EncodeInt(Word(n, 8))
List(n) == EncodeArray(Word(n, 4))
Mapping(n) == EncodeMap(Word(n, 4))
WideList(n) == StoreArray(Word(n, 4), 2)
WideMapping(n) == StoreMap(Word(n, 4), 4)
Wide == [i \in 1..8 |-> IF i = 1 THEN 128 ELSE 0]      \* 2^63 as a uint

MCTextKeys == <<Letters(1), <<195, 169>>, Letters(3)>>

MCIntKeys == {-1, 2, 5, 8}

Numbers == Num(-129) \o Num(-128) \o Num(127) \o Num(128) \o Num(65536) \o StoreUInt(Wide, 8)

Words == List(5) \o Item(Letters(3)) \o Item(<<97, 0>>) \o Item(<<195, 169>>) \o Item(<<206>>) \o Blob(Letters(1))

Simple == List(4) \o Encode(Nil) \o Encode(Bool(TRUE)) \o Encode(Bool(FALSE)) \o List(0)

Keyed == Mapping(4) \o Num(-1) \o Num(7) \o StoreInt(Word(2, 8), 1) \o Item(Letters(1))
         \o Item(<<195, 169>>) \o Mapping(1) \o Item(Letters(1)) \o Num(9) \o Num(5) \o Num(6)

Twice == Mapping(4) \o Num(2) \o Num(7) \o StoreInt(Word(2, 8), 2) \o Num(8)
         \o Item(Letters(1)) \o Num(9) \o Item(Letters(1)) \o List(1) \o Num(1)

Walked == {List(6) \o Numbers, Words, Simple, Keyed, Twice, Keyed \o Simple, Num(3), SubSeq(Keyed, 1, 8)}

Cuts(m) == {SubSeq(m, 1, n) : n \in 0..Len(m)}

Nested == List(2) \o Mapping(1) \o Item(Letters(1)) \o List(0) \o Item(Letters(2))
Deep == List(1) \o Mapping(1) \o Encode(Nil) \o List(1) \o List(0)
Deeper == List(1) \o List(1) \o List(1) \o List(1) \o Encode(Nil)
Mixed == WideList(3) \o StoreStr(Word(1, 4), 2) \o Letters(1) \o Num(-200) \o Blob(Letters(2))
Pair == WideMapping(1) \o Encode(Bool(TRUE)) \o Num(70000)

(* What an agent that sends a number with a fraction would have here. *)
Fraction == List(2) \o Encode(Nil) \o <<202, 64, 72, 245, 195>>

Shapes ==
    Cuts(Nested) \cup Cuts(Mixed) \cup Cuts(Pair) \cup Cuts(Deep)
    \cup {Fraction, Deeper, Nested \o Pair \o Deep, Mixed \o Num(1) \o SubSeq(Nested, 1, 3),
          List(2) \o <<193>> \o Encode(Nil), Mapping(1) \o Encode(Nil) \o <<212, 1, 1>>,
          WideList(300) \o Letters(3), WideMapping(70000) \o Letters(3), Num(0) \o Item(<<>>)}

MCMessages == Walked \cup Shapes
=============================================================================

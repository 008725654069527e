------------------------------- MODULE MCReading -------------------------------
(* Messages for the reader's functions: an array with a short string, a     *)
(* long one, a map and a number, whole and cut short at places inside each  *)
(* of them. Messages for the expect functions: numbers on both sides of the *)
(* limits of every width, texts that are keys, too long, or not text, and   *)
(* maps with a key twice. A caller uses the functions of one kind.          *)
EXTENDS Expect

Item(d) == EncodeStr(Word(Len(d), 4)) \o d
Blob(d) == EncodeBin(Word(Len(d), 4)) \o d
Num(n) == EncodeInt(Word(n, 8))

Letters(n) == [i \in 1..n |-> 97]
Accent == <<195, 169>>

MCKeys == <<Accent, Letters(3), <<98>>>>
MCBounds == {<<-5, 100>>, <<0, 128>>, <<200, 70000>>}

Wide == [i \in 1..8 |-> IF i = 1 THEN 128 ELSE 0]      \* 2^63 as a uint
High == [i \in 1..8 |-> IF i <= 4 THEN 0 ELSE 255]     \* 2^32 - 1

Numbers == {Num(n) : n \in {-32769, -129, -128, -5, 0, 100, 127, 128, 255, 256, 32768, 65536}}
           \cup {StoreUInt(Wide, 8), StoreUInt(High, 4), StoreInt(Word(200, 8), 2)}

Expected ==
    Numbers
    \cup {Item(Accent) \o Item(Letters(3)) \o Item(Accent),
          <<192>> \o EncodeMap(Word(2, 4)) \o Item(<<98>>) \o <<195>>,
          Item(<<98>>) \o EncodeArray(Word(1, 4)) \o Num(7) \o Item(<<98>>),
          Num(100) \o Num(100), Num(200) \o StoreInt(Word(100, 8), 1),
          EncodeArray(Word(20, 4)) \o Blob(Letters(3)),
          Item(Letters(36)), SubSeq(Item(Letters(36)), 1, 20),
          Item(<<97, 0>>) \o <<194>>, Item(<<97, 206>>), StoreStr(Word(3, 4), 2) \o Letters(3),
          StoreStr(Word(1, 4), 4) \o <<98>>, SubSeq(Num(70000), 1, 3)}

Whole == EncodeArray(Word(4, 4)) \o Item(Letters(2)) \o Item(Letters(36))
         \o EncodeMap(Word(1, 4)) \o Item(Letters(1)) \o EncodeUInt(Word(70000, 8))

(* A character that lacks its second byte, a text with a NUL, no tag. *)
Faulty == EncodeArray(Word(2, 4)) \o Item(<<97, 206>>) \o Item(<<97, 0>>) \o <<193>>

ReadOnly == {Whole, Faulty} \cup {SubSeq(Whole, 1, n) : n \in {20, 41, 46}}

MCStreams == Expected \cup ReadOnly

(* The smaller buffer, which is none for a fill function, for the reader. *)
ReadingNext ==
    \/ stream \in ReadOnly /\ Reads(Next)
    \/ stream \in Expected /\ size # 16 /\ ExpectNext

ReadingSpec == ExpectInit /\ [][ReadingNext]_expectVars
=============================================================================

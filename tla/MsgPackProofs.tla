---------------------------- MODULE MsgPackProofs ----------------------------
(* Proofs about the format in MsgPack, for every value of a tag: every word *)
(* of eight bytes and every count of four; about Tags, where a tag is       *)
(* written and read back; and about Writer, which puts messages together.   *)
EXTENDS Tags, Writer, Wire, Lemmas

(* The low n bytes of a word, one by one.                                   *)
LEMMA LowBytes ==
  ASSUME NEW m \in Nat, NEW w \in WordOf(m), NEW n \in 0..m
  PROVE  /\ Len(w) = m
         /\ Low(w, n) \in Seq(Byte)
         /\ Len(Low(w, n)) = n
         /\ \A i \in 1..n : Low(w, n)[i] = w[m - n + i]
<1>1. w \in Seq(Byte) /\ Len(w) = m
  BY DEF WordOf, Byte
<1>. QED  BY <1>1 DEF Low

(* z is the first k bytes of w.                                             *)
Filling(z, w, k) == z \in [1..k -> Byte] /\ \A i \in 1..k : w[i] = z[i]

(* A word is its high bytes and its low bytes.                              *)
LEMMA FilledLow ==
  ASSUME NEW m \in Nat, NEW w \in WordOf(m), NEW n \in 0..m, NEW z, Filling(z, w, m - n)
  PROVE  z \o Low(w, n) = w
<1>. DEFINE l == Low(w, n)
<1>0. z \in [1..m - n -> Byte] /\ \A i \in 1..m - n : w[i] = z[i]
  BY DEF Filling
<1>1. l \in Seq(Byte) /\ Len(l) = n /\ \A i \in 1..n : l[i] = w[m - n + i]
  BY LowBytes
<1>2. z \in Seq(Byte) /\ Len(z) = m - n
  BY <1>0
<1>3. w \in Seq(Byte) /\ Len(w) = m
  BY DEF WordOf, Byte
<1>. HIDE DEF l
<1>4. /\ z \o l \in Seq(Byte) /\ Len(z \o l) = m
      /\ \A k \in 1..Len(z) + Len(l) : (z \o l)[k] = IF k <= Len(z) THEN z[k] ELSE l[k - Len(z)]
  <2>1. Len(z) + Len(l) = m
    BY <1>1, <1>2
  <2>2. z \o l \in Seq(Byte) /\ Len(z \o l) = Len(z) + Len(l)
    BY <1>1, <1>2, ConcatProperties
  <2>. QED  BY <1>1, <1>2, <2>1, <2>2, ConcatProperties
<1>5. ASSUME NEW k \in 1..m PROVE (z \o l)[k] = w[k]
  <2>. k \in Nat /\ m - n \in Nat /\ (k \in 1..m - n \/ k - (m - n) \in 1..n)
    OBVIOUS
  <2>1. CASE k \in 1..m - n
    BY <1>0, <1>1, <1>2, <1>4, <2>1
  <2>2. CASE k - (m - n) \in 1..n
    <3>0. Len(z) = m - n /\ Len(l) = n
      BY <1>1, <1>2, Zenon
    <3>. k \in 1..m - n + n /\ ~(k <= m - n)
      BY <2>2
    <3>. k \in 1..Len(z) + Len(l) /\ ~(k <= Len(z)) /\ k - Len(z) = k - (m - n)
      BY <3>0, Zenon
    <3>1. (z \o l)[k] = l[k - (m - n)]
      BY <1>4, Zenon
    <3>2. l[k - (m - n)] = w[m - n + (k - (m - n))]
      BY <2>2, <1>1
    <3>3. m - n + (k - (m - n)) = k
      OBVIOUS
    <3>. QED  BY <3>1, <3>2, <3>3
  <2>. QED  BY <2>1, <2>2
<1>. QED  BY <1>3, <1>4, <1>5, SeqEqual DEF l

(* A number that fits in n bytes is what its low n bytes spell, unsigned or *)
(* as a negative number.                                                    *)
LEMMA UnsignedLow ==
  ASSUME NEW m \in Nat, NEW w \in WordOf(m), NEW n \in 0..m, Fits(w, n)
  PROVE  Unsigned(Low(w, n), m) = w
<1>1. Len(w) = m /\ Len(Low(w, n)) = n /\ 0 \in Byte
  BY LowBytes DEF Byte
<1>2. \A i \in 1..m - n : w[i] = 0
  BY <1>1 DEF Fits
<1>3. [i \in 1..m - n |-> 0] \o Low(w, n) = w
  <2>. DEFINE z == [i \in 1..m - n |-> 0]
  <2>1. z \in [1..m - n -> Byte] /\ \A i \in 1..m - n : w[i] = z[i]
    BY <1>1, <1>2 DEF Byte
  <2>. HIDE DEF z
  <2>2. Filling(z, w, m - n)
    BY <2>1 DEF Filling
  <2>3. z \o Low(w, n) = w
    BY <2>2, FilledLow
  <2>. QED  BY <2>3 DEF z
<1>. QED  BY <1>1, <1>3 DEF Unsigned

(* A negative number that fits is its low bytes and the sign.               *)
LEMMA SignedLow ==
  ASSUME NEW m \in Nat, NEW w \in WordOf(m), NEW n \in 1..m, FitsNegative(w, n)
  PROVE  Signed(Low(w, n), m) = w
<1>1. Len(w) = m /\ Len(Low(w, n)) = n /\ Low(w, n)[1] = w[m - n + 1] /\ 255 \in Byte
  <2>1. n \in 0..m /\ 1 \in 1..n /\ 255 \in Byte
    BY DEF Byte
  <2>. QED  BY <2>1, LowBytes, Zenon
<1>2. Negative(Low(w, n))
  BY <1>1 DEF FitsNegative, Negative
<1>3. n \in 0..m /\ \A i \in 1..m - n : w[i] = 255
  BY <1>1 DEF FitsNegative
<1>4. [i \in 1..m - n |-> 255] \o Low(w, n) = w
  <2>. DEFINE z == [i \in 1..m - n |-> 255]
  <2>1. z \in [1..m - n -> Byte] /\ \A i \in 1..m - n : w[i] = z[i]
    BY <1>1, <1>3 DEF Byte
  <2>. HIDE DEF z
  <2>2. Filling(z, w, m - n)
    BY <2>1 DEF Filling
  <2>3. z \o Low(w, n) = w
    BY <1>3, <2>2, FilledLow
  <2>. QED  BY <2>3 DEF z
<1>. QED  BY <1>1, <1>2, <1>4 DEF Signed

(* The width a writer takes is one of those offered, and the least of them. *)
LEMMA ShortestIsLeast ==
  ASSUME NEW sizes \in SUBSET Widths, sizes # {}
  PROVE  Shortest(sizes) \in sizes /\ \A m \in sizes : Shortest(sizes) <= m
<1>1. \E n \in sizes : \A m \in sizes : n <= m
  <2>1. 1 \in sizes \/ 2 \in sizes \/ 4 \in sizes \/ 8 \in sizes
    BY DEF Widths
  <2>2. CASE 1 \in sizes
    BY <2>2 DEF Widths
  <2>3. CASE 1 \notin sizes /\ 2 \in sizes
    BY <2>3 DEF Widths
  <2>4. CASE 1 \notin sizes /\ 2 \notin sizes /\ 4 \in sizes
    BY <2>4 DEF Widths
  <2>5. CASE sizes = {8}
    BY <2>5
  <2>. QED  BY <2>1, <2>2, <2>3, <2>4, <2>5 DEF Widths
<1>. QED  BY <1>1 DEF Shortest

(* Width is the least width of the format that a count or uint fits.        *)
LEMMA WidthFits ==
  ASSUME NEW m \in Widths, NEW w \in WordOf(m)
  PROVE  /\ Width(w) \in Widths /\ Width(w) <= m /\ Fits(w, Width(w))
         /\ \A n \in Widths : n <= m /\ Fits(w, n) => Width(w) <= n
<1>. DEFINE sizes == {n \in Widths : n <= Len(w) /\ Fits(w, n)}
<1>1. Len(w) = m /\ m \in Nat
  BY DEF WordOf, Byte, Widths
<1>2. sizes \in SUBSET Widths /\ m \in sizes
  BY <1>1 DEF Fits
<1>3. Shortest(sizes) \in sizes /\ \A n \in sizes : Shortest(sizes) <= n
  BY <1>2, ShortestIsLeast
<1>. QED  BY <1>1, <1>3 DEF Width

(* And NegativeWidth the least that a negative number fits.                 *)
LEMMA NegativeWidthFits ==
  ASSUME NEW w \in WordOf(8), Negative(w)
  PROVE  /\ NegativeWidth(w) \in Widths /\ FitsNegative(w, NegativeWidth(w))
         /\ \A n \in Widths : FitsNegative(w, n) => NegativeWidth(w) <= n
<1>. DEFINE sizes == {n \in Widths : FitsNegative(w, n)}
<1>1. Len(w) = 8
  BY DEF WordOf, Byte
<1>2. sizes \in SUBSET Widths /\ 8 \in sizes
  BY <1>1 DEF FitsNegative, Negative, Widths
<1>3. Shortest(sizes) \in sizes /\ \A n \in sizes : Shortest(sizes) <= n
  BY <1>2, ShortestIsLeast
<1>. QED  BY <1>3 DEF NegativeWidth

-----------------------------------------------------------------------------
(* Tags are equal to mpack_tag_cmp if what it compares is.                  *)
Alike(t, u) ==
    /\ Comparable(t).type = Comparable(u).type
    /\ Comparable(t).v = Comparable(u).v

(* mpack_tag_equal looks at nothing but that.                               *)
LEMMA EqualIsAlike ==
  ASSUME NEW t, NEW u
  PROVE  TagEqual(t, u) <=> Alike(t, u)
<1>. DEFINE l == Comparable(t)
            r == Comparable(u)
<1>1. CASE l.type # r.type
  <2>1. Compare(t, u) = IF Rank(l.type) < Rank(r.type) THEN -1 ELSE 1
    BY <1>1 DEF Compare
  <2>. QED  BY <1>1, <2>1 DEF TagEqual, Alike
<1>2. CASE l.type = r.type /\ l.v = r.v
  BY <1>2 DEF TagEqual, Compare, Alike
<1>3. CASE l.type = r.type /\ l.v # r.v
  <2>1. Compare(t, u) = IF Less(l.v, r.v) THEN -1 ELSE 1
    BY <1>3 DEF Compare
  <2>. QED  BY <1>3, <2>1 DEF TagEqual, Alike
<1>. QED  BY <1>1, <1>2, <1>3

(* The bytes e are a tag that is read as t: one byte, and the word that     *)
(* mpack_parse_tag takes behind it.                                         *)
Spells(e, t) ==
    \E b \in Byte, w \in Seq(Byte) :
        /\ e = <<b>> \o w /\ Len(w) = WordSize(b)
        /\ Refusal(b) = "ok" /\ Alike(ReadTag(b, w), t)

(* The first byte of what StoreWord stores has the width.                   *)
Codes(k, n) == <<k, n>> \in {<<0, 1>>, <<1, 2>>, <<2, 4>>, <<3, 8>>}

(* StoreWord adds the code of the width to the first byte.                  *)
LEMMA WidthCode ==
  ASSUME NEW first, NEW w, NEW n \in Widths
  PROVE  \E k \in 0..3 : Codes(k, n) /\ StoreWord(first, w, n) = <<first + k>> \o Low(w, n)
<1>. DEFINE k == CHOOSE c \in 0..3 : 2^c = n
<1>1. 2^0 = 1 /\ 2^1 = 2 /\ 2^2 = 4 /\ 2^3 = 8
  OBVIOUS
<1>2. \E c \in 0..3 : 2^c = n
  <2>1. 0 \in 0..3 /\ 1 \in 0..3 /\ 2 \in 0..3 /\ 3 \in 0..3
    OBVIOUS
  <2>. QED  BY <1>1, <2>1, Zenon DEF Widths
<1>3. k \in 0..3 /\ 2^k = n
  BY <1>2, Zenon
<1>4. StoreWord(first, w, n) = <<first + k>> \o Low(w, n)
  BY Zenon DEF StoreWord
<1>. HIDE DEF k
<1>5. k = 0 \/ k = 1 \/ k = 2 \/ k = 3
  BY <1>3
<1>6. Codes(k, n)
  <2>1. k = 0 => n = 1
    BY <1>1, <1>3, Zenon
  <2>2. k = 1 => n = 2
    BY <1>1, <1>3, Zenon
  <2>3. k = 2 => n = 4
    BY <1>1, <1>3, Zenon
  <2>4. k = 3 => n = 8
    BY <1>1, <1>3, Zenon
  <2>. QED  BY <1>5, <2>1, <2>2, <2>3, <2>4, Zenon DEF Codes
<1>. QED  BY <1>3, <1>4, <1>6, Zenon

(* What it stores spells t if the reader, given the first byte and the low  *)
(* bytes of the word, finds t.                                              *)
LEMMA StoredSpells ==
  ASSUME NEW t, NEW m \in Nat, NEW w \in WordOf(m), NEW n \in 0..m, NEW b \in Byte,
         Refusal(b) = "ok", WordSize(b) = n, Alike(ReadTag(b, Low(w, n)), t)
  PROVE  Spells(<<b>> \o Low(w, n), t) /\ Len(<<b>> \o Low(w, n)) = 1 + n
<1>1. Low(w, n) \in Seq(Byte) /\ Len(Low(w, n)) = n
  BY LowBytes
<1>2. <<b>> \in Seq(Byte) /\ Len(<<b>>) = 1
  OBVIOUS
<1>3. Len(<<b>> \o Low(w, n)) = 1 + n
  BY <1>1, <1>2, ConcatProperties
<1>. QED  BY <1>1, <1>3 DEF Spells

(* The reader finds t behind a first byte with the code of the width.       *)
Coded(first, w, n, t) ==
    \A k \in 0..3 : Codes(k, n) =>
        /\ first + k \in Byte /\ Refusal(first + k) = "ok" /\ WordSize(first + k) = n
        /\ Alike(ReadTag(first + k, Low(w, n)), t)

(* If so, what StoreWord stores spells t, with one byte more than the width.*)
LEMMA WordSpells ==
  ASSUME NEW m \in Nat, NEW w \in WordOf(m), NEW n \in Widths, n \in 0..m,
         NEW t, NEW first, Coded(first, w, n, t)
  PROVE  Spells(StoreWord(first, w, n), t) /\ Len(StoreWord(first, w, n)) = 1 + n
<1>1. PICK k \in 0..3 : Codes(k, n) /\ StoreWord(first, w, n) = <<first + k>> \o Low(w, n)
  BY WidthCode, Zenon
<1>2. /\ first + k \in Byte /\ Refusal(first + k) = "ok" /\ WordSize(first + k) = n
      /\ Alike(ReadTag(first + k, Low(w, n)), t)
  BY <1>1, Zenon DEF Coded
<1>3. Spells(<<first + k>> \o Low(w, n), t) /\ Len(<<first + k>> \o Low(w, n)) = 1 + n
  BY <1>2, StoredSpells
<1>. QED  BY <1>1, <1>3, Zenon

(* A tag of one byte.                                                       *)
LEMMA ByteSpells ==
  ASSUME NEW t, NEW b \in Byte, Refusal(b) = "ok", WordSize(b) = 0, Alike(ReadTag(b, <<>>), t)
  PROVE  Spells(<<b>>, t) /\ Len(<<b>>) = 1
<1>1. <<>> \in Seq(Byte) /\ Len(<<>>) = 0 /\ <<b>> = <<b>> \o <<>>
  OBVIOUS
<1>. QED  BY <1>1 DEF Spells

-----------------------------------------------------------------------------
(* The table of mpack_parse_tag, by the first byte.                         *)
LEMMA ReadsWords ==
  ASSUME NEW b \in Byte, NEW w
  PROVE  /\ b \in 204..207 => ReadTag(b, w) = UInt(w)
         /\ b \in 208..211 => ReadTag(b, w) = SInt(w)
         /\ b \in 196..198 => ReadTag(b, w) = Bin(w)
         /\ b \in 217..219 => ReadTag(b, w) = Str(w)
         /\ b \in 220..221 => ReadTag(b, w) = Array(w)
         /\ b \in 222..223 => ReadTag(b, w) = Map(w)
<1>1. b \in 204..211 => ReadTag(b, w) = ReadsInteger(b, w)
  BY DEF ReadTag, Byte
<1>2. b \in 196..198 \cup 217..223 => ReadTag(b, w) = ReadsCount(b, w)
  BY DEF ReadTag, Byte
<1>3. b \in 204..207 => ReadsInteger(b, w) = UInt(w)
  BY DEF ReadsInteger
<1>4. b \in 208..211 => ReadsInteger(b, w) = SInt(w)
  BY DEF ReadsInteger
<1>5. b \in 196..198 => ReadsCount(b, w) = Bin(w)
  BY DEF ReadsCount
<1>6. b \in 217..219 => ReadsCount(b, w) = Str(w)
  BY DEF ReadsCount
<1>7. b \in 220..221 => ReadsCount(b, w) = Array(w)
  BY DEF ReadsCount
<1>8. b \in 222..223 => ReadsCount(b, w) = Map(w)
  BY DEF ReadsCount
<1>. QED  BY <1>1, <1>2, <1>3, <1>4, <1>5, <1>6, <1>7, <1>8

(* What the reader makes of a first byte without a word.                    *)
LEMMA ReadsBytes ==
  ASSUME NEW b \in Byte, NEW w
  PROVE  /\ b \in 0..127   => ReadTag(b, w) = UInt(<<b>>)
         /\ b \in 224..255 => ReadTag(b, w) = SInt(<<b>>)
         /\ b \in 128..143 => ReadTag(b, w) = Map(<<b % 16>>)
         /\ b \in 144..159 => ReadTag(b, w) = Array(<<b % 16>>)
         /\ b \in 160..191 => ReadTag(b, w) = Str(<<b % 32>>)
         /\ b = 192 => ReadTag(b, w) = Nil
         /\ b \in {194, 195} => ReadTag(b, w) = Bool(b % 2 = 1)
<1>1. b \notin 192..223 => ReadTag(b, w) = ReadsFix(b)
  BY DEF ReadTag, Byte
<1>2. b \in 0..127 => ReadsFix(b) = UInt(<<b>>)
  BY DEF ReadsFix
<1>3. b \in 224..255 => ReadsFix(b) = SInt(<<b>>)
  BY DEF ReadsFix
<1>4. b \in 128..143 => ReadsFix(b) = Map(<<b % 16>>)
  BY DEF ReadsFix
<1>5. b \in 144..159 => ReadsFix(b) = Array(<<b % 16>>)
  BY DEF ReadsFix
<1>6. b \in 160..191 => ReadsFix(b) = Str(<<b % 32>>)
  BY DEF ReadsFix
<1>7. b = 192 => ReadTag(b, w) = Nil
  BY DEF ReadTag
<1>8. b \in {194, 195} => ReadTag(b, w) = Bool(b % 2 = 1)
  BY DEF ReadTag
<1>. QED  BY <1>1, <1>2, <1>3, <1>4, <1>5, <1>6, <1>7, <1>8

(* What needs no word: a byte for nothing, and two for truth.               *)
LEMMA ReadsNothing ==
  ASSUME NEW w
  PROVE  ReadTag(192, w) = Nil
  BY DEF ReadTag

(* The lowest byte of a word that fits in one.                              *)
LEMMA LowByte ==
  ASSUME NEW m \in Nat \ {0}, NEW w \in WordOf(m)
  PROVE  Low(w, 1) = <<w[m]>> /\ w[m] \in Byte /\ Len(w) = m
<1>. m \in Nat /\ 1 \in 0..m /\ m - 1 + 1 = m
  OBVIOUS
<1>0. PICK n \in 0..m : n = 1
  OBVIOUS
<1>1. /\ Len(w) = m /\ Low(w, 1) \in Seq(Byte) /\ Len(Low(w, 1)) = 1
      /\ \A i \in 1..1 : Low(w, 1)[i] = w[m - 1 + i]
  <2>1. /\ Len(w) = m /\ Low(w, n) \in Seq(Byte) /\ Len(Low(w, n)) = n
        /\ \A i \in 1..n : Low(w, n)[i] = w[m - n + i]
    BY LowBytes
  <2>. QED  BY <1>0, <2>1, Zenon
<1>2. w[m] \in Byte
  BY DEF WordOf, Byte
<1>. QED  BY <1>1, <1>2

(* An unsigned number is stored as a byte, or as the shortest word.         *)
LEMMA UIntSpells ==
  ASSUME NEW w \in WordOf(8), NEW t, Alike(Tag("uint", w), t)
  PROVE  /\ Spells(EncodeUInt(w), t)
         /\ Len(EncodeUInt(w)) = IF IsAtMost(w, 127) THEN 1 ELSE 1 + Width(w)
<1>. DEFINE n == Width(w)
<1>1. CASE IsAtMost(w, 127)
  <2>1. Low(w, 1) = <<w[8]>> /\ w[8] \in Byte /\ Len(w) = 8
    BY LowByte, 8 \in Nat \ {0}
  <2>2. w[8] \in 0..127 /\ Fits(w, 1)
    BY <1>1, <2>1 DEF IsAtMost, Byte
  <2>3. ReadTag(w[8], <<>>) = Tag("uint", w)
    <3>1. ReadTag(w[8], <<>>) = UInt(<<w[8]>>)
      BY <2>1, <2>2, ReadsBytes
    <3>2. Unsigned(Low(w, 1), 8) = w
      BY <2>2, UnsignedLow, 8 \in Nat, 1 \in 0..8
    <3>. QED  BY <2>1, <3>1, <3>2 DEF UInt
  <2>4. Refusal(w[8]) = "ok" /\ WordSize(w[8]) = 0
    BY <2>2 DEF WordSize, Refusal, Reserved, Extensions, Floats
  <2>. QED  BY <1>1, <2>1, <2>3, <2>4, ByteSpells DEF EncodeUInt
<1>2. CASE ~IsAtMost(w, 127)
  <2>1. n \in Widths /\ n <= 8 /\ Fits(w, n)
    BY WidthFits DEF Widths
  <2>2. UInt(Low(w, n)) = Tag("uint", w)
    BY <2>1, UnsignedLow DEF UInt, Widths
  <2>3. EncodeUInt(w) = StoreWord(204, w, n)
    BY <1>2 DEF EncodeUInt, StoreUInt
  <2>. HIDE DEF n
  <2>4. ASSUME NEW k \in 0..3, Codes(k, n)
        PROVE  /\ 204 + k \in Byte /\ Refusal(204 + k) = "ok" /\ WordSize(204 + k) = n
              /\ Alike(ReadTag(204 + k, Low(w, n)), t)
    <3>1. 204 + k \in 204..207 /\ 204 + k \in Byte
      BY DEF Byte
    <3>2. Refusal(204 + k) = "ok" /\ WordSize(204 + k) = n
      BY <2>4 DEF Codes, WordSize, Refusal, Reserved, Extensions, Floats
    <3>3. ReadTag(204 + k, Low(w, n)) = UInt(Low(w, n))
      BY <3>1, ReadsWords
    <3>. QED  BY <2>2, <3>1, <3>2, <3>3
  <2>5. n \in 0..8 /\ 8 \in Nat
    BY <2>1 DEF Widths
  <2>6. Coded(204, w, n, t)
    BY <2>4, Zenon DEF Coded
  <2>7. Spells(StoreWord(204, w, n), t) /\ Len(StoreWord(204, w, n)) = 1 + n
    BY <2>1, <2>5, <2>6, WordSpells
  <2>. QED  BY <1>2, <2>3, <2>7 DEF n
<1>. QED  BY <1>1, <1>2

(* A negative number likewise, with the sign in the bytes that are left out.*)
LEMMA NegativeSpells ==
  ASSUME NEW w \in WordOf(8), Negative(w), NEW t, Alike(Tag("int", w), t)
  PROVE  /\ Spells(EncodeNegative(w), t)
         /\ Len(EncodeNegative(w)) =
                IF FitsNegative(w, 1) /\ w[8] >= 224 THEN 1 ELSE 1 + NegativeWidth(w)
<1>. DEFINE n == NegativeWidth(w)
<1>1. CASE FitsNegative(w, 1) /\ w[8] >= 224
  <2>1. Low(w, 1) = <<w[8]>> /\ w[8] \in Byte /\ Len(w) = 8
    BY LowByte, 8 \in Nat \ {0}
  <2>2. w[8] \in 224..255
    BY <1>1, <2>1 DEF Byte
  <2>3. ReadTag(w[8], <<>>) = Tag("int", w)
    <3>1. ReadTag(w[8], <<>>) = SInt(<<w[8]>>)
      BY <2>1, <2>2, ReadsBytes
    <3>2. Signed(Low(w, 1), 8) = w
      BY <1>1, SignedLow, 8 \in Nat, 1 \in 1..8
    <3>. QED  BY <2>1, <3>1, <3>2 DEF SInt
  <2>4. Refusal(w[8]) = "ok" /\ WordSize(w[8]) = 0
    BY <2>2 DEF WordSize, Refusal, Reserved, Extensions, Floats
  <2>. QED  BY <1>1, <2>1, <2>3, <2>4, ByteSpells DEF EncodeNegative
<1>2. CASE ~(FitsNegative(w, 1) /\ w[8] >= 224)
  <2>1. n \in Widths /\ FitsNegative(w, n)
    BY NegativeWidthFits
  <2>2. SInt(Low(w, n)) = Tag("int", w)
    BY <2>1, SignedLow DEF SInt, Widths
  <2>3. EncodeNegative(w) = StoreWord(208, w, n)
    BY <1>2 DEF EncodeNegative, StoreInt
  <2>. HIDE DEF n
  <2>4. ASSUME NEW k \in 0..3, Codes(k, n)
        PROVE  /\ 208 + k \in Byte /\ Refusal(208 + k) = "ok" /\ WordSize(208 + k) = n
              /\ Alike(ReadTag(208 + k, Low(w, n)), t)
    <3>1. 208 + k \in 208..211 /\ 208 + k \in Byte
      BY DEF Byte
    <3>2. Refusal(208 + k) = "ok" /\ WordSize(208 + k) = n
      BY <2>4 DEF Codes, WordSize, Refusal, Reserved, Extensions, Floats
    <3>3. ReadTag(208 + k, Low(w, n)) = SInt(Low(w, n))
      BY <3>1, ReadsWords
    <3>. QED  BY <2>2, <3>1, <3>2, <3>3
  <2>5. n \in 0..8 /\ 8 \in Nat
    BY <2>1 DEF Widths
  <2>6. Coded(208, w, n, t)
    BY <2>4, Zenon DEF Coded
  <2>7. Spells(StoreWord(208, w, n), t) /\ Len(StoreWord(208, w, n)) = 1 + n
    BY <2>1, <2>5, <2>6, WordSpells
  <2>. QED  BY <1>2, <2>3, <2>7 DEF n
<1>. QED  BY <1>1, <1>2

(* The length of an array or a map has two bytes or four.                   *)
LEMMA CountWidthFits ==
  ASSUME NEW w \in WordOf(4)
  PROVE  CountWidth(w) \in {2, 4} /\ Fits(w, CountWidth(w))
<1>1. Len(w) = 4
  BY DEF WordOf, Byte
<1>2. Fits(w, 4)
  BY <1>1 DEF Fits
<1>. QED  BY <1>2 DEF CountWidth

(* A count is stored in the byte of the type if it is small, or behind it.  *)
LEMMA BinSpells ==
  ASSUME NEW w \in WordOf(4), NEW t, Alike(Tag("bin", w), t)
  PROVE  Spells(EncodeBin(w), t) /\ Len(EncodeBin(w)) = 1 + Width(w)
<1>. DEFINE n == Width(w)
<1>1. n \in Widths /\ n <= 4 /\ Fits(w, n)
  BY WidthFits DEF Widths
<1>2. Bin(Low(w, n)) = Tag("bin", w)
  BY <1>1, UnsignedLow DEF Bin, Widths
<1>3. EncodeBin(w) = StoreWord(196, w, n)
  BY DEF EncodeBin, StoreBin
<1>. HIDE DEF n
<1>4. ASSUME NEW k \in 0..3, Codes(k, n)
      PROVE  /\ 196 + k \in Byte /\ Refusal(196 + k) = "ok" /\ WordSize(196 + k) = n
              /\ Alike(ReadTag(196 + k, Low(w, n)), t)
  <2>1. 196 + k \in 196..198 /\ 196 + k \in Byte
    BY <1>1, <1>4 DEF Codes, Byte
  <2>2. Refusal(196 + k) = "ok" /\ WordSize(196 + k) = n
    BY <1>1, <1>4 DEF Codes, WordSize, Refusal, Reserved, Extensions, Floats
  <2>3. ReadTag(196 + k, Low(w, n)) = Bin(Low(w, n))
    BY <2>1, ReadsWords
  <2>. QED  BY <1>2, <2>1, <2>2, <2>3
<1>5. n \in 0..4 /\ 4 \in Nat
  BY <1>1 DEF Widths
<1>6. Coded(196, w, n, t)
  BY <1>4, Zenon DEF Coded
<1>7. Spells(StoreWord(196, w, n), t) /\ Len(StoreWord(196, w, n)) = 1 + n
  BY <1>1, <1>5, <1>6, WordSpells
<1>. QED  BY <1>3, <1>7 DEF n

(* Strings, arrays and maps. *)
LEMMA StrSpells ==
  ASSUME NEW w \in WordOf(4), NEW t, Alike(Tag("str", w), t)
  PROVE  /\ Spells(EncodeStr(w), t)
         /\ Len(EncodeStr(w)) = IF IsAtMost(w, 31) THEN 1 ELSE 1 + Width(w)
<1>. DEFINE n == Width(w)
<1>1. CASE IsAtMost(w, 31)
  <2>1. Low(w, 1) = <<w[4]>> /\ w[4] \in Byte /\ Len(w) = 4
    BY LowByte, 4 \in Nat \ {0}
  <2>2. w[4] \in 0..31 /\ Fits(w, 1)
    BY <1>1, <2>1 DEF IsAtMost, Byte
  <2>3. /\ 160 + w[4] \in 160..191 /\ 160 + w[4] \in Byte
        /\ (160 + w[4]) % 32 = w[4] /\ WordSize(160 + w[4]) = 0
        /\ Refusal(160 + w[4]) = "ok"
    BY <2>2 DEF WordSize, Byte, Refusal, Reserved, Extensions, Floats
  <2>4. ReadTag(160 + w[4], <<>>) = Str(<<w[4]>>)
    <3>1. \A b \in Byte : b \in 160..191 => ReadTag(b, <<>>) = Str(<<b % 32>>)
      BY ReadsBytes
    <3>2. ReadTag(160 + w[4], <<>>) = Str(<<(160 + w[4]) % 32>>)
      BY <2>3, <3>1, Zenon
    <3>. QED  BY <2>3, <3>2, Zenon
  <2>5. Unsigned(Low(w, 1), 4) = w
    BY <2>2, UnsignedLow, 4 \in Nat, 1 \in 0..4
  <2>6. ReadTag(160 + w[4], <<>>) = Tag("str", w)
    BY <2>1, <2>4, <2>5 DEF Str
  <2>. QED  BY <1>1, <2>3, <2>6, ByteSpells DEF EncodeStr
<1>2. CASE ~IsAtMost(w, 31)
  <2>1. n \in Widths /\ n <= 4 /\ Fits(w, n)
    BY WidthFits DEF Widths
  <2>2. Str(Low(w, n)) = Tag("str", w)
    BY <2>1, UnsignedLow DEF Str, Widths
  <2>3. EncodeStr(w) = StoreWord(217, w, n)
    BY <1>2 DEF EncodeStr, StoreStr
  <2>. HIDE DEF n
  <2>4. ASSUME NEW k \in 0..3, Codes(k, n)
        PROVE  /\ 217 + k \in Byte /\ Refusal(217 + k) = "ok" /\ WordSize(217 + k) = n
              /\ Alike(ReadTag(217 + k, Low(w, n)), t)
    <3>1. 217 + k \in 217..219 /\ 217 + k \in Byte
      BY <2>1, <2>4 DEF Codes, Byte
    <3>2. Refusal(217 + k) = "ok" /\ WordSize(217 + k) = n
      BY <2>1, <2>4 DEF Codes, WordSize, Refusal, Reserved, Extensions, Floats
    <3>3. ReadTag(217 + k, Low(w, n)) = Str(Low(w, n))
      BY <3>1, ReadsWords
    <3>. QED  BY <2>2, <3>1, <3>2, <3>3
  <2>5. n \in 0..4 /\ 4 \in Nat
    BY <2>1 DEF Widths
  <2>6. Coded(217, w, n, t)
    BY <2>4, Zenon DEF Coded
  <2>7. Spells(StoreWord(217, w, n), t) /\ Len(StoreWord(217, w, n)) = 1 + n
    BY <2>1, <2>5, <2>6, WordSpells
  <2>. QED  BY <1>2, <2>3, <2>7 DEF n
<1>. QED  BY <1>1, <1>2

(* The header of an array is read as the array, in the length expected.     *)
LEMMA ArraySpells ==
  ASSUME NEW w \in WordOf(4), NEW t, Alike(Tag("array", w), t)
  PROVE  /\ Spells(EncodeArray(w), t)
         /\ Len(EncodeArray(w)) = IF IsAtMost(w, 15) THEN 1 ELSE 1 + CountWidth(w)
<1>. DEFINE n == CountWidth(w)
<1>1. CASE IsAtMost(w, 15)
  <2>1. Low(w, 1) = <<w[4]>> /\ w[4] \in Byte /\ Len(w) = 4
    BY LowByte, 4 \in Nat \ {0}
  <2>2. w[4] \in 0..15 /\ Fits(w, 1)
    BY <1>1, <2>1 DEF IsAtMost, Byte
  <2>3. /\ 144 + w[4] \in 144..159 /\ 144 + w[4] \in Byte
        /\ (144 + w[4]) % 16 = w[4] /\ WordSize(144 + w[4]) = 0
        /\ Refusal(144 + w[4]) = "ok"
    BY <2>2 DEF WordSize, Byte, Refusal, Reserved, Extensions, Floats
  <2>4. ReadTag(144 + w[4], <<>>) = Array(<<w[4]>>)
    <3>1. \A b \in Byte : b \in 144..159 => ReadTag(b, <<>>) = Array(<<b % 16>>)
      BY ReadsBytes
    <3>2. ReadTag(144 + w[4], <<>>) = Array(<<(144 + w[4]) % 16>>)
      BY <2>3, <3>1, Zenon
    <3>. QED  BY <2>3, <3>2, Zenon
  <2>5. Unsigned(Low(w, 1), 4) = w
    BY <2>2, UnsignedLow, 4 \in Nat, 1 \in 0..4
  <2>6. ReadTag(144 + w[4], <<>>) = Tag("array", w)
    BY <2>1, <2>4, <2>5 DEF Array
  <2>. QED  BY <1>1, <2>3, <2>6, ByteSpells DEF EncodeArray
<1>2. CASE ~IsAtMost(w, 15)
  <2>1. n \in Widths /\ n <= 4 /\ Fits(w, n) /\ n # 1
    BY CountWidthFits DEF Widths
  <2>2. Array(Low(w, n)) = Tag("array", w)
    BY <2>1, UnsignedLow DEF Array, Widths
  <2>3. EncodeArray(w) = StoreWord(219, w, n)
    BY <1>2 DEF EncodeArray, StoreArray
  <2>. HIDE DEF n
  <2>4. ASSUME NEW k \in 0..3, Codes(k, n)
        PROVE  /\ 219 + k \in Byte /\ Refusal(219 + k) = "ok" /\ WordSize(219 + k) = n
              /\ Alike(ReadTag(219 + k, Low(w, n)), t)
    <3>1. 219 + k \in 220..221 /\ 219 + k \in Byte
      BY <2>1, <2>4 DEF Codes, Byte
    <3>2. Refusal(219 + k) = "ok" /\ WordSize(219 + k) = n
      BY <2>1, <2>4 DEF Codes, WordSize, Refusal, Reserved, Extensions, Floats
    <3>3. ReadTag(219 + k, Low(w, n)) = Array(Low(w, n))
      BY <3>1, ReadsWords
    <3>. QED  BY <2>2, <3>1, <3>2, <3>3
  <2>5. n \in 0..4 /\ 4 \in Nat
    BY <2>1 DEF Widths
  <2>6. Coded(219, w, n, t)
    BY <2>4, Zenon DEF Coded
  <2>7. Spells(StoreWord(219, w, n), t) /\ Len(StoreWord(219, w, n)) = 1 + n
    BY <2>1, <2>5, <2>6, WordSpells
  <2>. QED  BY <1>2, <2>3, <2>7 DEF n
<1>. QED  BY <1>1, <1>2

(* The header of a map is read as the map, in the length expected.          *)
LEMMA MapSpells ==
  ASSUME NEW w \in WordOf(4), NEW t, Alike(Tag("map", w), t)
  PROVE  /\ Spells(EncodeMap(w), t)
         /\ Len(EncodeMap(w)) = IF IsAtMost(w, 15) THEN 1 ELSE 1 + CountWidth(w)
<1>. DEFINE n == CountWidth(w)
<1>1. CASE IsAtMost(w, 15)
  <2>1. Low(w, 1) = <<w[4]>> /\ w[4] \in Byte /\ Len(w) = 4
    BY LowByte, 4 \in Nat \ {0}
  <2>2. w[4] \in 0..15 /\ Fits(w, 1)
    BY <1>1, <2>1 DEF IsAtMost, Byte
  <2>3. /\ 128 + w[4] \in 128..143 /\ 128 + w[4] \in Byte
        /\ (128 + w[4]) % 16 = w[4] /\ WordSize(128 + w[4]) = 0
        /\ Refusal(128 + w[4]) = "ok"
    BY <2>2 DEF WordSize, Byte, Refusal, Reserved, Extensions, Floats
  <2>4. ReadTag(128 + w[4], <<>>) = Map(<<w[4]>>)
    <3>1. \A b \in Byte : b \in 128..143 => ReadTag(b, <<>>) = Map(<<b % 16>>)
      BY ReadsBytes
    <3>2. ReadTag(128 + w[4], <<>>) = Map(<<(128 + w[4]) % 16>>)
      BY <2>3, <3>1, Zenon
    <3>. QED  BY <2>3, <3>2, Zenon
  <2>5. Unsigned(Low(w, 1), 4) = w
    BY <2>2, UnsignedLow, 4 \in Nat, 1 \in 0..4
  <2>6. ReadTag(128 + w[4], <<>>) = Tag("map", w)
    BY <2>1, <2>4, <2>5 DEF Map
  <2>. QED  BY <1>1, <2>3, <2>6, ByteSpells DEF EncodeMap
<1>2. CASE ~IsAtMost(w, 15)
  <2>1. n \in Widths /\ n <= 4 /\ Fits(w, n) /\ n # 1
    BY CountWidthFits DEF Widths
  <2>2. Map(Low(w, n)) = Tag("map", w)
    BY <2>1, UnsignedLow DEF Map, Widths
  <2>3. EncodeMap(w) = StoreWord(221, w, n)
    BY <1>2 DEF EncodeMap, StoreMap
  <2>. HIDE DEF n
  <2>4. ASSUME NEW k \in 0..3, Codes(k, n)
        PROVE  /\ 221 + k \in Byte /\ Refusal(221 + k) = "ok" /\ WordSize(221 + k) = n
              /\ Alike(ReadTag(221 + k, Low(w, n)), t)
    <3>1. 221 + k \in 222..223 /\ 221 + k \in Byte
      BY <2>1, <2>4 DEF Codes, Byte
    <3>2. Refusal(221 + k) = "ok" /\ WordSize(221 + k) = n
      BY <2>1, <2>4 DEF Codes, WordSize, Refusal, Reserved, Extensions, Floats
    <3>3. ReadTag(221 + k, Low(w, n)) = Map(Low(w, n))
      BY <3>1, ReadsWords
    <3>. QED  BY <2>2, <3>1, <3>2, <3>3
  <2>5. n \in 0..4 /\ 4 \in Nat
    BY <2>1 DEF Widths
  <2>6. Coded(221, w, n, t)
    BY <2>4, Zenon DEF Coded
  <2>7. Spells(StoreWord(221, w, n), t) /\ Len(StoreWord(221, w, n)) = 1 + n
    BY <2>1, <2>5, <2>6, WordSpells
  <2>. QED  BY <1>2, <2>3, <2>7 DEF n
<1>. QED  BY <1>1, <1>2

-----------------------------------------------------------------------------
(* mpack_parse_tag takes from the front of a message what spells a tag, and *)
(* nothing of what follows it.                                              *)
LEMMA ParsesSpelling ==
  ASSUME NEW e, NEW t, Spells(e, t), NEW rest \in Seq(Byte)
  PROVE  /\ Alike(ParseTag(e \o rest), t)
         /\ TagSize((e \o rest)[1]) = Len(e) /\ Refusal((e \o rest)[1]) = "ok"
         /\ e \in Seq(Byte) /\ Len(e) > 0
<1>1. PICK b \in Byte, w \in Seq(Byte) :
         /\ e = <<b>> \o w /\ Len(w) = WordSize(b)
         /\ Refusal(b) = "ok" /\ Alike(ReadTag(b, w), t)
  BY DEF Spells
<1>2. <<b>> \in Seq(Byte) /\ Len(<<b>>) = 1 /\ <<b>>[1] = b
  OBVIOUS
<1>3. e \in Seq(Byte) /\ Len(e) = 1 + Len(w) /\ e[1] = b /\ \A i \in 1..Len(w) : e[1 + i] = w[i]
  BY <1>1, <1>2
<1>4. /\ e \o rest \in Seq(Byte) /\ Len(e \o rest) = 1 + Len(w) + Len(rest)
      /\ (e \o rest)[1] = b
      /\ \A i \in 1..Len(w) : (e \o rest)[1 + i] = w[i]
  <2>1. e \o rest \in Seq(Byte) /\ Len(e \o rest) = Len(e) + Len(rest)
    BY <1>3, ConcatProperties
  <2>2. \A k \in 1..Len(e) : (e \o rest)[k] = e[k]
    BY <1>3
  <2>3. 1 \in 1..Len(e) /\ \A i \in 1..Len(w) : 1 + i \in 1..Len(e)
    BY <1>1, <1>3
  <2>. QED  BY <1>3, <2>1, <2>2, <2>3
<1>5. SubSeq(e \o rest, 2, 1 + Len(w)) = w
  <2>. DEFINE m == e \o rest
  <2>1. m \in Seq(Byte) /\ Len(m) >= 1 + Len(w) /\ \A i \in 1..Len(w) : m[1 + i] = w[i]
    BY <1>4
  <2>. HIDE DEF m
  <2>2. SubSeq(m, 2, 1 + Len(w)) \in Seq(Byte) /\ Len(SubSeq(m, 2, 1 + Len(w))) = Len(w)
    BY <2>1
  <2>3. \A i \in 1..Len(w) : SubSeq(m, 2, 1 + Len(w))[i] = m[1 + i]
    BY <2>1
  <2>4. SubSeq(m, 2, 1 + Len(w)) = w
    BY <2>1, <2>2, <2>3, SeqEqual
  <2>. QED  BY <2>4 DEF m
<1>6. TagSize(b) = 1 + Len(w)
  BY <1>1 DEF TagSize
<1>7. ParseTag(e \o rest) = ReadTag(b, w)
  BY <1>4, <1>5, <1>6, Zenon DEF ParseTag
<1>8. Len(e) > 0 /\ TagSize((e \o rest)[1]) = Len(e) /\ Refusal((e \o rest)[1]) = "ok"
  BY <1>1, <1>3, <1>4, <1>6
<1>. QED  BY <1>1, <1>3, <1>7, <1>8

(* What mpack_write_tag writes spells the tag.                              *)
LEMMA EncodeSpells ==
  ASSUME NEW t \in AllTags
  PROVE  Spells(Encode(t), t)
<1>1. CASE t = Nil
  <2>1. Encode(t) = <<192>> /\ 192 \in Byte /\ WordSize(192) = 0 /\ Refusal(192) = "ok"
    BY <1>1 DEF Encode, Nil, Tag, WordSize, Byte, Refusal, Reserved, Extensions, Floats
  <2>2. ReadTag(192, <<>>) = t
    BY <1>1, ReadsNothing, Zenon
  <2>. QED  BY <2>1, <2>2, ByteSpells DEF Alike
<1>2. CASE t = Bool(FALSE)
  <2>1. Encode(t) = <<194>> /\ 194 \in Byte /\ WordSize(194) = 0 /\ Refusal(194) = "ok"
    BY <1>2 DEF Encode, Bool, Tag, WordSize, Byte, Refusal, Reserved, Extensions, Floats
  <2>2. ReadTag(194, <<>>) = Bool(194 % 2 = 1) /\ (194 % 2 = 1) = FALSE
    <3>1. \A b \in Byte : b \in {194, 195} => ReadTag(b, <<>>) = Bool(b % 2 = 1)
      BY ReadsBytes
    <3>2. ReadTag(194, <<>>) = Bool(194 % 2 = 1)
      BY <2>1, <3>1, Zenon
    <3>3. (194 % 2 = 1) = FALSE
      OBVIOUS
    <3>. QED  BY <3>2, <3>3
  <2>. QED  BY <1>2, <2>1, <2>2, ByteSpells DEF Alike
<1>3. CASE t = Bool(TRUE)
  <2>1. Encode(t) = <<195>> /\ 195 \in Byte /\ WordSize(195) = 0 /\ Refusal(195) = "ok"
    BY <1>3 DEF Encode, Bool, Tag, WordSize, Byte, Refusal, Reserved, Extensions, Floats
  <2>2. ReadTag(195, <<>>) = Bool(195 % 2 = 1) /\ (195 % 2 = 1) = TRUE
    <3>1. \A b \in Byte : b \in {194, 195} => ReadTag(b, <<>>) = Bool(b % 2 = 1)
      BY ReadsBytes
    <3>2. ReadTag(195, <<>>) = Bool(195 % 2 = 1)
      BY <2>1, <3>1, Zenon
    <3>3. (195 % 2 = 1) = TRUE
      OBVIOUS
    <3>. QED  BY <3>2, <3>3
  <2>. QED  BY <1>3, <2>1, <2>2, ByteSpells DEF Alike
<1>4. CASE t \in [type : {"uint"}, v : WordOf(8)]
  <2>1. t = Tag("uint", t.v) /\ t.v \in WordOf(8) /\ Encode(t) = EncodeUInt(t.v)
    BY <1>4 DEF Tag, Encode
  <2>. QED  BY <2>1, UIntSpells DEF Alike
<1>5. CASE t \in [type : {"int"}, v : WordOf(8)]
  <2>1. t = Tag("int", t.v) /\ t.v \in WordOf(8) /\ Encode(t) = EncodeInt(t.v)
    BY <1>5 DEF Tag, Encode
  <2>2. CASE Negative(t.v)
    BY <2>1, <2>2, NegativeSpells DEF Alike, EncodeInt
  <2>3. CASE ~Negative(t.v)
    <3>1. Alike(Tag("uint", t.v), t)
      BY <1>5, <2>3 DEF Alike, Comparable, Tag
    <3>. QED  BY <2>1, <2>3, <3>1, UIntSpells DEF EncodeInt
  <2>. QED  BY <2>2, <2>3
<1>6. CASE t \in [type : {"str", "bin", "array", "map"}, v : WordOf(4)]
  <2>1. t = Tag(t.type, t.v) /\ t.v \in WordOf(4) /\ Alike(Tag(t.type, t.v), t)
    BY <1>6 DEF Tag, Alike
  <2>2. CASE t.type = "str"
    BY <2>1, <2>2, StrSpells DEF Encode
  <2>3. CASE t.type = "bin"
    BY <2>1, <2>3, BinSpells DEF Encode
  <2>4. CASE t.type = "array"
    BY <2>1, <2>4, ArraySpells DEF Encode
  <2>5. CASE t.type = "map"
    BY <2>1, <2>5, MapSpells DEF Encode
  <2>. QED  BY <1>6, <2>2, <2>3, <2>4, <2>5
<1>. QED  BY <1>1, <1>2, <1>3, <1>4, <1>5, <1>6 DEF AllTags

(* The inductive invariant: the message is the encoding of the tag and what *)
(* follows, and the tag read is what the parser makes of it.                *)
TagsInd ==
    /\ value \in Values
    /\ encoded \in {<<>>, Encode(value) \o Rest}
    /\ read # Unread => encoded # <<>> /\ read = ParseTag(encoded)

(* Write and Read keep it.                                                  *)
THEOREM TagsInvariant == TagsSpec => []TagsInd
<1>1. TagsInit => TagsInd
  BY DEF TagsInit, TagsInd
<1>2. TagsInd /\ [TagsNext]_tagsVars => TagsInd'
  BY DEF TagsInd, TagsNext, Write, Read, tagsVars
<1>. QED  BY <1>1, <1>2, PTL DEF TagsSpec

(* mpack_read_tag gives back what mpack_write_tag was given, for every word *)
(* of eight bytes and every count, whatever follows in the message: the     *)
(* same tag to mpack_tag_cmp, from exactly the bytes that were written.     *)
THEOREM TagsAreReadBack ==
  ASSUME TagsAssumption
  PROVE  TagsSpec => []ReadsWhatWasWritten
<1>1. TagsInd => ReadsWhatWasWritten
  <2>. SUFFICES ASSUME TagsInd, read # Unread
                PROVE  TagEqual(read, value) /\ TagSize(encoded[1]) = Len(encoded) - Len(Rest)
    BY DEF ReadsWhatWasWritten
  <2>1. value \in AllTags /\ Rest \in Seq(Byte) /\ encoded = Encode(value) \o Rest /\ read = ParseTag(encoded)
    BY DEF TagsInd, TagsAssumption, Byte
  <2>. DEFINE e == Encode(value)
  <2>2. Spells(e, value)
    BY <2>1, EncodeSpells
  <2>. HIDE DEF e
  <2>3. /\ Alike(ParseTag(e \o Rest), value) /\ TagSize((e \o Rest)[1]) = Len(e)
        /\ e \in Seq(Byte)
    BY <2>1, <2>2, ParsesSpelling
  <2>4. Len(e \o Rest) - Len(Rest) = Len(e)
    BY <2>1, <2>3
  <2>. QED  BY <2>1, <2>3, <2>4, EqualIsAlike DEF e
<1>. QED  BY <1>1, TagsInvariant, PTL

-----------------------------------------------------------------------------
(* As many bytes as a word has are a word.                                  *)
LEMMA SeqIsWord ==
  ASSUME NEW m \in Nat, NEW s \in Seq(Byte), Len(s) = m
  PROVE  s \in WordOf(m)
BY LenProperties DEF WordOf, Byte

(* The bytes of a word that was filled up.                                  *)
LEMMA FilledBytes ==
  ASSUME NEW m \in Nat, NEW l \in Seq(Byte), Len(l) <= m, NEW z \in [1..m - Len(l) -> Byte]
  PROVE  /\ z \o l \in Seq(Byte) /\ Len(z \o l) = m
         /\ \A i \in 1..m - Len(l) : (z \o l)[i] = z[i]
         /\ \A i \in 1..Len(l) : (z \o l)[m - Len(l) + i] = l[i]
<1>. DEFINE k == m - Len(l)
<1>1. Len(l) \in Nat /\ k \in Nat
  OBVIOUS
<1>2. z \in Seq(Byte) /\ Len(z) = k
  BY <1>1
<1>. HIDE DEF k
<1>3. /\ z \o l \in Seq(Byte) /\ Len(z \o l) = k + Len(l)
      /\ \A i \in 1..k : (z \o l)[i] = z[i]
      /\ \A i \in 1..Len(l) : (z \o l)[k + i] = l[i]
  BY <1>1, <1>2
<1>4. k + Len(l) = m
  BY <1>1 DEF k
<1>. QED  BY <1>3, <1>4 DEF k

(* A number without sign is filled up with zeros.                           *)
LEMMA UnsignedBytes ==
  ASSUME NEW m \in Nat, NEW l \in Seq(Byte), Len(l) <= m
  PROVE  /\ Unsigned(l, m) \in WordOf(m)
         /\ \A i \in 1..m - Len(l) : Unsigned(l, m)[i] = 0
         /\ \A i \in 1..Len(l) : Unsigned(l, m)[m - Len(l) + i] = l[i]
<1>. DEFINE z == [i \in 1..m - Len(l) |-> 0]
<1>1. z \in [1..m - Len(l) -> Byte] /\ \A i \in 1..m - Len(l) : z[i] = 0
  BY DEF Byte
<1>2. Unsigned(l, m) = z \o l
  BY DEF Unsigned
<1>. HIDE DEF z
<1>3. /\ z \o l \in Seq(Byte) /\ Len(z \o l) = m
      /\ \A i \in 1..m - Len(l) : (z \o l)[i] = z[i]
      /\ \A i \in 1..Len(l) : (z \o l)[m - Len(l) + i] = l[i]
  BY <1>1, FilledBytes
<1>4. z \o l \in WordOf(m)
  BY <1>3, SeqIsWord
<1>. QED  BY <1>1, <1>2, <1>3, <1>4

(* The byte that fills up a negative word. *)
Ones == 255

(* A number with a sign is filled up with its sign.                         *)
LEMMA SignedBytes ==
  ASSUME NEW m \in Nat, NEW l \in Seq(Byte), Len(l) <= m
  PROVE  /\ Signed(l, m) \in WordOf(m)
         /\ Negative(l) => \A i \in 1..m - Len(l) : Signed(l, m)[i] = Ones
         /\ ~Negative(l) => \A i \in 1..m - Len(l) : Signed(l, m)[i] = 0
         /\ \A i \in 1..Len(l) : Signed(l, m)[m - Len(l) + i] = l[i]
<1>. DEFINE z == [i \in 1..m - Len(l) |-> IF Negative(l) THEN Ones ELSE 0]
<1>1. /\ z \in [1..m - Len(l) -> Byte]
      /\ Negative(l) => \A i \in 1..m - Len(l) : z[i] = Ones
      /\ ~Negative(l) => \A i \in 1..m - Len(l) : z[i] = 0
  BY DEF Byte, Ones
<1>2. Signed(l, m) = z \o l
  BY DEF Signed, Ones
<1>. HIDE DEF z
<1>3. /\ z \o l \in Seq(Byte) /\ Len(z \o l) = m
      /\ \A i \in 1..m - Len(l) : (z \o l)[i] = z[i]
      /\ \A i \in 1..Len(l) : (z \o l)[m - Len(l) + i] = l[i]
  BY <1>1, FilledBytes
<1>4. z \o l \in WordOf(m)
  BY <1>3, SeqIsWord
<1>. QED  BY <1>1, <1>2, <1>3, <1>4

(* A word that its low n bytes spell fits in them.                          *)
LEMMA UnsignedFits ==
  ASSUME NEW m \in Nat, NEW w \in WordOf(m), NEW n \in 0..m, Unsigned(Low(w, n), m) = w
  PROVE  Fits(w, n)
<1>. DEFINE l == Low(w, n)
<1>1. l \in Seq(Byte) /\ Len(l) = n /\ Len(w) = m /\ Unsigned(l, m) = w
  BY LowBytes
<1>. HIDE DEF l
<1>2. \A i \in 1..m - Len(l) : Unsigned(l, m)[i] = 0
  <2>1. Len(l) <= m
    BY <1>1
  <2>. QED  BY <1>1, <2>1, UnsignedBytes, Zenon
<1>. QED  BY <1>1, <1>2 DEF Fits

(* A word that is its low bytes and their sign fits them.                   *)
LEMMA SignedFits ==
  ASSUME NEW m \in Nat, NEW w \in WordOf(m), NEW n \in 1..m, Signed(Low(w, n), m) = w
  PROVE  IF Negative(w) THEN FitsNegative(w, n) ELSE Fits(w, n)
<1>. DEFINE l == Low(w, n)
            f == IF Negative(l) THEN Ones ELSE 0
<1>1. l \in Seq(Byte) /\ Len(l) = n /\ Len(w) = m /\ Signed(l, m) = w
  BY LowBytes, n \in 0..m
<1>2. 1 \in 1..n /\ l[1] = w[m - n + 1]
  BY LowBytes, n \in 0..m
<1>. HIDE DEF l
<1>3. \A i \in 1..m - n : w[i] = f
  <2>1. Len(l) <= m
    BY <1>1
  <2>2. /\ Negative(l) => \A i \in 1..m - Len(l) : Signed(l, m)[i] = Ones
        /\ ~Negative(l) => \A i \in 1..m - Len(l) : Signed(l, m)[i] = 0
    BY <1>1, <2>1, SignedBytes, Zenon
  <2>. QED  BY <1>1, <2>2
<1>4. CASE n = m
  BY <1>1, <1>2, <1>4 DEF Negative, FitsNegative, Fits, Ones
<1>5. CASE n # m
  <2>1. 1 \in 1..m - n /\ w[1] = f
    BY <1>3, <1>5
  <2>2. Negative(w) <=> Negative(l)
    BY <2>1 DEF Negative, Ones
  <2>. QED  BY <1>1, <1>2, <1>3, <2>2 DEF Negative, FitsNegative, Fits, Ones
<1>. QED  BY <1>4, <1>5

-----------------------------------------------------------------------------
(* The first bytes of tags, and what tags are compared as.                  *)
LEMMA FirstBytes ==
  ASSUME NEW b \in Byte, Refusal(b) = "ok"
  PROVE  \/ b \in 0..127 \cup 224..255 \cup 128..143 \cup 144..159 \cup 160..191 \cup {192, 194, 195}
         \/ b \in 204..211 \cup 196..198 \cup 217..219 /\ WordSize(b) \in Widths
         \/ b \in 220..223 /\ WordSize(b) \in {2, 4}
<1>1. b \notin Reserved /\ b \notin Extensions /\ b \notin Floats
  BY DEF Refusal
<1>2. b \in 204..211 \cup 196..198 \cup 217..219 => WordSize(b) \in Widths
  BY DEF WordSize, Widths
<1>3. b \in 220..223 => WordSize(b) \in {2, 4}
  BY DEF WordSize
<1>. QED  BY <1>1, <1>2, <1>3 DEF Reserved, Extensions, Floats, Byte

(* What mpack_tag_cmp compares of each tag a reader makes.                  *)
LEMMA ComparedAs ==
  ASSUME NEW l
  PROVE  /\ Comparable(UInt(l)) = Tag("uint", Unsigned(l, 8))
         /\ Comparable(SInt(l)) = Tag(IF Negative(Signed(l, 8)) THEN "int" ELSE "uint", Signed(l, 8))
         /\ Comparable(Str(l)) = Tag("str", Unsigned(l, 4))
         /\ Comparable(Bin(l)) = Tag("bin", Unsigned(l, 4))
         /\ Comparable(Array(l)) = Tag("array", Unsigned(l, 4))
         /\ Comparable(Map(l)) = Tag("map", Unsigned(l, 4))
         /\ Comparable(Nil).type = "nil"
         /\ \A x \in BOOLEAN : Comparable(Bool(x)).type = "bool"
BY DEF Comparable, UInt, SInt, Str, Bin, Array, Map, Nil, Bool, Tag

(* A word filled up from one byte is that byte.                             *)
LEMMA OneByte ==
  ASSUME NEW m \in Nat \ {0}, NEW w \in WordOf(m), NEW x \in Byte
  PROVE  /\ Unsigned(<<x>>, m) = w => Fits(w, 1) /\ w[m] = x
         /\ Signed(<<x>>, m) = w /\ x >= 128 => FitsNegative(w, 1) /\ w[m] = x
<1>1. <<x>> \in Seq(Byte) /\ Len(<<x>>) = 1 /\ <<x>>[1] = x /\ Len(<<x>>) <= m
  OBVIOUS
<1>2. Len(w) = m /\ 1 \in 1..Len(<<x>>) /\ m - Len(<<x>>) + 1 = m
  BY <1>1 DEF WordOf, Byte
<1>3. ASSUME Unsigned(<<x>>, m) = w
      PROVE  Fits(w, 1) /\ w[m] = x
  <2>1. /\ \A i \in 1..m - Len(<<x>>) : w[i] = 0
        /\ \A i \in 1..Len(<<x>>) : w[m - Len(<<x>>) + i] = <<x>>[i]
    BY <1>1, <1>3, UnsignedBytes
  <2>. QED  BY <1>1, <1>2, <2>1 DEF Fits
<1>4. ASSUME Signed(<<x>>, m) = w, x >= 128
      PROVE  FitsNegative(w, 1) /\ w[m] = x
  <2>1. Negative(<<x>>)
    BY <1>4 DEF Negative
  <2>2. /\ \A i \in 1..m - Len(<<x>>) : w[i] = 255
        /\ \A i \in 1..Len(<<x>>) : w[m - Len(<<x>>) + i] = <<x>>[i]
    <3>. DEFINE l == <<x>>
    <3>1. m \in Nat /\ l \in Seq(Byte) /\ Len(l) <= m /\ Negative(l) /\ Signed(l, m) = w
      BY <1>1, <1>4, <2>1
    <3>. HIDE DEF l
    <3>2. \A i \in 1..m - Len(l) : Signed(l, m)[i] = Ones
      BY <3>1, SignedBytes, Zenon
    <3>3. \A i \in 1..Len(l) : Signed(l, m)[m - Len(l) + i] = l[i]
      BY <3>1, SignedBytes, Zenon
    <3>4. /\ \A i \in 1..m - Len(l) : w[i] = Ones
          /\ \A i \in 1..Len(l) : w[m - Len(l) + i] = l[i]
      BY <3>1, <3>2, <3>3, Zenon
    <3>. QED  BY <3>4 DEF l, Ones
  <2>. QED  BY <1>1, <1>2, <1>4, <2>2 DEF FitsNegative
<1>. QED  BY <1>3, <1>4

(* What mpack_tag_cmp makes of what the reader gives.                       *)
ReadsAs(b, l, type, v) ==
    Comparable(ReadTag(b, l)).type = type /\ Comparable(ReadTag(b, l)).v = v

ReadTable(b, l) ==
    /\ b \in 0..127 => ReadsAs(b, l, "uint", Unsigned(<<b>>, 8))
    /\ b \in 128..143 => ReadsAs(b, l, "map", Unsigned(<<b % 16>>, 4))
    /\ b \in 144..159 => ReadsAs(b, l, "array", Unsigned(<<b % 16>>, 4))
    /\ b \in 160..191 => ReadsAs(b, l, "str", Unsigned(<<b % 32>>, 4))
    /\ b \in 204..207 => ReadsAs(b, l, "uint", Unsigned(l, 8))
    /\ b \in 196..198 => ReadsAs(b, l, "bin", Unsigned(l, 4))
    /\ b \in 217..219 => ReadsAs(b, l, "str", Unsigned(l, 4))
    /\ b \in 220..221 => ReadsAs(b, l, "array", Unsigned(l, 4))
    /\ b \in 222..223 => ReadsAs(b, l, "map", Unsigned(l, 4))
    /\ b \in 224..255 =>
           ReadsAs(b, l, IF Negative(Signed(<<b>>, 8)) THEN "int" ELSE "uint", Signed(<<b>>, 8))
    /\ b \in 208..211 =>
           ReadsAs(b, l, IF Negative(Signed(l, 8)) THEN "int" ELSE "uint", Signed(l, 8))
    /\ b \in {192, 194, 195} => Comparable(ReadTag(b, l)).type \in {"nil", "bool"}

(* What a reader makes of a first byte and its word, as it is compared.     *)
LEMMA ReadCompared ==
  ASSUME NEW b \in Byte, NEW l
  PROVE  ReadTable(b, l)
<1>1. ASSUME b \in 0..127 PROVE ReadsAs(b, l, "uint", Unsigned(<<b>>, 8))
  <2>1. ReadTag(b, l) = UInt(<<b>>)
    BY <1>1, ReadsBytes
  <2>. QED  BY <2>1, ComparedAs DEF ReadsAs, Tag
<1>2. ASSUME b \in 128..143 PROVE ReadsAs(b, l, "map", Unsigned(<<b % 16>>, 4))
  <2>1. ReadTag(b, l) = Map(<<b % 16>>)
    BY <1>2, ReadsBytes
  <2>. QED  BY <2>1, ComparedAs DEF ReadsAs, Tag
<1>3. ASSUME b \in 144..159 PROVE ReadsAs(b, l, "array", Unsigned(<<b % 16>>, 4))
  <2>1. ReadTag(b, l) = Array(<<b % 16>>)
    BY <1>3, ReadsBytes
  <2>. QED  BY <2>1, ComparedAs DEF ReadsAs, Tag
<1>4. ASSUME b \in 160..191 PROVE ReadsAs(b, l, "str", Unsigned(<<b % 32>>, 4))
  <2>1. ReadTag(b, l) = Str(<<b % 32>>)
    BY <1>4, ReadsBytes
  <2>. QED  BY <2>1, ComparedAs DEF ReadsAs, Tag
<1>5. ASSUME b \in 204..207 PROVE ReadsAs(b, l, "uint", Unsigned(l, 8))
  <2>1. ReadTag(b, l) = UInt(l)
    BY <1>5, ReadsWords
  <2>. QED  BY <2>1, ComparedAs DEF ReadsAs, Tag
<1>6. ASSUME b \in 196..198 PROVE ReadsAs(b, l, "bin", Unsigned(l, 4))
  <2>1. ReadTag(b, l) = Bin(l)
    BY <1>6, ReadsWords
  <2>. QED  BY <2>1, ComparedAs DEF ReadsAs, Tag
<1>7. ASSUME b \in 217..219 PROVE ReadsAs(b, l, "str", Unsigned(l, 4))
  <2>1. ReadTag(b, l) = Str(l)
    BY <1>7, ReadsWords
  <2>. QED  BY <2>1, ComparedAs DEF ReadsAs, Tag
<1>8. ASSUME b \in 220..221 PROVE ReadsAs(b, l, "array", Unsigned(l, 4))
  <2>1. ReadTag(b, l) = Array(l)
    BY <1>8, ReadsWords
  <2>. QED  BY <2>1, ComparedAs DEF ReadsAs, Tag
<1>9. ASSUME b \in 222..223 PROVE ReadsAs(b, l, "map", Unsigned(l, 4))
  <2>1. ReadTag(b, l) = Map(l)
    BY <1>9, ReadsWords
  <2>. QED  BY <2>1, ComparedAs DEF ReadsAs, Tag
<1>10. ASSUME b \in 224..255
      PROVE  ReadsAs(b, l, IF Negative(Signed(<<b>>, 8)) THEN "int" ELSE "uint", Signed(<<b>>, 8))
  <2>1. ReadTag(b, l) = SInt(<<b>>)
    BY <1>10, ReadsBytes
  <2>. QED  BY <2>1, ComparedAs DEF ReadsAs, Tag
<1>11. ASSUME b \in 208..211
      PROVE  ReadsAs(b, l, IF Negative(Signed(l, 8)) THEN "int" ELSE "uint", Signed(l, 8))
  <2>1. ReadTag(b, l) = SInt(l)
    BY <1>11, ReadsWords
  <2>. QED  BY <2>1, ComparedAs DEF ReadsAs, Tag
<1>12. ASSUME b \in {192, 194, 195} PROVE Comparable(ReadTag(b, l)).type \in {"nil", "bool"}
  <2>1. CASE b = 192
    <3>1. ReadTag(b, l) = Nil
      BY <2>1, ReadsNothing, Zenon
    <3>. QED  BY <3>1 DEF Nil, Tag, Comparable
  <2>2. CASE b \in {194, 195}
    <3>1. ReadTag(b, l) = Bool(b % 2 = 1)
      BY <2>2, ReadsBytes
    <3>. QED  BY <3>1 DEF Bool, Tag, Comparable
  <2>. QED  BY <1>12, <2>1, <2>2
<1>. QED  BY <1>1, <1>2, <1>3, <1>4, <1>5, <1>6, <1>7, <1>8, <1>9, <1>10, <1>11, <1>12 DEF ReadTable

(* What the reader has to find to give back a number: a byte, or a word the *)
(* number fits in. No other first byte will do.                             *)
LEMMA ReadAsUInt ==
  ASSUME NEW w \in WordOf(8), NEW b \in Byte, Refusal(b) = "ok", WordSize(b) <= 8,
         Alike(ReadTag(b, Low(w, WordSize(b))), Tag("uint", w))
  PROVE  IsAtMost(w, 127) \/ (WordSize(b) \in Widths /\ Fits(w, WordSize(b)))
<1>. DEFINE n == WordSize(b)
            l == Low(w, n)
<1>0. ReadTable(b, l)
  BY ReadCompared
<1>1. Comparable(ReadTag(b, l)).type = "uint" /\ Comparable(ReadTag(b, l)).v = w /\ Len(w) = 8
  BY DEF Alike, Comparable, Tag, WordOf
<1>. HIDE DEF l
<1>2. CASE b \in 0..127
  <2>1. Unsigned(<<b>>, 8) = w
    BY <1>1, <1>2, <1>0 DEF ReadTable, ReadsAs
  <2>2. Fits(w, 1) /\ w[8] = b
    BY <2>1, OneByte, 8 \in Nat \ {0}
  <2>. QED  BY <1>1, <1>2, <2>2 DEF IsAtMost
<1>3. CASE b \in 224..255
  <2>2. Signed(<<b>>, 8) = w /\ ~Negative(w)
    BY <1>1, <1>3, <1>0 DEF ReadTable, ReadsAs
  <2>3. FitsNegative(w, 1) /\ w[8] = b
    BY <1>3, <2>2, OneByte, 8 \in Nat \ {0}
  <2>. QED  BY <1>1, <2>2, <2>3 DEF FitsNegative, Negative
<1>4. CASE b \in 128..143 \cup 144..159 \cup 160..191 \cup {192, 194, 195}
  BY <1>1, <1>4, <1>0 DEF ReadTable, ReadsAs
<1>5. CASE b \in 204..211 /\ n \in Widths
  <2>1. n \in 1..8 /\ n \in 0..8 /\ 8 \in Nat
    BY <1>5 DEF Widths
  <2>2. CASE b \in 204..207
    <3>1. Unsigned(l, 8) = w
      BY <1>1, <2>2, <1>0 DEF ReadTable, ReadsAs
    <3>. QED  BY <1>5, <2>1, <3>1, UnsignedFits DEF l
  <2>3. CASE b \in 208..211
    <3>1. Signed(l, 8) = w /\ ~Negative(w)
      BY <1>1, <2>3, <1>0 DEF ReadTable, ReadsAs
    <3>. QED  BY <1>5, <2>1, <3>1, SignedFits DEF l
  <2>. QED  BY <1>5, <2>2, <2>3
<1>6. CASE b \in 196..198 \cup 217..219 \cup 220..223
  BY <1>1, <1>6, <1>0 DEF ReadTable, ReadsAs
<1>. QED  BY <1>2, <1>3, <1>4, <1>5, <1>6, FirstBytes

(* A first byte that reads as a negative number has a word it fits.         *)
LEMMA ReadAsNegative ==
  ASSUME NEW w \in WordOf(8), Negative(w), NEW b \in Byte, Refusal(b) = "ok", WordSize(b) <= 8,
         Alike(ReadTag(b, Low(w, WordSize(b))), Tag("int", w))
  PROVE  \/ FitsNegative(w, 1) /\ w[8] >= 224
         \/ WordSize(b) \in Widths /\ FitsNegative(w, WordSize(b))
<1>. DEFINE n == WordSize(b)
            l == Low(w, n)
<1>0. ReadTable(b, l)
  BY ReadCompared
<1>1. Comparable(ReadTag(b, l)).type = "int" /\ Comparable(ReadTag(b, l)).v = w
  BY DEF Alike, Comparable, Tag
<1>. HIDE DEF l
<1>2. CASE b \in 224..255
  <2>2. Signed(<<b>>, 8) = w
    BY <1>1, <1>2, <1>0 DEF ReadTable, ReadsAs
  <2>. QED  BY <1>2, <2>2, OneByte, 8 \in Nat \ {0}
<1>3. CASE b \in 0..127 \cup 128..143 \cup 144..159 \cup 160..191 \cup {192, 194, 195}
  BY <1>1, <1>3, <1>0 DEF ReadTable, ReadsAs
<1>4. CASE b \in 208..211 /\ n \in Widths
  <2>1. n \in 1..8 /\ 8 \in Nat
    BY <1>4 DEF Widths
  <2>2. Signed(l, 8) = w
    BY <1>1, <1>4, <1>0 DEF ReadTable, ReadsAs
  <2>. QED  BY <1>4, <2>1, <2>2, SignedFits DEF l
<1>5. CASE b \in 204..207 \cup 196..198 \cup 217..219 \cup 220..223
  BY <1>1, <1>5, <1>0 DEF ReadTable, ReadsAs
<1>. QED  BY <1>2, <1>3, <1>4, <1>5, FirstBytes

(* A first byte that reads as a count has a word it fits.                   *)
LEMMA ReadAsCount ==
  ASSUME NEW w \in WordOf(4), NEW b \in Byte, Refusal(b) = "ok", WordSize(b) <= 4,
         NEW type \in {"str", "bin", "array", "map"},
         Alike(ReadTag(b, Low(w, WordSize(b))), Tag(type, w))
  PROVE  \/ type = "str" /\ IsAtMost(w, 31)
         \/ type \in {"array", "map"} /\ IsAtMost(w, 15)
         \/ type \in {"str", "bin"} /\ WordSize(b) \in Widths /\ Fits(w, WordSize(b))
         \/ type \in {"array", "map"} /\ WordSize(b) \in {2, 4} /\ Fits(w, WordSize(b))
<1>. DEFINE n == WordSize(b)
            l == Low(w, n)
<1>0. ReadTable(b, l)
  BY ReadCompared
<1>1. Comparable(ReadTag(b, l)).type = type /\ Comparable(ReadTag(b, l)).v = w /\ Len(w) = 4
  BY DEF Alike, Comparable, Tag, WordOf
<1>. HIDE DEF l
<1>2. CASE b \in 160..191
  <2>1. Unsigned(<<b % 32>>, 4) = w /\ type = "str" /\ b % 32 \in 0..31 /\ b % 32 \in Byte
    BY <1>0, <1>1, <1>2 DEF ReadTable, ReadsAs, Byte
  <2>2. Fits(w, 1) /\ w[4] = b % 32
    BY <2>1, OneByte, 4 \in Nat \ {0}
  <2>. QED  BY <1>1, <2>1, <2>2 DEF IsAtMost
<1>3. CASE b \in 128..143 \cup 144..159
  <2>1. Unsigned(<<b % 16>>, 4) = w /\ type \in {"array", "map"} /\ b % 16 \in 0..15 /\ b % 16 \in Byte
    BY <1>0, <1>1, <1>3 DEF ReadTable, ReadsAs, Byte
  <2>2. Fits(w, 1) /\ w[4] = b % 16
    BY <2>1, OneByte, 4 \in Nat \ {0}
  <2>. QED  BY <1>1, <2>1, <2>2 DEF IsAtMost
<1>4. CASE b \in 0..127 \cup 224..255 \cup {192, 194, 195} \cup 204..211
  BY <1>0, <1>1, <1>4 DEF ReadTable, ReadsAs
<1>5. CASE b \in 196..198 \cup 217..219 /\ n \in Widths
  <2>1. n \in 0..4 /\ 4 \in Nat
    BY <1>5 DEF Widths
  <2>2. Unsigned(l, 4) = w /\ type \in {"str", "bin"}
    BY <1>0, <1>1, <1>5 DEF ReadTable, ReadsAs
  <2>. QED  BY <1>5, <2>1, <2>2, UnsignedFits DEF l
<1>6. CASE b \in 220..223 /\ n \in {2, 4}
  <2>1. n \in 0..4 /\ 4 \in Nat
    BY <1>6
  <2>2. Unsigned(l, 4) = w /\ type \in {"array", "map"}
    BY <1>0, <1>1, <1>6 DEF ReadTable, ReadsAs
  <2>. QED  BY <1>6, <2>1, <2>2, UnsignedFits DEF l
<1>. QED  BY <1>2, <1>3, <1>4, <1>5, <1>6, FirstBytes

(* No first byte spells a tag in fewer bytes than the writer takes.         *)
LEMMA EncodeIsShortest ==
  ASSUME NEW t \in AllTags, NEW b \in Byte, Refusal(b) = "ok", WordSize(b) <= Len(t.v),
         Alike(ReadTag(b, Low(t.v, WordSize(b))), t)
  PROVE  Len(Encode(t)) <= TagSize(b)
<1>. DEFINE n == WordSize(b)
<1>1. n \in Nat /\ TagSize(b) = 1 + n
  BY DEF WordSize, TagSize
<1>2. CASE t \in {Nil, Bool(FALSE), Bool(TRUE)}
  <2>1. Len(Encode(t)) = 1
    BY <1>2 DEF Encode, Nil, Bool, Tag
  <2>. QED  BY <1>1, <2>1
<1>3. ASSUME NEW w \in WordOf(8), Alike(Tag("uint", w), t), t.v = w, Encode(t) = EncodeUInt(w)
      PROVE  Len(Encode(t)) <= 1 + n
  <2>1. Alike(ReadTag(b, Low(w, n)), Tag("uint", w)) /\ n <= 8
    <3>1. Len(w) = 8
      BY DEF WordOf, Byte
    <3>2. Alike(ReadTag(b, Low(w, n)), t)
      BY <1>3
    <3>. QED  BY <1>3, <3>1, <3>2 DEF Alike
  <2>2. IsAtMost(w, 127) \/ (n \in Widths /\ Fits(w, n))
    BY <2>1, ReadAsUInt
  <2>3. Len(Encode(t)) = IF IsAtMost(w, 127) THEN 1 ELSE 1 + Width(w)
    BY <1>3, UIntSpells
  <2>4. n \in Widths /\ Fits(w, n) => Width(w) <= n
    BY <2>1, WidthFits, 8 \in Widths DEF Widths
  <2>5. Width(w) \in Nat
    BY WidthFits, 8 \in Widths DEF Widths
  <2>. HIDE DEF n
  <2>. QED  BY <1>1, <2>2, <2>3, <2>4, <2>5
<1>4. CASE t \in [type : {"uint"}, v : WordOf(8)]
  <2>1. Alike(Tag("uint", t.v), t) /\ Encode(t) = EncodeUInt(t.v) /\ t.v \in WordOf(8)
    BY <1>4 DEF Alike, Tag, Encode, Comparable
  <2>. QED  BY <1>1, <1>3, <2>1
<1>5. CASE t \in [type : {"int"}, v : WordOf(8)] /\ ~Negative(t.v)
  <2>1. Alike(Tag("uint", t.v), t) /\ Encode(t) = EncodeUInt(t.v) /\ t.v \in WordOf(8)
    BY <1>5 DEF Alike, Tag, Encode, EncodeInt, Comparable
  <2>. QED  BY <1>1, <1>3, <2>1
<1>6. CASE t \in [type : {"int"}, v : WordOf(8)] /\ Negative(t.v)
  <2>. DEFINE w == t.v
  <2>1. t = Tag("int", w) /\ w \in WordOf(8) /\ Encode(t) = EncodeNegative(w) /\ n <= 8
    <3>1. t = Tag("int", w) /\ w \in WordOf(8)
      BY <1>6 DEF Tag
    <3>2. Len(w) = 8
      BY <3>1 DEF WordOf, Byte
    <3>. QED  BY <1>6, <3>1, <3>2 DEF Encode, EncodeInt
  <2>2. (FitsNegative(w, 1) /\ w[8] >= 224) \/ (n \in Widths /\ FitsNegative(w, n))
    BY <1>6, <2>1, ReadAsNegative
  <2>3. Len(Encode(t)) = IF FitsNegative(w, 1) /\ w[8] >= 224 THEN 1 ELSE 1 + NegativeWidth(w)
    BY <1>6, <2>1, NegativeSpells DEF Alike
  <2>4. n \in Widths /\ FitsNegative(w, n) => NegativeWidth(w) <= n
    BY <1>6, <2>1, NegativeWidthFits
  <2>5. NegativeWidth(w) \in Nat
    BY <1>6, <2>1, NegativeWidthFits DEF Widths
  <2>. HIDE DEF n
  <2>. QED  BY <1>1, <2>2, <2>3, <2>4, <2>5
<1>7. CASE t \in [type : {"str", "bin", "array", "map"}, v : WordOf(4)]
  <2>. DEFINE w == t.v
  <2>1. t = Tag(t.type, w) /\ w \in WordOf(4) /\ n <= 4 /\ t.type \in {"str", "bin", "array", "map"}
    <3>1. t = Tag(t.type, w) /\ w \in WordOf(4) /\ t.type \in {"str", "bin", "array", "map"}
      BY <1>7 DEF Tag
    <3>2. Len(w) = 4
      BY <3>1 DEF WordOf, Byte
    <3>. QED  BY <3>1, <3>2
  <2>2. \/ t.type = "str" /\ IsAtMost(w, 31)
        \/ t.type \in {"array", "map"} /\ IsAtMost(w, 15)
        \/ t.type \in {"str", "bin"} /\ n \in Widths /\ Fits(w, n)
        \/ t.type \in {"array", "map"} /\ n \in {2, 4} /\ Fits(w, n)
    BY <2>1, ReadAsCount
  <2>3. n \in Widths /\ Fits(w, n) => Width(w) <= n
    BY <2>1, WidthFits, 4 \in Widths DEF Widths
  <2>4. n \in {2, 4} /\ Fits(w, n) => CountWidth(w) <= n
    BY DEF CountWidth
  <2>5. Width(w) \in Nat /\ CountWidth(w) \in Nat
    BY <2>1, WidthFits, CountWidthFits, 4 \in Widths DEF Widths
  <2>6. CASE t.type = "str"
    <3>1. Len(Encode(t)) = IF IsAtMost(w, 31) THEN 1 ELSE 1 + Width(w)
      BY <2>1, <2>6, StrSpells DEF Encode, Alike
    <3>. HIDE DEF n
    <3>. QED  BY <1>1, <2>2, <2>3, <2>5, <2>6, <3>1
  <2>7. CASE t.type = "bin"
    <3>1. Len(Encode(t)) = 1 + Width(w)
      BY <2>1, <2>7, BinSpells DEF Encode, Alike
    <3>. HIDE DEF n
    <3>. QED  BY <1>1, <2>2, <2>3, <2>5, <2>7, <3>1
  <2>8. CASE t.type = "array"
    <3>1. Len(Encode(t)) = IF IsAtMost(w, 15) THEN 1 ELSE 1 + CountWidth(w)
      BY <2>1, <2>8, ArraySpells DEF Encode, Alike
    <3>. HIDE DEF n
    <3>. QED  BY <1>1, <2>2, <2>4, <2>5, <2>8, <3>1
  <2>9. CASE t.type = "map"
    <3>1. Len(Encode(t)) = IF IsAtMost(w, 15) THEN 1 ELSE 1 + CountWidth(w)
      BY <2>1, <2>9, MapSpells DEF Encode, Alike
    <3>. HIDE DEF n
    <3>. QED  BY <1>1, <2>2, <2>4, <2>5, <2>9, <3>1
  <2>. QED  BY <2>1, <2>6, <2>7, <2>8, <2>9
<1>8. t \in {Nil, Bool(FALSE), Bool(TRUE)} \/ t \in [type : {"uint"}, v : WordOf(8)]
        \/ t \in [type : {"int"}, v : WordOf(8)] \/ t \in [type : {"str", "bin", "array", "map"}, v : WordOf(4)]
  BY DEF AllTags
<1>. QED  BY <1>2, <1>4, <1>5, <1>6, <1>7, <1>8

(* The reader takes the shortest spelling there is, for every tag.          *)
THEOREM EncodingIsShortest ==
  ASSUME TagsAssumption
  PROVE  TagsSpec => []ShortestEncoding
<1>1. TagsInd => ShortestEncoding
  <2>. SUFFICES ASSUME TagsInd, encoded # <<>>, NEW b \in Spellings(value)
                PROVE  Len(encoded) - Len(Rest) <= TagSize(b)
    BY DEF ShortestEncoding
  <2>1. value \in AllTags /\ Rest \in Seq(Byte) /\ encoded = Encode(value) \o Rest
    BY DEF TagsInd, TagsAssumption, Byte
  <2>2. /\ b \in Byte /\ Refusal(b) = "ok" /\ WordSize(b) <= Len(value.v)
        /\ Alike(ReadTag(b, Low(value.v, WordSize(b))), value)
    BY EqualIsAlike DEF Spellings, Byte
  <2>3. Len(Encode(value)) <= TagSize(b)
    BY <2>1, <2>2, EncodeIsShortest
  <2>. DEFINE e == Encode(value)
  <2>4. Spells(e, value) /\ <<>> \in Seq(Byte)
    BY <2>1, EncodeSpells
  <2>. HIDE DEF e
  <2>5. e \in Seq(Byte)
    BY <2>4, ParsesSpelling
  <2>6. Len(e \o Rest) - Len(Rest) = Len(e)
    BY <2>1, <2>5
  <2>. QED  BY <2>1, <2>3, <2>6 DEF e
<1>. QED  BY <1>1, TagsInvariant, PTL

-----------------------------------------------------------------------------
(* Two words of one length that differ do so at a first place.              *)
LEMMA FirstDifference ==
  ASSUME NEW m \in Nat, NEW v \in WordOf(m), NEW w \in WordOf(m), v # w
  PROVE  \E i \in 1..m : v[i] # w[i] /\ \A j \in 1..i - 1 : v[j] = w[j]
<1>. DEFINE T == {i \in 1..m : v[i] # w[i]}
<1>1. T \subseteq Nat /\ T # {}
  BY DEF WordOf, Byte
<1>2. \E i \in T : \A j \in T : ~(<<j, i>> \in OpToRel(<, Nat))
  BY <1>1, WFMin, NatLessThanWellFounded
<1>3. PICK i \in T : \A j \in T : ~(<<j, i>> \in OpToRel(<, Nat))
  BY <1>2
<1>4. \A j \in T : ~(j < i)
  BY <1>1, <1>3 DEF OpToRel
<1>5. \A j \in 1..i - 1 : j \in 1..m /\ j < i
  OBVIOUS
<1>. QED  BY <1>3, <1>4, <1>5

(* A word consists of integers.                                             *)
LEMMA WordBytes ==
  ASSUME NEW m \in Nat, NEW w \in WordOf(m)
  PROVE  Len(w) = m /\ \A i \in 1..m : w[i] \in Int
<1>1. Len(w) = m
  BY DEF WordOf, Byte
<1>2. \A i \in 1..m : w[i] \in Byte
  BY DEF WordOf, Byte
<1>3. \A x \in Byte : x \in Int
  BY DEF Byte
<1>. QED  BY <1>1, <1>2, <1>3, Zenon

(* The words of one length are in a total order.                            *)
LEMMA LessIsTotal ==
  ASSUME NEW m \in Nat, NEW v \in WordOf(m), NEW w \in WordOf(m), v # w
  PROVE  Less(v, w) <=> ~Less(w, v)
<1>1. Len(v) = m /\ Len(w) = m /\ \A i \in 1..m : v[i] \in Int /\ w[i] \in Int
  BY WordBytes
<1>2. PICK i \in 1..m : v[i] # w[i] /\ \A j \in 1..i - 1 : v[j] = w[j]
  BY FirstDifference
<1>3. \A k \in 1..m : k < i \/ k = i \/ i < k
  OBVIOUS
<1>4. v[i] < w[i] => Less(v, w) /\ ~Less(w, v)
  BY <1>1, <1>2, <1>3 DEF Less
<1>5. w[i] < v[i] => Less(w, v) /\ ~Less(v, w)
  BY <1>1, <1>2, <1>3 DEF Less
<1>. QED  BY <1>1, <1>2, <1>4, <1>5

(* The order of words is transitive.                                        *)
LEMMA LessIsTransitive ==
  ASSUME NEW m \in Nat, NEW u \in WordOf(m), NEW v \in WordOf(m), NEW w \in WordOf(m),
         Less(u, v), Less(v, w)
  PROVE  Less(u, w)
<1>1. Len(u) = m /\ Len(v) = m /\ \A i \in 1..m : u[i] \in Int /\ v[i] \in Int /\ w[i] \in Int
  BY WordBytes
<1>2. PICK i \in 1..m : u[i] < v[i] /\ \A j \in 1..i - 1 : u[j] = v[j]
  BY <1>1 DEF Less
<1>3. PICK k \in 1..m : v[k] < w[k] /\ \A j \in 1..k - 1 : v[j] = w[j]
  BY <1>1 DEF Less
<1>4. CASE i < k
  <2>1. u[i] < w[i]
    BY <1>1, <1>2, <1>3, <1>4
  <2>2. \A j \in 1..i - 1 : j \in 1..i - 1 /\ j \in 1..k - 1
    BY <1>4
  <2>3. \A j \in 1..i - 1 : u[j] = w[j]
    BY <1>2, <1>3, <2>2
  <2>. QED  BY <1>1, <2>1, <2>3 DEF Less
<1>5. CASE i = k
  <2>1. u[i] < w[i]
    BY <1>1, <1>2, <1>3, <1>5
  <2>2. \A j \in 1..i - 1 : j \in 1..i - 1 /\ j \in 1..k - 1
    BY <1>5
  <2>3. \A j \in 1..i - 1 : u[j] = w[j]
    BY <1>2, <1>3, <2>2
  <2>. QED  BY <1>1, <2>1, <2>3 DEF Less
<1>6. CASE k < i
  <2>1. u[k] < w[k]
    BY <1>1, <1>2, <1>3, <1>6
  <2>2. \A j \in 1..k - 1 : j \in 1..i - 1 /\ j \in 1..k - 1
    BY <1>6
  <2>3. \A j \in 1..k - 1 : u[j] = w[j]
    BY <1>2, <1>3, <2>2
  <2>. QED  BY <1>1, <2>1, <2>3 DEF Less
<1>7. i < k \/ i = k \/ k < i
  OBVIOUS
<1>. QED  BY <1>4, <1>5, <1>6, <1>7

(* The order of the types is that of their places.                          *)
LEMMA RankIsPlace ==
  ASSUME NEW type \in {"nil", "bool", "int", "uint", "str", "bin", "array", "map"}
  PROVE  Rank(type) \in 1..11 /\ Types[Rank(type)] = type
<1>1. Len(Types) = 11
  BY DEF Types
<1>2. \E i \in 1..11 : Types[i] = type
  <2>1. /\ Types[2] = "nil" /\ Types[3] = "bool" /\ Types[4] = "int" /\ Types[5] = "uint"
        /\ Types[8] = "str" /\ Types[9] = "bin" /\ Types[10] = "array" /\ Types[11] = "map"
    BY DEF Types
  <2>2. 2 \in 1..11 /\ 3 \in 1..11 /\ 4 \in 1..11 /\ 5 \in 1..11
        /\ 8 \in 1..11 /\ 9 \in 1..11 /\ 10 \in 1..11 /\ 11 \in 1..11
    OBVIOUS
  <2>. QED  BY <2>1, <2>2
<1>. QED  BY <1>1, <1>2, Zenon DEF Rank

(* What a tag is compared as: a type and a word of its length.              *)
Length(type) == CASE type = "nil" -> 0 [] type = "bool" -> 1
                  [] type \in {"int", "uint"} -> 8 [] OTHER -> 4

(* What is compared of a tag is a tag that is written like it.              *)
LEMMA ComparableTag ==
  ASSUME NEW t \in AllTags
  PROVE  /\ Comparable(t) = Tag(Comparable(t).type, Comparable(t).v)
         /\ Comparable(t).type \in {"nil", "bool", "int", "uint", "str", "bin", "array", "map"}
         /\ Comparable(t).v \in WordOf(Length(Comparable(t).type))
         /\ Encode(Comparable(t)) = Encode(t)
<1>1. CASE t \in {Nil, Bool(FALSE), Bool(TRUE)}
  <2>1. CASE t = Nil
    BY <2>1 DEF Nil, Comparable, Tag, Length, WordOf
  <2>2. CASE t = Bool(FALSE)
    <3>1. Comparable(t) = t /\ t.type = "bool" /\ t.v = <<0>> /\ Length("bool") = 1
      BY <2>2 DEF Comparable, Bool, Tag, Length
    <3>2. <<0>> \in WordOf(1)
      BY SeqIsWord, <<0>> \in Seq(Byte), Len(<<0>>) = 1 DEF Byte
    <3>. QED  BY <2>2, <3>1, <3>2 DEF Bool, Tag
  <2>3. CASE t = Bool(TRUE)
    <3>1. Comparable(t) = t /\ t.type = "bool" /\ t.v = <<1>> /\ Length("bool") = 1
      BY <2>3 DEF Comparable, Bool, Tag, Length
    <3>2. <<1>> \in WordOf(1)
      BY SeqIsWord, <<1>> \in Seq(Byte), Len(<<1>>) = 1 DEF Byte
    <3>. QED  BY <2>3, <3>1, <3>2 DEF Bool, Tag
  <2>. QED  BY <1>1, <2>1, <2>2, <2>3
<1>2. CASE t \in [type : {"int", "uint"}, v : WordOf(8)]
  <2>1. CASE t.type = "int" /\ ~Negative(t.v)
    <3>1. Comparable(t) = Tag("uint", t.v)
      BY <2>1 DEF Comparable
    <3>2. Encode(t) = EncodeUInt(t.v) /\ Encode(Tag("uint", t.v)) = EncodeUInt(t.v)
      BY <2>1 DEF Encode, EncodeInt, Tag
    <3>. QED  BY <1>2, <3>1, <3>2 DEF Tag, Length
  <2>2. CASE ~(t.type = "int" /\ ~Negative(t.v))
    <3>1. Comparable(t) = t
      BY <2>2 DEF Comparable
    <3>. QED  BY <1>2, <3>1 DEF Tag, Length
  <2>. QED  BY <2>1, <2>2
<1>3. CASE t \in [type : {"str", "bin", "array", "map"}, v : WordOf(4)]
  <2>1. Comparable(t) = t
    BY <1>3 DEF Comparable
  <2>. QED  BY <1>3, <2>1 DEF Tag, Length
<1>. QED  BY <1>1, <1>2, <1>3 DEF AllTags

(* The order: first by type, then by the word.                              *)
Precedes(t, u) ==
    LET l == Comparable(t)
        r == Comparable(u)
    IN  \/ Rank(l.type) < Rank(r.type)
        \/ l.type = r.type /\ Less(l.v, r.v)

(* mpack_tag_cmp finds two tags alike or says which precedes the other.     *)
LEMMA CompareIs ==
  ASSUME NEW t \in AllTags, NEW u \in AllTags
  PROVE  /\ Alike(t, u) => Compare(t, u) = 0
         /\ ~Alike(t, u) => /\ Compare(t, u) = IF Precedes(t, u) THEN -1 ELSE 1
                            /\ Precedes(t, u) <=> ~Precedes(u, t)
<1>. DEFINE l == Comparable(t)
            r == Comparable(u)
<1>1. /\ Rank(l.type) \in 1..11 /\ Rank(r.type) \in 1..11
      /\ Rank(l.type) = Rank(r.type) => l.type = r.type
  BY ComparableTag, RankIsPlace
<1>2. CASE l.type # r.type
  <2>1. Compare(t, u) = IF Rank(l.type) < Rank(r.type) THEN -1 ELSE 1
    BY <1>2 DEF Compare
  <2>2. Precedes(t, u) <=> Rank(l.type) < Rank(r.type)
    BY <1>2 DEF Precedes
  <2>3. Precedes(u, t) <=> Rank(r.type) < Rank(l.type)
    BY <1>2 DEF Precedes
  <2>4. ~Alike(t, u)
    BY <1>2 DEF Alike
  <2>. HIDE DEF l, r
  <2>. QED  BY <1>1, <1>2, <2>1, <2>2, <2>3, <2>4
<1>3. CASE l.type = r.type /\ l.v = r.v
  BY <1>3 DEF Compare, Alike
<1>4. CASE l.type = r.type /\ l.v # r.v
  <2>1. Compare(t, u) = IF Less(l.v, r.v) THEN -1 ELSE 1
    BY <1>4 DEF Compare
  <2>2. Precedes(t, u) <=> Less(l.v, r.v)
    BY <1>1, <1>4 DEF Precedes
  <2>3. Precedes(u, t) <=> Less(r.v, l.v)
    BY <1>1, <1>4 DEF Precedes
  <2>4. ~Alike(t, u)
    BY <1>4 DEF Alike
  <2>5. Length(l.type) \in Nat /\ l.v \in WordOf(Length(l.type)) /\ r.v \in WordOf(Length(l.type))
    BY <1>4, ComparableTag DEF Length
  <2>6. Less(l.v, r.v) <=> ~Less(r.v, l.v)
    BY <1>4, <2>5, LessIsTotal
  <2>. QED  BY <2>1, <2>2, <2>3, <2>4, <2>6
<1>. QED  BY <1>2, <1>3, <1>4

(* The order of tags is transitive.                                         *)
LEMMA PrecedesIsTransitive ==
  ASSUME NEW t \in AllTags, NEW u \in AllTags, NEW x \in AllTags,
         Precedes(t, u), Precedes(u, x)
  PROVE  Precedes(t, x)
<1>. DEFINE a == Comparable(t)
            b == Comparable(u)
            c == Comparable(x)
<1>1. Rank(a.type) \in Int /\ Rank(b.type) \in Int /\ Rank(c.type) \in Int
  BY ComparableTag, RankIsPlace
<1>2. /\ Rank(a.type) < Rank(b.type) \/ (a.type = b.type /\ Less(a.v, b.v))
      /\ Rank(b.type) < Rank(c.type) \/ (b.type = c.type /\ Less(b.v, c.v))
  BY DEF Precedes
<1>3. CASE a.type = b.type /\ b.type = c.type /\ Less(a.v, b.v) /\ Less(b.v, c.v)
  <2>1. /\ Length(a.type) \in Nat /\ a.v \in WordOf(Length(a.type))
        /\ b.v \in WordOf(Length(a.type)) /\ c.v \in WordOf(Length(a.type))
    BY <1>3, ComparableTag DEF Length
  <2>2. Less(a.v, c.v)
    BY <1>3, <2>1, LessIsTransitive
  <2>. QED  BY <1>3, <2>2 DEF Precedes
<1>4. CASE ~(a.type = b.type /\ b.type = c.type /\ Less(a.v, b.v) /\ Less(b.v, c.v))
  <2>1. Rank(a.type) < Rank(c.type)
    <3>. HIDE DEF a, b, c
    <3>. QED  BY <1>1, <1>2, <1>4
  <2>. QED  BY <2>1 DEF Precedes
<1>. QED  BY <1>3, <1>4

(* Tags are equal to mpack_tag_cmp exactly when they are written alike.     *)
LEMMA AlikeIsWrittenAlike ==
  ASSUME NEW t \in AllTags, NEW u \in AllTags
  PROVE  Alike(t, u) <=> Encode(t) = Encode(u)
<1>1. ASSUME Alike(t, u) PROVE Encode(t) = Encode(u)
  <2>1. Comparable(t) = Comparable(u)
    BY <1>1, ComparableTag DEF Alike
  <2>. QED  BY <2>1, ComparableTag
<1>2. ASSUME Encode(t) = Encode(u) PROVE Alike(t, u)
  <2>1. Spells(Encode(t), t) /\ Spells(Encode(t), u) /\ <<>> \in Seq(Byte)
    BY <1>2, EncodeSpells
  <2>2. Alike(ParseTag(Encode(t) \o <<>>), t) /\ Alike(ParseTag(Encode(t) \o <<>>), u)
    BY <2>1, ParsesSpelling, Zenon
  <2>. QED  BY <2>2 DEF Alike
<1>. QED  BY <1>1, <1>2

(* mpack_tag_cmp is a total order of the tags, and finds two the same only  *)
(* if their bytes are: the reader of a map may take it to compare keys.     *)
THEOREM TagsAreOrdered ==
  ASSUME TagsAssumption
  PROVE  TagsSpec => []CompareIsOrder
<1>1. TagsInd => CompareIsOrder
  <2>. SUFFICES ASSUME TagsInd, NEW t \in Values, NEW u \in Values
                PROVE  /\ Compare(value, t) = -Compare(t, value)
                       /\ Compare(value, t) <= 0 /\ Compare(t, u) <= 0 => Compare(value, u) <= 0
                       /\ TagEqual(value, t) <=> Encode(value) = Encode(t)
    BY DEF CompareIsOrder
  <2>1. value \in AllTags /\ t \in AllTags /\ u \in AllTags
    BY DEF TagsInd, TagsAssumption, Byte
  <2>2. Compare(value, t) = -Compare(t, value)
    <3>1. Alike(value, t) <=> Alike(t, value)
      BY DEF Alike
    <3>. QED  BY <2>1, <3>1, CompareIs
  <2>3. ASSUME Compare(value, t) <= 0, Compare(t, u) <= 0
        PROVE  Compare(value, u) <= 0
    <3>1. Alike(value, t) \/ Precedes(value, t)
      BY <2>1, <2>3, CompareIs
    <3>2. Alike(t, u) \/ Precedes(t, u)
      BY <2>1, <2>3, CompareIs
    <3>3. Alike(value, u) \/ Precedes(value, u)
      <4>1. CASE Alike(value, t)
        BY <3>2, <4>1 DEF Alike, Precedes
      <4>2. CASE Alike(t, u)
        BY <3>1, <4>2 DEF Alike, Precedes
      <4>3. CASE Precedes(value, t) /\ Precedes(t, u)
        BY <2>1, <4>3, PrecedesIsTransitive
      <4>. QED  BY <3>1, <3>2, <4>1, <4>2, <4>3
    <3>. QED  BY <2>1, <3>3, CompareIs
  <2>4. TagEqual(value, t) <=> Encode(value) = Encode(t)
    BY <2>1, EqualIsAlike, AlikeIsWrittenAlike
  <2>. QED  BY <2>2, <2>3, <2>4
<1>. QED  BY <1>1, TagsInvariant, PTL

(* What the runs check of the format on tags at every limit holds for all.  *)
THEOREM TagsAreSound ==
  ASSUME TagsAssumption
  PROVE  TagsSpec => []TagsInv
<1>1. ReadsWhatWasWritten /\ ShortestEncoding /\ CompareIsOrder => TagsInv
  BY DEF TagsInv
<1>. QED  BY <1>1, TagsAreReadBack, EncodingIsShortest, TagsAreOrdered, PTL
-----------------------------------------------------------------------------
(* Writer: what one call does to a buffer and to what was flushed before.   *)

(* The state an operation works on.                                         *)
Errors == {"io", "too_big", "bug", "invalid"}

WriterStates == [buf : Seq(Byte), out : Seq(Byte), err : {"ok"} \cup Errors, luck : Int]

Inside(w) == w \in WriterStates /\ Len(w.buf) <= size /\ (~flush => w.out = <<>>)

Held(w) == w.out \o w.buf

(* From w to v data was written: all of it behind what was there, or an     *)
(* error is flagged and what was flushed is a beginning of it. After an     *)
(* error nothing is flushed and the error stays.                            *)
Puts(w, v, data) ==
    /\ Inside(v)
    /\ w.err # "ok" => v.err = w.err /\ v.out = w.out
    /\ v.err = "ok" => Held(v) = Held(w) \o data
    /\ \E rest \in Seq(Byte) : Held(w) \o data = v.out \o rest

(* Where the brackets are does not matter.                                  *)
LEMMA Associates ==
  \A r, s, t \in Seq(Byte) : (r \o s) \o t = r \o (s \o t)
<1>. SUFFICES ASSUME NEW r \in Seq(Byte), NEW s \in Seq(Byte), NEW t \in Seq(Byte)
              PROVE  (r \o s) \o t = r \o (s \o t)
  OBVIOUS
<1>. QED  BY ConcatAssociative

(* What the writer holds are bytes, and more can follow them.               *)
LEMMA HeldIsBytes ==
  ASSUME NEW w \in WriterStates, NEW data \in Seq(Byte)
  PROVE  /\ Held(w) \in Seq(Byte) /\ Held(w) \o data \in Seq(Byte)
         /\ Held(w) \o data = w.out \o (w.buf \o data)
         /\ w.buf \o data \in Seq(Byte) /\ Len(w.buf \o data) = Len(w.buf) + Len(data)
         /\ Held(w) \o <<>> = Held(w)
<1>1. w.out \in Seq(Byte) /\ w.buf \in Seq(Byte)
  BY DEF WriterStates
<1>2. w.out \o w.buf \in Seq(Byte)
  BY <1>1, ConcatProperties
<1>3. (w.out \o w.buf) \o data \in Seq(Byte)
  BY <1>2, ConcatProperties
<1>4. (w.out \o w.buf) \o data = w.out \o (w.buf \o data)
  BY <1>1, Associates
<1>5. w.buf \o data \in Seq(Byte) /\ Len(w.buf \o data) = Len(w.buf) + Len(data)
  BY <1>1, ConcatProperties
<1>6. (w.out \o w.buf) \o <<>> = w.out \o w.buf
  BY <1>2, ConcatEmptySeq
<1>. QED  BY <1>2, <1>3, <1>4, <1>5, <1>6 DEF Held

(* Two pieces, one after the other.                                         *)
LEMMA PutsTwice ==
  ASSUME NEW w \in WriterStates, NEW v, NEW x, NEW a \in Seq(Byte), NEW b \in Seq(Byte),
         Puts(w, v, a), Puts(v, x, b)
  PROVE  Puts(w, x, a \o b)
<1>1. v \in WriterStates /\ Inside(x)
  BY DEF Puts, Inside
<1>2. Held(w) \in Seq(Byte) /\ Held(w) \o a \in Seq(Byte)
  BY HeldIsBytes
<1>3. (Held(w) \o a) \o b = Held(w) \o (a \o b)
  BY <1>2, ConcatAssociative
<1>4. w.err # "ok" => x.err = w.err /\ x.out = w.out
  BY DEF Puts
<1>5. x.err = "ok" => Held(x) = Held(w) \o (a \o b)
  BY <1>3 DEF Puts
<1>6. \E rest \in Seq(Byte) : Held(w) \o (a \o b) = x.out \o rest
  <2>1. CASE v.err = "ok"
    <3>1. Held(v) \o b = Held(w) \o (a \o b)
      BY <2>1, <1>3 DEF Puts
    <3>. QED  BY <3>1 DEF Puts
  <2>2. CASE v.err # "ok"
    <3>1. x.out = v.out
      BY <2>2 DEF Puts
    <3>2. PICK rest \in Seq(Byte) : Held(w) \o a = v.out \o rest
      BY DEF Puts
    <3>3. v.out \in Seq(Byte)
      BY <1>1 DEF WriterStates
    <3>4. (v.out \o rest) \o b = v.out \o (rest \o b)
      BY <3>3, Associates
    <3>5. rest \o b \in Seq(Byte)
      BY ConcatProperties
    <3>. QED  BY <1>3, <3>1, <3>2, <3>4, <3>5
  <2>. QED  BY <2>1, <2>2
<1>. QED  BY <1>1, <1>4, <1>5, <1>6 DEF Puts

(* An error, flagged instead of writing.                                    *)
LEMMA ErrorPuts ==
  ASSUME NEW w, Inside(w), NEW e \in Errors, NEW data \in Seq(Byte)
  PROVE  Puts(w, FlagError(w, e), data)
<1>. DEFINE v == FlagError(w, e)
<1>1. v \in WriterStates /\ v.buf = w.buf /\ v.out = w.out /\ v.err # "ok"
      /\ (w.err # "ok" => v.err = w.err)
  BY DEF FlagError, Inside, WriterStates, Errors
<1>2. Inside(v)
  BY <1>1 DEF Inside
<1>3. Held(w) \o data = v.out \o (w.buf \o data) /\ w.buf \o data \in Seq(Byte)
  BY <1>1, HeldIsBytes DEF Inside
<1>. HIDE DEF v
<1>4. Puts(w, v, data)
  BY <1>1, <1>2, <1>3 DEF Puts
<1>. QED  BY <1>4 DEF v

(* Bytes for which there is room.                                           *)
LEMMA StorePuts ==
  ASSUME size \in Nat, NEW w, Inside(w), NEW data \in Seq(Byte), Left(w) >= Len(data)
  PROVE  Puts(w, Store(w, data), data)
<1>. DEFINE v == Store(w, data)
<1>1. /\ w.out \in Seq(Byte) /\ w.buf \in Seq(Byte) /\ w \in WriterStates
      /\ w.buf \o data \in Seq(Byte) /\ Len(w.buf \o data) = Len(w.buf) + Len(data)
      /\ Held(w) \o data = w.out \o (w.buf \o data)
  BY HeldIsBytes DEF Inside, WriterStates
<1>2. /\ v \in WriterStates /\ v.buf = w.buf \o data /\ v.out = w.out /\ v.err = w.err
  BY <1>1 DEF Store, WriterStates
<1>3. Inside(v)
  BY <1>1, <1>2 DEF Inside, Left
<1>. HIDE DEF v
<1>4. Puts(w, v, data)
  BY <1>1, <1>2, <1>3 DEF Puts, Held
<1>. QED  BY <1>4 DEF v

(* The flush function, with the buffer or with bytes of the caller's: it    *)
(* takes them all or none.                                                  *)
LEMMA CallFlushPuts ==
  ASSUME flush, NEW w, Inside(w), w.buf = <<>>, w.err = "ok", NEW data \in Seq(Byte)
  PROVE  /\ Puts(w, CallFlush(w, data), data)
         /\ CallFlush(w, data).buf = <<>>
<1>1. CASE w.luck = 0
  <2>1. CallFlush(w, data) = FlagError(w, "io")
    BY <1>1 DEF CallFlush
  <2>2. FlagError(w, "io").buf = <<>>
    BY DEF FlagError, Inside, WriterStates
  <2>3. "io" \in Errors
    BY DEF Errors
  <2>4. Puts(w, FlagError(w, "io"), data)
    BY <2>3, ErrorPuts
  <2>. QED  BY <2>1, <2>2, <2>4
<1>2. CASE w.luck # 0
  <2>. DEFINE v == CallFlush(w, data)
  <2>1. w.out \in Seq(Byte) /\ w \in WriterStates /\ Held(w) = w.out
    BY ConcatEmptySeq DEF Inside, WriterStates, Held
  <2>2. w.out \o data \in Seq(Byte)
    BY <2>1, ConcatProperties
  <2>3. v \in WriterStates /\ v.buf = <<>> /\ v.out = w.out \o data /\ v.err = "ok"
    <3>1. v = [w EXCEPT !.out = w.out \o data, !.luck = w.luck - 1]
      BY <1>2 DEF CallFlush
    <3>2. w = [buf |-> <<>>, out |-> w.out, err |-> "ok", luck |-> w.luck] /\ w.luck \in Int
      BY <2>1 DEF WriterStates
    <3>3. v = [buf |-> <<>>, out |-> w.out \o data, err |-> "ok", luck |-> w.luck - 1]
      BY <3>1, <3>2
    <3>4. <<>> \in Seq(Byte) /\ w.luck - 1 \in Int
      BY <3>2
    <3>. HIDE DEF v
    <3>. QED  BY <2>2, <3>3, <3>4 DEF WriterStates
  <2>4. Inside(v)
    BY <2>3 DEF Inside
  <2>5. Held(v) = v.out /\ v.out \o <<>> = v.out /\ <<>> \in Seq(Byte)
    BY <2>2, <2>3, ConcatEmptySeq DEF Held
  <2>. HIDE DEF v
  <2>6. Puts(w, v, data)
    BY <2>1, <2>3, <2>4, <2>5 DEF Puts
  <2>. QED  BY <2>3, <2>6 DEF v
<1>. QED  BY <1>1, <1>2

(* The whole buffer is handed over; nothing of it is lost without an error. *)
LEMMA FlushPuts ==
  ASSUME size \in Nat, flush, NEW w, Inside(w), w.err = "ok"
  PROVE  Puts(w, FlushUnchecked(w), <<>>) /\ FlushUnchecked(w).buf = <<>>
<1>. DEFINE u == [w EXCEPT !.buf = <<>>]
            f == CallFlush(u, w.buf)
<1>1. /\ w \in WriterStates /\ w.buf \in Seq(Byte) /\ w.out \in Seq(Byte)
      /\ u \in WriterStates /\ u.buf = <<>> /\ u.out = w.out /\ u.err = "ok"
  <2>1. w \in WriterStates /\ <<>> \in Seq(Byte)
    BY DEF Inside
  <2>. QED  BY <2>1 DEF WriterStates
<1>2. Inside(u) /\ Held(u) = w.out
  BY <1>1, ConcatEmptySeq DEF Inside, Held
<1>. HIDE DEF u
<1>3. Puts(u, f, w.buf) /\ f.buf = <<>>
  BY <1>1, <1>2, CallFlushPuts
<1>. HIDE DEF f
<1>4. Held(u) \o w.buf = Held(w) /\ Held(w) \o <<>> = Held(w)
  BY <1>1, <1>2, HeldIsBytes DEF Held
<1>5. Puts(w, f, <<>>)
  BY <1>1, <1>3, <1>4 DEF Puts
<1>6. f = FlushUnchecked(w)
  BY DEF f, u, FlushUnchecked
<1>. QED  BY <1>3, <1>5, <1>6

(* Writing after writing nothing.                                           *)
LEMMA PutsAfter ==
  ASSUME NEW w, Inside(w), NEW v, NEW x, NEW data \in Seq(Byte),
         Puts(w, v, <<>>), Puts(v, x, data)
  PROVE  Puts(w, x, data)
<1>1. <<>> \o data = data /\ <<>> \in Seq(Byte)
  BY ConcatEmptySeq
<1>2. w \in WriterStates
  BY DEF Inside
<1>3. Puts(w, x, <<>> \o data)
  BY <1>1, <1>2, PutsTwice
<1>. QED  BY <1>1, <1>3

(* Room is made without writing, and without an error there is room.        *)
LEMMA EnsurePuts ==
  ASSUME size \in Nat, NEW w, Inside(w), NEW n \in Nat
  PROVE  /\ Puts(w, Ensure(w, n), <<>>)
         /\ Ensure(w, n).err = "ok" => Left(Ensure(w, n)) >= n
<1>. <<>> \in Seq(Byte)
  OBVIOUS
<1>1. CASE w.err # "ok"
  <2>1. Ensure(w, n) = w /\ FlagError(w, "io") = w
    BY <1>1 DEF Ensure, FlagError
  <2>2. "io" \in Errors
    BY DEF Errors
  <2>3. Puts(w, FlagError(w, "io"), <<>>)
    BY <2>2, ErrorPuts
  <2>. QED  BY <1>1, <2>1, <2>3
<1>2. CASE w.err = "ok" /\ ~flush
  <2>1. Ensure(w, n) = FlagError(w, "too_big") /\ "too_big" \in Errors
    BY <1>2 DEF Ensure, Errors
  <2>2. Puts(w, FlagError(w, "too_big"), <<>>)
    BY <2>1, ErrorPuts
  <2>3. FlagError(w, "too_big").err = "too_big"
    BY <1>2 DEF FlagError, Inside, WriterStates
  <2>. QED  BY <2>1, <2>2, <2>3
<1>3. CASE w.err = "ok" /\ flush
  <2>. DEFINE f == FlushUnchecked(w)
  <2>1. Puts(w, f, <<>>) /\ f.buf = <<>>
    BY <1>3, FlushPuts
  <2>2. Inside(f) /\ Left(f) = size
    BY <2>1 DEF Puts, Left
  <2>3. Ensure(w, n) = IF f.err = "ok" /\ Left(f) < n THEN FlagError(f, "io") ELSE f
    BY <1>3 DEF Ensure
  <2>. HIDE DEF f
  <2>4. CASE f.err = "ok" /\ Left(f) < n
    <3>1. Ensure(w, n) = FlagError(f, "io") /\ "io" \in Errors
      BY <2>3, <2>4 DEF Errors
    <3>2. Puts(f, FlagError(f, "io"), <<>>)
      BY <2>2, <3>1, ErrorPuts
    <3>3. FlagError(f, "io").err = "io"
      BY <2>2, <2>4 DEF FlagError, Inside, WriterStates
    <3>4. Puts(w, FlagError(f, "io"), <<>>)
      BY <2>1, <3>2, PutsAfter
    <3>. QED  BY <3>1, <3>3, <3>4
  <2>5. CASE ~(f.err = "ok" /\ Left(f) < n)
    <3>1. Ensure(w, n) = f
      BY <2>3, <2>5
    <3>. QED  BY <2>1, <2>2, <2>5, <3>1
  <2>. QED  BY <2>4, <2>5
<1>. QED  BY <1>1, <1>2, <1>3

(* What MPACK_WRITE_ENCODED writes.                                         *)
LEMMA EncodedPuts ==
  ASSUME size \in Nat, NEW w, Inside(w), NEW data \in Seq(Byte)
  PROVE  Puts(w, WriteEncoded(w, data), data)
<1>. Len(data) \in Nat
  OBVIOUS
<1>1. CASE Left(w) >= Len(data)
  <2>1. WriteEncoded(w, data) = Store(w, data)
    BY <1>1 DEF WriteEncoded
  <2>. QED  BY <1>1, <2>1, StorePuts
<1>2. CASE ~(Left(w) >= Len(data))
  <2>. DEFINE e == Ensure(w, Len(data))
  <2>1. Puts(w, e, <<>>) /\ (e.err = "ok" => Left(e) >= Len(data))
    BY EnsurePuts
  <2>2. Inside(e)
    BY <2>1 DEF Puts
  <2>3. WriteEncoded(w, data) = IF e.err = "ok" THEN Store(e, data) ELSE e
    BY <1>2 DEF WriteEncoded
  <2>. HIDE DEF e
  <2>4. CASE e.err = "ok"
    <3>1. Puts(e, Store(e, data), data)
      BY <2>1, <2>2, <2>4, StorePuts
    <3>. QED  BY <2>1, <2>3, <2>4, <3>1, PutsAfter
  <2>5. CASE e.err # "ok"
    <3>1. FlagError(e, "io") = e /\ "io" \in Errors
      BY <2>5 DEF FlagError, Errors
    <3>2. Puts(e, e, data)
      BY <2>2, <3>1, ErrorPuts
    <3>. QED  BY <2>1, <2>3, <2>5, <3>2, PutsAfter
  <2>. QED  BY <2>4, <2>5
<1>. QED  BY <1>1, <1>2

(* Bytes that may be longer than the buffer.                                *)
LEMMA NativePuts ==
  ASSUME size \in Nat, NEW w, Inside(w), NEW data \in Seq(Byte)
  PROVE  Puts(w, WriteNative(w, data), data)
<1>. Len(data) \in Nat
  OBVIOUS
<1>1. CASE ~(Left(w) < Len(data))
  <2>1. WriteNative(w, data) = Store(w, data) /\ Left(w) >= Len(data)
    BY <1>1 DEF WriteNative, Left, Inside, WriterStates
  <2>. QED  BY <2>1, StorePuts
<1>2. CASE Left(w) < Len(data)
  <2>0. WriteNative(w, data) = WriteNativeStraddle(w, data)
    BY <1>2 DEF WriteNative
  <2>1. CASE w.err # "ok"
    <3>1. WriteNativeStraddle(w, data) = w /\ FlagError(w, "io") = w /\ "io" \in Errors
      BY <2>1 DEF WriteNativeStraddle, FlagError, Errors
    <3>2. Puts(w, FlagError(w, "io"), data)
      BY <3>1, ErrorPuts
    <3>. QED  BY <2>0, <3>1, <3>2
  <2>2. CASE w.err = "ok" /\ ~flush
    <3>1. WriteNativeStraddle(w, data) = FlagError(w, "too_big") /\ "too_big" \in Errors
      BY <2>2 DEF WriteNativeStraddle, Errors
    <3>. QED  BY <2>0, <3>1, ErrorPuts
  <2>3. CASE w.err = "ok" /\ flush
    <3>. DEFINE f == FlushUnchecked(w)
    <3>1. Puts(w, f, <<>>) /\ f.buf = <<>>
      BY <2>3, FlushPuts
    <3>2. Inside(f) /\ Left(f) = size
      BY <3>1 DEF Puts, Left
    <3>3. WriteNativeStraddle(w, data) =
            CASE f.err # "ok"                              -> f
              [] f.err = "ok" /\ Len(data) > Left(f)  -> CallFlush(f, data)
              [] f.err = "ok" /\ Len(data) <= Left(f) -> Store(f, data)
      BY <2>3 DEF WriteNativeStraddle
    <3>. HIDE DEF f
    <3>4. CASE f.err # "ok"
      <4>1. WriteNativeStraddle(w, data) = f /\ FlagError(f, "io") = f /\ "io" \in Errors
        BY <3>3, <3>4 DEF FlagError, Errors
      <4>2. Puts(f, f, data)
        BY <3>2, <4>1, ErrorPuts
      <4>. QED  BY <2>0, <3>1, <4>1, <4>2, PutsAfter
    <3>5. CASE f.err = "ok" /\ Len(data) > Left(f)
      <4>1. WriteNativeStraddle(w, data) = CallFlush(f, data)
        BY <3>2, <3>3, <3>5
      <4>2. Puts(f, CallFlush(f, data), data)
        BY <2>3, <3>1, <3>2, <3>5, CallFlushPuts
      <4>. QED  BY <2>0, <3>1, <4>1, <4>2, PutsAfter
    <3>6. CASE f.err = "ok" /\ Len(data) <= Left(f)
      <4>1. WriteNativeStraddle(w, data) = Store(f, data) /\ Left(f) >= Len(data)
        BY <3>2, <3>3, <3>6
      <4>2. Puts(f, Store(f, data), data)
        BY <3>2, <4>1, StorePuts
      <4>. QED  BY <2>0, <3>1, <4>1, <4>2, PutsAfter
    <3>. QED  BY <3>2, <3>4, <3>5, <3>6
  <2>. QED  BY <2>1, <2>2, <2>3
<1>. QED  BY <1>1, <1>2

(* The bytes a call asks for: those of the elements.                        *)
Items == [tag : AllTags \cup {Tag("missing", <<>>)}, data : Seq(Byte)]

(* An encoding consists of bytes.                                           *)
LEMMA EncodesBytes ==
  ASSUME NEW t \in AllTags
  PROVE  Encode(t) \in Seq(Byte)
<1>. DEFINE e == Encode(t)
<1>1. Spells(e, t) /\ <<>> \in Seq(Byte)
  BY EncodeSpells
<1>. HIDE DEF e
<1>2. e \in Seq(Byte)
  BY <1>1, ParsesSpelling
<1>. QED  BY <1>2 DEF e

(* A word is a sequence of bytes.                                           *)
LEMMA WordIsSeq ==
  \A m \in Nat : \A w \in WordOf(m) : w \in Seq(Byte) /\ Len(w) = m
BY DEF WordOf, Byte

(* A length is a word of four bytes.                                        *)
LEMMA LengthIsWord ==
  ASSUME NEW n \in Nat
  PROVE  Word(n, 4) \in WordOf(4) /\ Unsigned(Word(n, 4), 4) = Word(n, 4)
<1>. DEFINE w == Word(n, 4)
<1>1. ASSUME NEW i \in 1..4
      PROVE  (IF 4 - i < 4 THEN (n \div 256^(4 - i)) % 256 ELSE IF n < 0 THEN 255 ELSE 0) \in 0..255
  <2>. DEFINE pow(k) == 256^k
  <2>1. pow(0) \in Nat \ {0} /\ pow(1) \in Nat \ {0} /\ pow(2) \in Nat \ {0} /\ pow(3) \in Nat \ {0}
    OBVIOUS
  <2>. HIDE DEF pow
  <2>2. 4 - i \in 0..3 /\ \A k \in 0..3 : k = 0 \/ k = 1 \/ k = 2 \/ k = 3
    OBVIOUS
  <2>3. pow(4 - i) \in Nat \ {0}
    BY <2>1, <2>2
  <2>4. \A p \in Nat \ {0} : (n \div p) % 256 \in 0..255
    OBVIOUS
  <2>5. (n \div pow(4 - i)) % 256 \in 0..255
    BY <2>3, <2>4
  <2>. QED  BY <2>2, <2>5 DEF pow
<1>2. w \in WordOf(4)
  BY <1>1 DEF Word, WordOf
<1>. HIDE DEF w
<1>3. w \in Seq(Byte) /\ Len(w) = 4
  BY <1>2, WordIsSeq
<1>4. Unsigned(w, 4) = <<>> \o w
  BY <1>3 DEF Unsigned
<1>5. <<>> \o w = w
  BY <1>3, ConcatEmptySeq
<1>. QED  BY <1>2, <1>4, <1>5 DEF w

(* The first bytes of strings and of binary data.                           *)
LEMMA Heads ==
  ASSUME NEW n \in Nat
  PROVE  /\ Str(Word(n, 4)) \in AllTags /\ Encode(Str(Word(n, 4))) = EncodeStr(Word(n, 4))
         /\ Bin(Word(n, 4)) \in AllTags /\ Encode(Bin(Word(n, 4))) = EncodeBin(Word(n, 4))
         /\ EncodeStr(Word(n, 4)) \in Seq(Byte) /\ EncodeBin(Word(n, 4)) \in Seq(Byte)
<1>. DEFINE w == Word(n, 4)
<1>1. w \in WordOf(4) /\ Unsigned(w, 4) = w
  BY LengthIsWord
<1>. HIDE DEF w
<1>2. Str(w) = Tag("str", w) /\ Bin(w) = Tag("bin", w)
  BY <1>1 DEF Str, Bin
<1>3. Tag("str", w) \in AllTags /\ Tag("bin", w) \in AllTags
  BY <1>1 DEF AllTags, Tag
<1>4. Encode(Tag("str", w)) = EncodeStr(w) /\ Encode(Tag("bin", w)) = EncodeBin(w)
  BY DEF Encode, Tag
<1>5. Encode(Tag("str", w)) \in Seq(Byte) /\ Encode(Tag("bin", w)) \in Seq(Byte)
  BY <1>3, EncodesBytes
<1>. QED  BY <1>2, <1>3, <1>4, <1>5 DEF w

(* mpack_write_str writes the same either way.                              *)
LEMMA StrPuts ==
  ASSUME size \in Nat, NEW w, Inside(w), NEW data \in Seq(Byte)
  PROVE  Puts(w, WriteStr(w, data), EncodeStr(Word(Len(data), 4)) \o data)
<1>. DEFINE head == EncodeStr(Word(Len(data), 4))
            v == WriteEncoded(w, head)
<1>1. head \in Seq(Byte) /\ w \in WriterStates
  BY Heads DEF Inside
<1>2. WriteStr(w, data) \in {WriteEncoded(w, head \o data), WriteNative(v, data)}
  BY DEF WriteStr
<1>. HIDE DEF head
<1>3. head \o data \in Seq(Byte)
  BY <1>1, ConcatProperties
<1>4. Puts(w, WriteEncoded(w, head \o data), head \o data)
  BY <1>3, EncodedPuts
<1>5. Puts(w, v, head)
  BY <1>1, EncodedPuts
<1>. HIDE DEF v
<1>6. Puts(v, WriteNative(v, data), data)
  BY <1>5, NativePuts DEF Puts
<1>7. Puts(w, WriteNative(v, data), head \o data)
  BY <1>1, <1>5, <1>6, PutsTwice
<1>. QED  BY <1>2, <1>4, <1>7 DEF head, v

-----------------------------------------------------------------------------
(* The inductive invariant: bytes inside the buffer, and no flush without a *)
(* flush function.                                                          *)
BufferInv ==
    /\ size \in Nat /\ flush \in BOOLEAN /\ open \in BOOLEAN
    /\ buf \in Seq(Byte) /\ out \in Seq(Byte) /\ err \in {"ok"} \cup Errors
    /\ Len(buf) <= size
    /\ ~flush => out = <<>>
    /\ asked \in Seq(Items)

(* The bytes of the element a step asks for, none if it asks for none.      *)
AskedNow == IF asked' = asked THEN <<>> ELSE Bytes(asked'[Len(asked')])

(* A call adds the bytes of its element to the message and nothing else, or *)
(* reports an error, which stays; and whatever has been flushed continues   *)
(* the message in order.                                                    *)
MessageGrows ==
    /\ err' = "ok" => Written' = Written \o AskedNow
    /\ err # "ok" => err' = err /\ out' = out
    /\ IsPrefix(out', Written \o AskedNow)

(* A sequence is a prefix of any that continues it.                         *)
LEMMA BeginningIsPrefix ==
  ASSUME NEW s \in Seq(Byte), NEW rest \in Seq(Byte)
  PROVE  IsPrefix(s, s \o rest)
BY ConcatProperties DEF IsPrefix

(* What an element's bytes are.                                             *)
LEMMA BytesOfItems ==
  /\ \A t \in AllTags : Item(t, <<>>) \in Items /\ Bytes(Item(t, <<>>)) = Encode(t)
                        /\ Encode(t) \in Seq(Byte)
  /\ Item(Tag("missing", <<>>), <<>>) \in Items /\ Bytes(Item(Tag("missing", <<>>), <<>>)) = <<>>
  /\ \A d \in Seq(Byte) :
        /\ Item(Str(Word(Len(d), 4)), d) \in Items /\ Item(Bin(Word(Len(d), 4)), d) \in Items
        /\ Bytes(Item(Str(Word(Len(d), 4)), d)) = EncodeStr(Word(Len(d), 4)) \o d
        /\ Bytes(Item(Bin(Word(Len(d), 4)), d)) = EncodeBin(Word(Len(d), 4)) \o d
<1>. <<>> \in Seq(Byte)
  OBVIOUS
<1>1. ASSUME NEW t \in AllTags, NEW d \in Seq(Byte)
      PROVE  /\ Item(t, d) \in Items /\ Bytes(Item(t, d)) = Encode(t) \o d
             /\ Encode(t) \in Seq(Byte) /\ Encode(t) \o <<>> = Encode(t)
  <2>1. Encode(t) \in Seq(Byte)
    BY EncodesBytes
  <2>2. t.type # "missing"
    BY DEF AllTags, Nil, Bool, Tag
  <2>3. Item(t, d) \in Items /\ Item(t, d).tag = t /\ Item(t, d).data = d
    BY DEF Items, Item
  <2>4. Encode(t) \o <<>> = Encode(t)
    BY <2>1, ConcatEmptySeq
  <2>5. Bytes(Item(t, d)) = Encode(t) \o d
    BY <2>2, <2>3 DEF Bytes
  <2>. QED  BY <2>1, <2>3, <2>4, <2>5
<1>2. Item(Tag("missing", <<>>), <<>>) \in Items /\ Bytes(Item(Tag("missing", <<>>), <<>>)) = <<>>
  <2>1. <<>> \o <<>> = <<>>
    BY ConcatEmptySeq
  <2>. QED  BY <2>1 DEF Items, Item, Bytes, Tag
<1>3. ASSUME NEW d \in Seq(Byte)
      PROVE  /\ Item(Str(Word(Len(d), 4)), d) \in Items /\ Item(Bin(Word(Len(d), 4)), d) \in Items
             /\ Bytes(Item(Str(Word(Len(d), 4)), d)) = EncodeStr(Word(Len(d), 4)) \o d
             /\ Bytes(Item(Bin(Word(Len(d), 4)), d)) = EncodeBin(Word(Len(d), 4)) \o d
  <2>1. Len(d) \in Nat
    OBVIOUS
  <2>2. /\ Str(Word(Len(d), 4)) \in AllTags /\ Encode(Str(Word(Len(d), 4))) = EncodeStr(Word(Len(d), 4))
        /\ Bin(Word(Len(d), 4)) \in AllTags /\ Encode(Bin(Word(Len(d), 4))) = EncodeBin(Word(Len(d), 4))
    BY <2>1, Heads
  <2>. QED  BY <1>1, <2>2, Zenon
<1>. QED  BY <1>1, <1>2, <1>3

(* A step that writes.                                                      *)
LEMMA WriteGrows ==
  ASSUME BufferInv, open, NEW luck \in Int, NEW v, NEW item \in Items, Bytes(item) \in Seq(Byte),
         Puts(Writer(luck), v, Bytes(item)), Becomes(v), Asks(item)
  PROVE  BufferInv' /\ MessageGrows
<1>1. Writer(luck) \in WriterStates /\ Held(Writer(luck)) = Written
  BY DEF BufferInv, Writer, WriterStates, Written, Held
<1>2. v \in WriterStates /\ Len(v.buf) <= size /\ (~flush => v.out = <<>>)
  BY DEF Puts, Inside
<1>3. /\ buf' \in Seq(Byte) /\ out' \in Seq(Byte) /\ err' \in {"ok"} \cup Errors
      /\ Len(buf') <= size /\ (~flush => out' = <<>>)
      /\ size' = size /\ flush' = flush /\ open' = open
  BY <1>2 DEF WriterStates, Becomes, Asks
<1>4. /\ asked' \in Seq(Items) /\ asked' # asked /\ asked'[Len(asked')] = item
  <2>1. asked \in Seq(Items) /\ asked' = Append(asked, item)
    BY DEF BufferInv, Asks
  <2>2. /\ asked' \in Seq(Items) /\ Len(asked') = Len(asked) + 1 /\ asked'[Len(asked) + 1] = item
        /\ Len(asked) \in Nat
    BY <2>1, AppendProperties
  <2>. QED  BY <2>2
<1>5. AskedNow = Bytes(item)
  BY <1>4 DEF AskedNow
<1>6. BufferInv'
  BY <1>3, <1>4 DEF BufferInv
<1>7. err' = "ok" => Written' = Written \o AskedNow
  BY <1>1, <1>3, <1>5 DEF Puts, Becomes, Held, Written
<1>8. err # "ok" => err' = err /\ out' = out
  BY DEF Puts, Becomes, Writer
<1>9. IsPrefix(out', Written \o AskedNow)
  <2>1. PICK rest \in Seq(Byte) : Written \o AskedNow = out' \o rest
    BY <1>1, <1>5 DEF Puts, Becomes
  <2>. QED  BY <1>3, <2>1, BeginningIsPrefix
<1>. QED  BY <1>6, <1>7, <1>8, <1>9 DEF MessageGrows

(* A step that moves bytes or none.                                         *)
LEMMA FlushGrows ==
  ASSUME BufferInv, open, NEW luck \in Int, NEW v,
         Puts(Writer(luck), v, <<>>), Becomes(v), UNCHANGED <<size, flush, open, asked>>
  PROVE  BufferInv' /\ MessageGrows
<1>1. Writer(luck) \in WriterStates /\ Held(Writer(luck)) = Written
  BY DEF BufferInv, Writer, WriterStates, Written, Held
<1>2. v \in WriterStates /\ Len(v.buf) <= size /\ (~flush => v.out = <<>>)
  BY DEF Puts, Inside
<1>3. /\ buf' \in Seq(Byte) /\ out' \in Seq(Byte) /\ err' \in {"ok"} \cup Errors
      /\ Len(buf') <= size /\ (~flush => out' = <<>>)
  BY <1>2 DEF WriterStates, Becomes
<1>4. AskedNow = <<>>
  BY DEF AskedNow
<1>5. BufferInv'
  BY <1>3 DEF BufferInv
<1>6. err' = "ok" => Written' = Written \o AskedNow
  BY <1>1, <1>4 DEF Puts, Becomes, Held, Written
<1>7. err # "ok" => err' = err /\ out' = out
  BY DEF Puts, Becomes, Writer
<1>8. IsPrefix(out', Written \o AskedNow)
  <2>1. PICK rest \in Seq(Byte) : Written \o AskedNow = out' \o rest
    BY <1>1, <1>4 DEF Puts, Becomes
  <2>. QED  BY <1>3, <2>1, BeginningIsPrefix
<1>. QED  BY <1>5, <1>6, <1>7, <1>8 DEF MessageGrows

(* A text in two halves is the text.                                        *)
LEMMA Halves ==
  ASSUME NEW d \in Seq(Byte), NEW half \in 0..Len(d)
  PROVE  /\ SubSeq(d, 1, half) \in Seq(Byte) /\ SubSeq(d, half + 1, Len(d)) \in Seq(Byte)
         /\ SubSeq(d, 1, half) \o SubSeq(d, half + 1, Len(d)) = d
<1>. DEFINE a == SubSeq(d, 1, half)
            b == SubSeq(d, half + 1, Len(d))
<1>0. Len(d) \in Nat
  OBVIOUS
<1>1. a \in Seq(Byte) /\ Len(a) = half /\ \A i \in 1..half : a[i] = d[i]
  BY <1>0
<1>2. b \in Seq(Byte) /\ Len(b) = Len(d) - half /\ \A i \in 1..Len(d) - half : b[i] = d[half + i]
  BY <1>0
<1>. HIDE DEF a, b
<1>3. /\ a \o b \in Seq(Byte) /\ Len(a \o b) = Len(a) + Len(b)
       /\ \A i \in 1..Len(a) + Len(b) : (a \o b)[i] = IF i <= Len(a) THEN a[i] ELSE b[i - Len(a)]
  BY <1>1, <1>2, ConcatProperties
<1>4. Len(a) + Len(b) = Len(d)
  BY <1>0, <1>1, <1>2
<1>5. a \o b \in Seq(Byte) /\ Len(a \o b) = Len(d)
  BY <1>3, <1>4
<1>6. ASSUME NEW i \in 1..Len(d) PROVE (a \o b)[i] = d[i]
  <2>1. (a \o b)[i] = IF i <= half THEN a[i] ELSE b[i - half]
    <3>1. i \in 1..Len(a) + Len(b) /\ Len(a) = half
      BY <1>1, <1>4
    <3>. QED  BY <1>3, <3>1, Zenon
  <2>2. CASE i <= half
    BY <1>0, <1>1, <2>1, <2>2
  <2>3. CASE ~(i <= half)
    <3>1. i - half \in 1..Len(d) - half /\ half + (i - half) = i
      BY <1>0, <2>3
    <3>. QED  BY <1>2, <2>1, <2>3, <3>1
  <2>. QED  BY <2>2, <2>3
<1>7. a \o b = d
  BY <1>5, <1>6, SeqEqual
<1>. QED  BY <1>1, <1>2, <1>7 DEF a, b

(* A step that changes nothing.                                             *)
LEMMA UnchangedGrows ==
  ASSUME BufferInv, UNCHANGED writerVars
  PROVE  BufferInv' /\ MessageGrows
<1>1. /\ size' = size /\ flush' = flush /\ buf' = buf /\ out' = out
      /\ err' = err /\ open' = open /\ asked' = asked
  BY DEF writerVars
<1>2. out \in Seq(Byte) /\ buf \in Seq(Byte) /\ <<>> \in Seq(Byte) /\ (~flush => out = <<>>)
  BY DEF BufferInv
<1>3. out \o <<>> = out /\ <<>> \o buf = buf /\ out \o buf \in Seq(Byte)
  BY <1>2, ConcatEmptySeq, ConcatProperties
<1>4. Written \in Seq(Byte) /\ Written \in {out \o buf, out \o <<>>}
  BY <1>2, <1>3 DEF Written
<1>5. Written \o <<>> = Written
  BY <1>4, ConcatEmptySeq
<1>6. IsPrefix(out, Written)
  BY <1>2, <1>4, BeginningIsPrefix
<1>. QED  BY <1>1, <1>5, <1>6 DEF BufferInv, MessageGrows, AskedNow, Written

(* mpack_writer_destroy leaves the message where it is looked for.          *)
LEMMA DestroyGrows ==
  ASSUME BufferInv, NEW luck \in Int, Destroy(luck)
  PROVE  BufferInv' /\ MessageGrows
<1>1. /\ open /\ open' = FALSE /\ size' = size /\ flush' = flush /\ asked' = asked
      /\ out \in Seq(Byte) /\ buf \in Seq(Byte) /\ <<>> \in Seq(Byte) /\ (~flush => out = <<>>)
  BY DEF BufferInv, Destroy
<1>2. /\ out \o buf \in Seq(Byte) /\ out \o <<>> = out /\ <<>> \o buf = buf
      /\ (out \o buf) \o <<>> = out \o buf
  BY <1>1, ConcatEmptySeq, ConcatProperties
<1>3. Written = out \o buf /\ AskedNow = <<>>
  BY <1>1 DEF Written, AskedNow
<1>4. IsPrefix(out, out \o buf) /\ IsPrefix(out \o buf, out \o buf)
  BY <1>1, <1>2, BeginningIsPrefix
<1>5. CASE err = "ok" /\ buf # <<>> /\ flush /\ luck # 0
  <2>1. out' = out \o buf /\ buf' = buf /\ err' = "ok"
    BY <1>5 DEF Destroy, Becomes, CallFlush, Writer
  <2>2. BufferInv'
    <3>1. /\ size \in Nat /\ flush \in BOOLEAN /\ Len(buf) <= size /\ asked \in Seq(Items)
          /\ err' \in {"ok"} \cup Errors /\ out' \in Seq(Byte)
      BY <1>2, <2>1 DEF BufferInv
    <3>. QED  BY <1>1, <1>5, <2>1, <3>1 DEF BufferInv
  <2>. QED  BY <1>1, <1>2, <1>3, <1>4, <1>5, <2>1, <2>2 DEF MessageGrows, Written
<1>6. CASE err = "ok" /\ buf # <<>> /\ flush /\ luck = 0
  <2>1. out' = out /\ buf' = buf /\ err' = "io"
    BY <1>6 DEF Destroy, Becomes, CallFlush, Writer, FlagError
  <2>2. BufferInv'
    BY <1>1, <2>1 DEF BufferInv, Errors
  <2>. QED  BY <1>2, <1>3, <1>4, <1>6, <2>1, <2>2 DEF MessageGrows
<1>7. CASE ~(err = "ok" /\ buf # <<>> /\ flush)
  <2>1. out' = out /\ buf' = buf /\ err' = err
    BY <1>7 DEF Destroy
  <2>2. BufferInv'
    BY <1>1, <2>1 DEF BufferInv
  <2>3. err' = "ok" => Written' = Written \o AskedNow
    BY <1>1, <1>2, <1>3, <1>7, <2>1 DEF Written
  <2>. QED  BY <1>2, <1>3, <1>4, <2>1, <2>2, <2>3 DEF MessageGrows
<1>. QED  BY <1>5, <1>6, <1>7

(* Every step keeps the invariant and lets the message grow as it should.   *)
LEMMA WriterStep ==
  ASSUME WriterAssumption, BufferInv, [WriterNext]_writerVars
  PROVE  BufferInv' /\ MessageGrows
<1>. <<>> \in Seq(Byte) /\ size \in Nat
  BY DEF BufferInv
<1>13. Tags \subseteq AllTags /\ Texts \subseteq Seq(Byte)
  BY DEF WriterAssumption
<1>0. Inside(Writer(0)) /\ \A luck \in Luck : luck \in Int /\ Inside(Writer(luck))
  BY DEF BufferInv, Inside, Writer, WriterStates, Luck
<1>1. ASSUME NEW luck \in Luck, NEW t \in Tags, WriteTag(luck, t)
      PROVE  BufferInv' /\ MessageGrows
  <2>1. PICK v : v = WriteEncoded(Writer(luck), Encode(t))
    OBVIOUS
  <2>2. t \in AllTags /\ Item(t, <<>>) \in Items /\ Bytes(Item(t, <<>>)) = Encode(t) /\ Encode(t) \in Seq(Byte)
    BY <1>13, BytesOfItems
  <2>3. Puts(Writer(luck), v, Bytes(Item(t, <<>>)))
    BY <1>0, <2>1, <2>2, EncodedPuts
  <2>4. open /\ Becomes(v) /\ Asks(Item(t, <<>>))
    BY <1>1, <2>1 DEF WriteTag, CanWrite
  <2>. QED  BY <1>0, <2>2, <2>3, <2>4, WriteGrows
<1>2. ASSUME NEW luck \in Luck, NEW d \in Texts, WriteText(luck, d)
      PROVE  BufferInv' /\ MessageGrows
  <2>. DEFINE item == Item(Str(Word(Len(d), 4)), d)
  <2>1. PICK v : v = WriteStr(Writer(luck), d)
    OBVIOUS
  <2>2. d \in Seq(Byte) /\ item \in Items /\ Bytes(item) = EncodeStr(Word(Len(d), 4)) \o d
    BY <1>13, BytesOfItems
  <2>3. Bytes(item) \in Seq(Byte)
    <3>1. Len(d) \in Nat
      BY <2>2
    <3>2. EncodeStr(Word(Len(d), 4)) \in Seq(Byte)
      BY <3>1, Heads
    <3>. QED  BY <2>2, <3>2, ConcatProperties
  <2>4. Puts(Writer(luck), v, Bytes(item))
    BY <1>0, <2>1, <2>2, StrPuts
  <2>5. open /\ Becomes(v) /\ Asks(item)
    BY <1>2, <2>1 DEF WriteText, CanWrite
  <2>. QED  BY <1>0, <2>2, <2>3, <2>4, <2>5, WriteGrows
<1>3. ASSUME NEW luck \in Luck, NEW d \in Texts, WriteUtf8(luck, d)
      PROVE  BufferInv' /\ MessageGrows
  <2>. DEFINE item == Item(Str(Word(Len(d), 4)), d)
  <2>1. PICK v : v = IF Check(d, TRUE) THEN WriteStr(Writer(luck), d)
                     ELSE FlagError(Writer(luck), "invalid")
    OBVIOUS
  <2>2. d \in Seq(Byte) /\ item \in Items /\ Bytes(item) = EncodeStr(Word(Len(d), 4)) \o d
    BY <1>13, BytesOfItems
  <2>3. Bytes(item) \in Seq(Byte)
    <3>1. Len(d) \in Nat
      BY <2>2
    <3>2. EncodeStr(Word(Len(d), 4)) \in Seq(Byte)
      BY <3>1, Heads
    <3>. QED  BY <2>2, <3>2, ConcatProperties
  <2>4. Puts(Writer(luck), v, Bytes(item))
    <3>1. Puts(Writer(luck), WriteStr(Writer(luck), d), Bytes(item))
      BY <1>0, <2>2, StrPuts
    <3>2. "invalid" \in Errors
      BY DEF Errors
    <3>3. Puts(Writer(luck), FlagError(Writer(luck), "invalid"), Bytes(item))
      BY <1>0, <2>3, <3>2, ErrorPuts
    <3>. QED  BY <2>1, <3>1, <3>3
  <2>5. open /\ Becomes(v) /\ Asks(item)
    BY <1>3, <2>1 DEF WriteUtf8, CanWrite
  <2>. QED  BY <1>0, <2>2, <2>3, <2>4, <2>5, WriteGrows
<1>4. ASSUME NEW luck \in Luck, WriteNilForNoText(luck)
      PROVE  BufferInv' /\ MessageGrows
  <2>1. PICK v : v = WriteEncoded(Writer(luck), Encode(Nil))
    OBVIOUS
  <2>2. Nil \in AllTags
    BY DEF AllTags
  <2>3. Item(Nil, <<>>) \in Items /\ Bytes(Item(Nil, <<>>)) = Encode(Nil) /\ Encode(Nil) \in Seq(Byte)
    BY <2>2, BytesOfItems
  <2>4. Puts(Writer(luck), v, Bytes(Item(Nil, <<>>)))
    BY <1>0, <2>1, <2>3, EncodedPuts
  <2>5. open /\ Becomes(v) /\ Asks(Item(Nil, <<>>))
    BY <1>4, <2>1 DEF WriteNilForNoText, CanWrite
  <2>. QED  BY <1>0, <2>3, <2>4, <2>5, WriteGrows
<1>5. ASSUME NEW luck \in Luck, NEW d \in Texts, WriteBin(luck, d)
      PROVE  BufferInv' /\ MessageGrows
  <2>. DEFINE item == Item(Bin(Word(Len(d), 4)), d)
  <2>1. PICK h : h = WriteEncoded(Writer(luck), EncodeBin(Word(Len(d), 4)))
    OBVIOUS
  <2>2. PICK v : v = WriteNative(h, d)
    OBVIOUS
  <2>3. d \in Seq(Byte) /\ item \in Items /\ Bytes(item) = EncodeBin(Word(Len(d), 4)) \o d
    BY <1>13, BytesOfItems
  <2>4. EncodeBin(Word(Len(d), 4)) \in Seq(Byte)
    BY <2>3, Heads
  <2>5. Puts(Writer(luck), h, EncodeBin(Word(Len(d), 4)))
    BY <1>0, <2>1, <2>4, EncodedPuts
  <2>6. Puts(h, v, d)
    BY <2>2, <2>3, <2>5, NativePuts DEF Puts
  <2>7. Puts(Writer(luck), v, Bytes(item)) /\ Bytes(item) \in Seq(Byte)
    <3>1. Writer(luck) \in WriterStates
      BY <1>0 DEF Inside
    <3>. QED  BY <2>3, <2>4, <2>5, <2>6, <3>1, PutsTwice, ConcatProperties
  <2>8. open /\ Becomes(v) /\ Asks(item)
    BY <1>5, <2>1, <2>2 DEF WriteBin, WriteBytes, CanWrite
  <2>. QED  BY <1>0, <2>3, <2>7, <2>8, WriteGrows
<1>6. ASSUME NEW luck \in Luck, NEW d \in Texts, WritePieces(luck, d)
      PROVE  BufferInv' /\ MessageGrows
  <2>. DEFINE item == Item(Str(Word(Len(d), 4)), d)
              half == Len(d) \div 2
              a == SubSeq(d, 1, half)
              b == SubSeq(d, half + 1, Len(d))
              head == EncodeStr(Word(Len(d), 4))
  <2>1. PICK h : h = WriteEncoded(Writer(luck), head)
    OBVIOUS
  <2>2. PICK g : g = WriteNative(h, a)
    OBVIOUS
  <2>3. PICK v : v = WriteNative(g, b)
    OBVIOUS
  <2>4. d \in Seq(Byte) /\ item \in Items /\ Bytes(item) = head \o d
    BY <1>13, BytesOfItems
  <2>5. head \in Seq(Byte)
    BY <2>4, Heads
  <2>6. a \in Seq(Byte) /\ b \in Seq(Byte) /\ a \o b = d
    <3>1. half \in 0..Len(d)
      BY <2>4
    <3>. QED  BY <2>4, <3>1, Halves
  <2>7. open /\ Becomes(v) /\ Asks(item)
    BY <1>6, <2>1, <2>2, <2>3 DEF WritePieces, WriteBytes, CanWrite
  <2>. HIDE DEF item, half, a, b, head
  <2>8. Puts(Writer(luck), h, head)
    BY <1>0, <2>1, <2>5, EncodedPuts
  <2>9. Puts(h, g, a)
    BY <2>2, <2>6, <2>8, NativePuts DEF Puts
  <2>10. Puts(g, v, b)
    BY <2>3, <2>6, <2>9, NativePuts DEF Puts
  <2>11. Writer(luck) \in WriterStates /\ h \in WriterStates
    BY <1>0, <2>8 DEF Inside, Puts
  <2>12. Puts(h, v, d)
    BY <2>6, <2>9, <2>10, <2>11, PutsTwice
  <2>13. Puts(Writer(luck), v, head \o d) /\ head \o d \in Seq(Byte)
    BY <2>4, <2>5, <2>8, <2>11, <2>12, PutsTwice, ConcatProperties
  <2>. QED  BY <1>0, <2>4, <2>7, <2>13, WriteGrows
<1>7. ASSUME NEW luck \in Luck, NEW d \in Texts, WriteObject(luck, d)
      PROVE  BufferInv' /\ MessageGrows
  <2>. DEFINE item == Item(Str(Word(Len(d), 4)), d)
              bytes == EncodeStr(Word(Len(d), 4)) \o d
  <2>1. PICK v : v = WriteNative(Writer(luck), bytes)
    OBVIOUS
  <2>2. d \in Seq(Byte) /\ item \in Items /\ Bytes(item) = bytes
    BY <1>13, BytesOfItems
  <2>3. bytes \in Seq(Byte)
    BY <2>2, Heads, ConcatProperties
  <2>4. open /\ Becomes(v) /\ Asks(item)
    BY <1>7, <2>1 DEF WriteObject, CanWrite
  <2>. HIDE DEF item, bytes
  <2>5. Puts(Writer(luck), v, bytes)
    BY <1>0, <2>1, <2>3, NativePuts
  <2>. QED  BY <1>0, <2>2, <2>3, <2>4, <2>5, WriteGrows
<1>8. ASSUME NEW luck \in Luck, FlushMessage(luck)
      PROVE  BufferInv' /\ MessageGrows
  <2>1. open /\ err = "ok" /\ UNCHANGED <<size, flush, open, asked>>
    BY <1>8 DEF FlushMessage
  <2>2. CASE ~flush
    <3>1. PICK v : v = FlagError(Writer(luck), "bug")
      OBVIOUS
    <3>2. Becomes(v) /\ "bug" \in Errors
      BY <1>8, <2>2, <3>1 DEF FlushMessage, Errors
    <3>3. Puts(Writer(luck), v, <<>>)
      BY <1>0, <3>1, <3>2, ErrorPuts
    <3>. QED  BY <1>0, <2>1, <3>2, <3>3, FlushGrows
  <2>3. CASE flush /\ buf # <<>>
    <3>1. PICK v : v = FlushUnchecked(Writer(luck))
      OBVIOUS
    <3>2. Becomes(v)
      BY <1>8, <2>3, <3>1 DEF FlushMessage
    <3>3. Writer(luck).err = "ok"
      BY <2>1 DEF Writer
    <3>4. Puts(Writer(luck), v, <<>>)
      BY <1>0, <2>3, <3>1, <3>3, FlushPuts
    <3>. QED  BY <1>0, <2>1, <3>2, <3>4, FlushGrows
  <2>4. CASE flush /\ buf = <<>>
    <3>1. UNCHANGED writerVars
      BY <1>8, <2>1, <2>4 DEF FlushMessage, writerVars
    <3>. QED  BY <3>1, UnchangedGrows
  <2>. QED  BY <2>2, <2>3, <2>4 DEF BufferInv
<1>9. ASSUME NEW luck \in Luck, Destroy(luck)
      PROVE  BufferInv' /\ MessageGrows
  BY <1>9, DestroyGrows DEF Luck
<1>10. ASSUME WriteMissing
       PROVE  BufferInv' /\ MessageGrows
  <2>. DEFINE item == Item(Tag("missing", <<>>), <<>>)
  <2>1. PICK v : v = FlagError(Writer(0), "bug")
    OBVIOUS
  <2>2. item \in Items /\ Bytes(item) = <<>> /\ "bug" \in Errors
    BY BytesOfItems DEF Errors
  <2>3. open /\ Becomes(v) /\ Asks(item)
    BY <1>10, <2>1 DEF WriteMissing, CanWrite
  <2>. HIDE DEF item
  <2>4. Puts(Writer(0), v, <<>>)
    BY <1>0, <2>1, <2>2, ErrorPuts
  <2>5. 0 \in Int /\ Puts(Writer(0), v, Bytes(item)) /\ Bytes(item) \in Seq(Byte)
    BY <2>2, <2>4
  <2>. QED  BY <2>2, <2>3, <2>5, WriteGrows
<1>11. ASSUME SetFlush
       PROVE  BufferInv' /\ MessageGrows
  <2>1. CASE size < MinimumSize
    <3>1. PICK v : v = FlagError(Writer(0), "bug")
      OBVIOUS
    <3>2. open /\ Becomes(v) /\ UNCHANGED <<size, flush, open, asked>> /\ "bug" \in Errors
      BY <1>11, <2>1, <3>1 DEF SetFlush, Errors
    <3>3. Puts(Writer(0), v, <<>>)
      BY <1>0, <3>1, <3>2, ErrorPuts
    <3>. QED  BY <3>2, <3>3, FlushGrows
  <2>2. CASE ~(size < MinimumSize)
    <3>1. flush' = TRUE /\ UNCHANGED <<size, buf, out, err, open, asked>> /\ open
      BY <1>11, <2>2 DEF SetFlush
    <3>2. BufferInv'
      BY <3>1 DEF BufferInv
    <3>3. Written \in Seq(Byte) /\ Written \o <<>> = Written /\ Written = out \o buf
      BY <3>1, ConcatProperties, ConcatEmptySeq DEF Written, BufferInv
    <3>4. IsPrefix(out, Written)
      BY <3>3, BeginningIsPrefix DEF BufferInv
    <3>. QED  BY <3>1, <3>2, <3>3, <3>4 DEF MessageGrows, AskedNow, Written
  <2>. QED  BY <2>1, <2>2
<1>12. ASSUME UNCHANGED writerVars
       PROVE  BufferInv' /\ MessageGrows
  BY <1>12, UnchangedGrows
<1>. QED  BY <1>1, <1>2, <1>3, <1>4, <1>5, <1>6, <1>7, <1>8, <1>9, <1>10, <1>11, <1>12 DEF WriterNext

(* Every call keeps the invariant, with any outcome of its flushes.          *)
THEOREM BufferInvariant ==
  ASSUME WriterAssumption
  PROVE  WriterSpec => []BufferInv
<1>1. WriterInit => BufferInv
  <2>1. <<>> \in Seq(Byte) /\ <<>> \in Seq(Items) /\ Len(<<>>) = 0
    OBVIOUS
  <2>2. ASSUME WriterInit
        PROVE  BufferInv
    <3>1. /\ size \in Nat /\ flush = FALSE /\ open = TRUE
          /\ buf = <<>> /\ out = <<>> /\ err = "ok" /\ asked = <<>>
      BY <2>2 DEF WriterInit, WriterAssumption
    <3>2. flush \in BOOLEAN /\ open \in BOOLEAN /\ err \in {"ok"} \cup Errors
      BY <3>1
    <3>3. Len(buf) <= size
      BY <2>1, <3>1
    <3>4. buf \in Seq(Byte) /\ out \in Seq(Byte) /\ asked \in Seq(Items)
      BY <2>1, <3>1, Zenon
    <3>. QED  BY <3>1, <3>2, <3>3, <3>4 DEF BufferInv
  <2>. QED  BY <2>2
<1>2. BufferInv /\ [WriterNext]_writerVars => BufferInv'
  BY WriterStep
<1>. QED  BY <1>1, <1>2, PTL DEF WriterSpec

(* Whatever is written, however long and whatever has failed before, no     *)
(* call stores a byte behind the end of the buffer.                         *)
THEOREM WriterStaysInside ==
  ASSUME WriterAssumption
  PROVE  WriterSpec => []InsideBuffer
<1>1. BufferInv => InsideBuffer
  BY DEF BufferInv, InsideBuffer
<1>. QED  BY <1>1, BufferInvariant, PTL

(* Each call adds to the message exactly the bytes of the element it was    *)
(* asked to write, over any number of flushes, or reports an error; and     *)
(* what the flush function has been given is always a beginning of it.      *)
THEOREM MessageGrowsByElements ==
  ASSUME WriterAssumption
  PROVE  WriterSpec => [][MessageGrows]_writerVars
<1>1. BufferInv /\ [WriterNext]_writerVars => [MessageGrows]_writerVars
  BY WriterStep
<1>. QED  BY <1>1, BufferInvariant, PTL DEF WriterSpec
-----------------------------------------------------------------------------
(* The number in a word of four bytes.                                       *)
LEMMA NumberOfWord ==
  ASSUME NEW w \in WordOf(4)
  PROVE  Number(w) \in Nat /\ Number(w) = 256 * (256 * (256 * w[1] + w[2]) + w[3]) + w[4]
<1>. DEFINE step == [k \in 1..4 |-> [v \in Nat |-> 256 * v + w[k]]]
            Is(f) == f = [i \in 0..4 |-> IF i = 0 THEN 0 ELSE 256 * f[i - 1] + w[i]]
            sum == CHOOSE f : Is(f)
<1>1. Len(w) = 4 /\ \A k \in 1..4 : w[k] \in Nat
  BY DEF WordOf
<1>2. PICK f \in [0..4 -> Nat] : Follows(f, 4, 0, step)
  <2>1. step \in [1..4 -> [Nat -> Nat]] /\ 0 \in Nat /\ 4 \in Nat
    BY <1>1
  <2>. HIDE DEF step
  <2>. QED  BY <2>1, RecursiveFunction
<1>3. f[0] = 0 /\ \A i \in 0..3 : f[i + 1] = 256 * f[i] + w[i + 1]
  <2>1. f[0] = 0 /\ \A i \in 0..4 - 1 : f[i + 1] = step[i + 1][f[i]]
    BY <1>2 DEF Follows
  <2>2. ASSUME NEW i \in 0..3 PROVE f[i + 1] = 256 * f[i] + w[i + 1]
    <3>1. i + 1 \in 1..4 /\ i \in 0..4 - 1 /\ f[i] \in Nat
      OBVIOUS
    <3>. QED  BY <2>1, <3>1
  <2>. QED  BY <2>1, <2>2
<1>4. Is(f)
  <2>1. ASSUME NEW i \in 0..4 PROVE f[i] = IF i = 0 THEN 0 ELSE 256 * f[i - 1] + w[i]
    <3>1. CASE i = 0
      BY <1>3, <3>1
    <3>2. CASE i # 0
      <4>1. PICK j \in 0..3 : j = i - 1 /\ j + 1 = i
        BY <3>2
      <4>. QED  BY <1>3, <3>2, <4>1
    <3>. QED  BY <3>1, <3>2
  <2>. QED  BY <2>1
<1>5. Is(sum)
  <2>. HIDE DEF Is
  <2>. QED  BY <1>4
<1>6. Number(w) = sum[4]
  BY <1>1 DEF Number
<1>. HIDE DEF sum
<1>7. \A i \in 0..4 : sum[i] = IF i = 0 THEN 0 ELSE 256 * sum[i - 1] + w[i]
  BY <1>5
<1>8. /\ sum[0] = 0 /\ sum[1] = 256 * sum[0] + w[1] /\ sum[2] = 256 * sum[1] + w[2]
      /\ sum[3] = 256 * sum[2] + w[3] /\ sum[4] = 256 * sum[3] + w[4]
  <2>1. sum[0] = 0
    BY <1>7
  <2>2. \A i \in {1, 2, 3, 4} : sum[i] = 256 * sum[i - 1] + w[i]
    BY <1>7
  <2>3. 1 - 1 = 0 /\ 2 - 1 = 1 /\ 3 - 1 = 2 /\ 4 - 1 = 3
    OBVIOUS
  <2>. QED  BY <2>1, <2>2, <2>3
<1>9. sum[4] = 256 * (256 * (256 * w[1] + w[2]) + w[3]) + w[4]
  BY <1>1, <1>8
<1>. QED  BY <1>1, <1>6, <1>9

(* A number is its lowest byte and what is above it.                         *)
LEMMA LowestByte ==
  ASSUME NEW x \in Nat
  PROVE  \E q \in Nat, r \in 0..255 : q = x \div 256 /\ r = x % 256 /\ x = 256 * q + r
<1>1. x \div 256 \in Nat /\ x % 256 \in 0..255
  OBVIOUS
<1>2. x % 256 = x - 256 * (x \div 256)
  OBVIOUS
<1>. DEFINE Lowest(q, r) == q = x \div 256 /\ r = x % 256 /\ x = 256 * q + r
<1>3. Lowest(x \div 256, x % 256)
  BY <1>1, <1>2
<1>. HIDE DEF Lowest
<1>4. \E q \in Nat, r \in 0..255 : Lowest(q, r)
  BY <1>1, <1>3
<1>. QED  BY <1>4 DEF Lowest

(* A length that fits in four bytes is the number in its word.               *)
LEMMA NumberOfLength ==
  ASSUME NEW n \in Nat, CanCount(n)
  PROVE  Number(Word(n, 4)) = n
<1>. DEFINE w == Word(n, 4)
<1>1. w \in WordOf(4)
  BY LengthIsWord
<1>2. 256^3 = 16777216 /\ 256^2 = 65536 /\ 256^1 = 256 /\ 256^0 = 1
  OBVIOUS
<1>3. /\ w[1] = (n \div 16777216) % 256 /\ w[2] = (n \div 65536) % 256
      /\ w[3] = (n \div 256) % 256 /\ w[4] = n % 256
  <2>1. w[1] = (n \div 256^3) % 256 /\ w[2] = (n \div 256^2) % 256
        /\ w[3] = (n \div 256^1) % 256 /\ w[4] = (n \div 256^0) % 256
    BY DEF Word
  <2>2. n \div 1 = n
    OBVIOUS
  <2>. QED  BY <1>2, <2>1, <2>2
<1>. HIDE DEF w
<1>4. Number(w) = 256 * (256 * (256 * w[1] + w[2]) + w[3]) + w[4]
  BY <1>1, NumberOfWord
<1>5. PICK a \in Nat, d \in 0..255 : a = n \div 256 /\ d = n % 256 /\ n = 256 * a + d
  BY LowestByte
<1>6. PICK b \in Nat, e \in 0..255 : b = a \div 256 /\ e = a % 256 /\ a = 256 * b + e
  BY LowestByte
<1>7. PICK c \in Nat, f \in 0..255 : c = b \div 256 /\ f = b % 256 /\ b = 256 * c + f
  BY LowestByte
<1>8. n \div 65536 = b /\ n \div 16777216 = c
  <2>1. n \div 65536 = (n \div 256) \div 256
    OBVIOUS
  <2>2. n \div 16777216 = (n \div 65536) \div 256
    OBVIOUS
  <2>. QED  BY <1>5, <1>6, <1>7, <2>1, <2>2
<1>9. c \in 0..255
  <2>1. b < 65536
    BY <1>8 DEF CanCount
  <2>. QED  BY <1>7, <2>1
<1>10. c % 256 = c
  BY <1>9
<1>11. w[1] = c /\ w[2] = f /\ w[3] = e /\ w[4] = d
  BY <1>3, <1>5, <1>6, <1>7, <1>8, <1>10
<1>12. 256 * (256 * (256 * c + f) + e) + d = n
  BY <1>5, <1>6, <1>7
<1>13. Number(w) = n
  BY <1>4, <1>11, <1>12
<1>. QED  BY <1>13 DEF w

(* The bytes of elements, one piece each.                                   *)
Pieces(items) == [i \in DOMAIN items |-> Bytes(items[i])]

BytesAsked == FlattenSeq(Pieces(asked))

(* How many bytes follow a tag.                                             *)
Follow(t) == IF t.type \in {"str", "bin"} THEN Number(t.v) ELSE 0

(* A tag with the data that belongs to it.                                  *)
Complete(item) == item.tag \in AllTags /\ Len(item.data) = Follow(item.tag)

AreWhole(items) == \A i \in 1..Len(items) : Complete(items[i])

(* The inductive invariant of a message: unless an error is flagged it is   *)
(* what the elements asked for give, and these are whole; what was flushed  *)
(* is a beginning of that at any time.                                      *)
MessageInv ==
    /\ BufferInv
    /\ size \in Sizes
    /\ IsPrefix(out, BytesAsked)
    /\ err = "ok" => Written = BytesAsked /\ AreWhole(asked)

(* The bytes of an element are bytes.                                       *)
LEMMA ItemHasBytes ==
  ASSUME NEW item \in Items
  PROVE  Bytes(item) \in Seq(Byte)
<1>1. item.data \in Seq(Byte) /\ (item.tag \in AllTags \/ item.tag = Tag("missing", <<>>))
  BY DEF Items
<1>2. item.tag.type # "missing" => item.tag \in AllTags
  BY <1>1 DEF Tag
<1>3. <<>> \in Seq(Byte) /\ (item.tag.type # "missing" => Encode(item.tag) \in Seq(Byte))
  BY <1>2, EncodesBytes
<1>. QED  BY <1>1, <1>3, ConcatProperties DEF Bytes

(* The pieces of one element more are one piece more.                       *)
LEMMA PiecesAppend ==
  ASSUME NEW items \in Seq(Items), NEW item \in Items
  PROVE  /\ Pieces(items) \in Seq(Seq(Byte)) /\ Len(Pieces(items)) = Len(items)
         /\ Pieces(Append(items, item)) = Append(Pieces(items), Bytes(item))
         /\ FlattenSeq(Pieces(items)) \in Seq(Byte)
         /\ FlattenSeq(Pieces(Append(items, item))) = FlattenSeq(Pieces(items)) \o Bytes(item)
<1>1. \A i \in DOMAIN items : Bytes(items[i]) \in Seq(Byte)
  BY ItemHasBytes
<1>2. DOMAIN items = 1..Len(items) /\ Len(items) \in Nat
  OBVIOUS
<1>3. Pieces(items) \in Seq(Seq(Byte)) /\ Len(Pieces(items)) = Len(items)
  BY <1>1, <1>2 DEF Pieces
<1>4. Bytes(item) \in Seq(Byte)
  BY ItemHasBytes
<1>5. PICK more : more = Append(items, item)
  OBVIOUS
<1>6. /\ DOMAIN more = 1..Len(items) + 1 /\ more[Len(items) + 1] = item
      /\ \A i \in 1..Len(items) : more[i] = items[i]
  BY <1>2, <1>5
<1>7. Pieces(more) = Append(Pieces(items), Bytes(item))
  <2>1. PICK p : p = Pieces(items)
    OBVIOUS
  <2>2. p \in Seq(Seq(Byte)) /\ Len(p) = Len(items) /\ \A i \in 1..Len(items) : p[i] = Bytes(items[i])
    BY <1>2, <1>3, <2>1 DEF Pieces
  <2>3. PICK b : b = Bytes(item)
    OBVIOUS
  <2>4. PICK q : q = Append(p, b)
    OBVIOUS
  <2>5. /\ q \in Seq(Seq(Byte)) /\ Len(q) = Len(items) + 1 /\ q[Len(items) + 1] = b
        /\ \A i \in 1..Len(items) : q[i] = p[i]
    BY <1>2, <1>4, <2>2, <2>3, <2>4, AppendProperties
  <2>6. ASSUME NEW i \in 1..Len(items) + 1 PROVE q[i] = Bytes(more[i])
    <3>1. CASE i = Len(items) + 1
      BY <1>6, <2>3, <2>5, <3>1
    <3>2. CASE i \in 1..Len(items)
      BY <1>6, <2>2, <2>5, <3>2
    <3>. QED  BY <1>2, <3>1, <3>2
  <2>7. Pieces(more) = [i \in 1..Len(items) + 1 |-> Bytes(more[i])]
    BY <1>6 DEF Pieces
  <2>8. q = [i \in 1..Len(items) + 1 |-> Bytes(more[i])]
    BY <1>2, <2>5, <2>6
  <2>. QED  BY <2>1, <2>3, <2>4, <2>7, <2>8
<1>. QED  BY <1>3, <1>4, <1>5, <1>7, FlattenType, FlattenAppend

(* What an element that is asked for is like, if its bytes were written:     *)
(* there is no tag of a string or of binary data without its data.           *)
LEMMA TextsAreWhole ==
  ASSUME WriterAssumption
  PROVE  /\ \A t \in Tags : Complete(Item(t, <<>>))
         /\ Complete(Item(Nil, <<>>))
         /\ \A d \in Texts : Complete(Item(Str(Word(Len(d), 4)), d)) /\ Complete(Item(Bin(Word(Len(d), 4)), d))
<1>1. /\ Tags \subseteq AllTags /\ \A t \in Tags : t.type \notin {"str", "bin"}
      /\ Texts \subseteq Seq(Byte) /\ \A d \in Texts : CanCount(Len(d))
  BY DEF WriterAssumption
<1>2. \A t \in Tags : Complete(Item(t, <<>>))
  BY <1>1 DEF Complete, Item, Follow
<1>3. Complete(Item(Nil, <<>>))
  BY DEF Complete, Item, Follow, AllTags, Nil, Tag
<1>4. ASSUME NEW d \in Texts
      PROVE  Complete(Item(Str(Word(Len(d), 4)), d)) /\ Complete(Item(Bin(Word(Len(d), 4)), d))
  <2>1. PICK n \in Nat : n = Len(d)
    BY <1>1
  <2>2. PICK w : w = Word(n, 4)
    OBVIOUS
  <2>3. Str(w) \in AllTags /\ Bin(w) \in AllTags
    BY <2>1, <2>2, Heads
  <2>4. Unsigned(w, 4) = w
    BY <2>1, <2>2, LengthIsWord
  <2>5. Number(w) = n
    BY <1>1, <2>1, <2>2, NumberOfLength
  <2>. QED  BY <2>1, <2>2, <2>3, <2>4, <2>5 DEF Complete, Item, Follow, Str, Bin, Tag
<1>. QED  BY <1>2, <1>3, <1>4

(* A step asks for one element or none, and a whole one unless it fails.     *)
LEMMA AskedStep ==
  ASSUME WriterAssumption, BufferInv, [WriterNext]_writerVars
  PROVE  /\ size' = size
         /\ \/ asked' = asked
            \/ \E item \in Items : asked' = Append(asked, item) /\ (err' = "ok" => Complete(item))
<1>1. ASSUME NEW item, Asks(item), Complete(item), item \in Items
      PROVE  /\ size' = size
             /\ \E i \in Items : asked' = Append(asked, i) /\ (err' = "ok" => Complete(i))
  BY <1>1 DEF Asks
<1>2. Tags \subseteq AllTags /\ Texts \subseteq Seq(Byte)
  BY DEF WriterAssumption
<1>3. Nil \in AllTags
  BY DEF AllTags
<1>4. /\ \A t \in Tags : Item(t, <<>>) \in Items
      /\ Item(Nil, <<>>) \in Items /\ Item(Tag("missing", <<>>), <<>>) \in Items
      /\ \A d \in Texts : /\ Item(Str(Word(Len(d), 4)), d) \in Items
                          /\ Item(Bin(Word(Len(d), 4)), d) \in Items
  BY <1>2, <1>3, BytesOfItems
<1>5. ASSUME NEW luck \in Luck, NEW t \in Tags, WriteTag(luck, t)
      PROVE  \E item \in Items : Asks(item) /\ Complete(item)
  BY <1>4, <1>5, TextsAreWhole DEF WriteTag
<1>6. ASSUME NEW luck \in Luck, NEW d \in Texts,
             \/ WriteText(luck, d) \/ WriteUtf8(luck, d) \/ WriteBin(luck, d)
             \/ WritePieces(luck, d) \/ WriteObject(luck, d)
      PROVE  \E item \in Items : Asks(item) /\ Complete(item)
  <2>1. \/ Asks(Item(Str(Word(Len(d), 4)), d)) \/ Asks(Item(Bin(Word(Len(d), 4)), d))
    BY <1>6 DEF WriteText, WriteUtf8, WriteBin, WritePieces, WriteObject
  <2>. QED  BY <1>4, <2>1, TextsAreWhole
<1>7. ASSUME NEW luck \in Luck, WriteNilForNoText(luck)
      PROVE  \E item \in Items : Asks(item) /\ Complete(item)
  BY <1>4, <1>7, TextsAreWhole DEF WriteNilForNoText
<1>8. ASSUME NEW luck \in Luck, FlushMessage(luck) \/ Destroy(luck)
      PROVE  size' = size /\ asked' = asked
  BY <1>8 DEF FlushMessage, Destroy
<1>9. ASSUME WriteMissing
      PROVE  /\ size' = size
             /\ \E i \in Items : asked' = Append(asked, i) /\ err' # "ok"
  <2>1. err' # "ok"
    BY <1>9 DEF WriteMissing, Becomes, FlagError, Writer
  <2>2. size' = size /\ asked' = Append(asked, Item(Tag("missing", <<>>), <<>>))
    BY <1>9 DEF WriteMissing, Asks
  <2>. QED  BY <1>4, <2>1, <2>2
<1>10. ASSUME SetFlush PROVE size' = size /\ asked' = asked
  BY <1>10 DEF SetFlush
<1>11. ASSUME UNCHANGED writerVars PROVE size' = size /\ asked' = asked
  BY <1>11 DEF writerVars
<1>12. CASE WriterNext
  <2>1. \/ \E item \in Items : Asks(item) /\ Complete(item)
        \/ WriteMissing
        \/ size' = size /\ asked' = asked
    BY <1>5, <1>6, <1>7, <1>8, <1>10, <1>12 DEF WriterNext
  <2>. QED  BY <1>1, <1>9, <2>1
<1>. QED  BY <1>11, <1>12

(* A beginning of what stands at the front is a beginning of all.            *)
LEMMA BeginsLonger ==
  ASSUME NEW s \in Seq(Byte), NEW r \in Seq(Byte), NEW b \in Seq(Byte), IsPrefix(s, r)
  PROVE  IsPrefix(s, r \o b)
<1>1. Len(s) <= Len(r) /\ SubSeq(s, 1, Len(s)) = SubSeq(r, 1, Len(s))
  BY DEF IsPrefix
<1>2. PICK x : x = r \o b
  OBVIOUS
<1>3. x \in Seq(Byte) /\ Len(x) = Len(r) + Len(b) /\ \A i \in 1..Len(r) : x[i] = r[i]
  BY <1>2
<1>4. SubSeq(x, 1, Len(s)) = SubSeq(r, 1, Len(s))
  <2>1. Len(s) \in Nat /\ Len(s) <= Len(x) /\ Len(s) <= Len(r)
    BY <1>1, <1>3
  <2>2. \A i \in 1..Len(s) : x[i] = r[i]
    BY <1>3, <2>1
  <2>. QED  BY <1>3, <2>1, <2>2
<1>. QED  BY <1>1, <1>2, <1>3, <1>4 DEF IsPrefix

(* The message is what was asked for.                                        *)
LEMMA MessageStep ==
  ASSUME WriterAssumption, MessageInv, [WriterNext]_writerVars
  PROVE  MessageInv'
<1>1. BufferInv' /\ MessageGrows
  BY WriterStep DEF MessageInv
<1>2. /\ size' = size
      /\ \/ asked' = asked
         \/ \E item \in Items : asked' = Append(asked, item) /\ (err' = "ok" => Complete(item))
  BY AskedStep DEF MessageInv
<1>3. asked \in Seq(Items) /\ out \in Seq(Byte) /\ Written \in Seq(Byte)
  BY ConcatProperties DEF MessageInv, BufferInv, Written
<1>4. /\ err' = "ok" => err = "ok" /\ Written' = Written \o AskedNow
      /\ err # "ok" => out' = out
      /\ IsPrefix(out', Written \o AskedNow)
  BY <1>1 DEF MessageGrows
<1>5. err = "ok" => Written = BytesAsked /\ AreWhole(asked)
  BY DEF MessageInv
<1>6. IsPrefix(out, BytesAsked) /\ size \in Sizes
  BY DEF MessageInv
<1>7. CASE asked' = asked
  <2>1. AskedNow = <<>> /\ BytesAsked' = BytesAsked
    BY <1>7 DEF AskedNow, BytesAsked
  <2>2. Written \o <<>> = Written
    BY <1>3, ConcatEmptySeq
  <2>3. IsPrefix(out', BytesAsked')
    BY <1>4, <1>5, <1>6, <2>1, <2>2
  <2>4. err' = "ok" => Written' = BytesAsked' /\ AreWhole(asked')
    BY <1>4, <1>5, <1>7, <2>1, <2>2
  <2>. QED  BY <1>1, <1>2, <1>6, <2>3, <2>4 DEF MessageInv
<1>8. ASSUME NEW item \in Items, asked' = Append(asked, item), err' = "ok" => Complete(item)
      PROVE  MessageInv'
  <2>1. BytesAsked \in Seq(Byte) /\ BytesAsked' = BytesAsked \o Bytes(item) /\ Bytes(item) \in Seq(Byte)
    BY <1>3, <1>8, PiecesAppend, ItemHasBytes DEF BytesAsked
  <2>2. /\ Len(asked) \in Nat /\ Len(asked') = Len(asked) + 1 /\ asked'[Len(asked')] = item
        /\ \A i \in 1..Len(asked) : asked'[i] = asked[i]
    BY <1>3, <1>8
  <2>3. AskedNow = Bytes(item)
    BY <2>2 DEF AskedNow
  <2>4. IsPrefix(out, BytesAsked')
    BY <1>3, <1>6, <2>1, BeginsLonger
  <2>5. IsPrefix(out', BytesAsked')
    BY <1>4, <1>5, <2>1, <2>3, <2>4
  <2>6. err' = "ok" => Written' = BytesAsked' /\ AreWhole(asked')
    <3>. SUFFICES ASSUME err' = "ok" PROVE Written' = BytesAsked' /\ AreWhole(asked')
      OBVIOUS
    <3>1. Written' = BytesAsked'
      BY <1>4, <1>5, <2>1, <2>3
    <3>2. Complete(item) /\ AreWhole(asked)
      BY <1>4, <1>5, <1>8
    <3>3. ASSUME NEW i \in 1..Len(asked') PROVE Complete(asked'[i])
      <4>1. i \in 1..Len(asked) \/ i = Len(asked')
        BY <2>2
      <4>. QED  BY <2>2, <3>2, <4>1 DEF AreWhole
    <3>. QED  BY <3>1, <3>3 DEF AreWhole
  <2>. QED  BY <1>1, <1>2, <1>6, <2>5, <2>6 DEF MessageInv
<1>. QED  BY <1>2, <1>7, <1>8

(* Nothing has been asked for in the beginning.                              *)
THEOREM MessageInvariant ==
  ASSUME WriterAssumption
  PROVE  WriterSpec => []MessageInv
<1>1. WriterInit /\ BufferInv => MessageInv
  <2>. SUFFICES ASSUME WriterInit, BufferInv PROVE MessageInv
    OBVIOUS
  <2>1. size \in Sizes /\ buf = <<>> /\ out = <<>> /\ asked = <<>> /\ open
    BY DEF WriterInit
  <2>2. Pieces(<<>>) = <<>>
    BY DEF Pieces
  <2>3. BytesAsked = <<>>
    BY <2>1, <2>2, FlattenEmpty DEF BytesAsked
  <2>4. Written = <<>>
    BY <2>1, ConcatEmptySeq DEF Written
  <2>5. AreWhole(asked) /\ IsPrefix(out, BytesAsked)
    BY <2>1, <2>3 DEF AreWhole, IsPrefix
  <2>. QED  BY <2>1, <2>3, <2>4, <2>5 DEF MessageInv
<1>2. MessageInv /\ [WriterNext]_writerVars => MessageInv'
  BY MessageStep
<1>. QED  BY <1>1, <1>2, BufferInvariant, PTL DEF WriterSpec

-----------------------------------------------------------------------------
(* The number in a word of up to four bytes.                                 *)
LEMMA NumberIsNatural ==
  ASSUME NEW l \in Seq(Byte), Len(l) <= 4
  PROVE  Number(Unsigned(l, 4)) \in Nat
<1>1. PICK u \in WordOf(4) : u = Unsigned(l, 4)
  BY UnsignedBytes
<1>2. Number(u) = 256 * (256 * (256 * u[1] + u[2]) + u[3]) + u[4]
  BY NumberOfWord
<1>3. \A i \in 1..4 : u[i] \in 0..255
  BY DEF WordOf
<1>4. u[1] \in 0..255 /\ u[2] \in 0..255 /\ u[3] \in 0..255 /\ u[4] \in 0..255
  BY <1>3
<1>5. PICK a \in 0..255 : a = u[1]
  BY <1>4
<1>6. PICK c \in 0..255 : c = u[2]
  BY <1>4
<1>7. PICK d \in 0..255 : d = u[3]
  BY <1>4
<1>8. PICK e \in 0..255 : e = u[4]
  BY <1>4
<1>9. 256 * (256 * (256 * a + c) + d) + e \in Nat
  OBVIOUS
<1>10. 256 * (256 * (256 * u[1] + u[2]) + u[3]) + u[4] \in Nat
  BY <1>5, <1>6, <1>7, <1>8, <1>9, Zenon
<1>. QED  BY <1>1, <1>2, <1>10

(* Which tags of the table bring data: those with a word, and the short      *)
(* strings.                                                                  *)
LEMMA ReadsLength ==
  ASSUME NEW b \in Byte, NEW w, Refusal(b) = "ok"
  PROVE  \/ b \in 196..198 \cup 217..219 /\ ReadTag(b, w) \in {Bin(w), Str(w)}
         \/ \E c \in Byte : ReadTag(b, w) = Str(<<c>>)
         \/ ReadTag(b, w).type \notin {"str", "bin"}
<1>1. CASE b \in 196..198 \cup 217..219
  BY <1>1, ReadsWords
<1>2. CASE b \in 160..191
  <2>1. b % 32 \in Byte
    BY DEF Byte
  <2>2. ReadTag(b, w) = Str(<<b % 32>>)
    BY <1>2, ReadsBytes
  <2>. QED  BY <2>1, <2>2
<1>3. CASE b \in 0..127 \cup 204..207
  <2>1. CASE b \in 0..127
    <3>1. ReadTag(b, w) = UInt(<<b>>)
      BY <2>1, ReadsBytes
    <3>. QED  BY <3>1 DEF UInt, Tag
  <2>2. CASE b \in 204..207
    <3>1. ReadTag(b, w) = UInt(w)
      BY <2>2, ReadsWords
    <3>. QED  BY <3>1 DEF UInt, Tag
  <2>. QED  BY <1>3, <2>1, <2>2
<1>4. CASE b \in 224..255 \cup 208..211
  <2>1. CASE b \in 224..255
    <3>1. ReadTag(b, w) = SInt(<<b>>)
      BY <2>1, ReadsBytes
    <3>. QED  BY <3>1 DEF SInt, Tag
  <2>2. CASE b \in 208..211
    <3>1. ReadTag(b, w) = SInt(w)
      BY <2>2, ReadsWords
    <3>. QED  BY <3>1 DEF SInt, Tag
  <2>. QED  BY <1>4, <2>1, <2>2
<1>5. CASE b \in 128..143 \cup 222..223
  <2>1. CASE b \in 128..143
    <3>1. ReadTag(b, w) = Map(<<b % 16>>)
      BY <2>1, ReadsBytes
    <3>. QED  BY <3>1 DEF Map, Tag
  <2>2. CASE b \in 222..223
    <3>1. ReadTag(b, w) = Map(w)
      BY <2>2, ReadsWords
    <3>. QED  BY <3>1 DEF Map, Tag
  <2>. QED  BY <1>5, <2>1, <2>2
<1>6. CASE b \in 144..159 \cup 220..221
  <2>1. CASE b \in 144..159
    <3>1. ReadTag(b, w) = Array(<<b % 16>>)
      BY <2>1, ReadsBytes
    <3>. QED  BY <3>1 DEF Array, Tag
  <2>2. CASE b \in 220..221
    <3>1. ReadTag(b, w) = Array(w)
      BY <2>2, ReadsWords
    <3>. QED  BY <3>1 DEF Array, Tag
  <2>. QED  BY <1>6, <2>1, <2>2
<1>7. CASE b \in {192, 194, 195}
  <2>1. b = 192 => ReadTag(b, w) = Nil
    BY ReadsNothing, Zenon
  <2>2. b \in {194, 195} => ReadTag(b, w) = Bool(b % 2 = 1)
    BY ReadsBytes
  <2>. QED  BY <1>7, <2>1, <2>2 DEF Nil, Bool, Tag
<1>8. \/ b \in 196..198 \cup 217..219 \/ b \in 160..191 \/ b \in 0..127 \cup 204..207
      \/ b \in 224..255 \cup 208..211 \/ b \in 128..143 \cup 222..223
      \/ b \in 144..159 \cup 220..221 \/ b \in {192, 194, 195}
  BY DEF Byte, Refusal, Reserved, Extensions, Floats
<1>. QED  BY <1>1, <1>2, <1>3, <1>4, <1>5, <1>6, <1>7, <1>8

(* A word that the reader takes for a length is a number.                    *)
LEMMA LengthIsNumber ==
  ASSUME NEW b \in Byte, NEW w \in Seq(Byte), Len(w) = WordSize(b), Refusal(b) = "ok"
  PROVE  Follow(ReadTag(b, w)) \in Nat
<1>1. CASE b \in 196..198 \cup 217..219 /\ ReadTag(b, w) \in {Bin(w), Str(w)}
  <2>1. Len(w) <= 4
    BY <1>1 DEF WordSize
  <2>2. Number(Unsigned(w, 4)) \in Nat
    BY <2>1, NumberIsNatural
  <2>. QED  BY <1>1, <2>2 DEF Follow, Bin, Str, Tag
<1>2. ASSUME NEW c \in Byte, ReadTag(b, w) = Str(<<c>>)
      PROVE  Follow(ReadTag(b, w)) \in Nat
  <2>1. <<c>> \in Seq(Byte) /\ Len(<<c>>) <= 4
    OBVIOUS
  <2>2. Number(Unsigned(<<c>>, 4)) \in Nat
    BY <2>1, NumberIsNatural
  <2>. QED  BY <1>2, <2>2 DEF Follow, Str, Tag
<1>3. CASE ReadTag(b, w).type \notin {"str", "bin"}
  BY <1>3 DEF Follow
<1>. QED  BY <1>1, <1>2, <1>3, ReadsLength

-----------------------------------------------------------------------------
(* Decode, place by place: the tag at a place, the data behind it, and the   *)
(* place of the next one.                                                    *)
TagFrom(q, i) == ParseTag(SubSeq(q, i, i + TagSize(q[i]) - 1))
DataFrom(q, i) == SubSeq(q, i + TagSize(q[i]), i + TagSize(q[i]) + Follow(TagFrom(q, i)) - 1)
NextOf(q, i) == i + TagSize(q[i]) + Follow(TagFrom(q, i))

(* A tag begins at i, and it and its data are there.                         *)
ReadsAt(q, i) ==
    /\ Refusal(q[i]) = "ok"
    /\ i + TagSize(q[i]) - 1 <= Len(q)
    /\ NextOf(q, i) - 1 <= Len(q)

(* What is read from i on, if f says what is read from later places.         *)
Turn(q, f, i) ==
    IF i > Len(q) THEN <<>>
    ELSE IF Refusal(q[i]) # "ok" \/ i + TagSize(q[i]) - 1 > Len(q) THEN <<Lost>>
    ELSE IF i + TagSize(q[i]) + Follow(TagFrom(q, i)) - 1 > Len(q) THEN <<Lost>>
    ELSE <<Item(TagFrom(q, i), DataFrom(q, i))>> \o f[i + TagSize(q[i]) + Follow(TagFrom(q, i))]

DecodesFrom(f, q) ==
    /\ Decode(q) = f[1]
    /\ \A i \in 1..Len(q) + 1 : f[i] = Turn(q, f, i)

(* The length behind a tag that is there is a number.                        *)
LEMMA NextIsNumber ==
  ASSUME NEW q \in Seq(Byte), NEW i \in 1..Len(q), Refusal(q[i]) = "ok",
         i + TagSize(q[i]) - 1 <= Len(q)
  PROVE  TagSize(q[i]) \in Nat \ {0} /\ Follow(TagFrom(q, i)) \in Nat /\ NextOf(q, i) \in Nat
<1>1. PICK b \in Byte : b = q[i]
  OBVIOUS
<1>2. PICK n \in Nat : n = WordSize(b)
  BY DEF WordSize
<1>3. TagSize(q[i]) = 1 + n
  BY <1>1, <1>2 DEF TagSize
<1>4. i + n <= Len(q) /\ Len(q) \in Nat
  BY <1>3
<1>5. PICK t : t = SubSeq(q, i, i + n)
  OBVIOUS
<1>6. t \in Seq(Byte) /\ Len(t) = 1 + n /\ t[1] = b
  BY <1>1, <1>4, <1>5
<1>7. PICK w : w = SubSeq(t, 2, 1 + n)
  OBVIOUS
<1>8. w \in Seq(Byte) /\ Len(w) = n
  BY <1>6, <1>7
<1>9. i + TagSize(q[i]) - 1 = i + n
  BY <1>3
<1>10. TagFrom(q, i) = ReadTag(b, w)
  BY <1>3, <1>1, <1>5, <1>6, <1>7, <1>9 DEF TagFrom, ParseTag
<1>11. PICK k \in Nat : k = Follow(TagFrom(q, i))
  BY <1>1, <1>2, <1>8, <1>10, LengthIsNumber
<1>12. NextOf(q, i) = i + (1 + n) + k
  BY <1>3, <1>11 DEF NextOf
<1>. QED  BY <1>3, <1>11, <1>12

(* Its cases: the end, no tag, or a tag.                                     *)
LEMMA TurnIs ==
  ASSUME NEW q \in Seq(Byte), NEW f, NEW i \in 1..Len(q) + 1
  PROVE  /\ i > Len(q) => Turn(q, f, i) = <<>>
         /\ i \in 1..Len(q) /\ ~ReadsAt(q, i) => Turn(q, f, i) = <<Lost>>
         /\ i \in 1..Len(q) /\ ReadsAt(q, i)
               => Turn(q, f, i) = <<Item(TagFrom(q, i), DataFrom(q, i))>> \o f[NextOf(q, i)]
<1>1. PICK n : n = TagSize(q[i])
  OBVIOUS
<1>2. n \in Nat
  BY <1>1 DEF TagSize, WordSize
<1>3. CASE i > Len(q)
  <2>1. ~(i \in 1..Len(q))
    BY <1>3
  <2>. QED  BY <1>3, <2>1 DEF Turn
<1>4. CASE i \in 1..Len(q) /\ (Refusal(q[i]) # "ok" \/ ~(i + n - 1 <= Len(q)))
  <2>1. ~(i > Len(q)) /\ (Refusal(q[i]) # "ok" \/ i + n - 1 > Len(q))
    BY <1>2, <1>4
  <2>2. Turn(q, f, i) = <<Lost>>
    BY <1>1, <2>1 DEF Turn
  <2>3. ~ReadsAt(q, i)
    BY <1>1, <1>4 DEF ReadsAt
  <2>. QED  BY <2>1, <2>2, <2>3
<1>5. CASE i \in 1..Len(q) /\ Refusal(q[i]) = "ok" /\ i + n - 1 <= Len(q)
  <2>1. ~(i > Len(q)) /\ ~(i + n - 1 > Len(q)) /\ Refusal(q[i]) = "ok"
    BY <1>2, <1>5
  <2>2. PICK m : m = NextOf(q, i)
    OBVIOUS
  <2>3. PICK k \in Nat : k = Follow(TagFrom(q, i))
    BY <1>1, <1>5, NextIsNumber
  <2>4. m \in Nat /\ m = i + n + k /\ i + n + k - 1 = m - 1
    BY <1>1, <1>2, <2>2, <2>3 DEF NextOf
  <2>7. Turn(q, f, i) = IF i + n + k - 1 > Len(q) THEN <<Lost>>
                        ELSE <<Item(TagFrom(q, i), DataFrom(q, i))>> \o f[i + n + k]
    BY <1>1, <2>1, <2>3, Zenon DEF Turn
  <2>5. ReadsAt(q, i) <=> m - 1 <= Len(q)
    BY <1>1, <1>5, <2>2 DEF ReadsAt
  <2>6. m - 1 > Len(q) <=> ~(m - 1 <= Len(q))
    BY <2>4
  <2>. QED  BY <2>1, <2>2, <2>4, <2>5, <2>6, <2>7, Zenon
<1>. QED  BY <1>1, <1>3, <1>4, <1>5

(* The next tag is behind this one.                                          *)
LEMMA NextIsBehind ==
  ASSUME NEW q \in Seq(Byte), NEW i \in 1..Len(q), ReadsAt(q, i)
  PROVE  NextOf(q, i) \in i + 1..Len(q) + 1
<1>1. PICK n \in Nat \ {0}, k \in Nat : n = TagSize(q[i]) /\ k = Follow(TagFrom(q, i))
  BY NextIsNumber DEF ReadsAt
<1>2. NextOf(q, i) = i + n + k /\ NextOf(q, i) - 1 <= Len(q)
  BY <1>1 DEF NextOf, ReadsAt
<1>. QED  BY <1>2

(* Decode is the function that its definition describes.                     *)
LEMMA DecodeExists ==
  ASSUME NEW q \in Seq(Byte)
  PROVE  \E f : DecodesFrom(f, q)
<1>. DEFINE D == 1..Len(q) + 1
            X == {Lost} \cup {Item(TagFrom(q, i), DataFrom(q, i)) : i \in D}
            S == Seq(X)
            step == [i \in D |-> [f \in [D -> S] |-> Turn(q, f, i)]]
            rank == [i \in D |-> Len(q) + 1 - i]
            Is(c) == c = [i \in D |-> Turn(q, c, i)]
<1>1. Len(q) \in Nat /\ \A i \in D : i \in Nat /\ (i > Len(q) \/ i \in 1..Len(q))
  OBVIOUS
<1>2. Lost \in X /\ \A i \in D : Item(TagFrom(q, i), DataFrom(q, i)) \in X
  OBVIOUS
<1>3. ASSUME NEW i \in D, i \in 1..Len(q), ReadsAt(q, i)
      PROVE  NextOf(q, i) \in D /\ rank[NextOf(q, i)] < rank[i]
  <2>1. NextOf(q, i) \in i + 1..Len(q) + 1
    BY <1>3, NextIsBehind
  <2>2. PICK j : j = NextOf(q, i)
    OBVIOUS
  <2>. QED  BY <1>1, <2>1, <2>2
<1>. HIDE DEF X
<1>4. <<>> \in S /\ <<Lost>> \in S /\ S # {}
  <2>1. PICK x \in X : x = Lost
    BY <1>2
  <2>2. <<x>> \in Seq(X) /\ <<>> \in Seq(X)
    OBVIOUS
  <2>. QED  BY <2>1, <2>2, Zenon
<1>5. \A i \in D, r \in S : <<Item(TagFrom(q, i), DataFrom(q, i))>> \o r \in S
  <2>. SUFFICES ASSUME NEW i \in D, NEW r \in S PROVE <<Item(TagFrom(q, i), DataFrom(q, i))>> \o r \in S
    OBVIOUS
  <2>1. PICK x \in X : x = Item(TagFrom(q, i), DataFrom(q, i))
    BY <1>2
  <2>2. <<x>> \in Seq(X)
    OBVIOUS
  <2>. QED  BY <2>1, <2>2, ConcatProperties
<1>6. ASSUME NEW i \in D, NEW f \in [D -> S]
      PROVE  Turn(q, f, i) \in S
  <2>1. CASE i > Len(q)
    BY <1>4, <2>1, TurnIs
  <2>2. CASE i \in 1..Len(q) /\ ~ReadsAt(q, i)
    <3>1. Turn(q, f, i) = <<Lost>>
      BY <1>1, <2>2, TurnIs
    <3>. QED  BY <1>4, <3>1
  <2>3. CASE i \in 1..Len(q) /\ ReadsAt(q, i)
    <3>1. f[NextOf(q, i)] \in S
      BY <1>3, <2>3
    <3>2. Turn(q, f, i) = <<Item(TagFrom(q, i), DataFrom(q, i))>> \o f[NextOf(q, i)]
      BY <1>1, <2>3, TurnIs
    <3>. QED  BY <1>5, <3>1, <3>2
  <2>. QED  BY <1>1, <2>1, <2>2, <2>3
<1>7. ASSUME NEW i \in D, NEW f \in [D -> S], NEW g \in [D -> S],
             \A j \in D : rank[j] < rank[i] => f[j] = g[j]
      PROVE  Turn(q, f, i) = Turn(q, g, i)
  <2>1. CASE i \in 1..Len(q) /\ ReadsAt(q, i)
    <3>1. f[NextOf(q, i)] = g[NextOf(q, i)]
      BY <1>3, <1>7, <2>1
    <3>. QED  BY <1>1, <2>1, <3>1, TurnIs
  <2>2. CASE ~(i \in 1..Len(q) /\ ReadsAt(q, i))
    BY <1>1, <2>2, TurnIs
  <2>. QED  BY <2>1, <2>2
<1>8. step \in [D -> [[D -> S] -> S]]
  <2>. HIDE DEF D, S
  <2>. QED  BY <1>6
<1>9. PICK m \in Nat : m = Len(q) + 1
  BY <1>1
<1>10. \A i \in D : rank[i] \in Nat /\ rank[i] < m
  BY <1>1, <1>9
<1>11. Ranked(D, S, step, rank, m)
  <2>. HIDE DEF D, S, rank
  <2>1. ASSUME NEW i \in D, NEW f \in [D -> S], NEW g \in [D -> S],
               \A j \in D : rank[j] < rank[i] => f[j] = g[j]
        PROVE  step[i][f] = step[i][g]
    BY <1>7, <2>1
  <2>. HIDE DEF step
  <2>. QED  BY <1>10, <2>1 DEF Ranked
<1>12. PICK f \in [D -> S] : Recursive(f, D, step)
  <2>. HIDE DEF D, S, step, rank
  <2>. QED  BY <1>4, <1>8, <1>11, RecursionByRank
<1>13. Is(f)
  <2>1. \A i \in D : step[i][f] = Turn(q, f, i)
    OBVIOUS
  <2>. HIDE DEF D, S, step
  <2>2. f = [i \in D |-> step[i][f]]
    BY <1>12 DEF Recursive
  <2>. QED  BY <2>1, <2>2
<1>14. PICK c : c = CHOOSE x : Is(x)
  OBVIOUS
<1>15. Is(c)
  <2>. HIDE DEF Is
  <2>. QED  BY <1>13, <1>14
<1>16. Decode(q) = c[1]
  <2>1. Decode(q) = (CHOOSE x : x = [i \in 1..Len(q) + 1 |-> Turn(q, x, i)])[1]
    <3>1. Decode(q) = (CHOOSE x : x = [i \in 1..Len(q) + 1 |->
             IF i > Len(q) THEN <<>>
             ELSE IF Refusal(q[i]) # "ok" \/ i + TagSize(q[i]) - 1 > Len(q) THEN <<Lost>>
             ELSE IF i + TagSize(q[i]) + Follow(TagFrom(q, i)) - 1 > Len(q) THEN <<Lost>>
             ELSE <<Item(TagFrom(q, i), DataFrom(q, i))>>
                  \o x[i + TagSize(q[i]) + Follow(TagFrom(q, i))]])[1]
      BY SMT DEF Decode, Follow, TagFrom, DataFrom
    <3>. QED  BY <3>1, Zenon DEF Turn
  <2>. QED  BY <1>14, <2>1, Zenon
<1>17. \A i \in D : c[i] = Turn(q, c, i)
  <2>. HIDE DEF D
  <2>. QED  BY <1>15
<1>. QED  BY <1>16, <1>17 DEF DecodesFrom

-----------------------------------------------------------------------------
(* What stands between two others.                                           *)
LEMMA Middle ==
  ASSUME NEW a \in Seq(Byte), NEW b \in Seq(Byte), NEW c \in Seq(Byte)
  PROVE  SubSeq(a \o (b \o c), Len(a) + 1, Len(a) + Len(b)) = b
<1>1. PICK y : y = b \o c
  OBVIOUS
<1>2. y \in Seq(Byte) /\ Len(y) = Len(b) + Len(c) /\ \A i \in 1..Len(b) : y[i] = b[i]
  BY <1>1
<1>3. PICK x : x = a \o y
  OBVIOUS
<1>4. x \in Seq(Byte) /\ Len(x) = Len(a) + Len(y) /\ \A i \in 1..Len(y) : x[Len(a) + i] = y[i]
  <2>1. x \in Seq(Byte) /\ Len(x) = Len(a) + Len(y)
    BY <1>2, <1>3, ConcatProperties
  <2>2. \A i \in 1..Len(a) + Len(y) : x[i] = IF i <= Len(a) THEN a[i] ELSE y[i - Len(a)]
    BY <1>2, <1>3, ConcatProperties
  <2>3. ASSUME NEW i \in 1..Len(y) PROVE x[Len(a) + i] = y[i]
    <3>1. PICK j : j = Len(a) + i
      OBVIOUS
    <3>2. j \in 1..Len(a) + Len(y) /\ ~(j <= Len(a)) /\ j - Len(a) = i
      BY <1>2, <3>1
    <3>. QED  BY <2>2, <3>1, <3>2
  <2>. QED  BY <2>1, <2>3
<1>5. PICK m \in Nat, n \in Nat : m = Len(a) /\ n = Len(b)
  OBVIOUS
<1>6. m + n <= Len(x) /\ \A i \in 1..n : x[m + i] = b[i]
  BY <1>2, <1>4, <1>5
<1>7. PICK z : z = SubSeq(x, m + 1, m + n)
  OBVIOUS
<1>8. z \in Seq(Byte) /\ Len(z) = n /\ \A i \in 1..n : z[i] = x[m + i]
  BY <1>4, <1>6, <1>7
<1>9. z = b
  BY <1>5, <1>6, <1>8, SeqEqual
<1>. QED  BY <1>1, <1>3, <1>5, <1>7, <1>9

(* Tags that are alike are followed by the same.                             *)
LEMMA AlikeFollow ==
  ASSUME NEW t, NEW u, Alike(t, u)
  PROVE  Follow(t) = Follow(u)
<1>1. \A x : x.type = "int" => Comparable(x).type \in {"int", "uint"}
  BY DEF Comparable, Tag
<1>2. \A x : x.type # "int" => Comparable(x) = x
  BY DEF Comparable
<1>3. Comparable(t).type = Comparable(u).type /\ Comparable(t).v = Comparable(u).v
  BY DEF Alike
<1>4. CASE t.type \in {"str", "bin"}
  BY <1>1, <1>2, <1>3, <1>4 DEF Follow
<1>5. CASE u.type \in {"str", "bin"}
  BY <1>1, <1>2, <1>3, <1>5 DEF Follow
<1>. QED  BY <1>4, <1>5 DEF Follow

(* Where an element was put into the message, it is read again.              *)
LEMMA ReadsItem ==
  ASSUME NEW item \in Items, Complete(item), NEW a \in Seq(Byte), NEW rest \in Seq(Byte),
         NEW q, q = a \o (Bytes(item) \o rest)
  PROVE  /\ q \in Seq(Byte) /\ Len(a) + 1 \in 1..Len(q) /\ ReadsAt(q, Len(a) + 1)
         /\ NextOf(q, Len(a) + 1) = Len(a \o Bytes(item)) + 1
         /\ TagEqual(TagFrom(q, Len(a) + 1), item.tag)
         /\ DataFrom(q, Len(a) + 1) = item.data
<1>1. PICK t \in AllTags, d \in Seq(Byte) : t = item.tag /\ d = item.data
  BY DEF Items, Complete
<1>2. PICK e : e = Encode(t)
  OBVIOUS
<1>3. Spells(e, t)
  BY <1>2, EncodeSpells
<1>4. e \in Seq(Byte) /\ Len(e) > 0
  BY <1>2, <1>3, EncodesBytes, ParsesSpelling
<1>5. Bytes(item) = e \o d
  <2>1. t.type # "missing"
    BY DEF AllTags, Nil, Bool, Tag
  <2>. QED  BY <1>1, <1>2, <2>1 DEF Bytes
<1>6. PICK s : s = d \o rest
  OBVIOUS
<1>7. s \in Seq(Byte) /\ Len(s) = Len(d) + Len(rest)
  BY <1>6, ConcatProperties
<1>8. (e \o d) \o rest = e \o s
  BY <1>4, <1>6, ConcatAssociative
<1>25. (a \o e) \o s = a \o (e \o s)
  <2>1. a \in Seq(Byte) /\ e \in Seq(Byte) /\ s \in Seq(Byte)
    BY <1>4, <1>7, Zenon
  <2>. QED  BY <2>1, Associates, Zenon
<1>9. PICK tail : tail = e \o s
  OBVIOUS
<1>10. tail \in Seq(Byte) /\ Len(tail) = Len(e) + Len(s)
  BY <1>4, <1>7, <1>9, ConcatProperties
<1>11. q = a \o tail /\ q \in Seq(Byte) /\ Len(q) = Len(a) + Len(tail)
  BY <1>5, <1>8, <1>9, <1>10, ConcatProperties
<1>12. PICK i \in Nat : i = Len(a) + 1
  OBVIOUS
<1>13. PICK n \in Nat, k \in Nat : n = Len(e) /\ k = Len(d) /\ n > 0
  BY <1>4
<1>14. q[i] = tail[1]
  BY <1>4, <1>7, <1>10, <1>11, <1>12
<1>15. TagSize(q[i]) = n /\ Refusal(q[i]) = "ok"
  BY <1>3, <1>7, <1>9, <1>13, <1>14, ParsesSpelling
<1>16. SubSeq(q, i, i + n - 1) = e
  <2>1. i + n - 1 = Len(a) + Len(e)
    BY <1>12, <1>13
  <2>2. SubSeq(a \o (e \o s), Len(a) + 1, Len(a) + Len(e)) = e
    BY <1>4, <1>7, Middle
  <2>. QED  BY <1>9, <1>11, <1>12, <2>1, <2>2, Zenon
<1>17. TagFrom(q, i) = ParseTag(e)
  BY <1>15, <1>16, Zenon DEF TagFrom
<1>18. Alike(ParseTag(e), t)
  <2>1. <<>> \in Seq(Byte) /\ e \o <<>> = e
    BY <1>4, ConcatEmptySeq
  <2>2. Alike(ParseTag(e \o <<>>), t)
    BY <1>3, <2>1, ParsesSpelling
  <2>. QED  BY <2>1, <2>2
<1>19. Follow(TagFrom(q, i)) = k
  <2>1. Follow(TagFrom(q, i)) = Follow(t)
    BY <1>17, <1>18, AlikeFollow
  <2>. QED  BY <1>1, <1>13, <2>1 DEF Complete
<1>20. DataFrom(q, i) = d
  <2>1. PICK b : b = a \o e
    OBVIOUS
  <2>2. b \in Seq(Byte) /\ Len(b) = Len(a) + Len(e)
    BY <1>4, <2>1, ConcatProperties
  <2>3. q = b \o (d \o rest)
    <3>1. b \o s = a \o (e \o s)
      BY <1>25, <2>1
    <3>. QED  BY <1>6, <1>9, <1>11, <3>1, Zenon
  <2>4. i + n = Len(b) + 1 /\ i + n + k - 1 = Len(b) + Len(d)
    BY <1>12, <1>13, <2>2
  <2>5. SubSeq(b \o (d \o rest), Len(b) + 1, Len(b) + Len(d)) = d
    BY <2>2, Middle
  <2>6. SubSeq(q, i + n, i + n + k - 1) = d
    BY <2>3, <2>4, <2>5, Zenon
  <2>. QED  BY <1>15, <1>19, <2>6, Zenon DEF DataFrom
<1>21. NextOf(q, i) = i + n + k
  BY <1>15, <1>19, Zenon DEF NextOf
<1>22. Len(a \o Bytes(item)) = Len(a) + n + k
  BY <1>4, <1>5, <1>13, ConcatProperties
<1>23. ReadsAt(q, i) /\ i \in 1..Len(q)
  <2>1. Len(q) \in Nat /\ i + n + k - 1 <= Len(q) /\ i + n - 1 <= Len(q) /\ (i + n + k) - 1 <= Len(q)
    BY <1>7, <1>10, <1>11, <1>12, <1>13
  <2>2. i \in 1..Len(q)
    BY <1>12, <1>13, <2>1
  <2>. QED  BY <1>15, <1>21, <2>1, <2>2 DEF ReadsAt
<1>24. NextOf(q, i) = Len(a \o Bytes(item)) + 1
  BY <1>12, <1>13, <1>21, <1>22
<1>. QED  BY <1>1, <1>11, <1>12, <1>17, <1>18, <1>20, <1>23, <1>24, EqualIsAlike

(* What is read from the place behind the first k elements: the others.      *)
ReadsOthers(r, items, k, X) ==
    /\ r \in Seq(X) /\ Len(r) = Len(items) - k
    /\ \A j \in 1..Len(r) : /\ TagEqual(r[j].tag, items[k + j].tag)
                            /\ r[j].data = items[k + j].data

(* One element in front of others that are read.                             *)
LEMMA ReadsOneMore ==
  ASSUME NEW items \in Seq(Items), NEW k \in Nat, k < Len(items), NEW X, NEW x \in X,
         NEW r, ReadsOthers(r, items, k + 1, X),
         TagEqual(x.tag, items[k + 1].tag), x.data = items[k + 1].data
  PROVE  ReadsOthers(<<x>> \o r, items, k, X)
<1>1. PICK n \in Nat : n = Len(items)
  OBVIOUS
<1>2. /\ r \in Seq(X) /\ Len(r) = n - (k + 1)
      /\ \A j \in 1..Len(r) : /\ TagEqual(r[j].tag, items[k + 1 + j].tag)
                              /\ r[j].data = items[k + 1 + j].data
  BY <1>1 DEF ReadsOthers
<1>3. PICK y : y = <<x>> \o r
  OBVIOUS
<1>4. y \in Seq(X) /\ Len(y) = n - k /\ y[1] = x /\ \A j \in 1..Len(r) : y[1 + j] = r[j]
  <2>1. PICK z \in Seq(X) : z = <<x>> /\ Len(z) = 1 /\ z[1] = x
    <3>1. <<x>> \in Seq(X)
      OBVIOUS
    <3>2. Len(<<x>>) = 1 /\ <<x>>[1] = x
      OBVIOUS
    <3>. QED  BY <3>1, <3>2, Zenon
  <2>2. y = z \o r /\ r \in Seq(X)
    BY <1>2, <1>3, <2>1
  <2>3. y \in Seq(X) /\ Len(y) = 1 + Len(r) /\ \A j \in 1..1 + Len(r) : y[j] = IF j <= 1 THEN z[j] ELSE r[j - 1]
    BY <2>1, <2>2, ConcatProperties
  <2>4. Len(r) \in Nat /\ Len(r) = n - (k + 1)
    BY <1>2
  <2>5. Len(y) = n - k /\ 1 \in 1..1 + Len(r)
    BY <2>3, <2>4
  <2>6. ASSUME NEW j \in 1..Len(r) PROVE y[1 + j] = r[j]
    <3>1. PICK i : i = 1 + j
      OBVIOUS
    <3>2. i \in 1..1 + Len(r) /\ ~(i <= 1) /\ i - 1 = j
      BY <2>4, <3>1
    <3>. QED  BY <2>3, <3>1, <3>2
  <2>7. y[1] = x
    BY <2>1, <2>3, <2>5
  <2>. QED  BY <2>3, <2>5, <2>6, <2>7
<1>5. ASSUME NEW j \in 1..Len(y)
      PROVE  TagEqual(y[j].tag, items[k + j].tag) /\ y[j].data = items[k + j].data
  <2>1. CASE j = 1
    BY <1>4, <2>1
  <2>2. CASE j # 1
    <3>1. PICK i : i = j - 1
      OBVIOUS
    <3>2. i \in 1..Len(r) /\ 1 + i = j /\ k + 1 + i = k + j
      <4>1. Len(r) = n - (k + 1) /\ Len(y) = n - k
        BY <1>2, <1>4
      <4>. QED  BY <2>2, <3>1, <4>1
    <3>3. y[j] = r[i] /\ TagEqual(r[i].tag, items[k + j].tag) /\ r[i].data = items[k + j].data
      BY <1>2, <1>4, <3>2
    <3>. QED  BY <3>3
  <2>. QED  BY <2>1, <2>2
<1>. QED  BY <1>1, <1>3, <1>4, <1>5 DEF ReadsOthers

(* A message of whole elements is read as these elements.                    *)
LEMMA ReadsItems ==
  ASSUME NEW items \in Seq(Items), AreWhole(items)
  PROVE  Same(Decode(FlattenSeq(Pieces(items))), items)
<1>1. PICK n \in Nat, s \in Seq(Seq(Byte)) : n = Len(items) /\ s = Pieces(items) /\ Len(s) = n
  <2>1. \A i \in DOMAIN items : Bytes(items[i]) \in Seq(Byte)
    BY ItemHasBytes
  <2>2. DOMAIN items = 1..Len(items) /\ Len(items) \in Nat
    OBVIOUS
  <2>3. Pieces(items) \in Seq(Seq(Byte)) /\ Len(Pieces(items)) = Len(items)
    BY <2>1, <2>2 DEF Pieces
  <2>. QED  BY <2>2, <2>3
<1>2. \A i \in 1..n : items[i] \in Items /\ Complete(items[i]) /\ s[i] = Bytes(items[i])
  BY <1>1 DEF AreWhole, Pieces
<1>3. PICK p \in [0..n -> Seq(Byte)] : Collects(p, s)
  BY <1>1, Collector
<1>4. PICK q \in Seq(Byte) : q = FlattenSeq(Pieces(items)) /\ q = p[n]
  BY <1>1, <1>3, FlattenType, FlattenCollects
<1>5. PICK f : DecodesFrom(f, q)
  BY DecodeExists
<1>6. p[0] = <<>> /\ \A k \in 0..n - 1 : p[k + 1] = p[k] \o s[k + 1]
  BY <1>1, <1>3 DEF Collects
<1>. DEFINE X == {Item(TagFrom(q, i), DataFrom(q, i)) : i \in 1..Len(q)}
            Good(k) == ReadsOthers(f[Len(p[k]) + 1], items, k, X)
            T == {m \in 0..n : Good(n - m)}
<1>7. Good(n)
  <2>1. PICK i : i = Len(p[n]) + 1
    OBVIOUS
  <2>2. i \in 1..Len(q) + 1 /\ i > Len(q)
    BY <1>4, <2>1
  <2>3. f[i] = <<>>
    BY <1>5, <2>2, TurnIs DEF DecodesFrom
  <2>4. <<>> \in Seq(X) /\ Len(<<>>) = n - n
    <3>. HIDE DEF X
    <3>. QED  OBVIOUS
  <2>. HIDE DEF X
  <2>. QED  BY <1>1, <2>1, <2>3, <2>4 DEF ReadsOthers
<1>8. ASSUME NEW k \in 0..n - 1, Good(k + 1)
      PROVE  Good(k)
  <2>1. k + 1 \in 1..n /\ k \in 0..n /\ k \in Nat /\ k < n
    OBVIOUS
  <2>2. PICK item \in Items : item = items[k + 1] /\ Complete(item) /\ s[k + 1] = Bytes(item)
    BY <1>2, <2>1
  <2>3. PICK rest \in Seq(Byte) : q = p[k] \o (s[k + 1] \o rest)
    <3>1. p \in [0..Len(s) -> Seq(Byte)] /\ k \in 0..Len(s) - 1 /\ q = p[Len(s)]
      BY <1>1, <1>4
    <3>2. \E rest \in Seq(Byte) : p[Len(s)] = p[k] \o (s[k + 1] \o rest)
      BY <1>3, <3>1, CollectedInFront
    <3>. QED  BY <3>1, <3>2
  <2>4. PICK a \in Seq(Byte) : a = p[k]
    BY <2>1
  <2>5. PICK i : i = Len(a) + 1
    OBVIOUS
  <2>6. /\ i \in 1..Len(q) /\ ReadsAt(q, i) /\ NextOf(q, i) = Len(a \o Bytes(item)) + 1
        /\ TagEqual(TagFrom(q, i), item.tag) /\ DataFrom(q, i) = item.data
    <3>1. q = a \o (Bytes(item) \o rest)
      BY <2>2, <2>3, <2>4, Zenon
    <3>2. /\ Len(a) + 1 \in 1..Len(q) /\ ReadsAt(q, Len(a) + 1)
          /\ NextOf(q, Len(a) + 1) = Len(a \o Bytes(item)) + 1
          /\ TagEqual(TagFrom(q, Len(a) + 1), item.tag) /\ DataFrom(q, Len(a) + 1) = item.data
      <4>1. Complete(item)
        BY <2>2
      <4>. QED  BY <3>1, <4>1, ReadsItem
    <3>. QED  BY <2>5, <3>2, Zenon
  <2>7. NextOf(q, i) = Len(p[k + 1]) + 1
    BY <1>6, <2>2, <2>4, <2>6
  <2>8. i \in 1..Len(q) + 1
    BY <2>6
  <2>9. PICK x \in X : x = Item(TagFrom(q, i), DataFrom(q, i))
    BY <2>6
  <2>. HIDE DEF X
  <2>10. f[i] = <<x>> \o f[NextOf(q, i)]
    BY <1>5, <2>6, <2>8, <2>9, TurnIs DEF DecodesFrom
  <2>11. x.tag = TagFrom(q, i) /\ x.data = DataFrom(q, i)
    BY <2>9 DEF Item
  <2>12. PICK r : r = f[NextOf(q, i)]
    OBVIOUS
  <2>13. ReadsOthers(r, items, k + 1, X)
    BY <1>8, <2>7, <2>12
  <2>14. ReadsOthers(<<x>> \o r, items, k, X)
    BY <1>1, <2>1, <2>2, <2>6, <2>11, <2>13, ReadsOneMore
  <2>. QED  BY <2>4, <2>5, <2>10, <2>12, <2>14
<1>9. Good(0)
  <2>. HIDE DEF Good
  <2>1. 0 \in T
    BY <1>7
  <2>2. ASSUME NEW m \in 0..n - 1, m \in T PROVE m + 1 \in T
    <3>1. PICK k : k = n - (m + 1)
      OBVIOUS
    <3>2. k \in 0..n - 1 /\ k + 1 = n - m /\ m + 1 \in 0..n
      BY <3>1
    <3>3. Good(k + 1)
      BY <2>2, <3>2
    <3>4. Good(k)
      BY <1>8, <3>2, <3>3
    <3>. QED  BY <3>1, <3>2, <3>4
  <2>. HIDE DEF T
  <2>3. 0..n \subseteq T
    BY <2>1, <2>2, InductionUpTo
  <2>4. n \in 0..n /\ n - n = 0
    OBVIOUS
  <2>. QED  BY <2>3, <2>4 DEF T
<1>10. Decode(q) = f[1] /\ Len(p[0]) + 1 = 1
  <2>1. Len(<<>>) + 1 = 1
    OBVIOUS
  <2>. QED  BY <1>5, <1>6, <2>1 DEF DecodesFrom
<1>. HIDE DEF X
<1>11. ReadsOthers(Decode(q), items, 0, X)
  BY <1>9, <1>10
<1>12. PICK r : r = Decode(q)
  OBVIOUS
<1>13. Len(r) = n /\ \A j \in 1..n : TagEqual(r[j].tag, items[j].tag) /\ r[j].data = items[j].data
  <2>1. r \in Seq(X) /\ Len(r) = Len(items) - 0
    BY <1>11, <1>12 DEF ReadsOthers
  <2>2. \A j \in 1..Len(r) : TagEqual(r[j].tag, items[0 + j].tag) /\ r[j].data = items[0 + j].data
    BY <1>11, <1>12 DEF ReadsOthers
  <2>3. Len(r) = n
    BY <1>1, <2>1
  <2>4. \A j \in 1..n : 0 + j = j
    OBVIOUS
  <2>. QED  BY <2>2, <2>3, <2>4
<1>. QED  BY <1>1, <1>4, <1>12, <1>13 DEF Same

(* A writer stays inside its buffer, and gives a message that is read as     *)
(* what it was asked to write, in order and complete, or reports an error    *)
(* and has flushed a beginning of it: for every buffer, any number of        *)
(* elements, and whatever the flush function does.                           *)
THEOREM WriterIsSound ==
  ASSUME WriterAssumption
  PROVE  WriterSpec => []WriterInv
<1>1. MessageInv => WriterInv
  <2>. SUFFICES ASSUME MessageInv PROVE WriterInv
    OBVIOUS
  <2>1. BufferInv /\ asked \in Seq(Items) /\ size \in Sizes
    BY DEF MessageInv, BufferInv
  <2>2. InsideBuffer
    BY <2>1 DEF BufferInv, InsideBuffer
  <2>3. FlushedIsBeginning
    BY DEF MessageInv, FlushedIsBeginning, BytesAsked, Pieces
  <2>4. MessageIsAsked
    <3>1. err = "ok" => Written = BytesAsked /\ AreWhole(asked)
      BY DEF MessageInv
    <3>2. AreWhole(asked) => Same(Decode(BytesAsked), asked)
      BY <2>1, ReadsItems DEF BytesAsked
    <3>. QED  BY <3>1, <3>2 DEF MessageIsAsked
  <2>5. WriterTypeOK
    <3>1. Written \in Seq(Byte)
      BY <2>1, ConcatProperties DEF BufferInv, Written
    <3>. QED  BY <2>1, <3>1 DEF BufferInv, Errors, WriterTypeOK
  <2>. QED  BY <2>2, <2>3, <2>4, <2>5 DEF WriterInv
<1>. QED  BY <1>1, MessageInvariant, PTL
=============================================================================

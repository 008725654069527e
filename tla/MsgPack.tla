------------------------------- MODULE MsgPack -------------------------------
(* The format the driver and the agents talk: tags, their encodings, and    *)
(* the two tables of the library that read them back. An integer is the     *)
(* word it has in the message: a sequence of bytes, the high one first.     *)
(* This is mpack as the kernel builds it: no extensions, no floats.         *)
EXTENDS Integers, Sequences

(* The bytes of n, high one first; n may be negative. The numbers of the    *)
(* model fit in four bytes, so the rest of a longer word is sign.          *)
Word(n, size) ==
    [i \in 1..size |->
        IF size - i < 4 THEN (n \div 256^(size - i)) % 256
        ELSE IF n < 0 THEN 255 ELSE 0]

(* Lengths are those of a uint32_t. *)
CanCount(n) == n \div 65536 < 65536

(* The number in an unsigned word. *)
Number(w) ==
    LET sum[i \in 0..Len(w)] == IF i = 0 THEN 0 ELSE 256 * sum[i - 1] + w[i]
    IN  sum[Len(w)]

Low(w, n) == SubSeq(w, Len(w) - n + 1, Len(w))

Negative(w) == w[1] >= 128

(* The word fits in its n low bytes, as an unsigned number or as a negative *)
(* one.                                                                     *)
Fits(w, n) == \A i \in 1..Len(w) - n : w[i] = 0

FitsNegative(w, n) ==
    /\ \A i \in 1..Len(w) - n : w[i] = 255
    /\ w[Len(w) - n + 1] >= 128

Unsigned(w, size) == [i \in 1..size - Len(w) |-> 0] \o w

Signed(w, size) == [i \in 1..size - Len(w) |-> IF Negative(w) THEN 255 ELSE 0] \o w

-----------------------------------------------------------------------------
(* Tags. The value is a word of eight bytes for an integer, of four for a   *)
(* count or a length, of one for a bool.                                    *)
Tag(type, value) == [type |-> type, v |-> value]

Nil == Tag("nil", <<>>)
Bool(b) == Tag("bool", <<IF b THEN 1 ELSE 0>>)
SInt(w) == Tag("int", Signed(w, 8))
UInt(w) == Tag("uint", Unsigned(w, 8))
Str(w) == Tag("str", Unsigned(w, 4))
Bin(w) == Tag("bin", Unsigned(w, 4))
Array(w) == Tag("array", Unsigned(w, 4))
Map(w) == Tag("map", Unsigned(w, 4))

(* The tags there are. *)
WordOf(size) == [1..size -> 0..255]

AllTags ==
    {Nil, Bool(FALSE), Bool(TRUE)}
    \cup [type : {"int", "uint"}, v : WordOf(8)]
    \cup [type : {"str", "bin", "array", "map"}, v : WordOf(4)]

(* The order of mpack_type_t. *)
Types == <<"missing", "nil", "bool", "int", "uint", "float", "double", "str", "bin", "array", "map">>

Rank(type) == CHOOSE i \in 1..Len(Types) : Types[i] = type

Less(v, w) ==
    \E i \in 1..Len(v) : v[i] < w[i] /\ \A j \in 1..i - 1 : v[j] = w[j]

(* Faulty: the conversion of positive ints is forgotten. *)
ComparableAsIs(t) == t

(* mpack_tag_cmp: a positive int is compared as a uint; two negative ones   *)
(* have the same sign, so their words compare as unsigned.                  *)
Comparable(t) == IF t.type = "int" /\ ~Negative(t.v) THEN Tag("uint", t.v) ELSE t

Compare(left, right) ==
    LET l == Comparable(left)
        r == Comparable(right)
    IN  IF l.type # r.type THEN IF Rank(l.type) < Rank(r.type) THEN -1 ELSE 1
        ELSE IF l.v = r.v THEN 0
        ELSE IF Less(l.v, r.v) THEN -1 ELSE 1

TagEqual(left, right) == Compare(left, right) = 0

-----------------------------------------------------------------------------
(* The encodings: a byte for the type and the width, then a word.           *)
Widths == {1, 2, 4, 8}

StoreWord(first, w, n) ==
    <<first + CHOOSE k \in 0..3 : 2^k = n>> \o Low(w, n)

StoreUInt(w, n) == StoreWord(204, w, n)
StoreInt(w, n) == StoreWord(208, w, n)
StoreBin(c, n) == StoreWord(196, c, n)
StoreStr(c, n) == StoreWord(217, c, n)
StoreArray(c, n) == StoreWord(219, c, n)
StoreMap(c, n) == StoreWord(221, c, n)

Shortest(sizes) == CHOOSE n \in sizes : \A m \in sizes : n <= m

Width(w) == Shortest({n \in Widths : n <= Len(w) /\ Fits(w, n)})
NegativeWidth(w) == Shortest({n \in Widths : FitsNegative(w, n)})

IsAtMost(w, limit) == Fits(w, 1) /\ w[Len(w)] <= limit

EncodeUInt(w) == IF IsAtMost(w, 127) THEN Low(w, 1) ELSE StoreUInt(w, Width(w))

EncodeNegative(w) ==
    IF FitsNegative(w, 1) /\ w[8] >= 224 THEN Low(w, 1) ELSE StoreInt(w, NegativeWidth(w))

EncodeInt(w) == IF Negative(w) THEN EncodeNegative(w) ELSE EncodeUInt(w)

(* Arrays and maps have no form with a word of one byte. *)
CountWidth(c) == IF Fits(c, 2) THEN 2 ELSE 4

EncodeArray(c) == IF IsAtMost(c, 15) THEN <<144 + c[4]>> ELSE StoreArray(c, CountWidth(c))
EncodeMap(c) == IF IsAtMost(c, 15) THEN <<128 + c[4]>> ELSE StoreMap(c, CountWidth(c))
EncodeBin(c) == StoreBin(c, Width(c))
EncodeStr(c) == IF IsAtMost(c, 31) THEN <<160 + c[4]>> ELSE StoreStr(c, Width(c))

(* mpack_write_tag *)
Encode(t) ==
    CASE t.type = "nil"   -> <<192>>
      [] t.type = "bool"  -> <<194 + t.v[1]>>
      [] t.type = "int"   -> EncodeInt(t.v)
      [] t.type = "uint"  -> EncodeUInt(t.v)
      [] t.type = "str"   -> EncodeStr(t.v)
      [] t.type = "bin"   -> EncodeBin(t.v)
      [] t.type = "array" -> EncodeArray(t.v)
      [] t.type = "map"   -> EncodeMap(t.v)

-----------------------------------------------------------------------------
(* mpack_parse_tag: the bytes a tag needs after its first, given the first. *)
WordSize(b) ==
    CASE b \in {196, 204, 208, 217}           -> 1
      [] b \in {197, 205, 209, 218, 220, 222} -> 2
      [] b \in {198, 206, 210, 219, 221, 223} -> 4
      [] b \in {207, 211}                     -> 8
      [] OTHER                                -> 0

(* 0xca and 0xcb have no case in the kernel's build: control leaves the     *)
(* switch at a statement marked unreachable.                                *)
Floats == {202, 203}
Reserved == {193}
Extensions == 199..201 \cup 212..216

(* The tags of one byte. *)
ReadsFix(b) ==
    CASE b \in 0..127   -> UInt(<<b>>)
      [] b \in 224..255 -> SInt(<<b>>)
      [] b \in 128..143 -> Map(<<b % 16>>)
      [] b \in 144..159 -> Array(<<b % 16>>)
      [] b \in 160..191 -> Str(<<b % 32>>)

ReadsInteger(b, w) == IF b <= 207 THEN UInt(w) ELSE SInt(w)

ReadsCount(b, w) ==
    CASE b \in 196..198 -> Bin(w)
      [] b \in 217..219 -> Str(w)
      [] b \in 220..221 -> Array(w)
      [] b \in 222..223 -> Map(w)

(* The tag that begins with byte b and goes on with the word w. *)
ReadTag(b, w) ==
    CASE b = 192           -> Nil
      [] b \in {194, 195}  -> Bool(b % 2 = 1)
      [] b \notin 192..223 -> ReadsFix(b)
      [] b \in 204..211    -> ReadsInteger(b, w)
      [] b \in 196..198 \cup 217..223 -> ReadsCount(b, w)

(* Why no tag begins with b, or "ok". *)
Refusal(b) ==
    CASE b \in Reserved   -> "invalid"
      [] b \in Extensions -> "unsupported"
      [] b \in Floats     -> "unreachable"
      [] OTHER            -> "ok"

TagSize(b) == 1 + WordSize(b)

(* The first tag of a sequence of bytes that holds it whole. *)
ParseTag(bytes) == ReadTag(bytes[1], SubSeq(bytes, 2, TagSize(bytes[1])))
=============================================================================

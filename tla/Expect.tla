-------------------------------- MODULE Expect --------------------------------
(* The mpack_expect functions on a reader: each takes an element of one      *)
(* sort and flags an error for any other. They are judged by what the       *)
(* element in the stream is.                                                *)
EXTENDS Reader

CONSTANTS
    Bounds,       \* <<low, high>>: ranges of numbers, as Ints
    Limits,       \* counts and sizes that are asked for
    Keys,         \* the strings of an enum, a sequence of texts
    UIntKeys,     \* how many numbers are keys
    SignedChar    \* char is signed, as in the kernel for x86 before 6.2

VARIABLES
    found,   \* the keys of a map read so far
    answer   \* history: the last call and what it gave

expectVars == <<vars, found, answer>>

Outcome(r, value) == [r |-> r, val |-> value]
Refused(o, value) == Outcome(FlagError(o.r, "type"), value)

Zero == Word(0, 8)

(* The tag that is read; nil after an error. *)
Tagged(p) == Outcome(p, IF p.err = "ok" THEN ParseTag(Bytes(p.got)) ELSE Nil)
TakeTag(r) == Tagged(ReadTagBytes(r))
LookAtTag(r) == Tagged(PeekTagBytes(r))

(* mpack_expect_u8 .. _u64: n is the width in bytes. *)
AsUInt(o, n) ==
    IF /\ o.val.type \in {"uint", "int"}
       /\ o.val.type = "int" => ~Negative(o.val.v)
       /\ Fits(o.val.v, n)
    THEN Outcome(o.r, UInt(o.val.v)) ELSE Refused(o, UInt(Zero))

ExpectUInt(r, n) == AsUInt(TakeTag(r), n)

(* Faulty: the limit of the unsigned type is used for the signed one. *)
AsIntWide(o, n) ==
    IF \/ o.val.type = "uint" /\ Fits(o.val.v, n)
       \/ o.val.type = "int" /\ (FitsNegative(o.val.v, n) \/ Fits(o.val.v, n))
    THEN Outcome(o.r, SInt(Signed(Low(o.val.v, n), 8))) ELSE Refused(o, SInt(Zero))

(* mpack_expect_i8 .. _i64 *)
BelowSign(w, n) == Fits(w, n) /\ w[Len(w) - n + 1] < 128

AsInt(o, n) ==
    IF \/ o.val.type = "uint" /\ BelowSign(o.val.v, n)
       \/ o.val.type = "int" /\ (FitsNegative(o.val.v, n) \/ BelowSign(o.val.v, n))
    THEN Outcome(o.r, SInt(o.val.v)) ELSE Refused(o, SInt(Zero))

ExpectInt(r, n) == AsInt(TakeTag(r), n)

(* MPACK_EXPECT_RANGE_IMPL gives the lower bound when it fails. *)
Range(o, low, high) ==
    IF o.r.err # "ok" THEN Outcome(o.r, low)
    ELSE IF Compare(o.val, low) < 0 \/ Compare(o.val, high) > 0 THEN Refused(o, low)
    ELSE o

(* mpack_expect_uint_match, _int_match, _map_match, _array_match *)
Match(o, value) == IF o.val # value THEN Refused(o, o.val) ELSE o

-----------------------------------------------------------------------------
(* mpack_expect_type_byte: 0 after an error. *)
NumberIn(p) == Outcome(p, IF p.err = "ok" THEN Number(Bytes(p.got)) ELSE 0)
TakeNumber(r, n) == NumberIn(ReadInplace(r, n))
TakeByte(r) == TakeNumber(r, 1)

AsNil(o) == IF o.val = 192 THEN o ELSE Refused(o, 0)
ExpectNil(r) == AsNil(TakeByte(r))

AsBool(o) ==
    LET b == o.val % 2 = 1
    IN  IF o.val \in {194, 195} THEN Outcome(o.r, b) ELSE Refused(o, b)
ExpectBool(r) == AsBool(TakeByte(r))

(* mpack_expect_map, mpack_expect_array, mpack_expect_bin *)
AsCount(o, type) ==
    IF o.val.type = type THEN Outcome(o.r, Number(o.val.v)) ELSE Refused(o, 0)
ExpectCount(r, type) == AsCount(TakeTag(r), type)

(* mpack_expect_map_or_nil and mpack_expect_array_or_nil: the value tells   *)
(* whether there is one.                                                    *)
NoneThere == -1

AsCountOrNil(o, type) ==
    CASE o.val.type = "nil" -> Outcome(o.r, NoneThere)
      [] o.val.type = type  -> Outcome(o.r, Number(o.val.v))
      [] OTHER              -> Refused(o, NoneThere)
ExpectCountOrNil(r, type) == AsCountOrNil(TakeTag(r), type)

MaxOrNil(o, most) == IF o.val > most THEN Refused(o, NoneThere) ELSE o

(* MPACK_EXPECT_RANGE_IMPL for mpack_expect_map_range and _array_range. *)
RangeCount(o, low, high) ==
    IF o.r.err # "ok" THEN Outcome(o.r, low)
    ELSE IF o.val < low \/ o.val > high THEN Refused(o, low) ELSE o

(* mpack_expect_str reads the first byte and then the length it announces. *)
AsStr(o) ==
    CASE o.val \in 160..191     -> Outcome(o.r, o.val % 32)
      [] o.val \in {217, 218, 219} -> TakeNumber(o.r, 2^(o.val - 217))
      [] OTHER                  -> Refused(o, 0)
ExpectStr(r) == AsStr(TakeByte(r))

(* mpack_expect_str_max *)
AtMost(o, most, error) ==
    IF o.val > most THEN Outcome(FlagError(o.r, error), 0) ELSE o

Exactly(o, n) == IF o.val # n THEN Refused(o, o.val) ELSE o

(* mpack_expect_str_buf and mpack_expect_bin_buf: the value is the text.    *)
TextRead(t) == Outcome(t, IF t.err = "ok" THEN Bytes(t.got) ELSE <<>>)

ReadText(o, room) ==
    IF o.r.err # "ok" THEN Outcome(o.r, <<>>)
    ELSE IF o.val > room THEN Outcome(FlagError(o.r, "too_big"), <<>>)
    ELSE TextRead(ReadNative(o.r, o.val))

AsUtf8(o) == IF Check(o.val, TRUE) THEN o ELSE Refused(o, <<>>)
ExpectUtf8(r, room) == AsUtf8(ReadText(ExpectStr(r), room))

(* mpack_expect_cstr and mpack_expect_utf8_cstr *)
CStringRead(t) == Outcome(t, IF t.err = "ok" THEN Bytes(Text(t)) ELSE <<>>)
ReadCString(o, room, accepts(_)) == CStringRead(Accept(ReadTerminated(o.r, o.val, room), accepts))
ExpectCString(r, room, accepts(_)) == ReadCString(ExpectStr(r), room, accepts)

(* mpack_expect_str_match compares a byte of the stream, 0..255, with a     *)
(* char, which is negative above 127 where char is signed.                  *)
AsChar(b) == IF SignedChar /\ b > 127 THEN b - 256 ELSE b

IsByte(o, b) == IF o.val = AsChar(b) THEN o ELSE Refused(o, 0)

MatchText(o, text) ==
    LET after[i \in 0..Len(text)] ==
          IF i = 0 THEN o.r
          ELSE IF after[i - 1].err # "ok" THEN after[i - 1]
          ELSE IsByte(TakeByte(after[i - 1]), text[i]).r
    IN  Outcome(after[Len(text)], text)

ExpectText(r, text) == MatchText(Exactly(ExpectStr(r), Len(text)), text)

(* mpack_expect_tag *)
Equals(o, expected) == IF TagEqual(o.val, expected) THEN o ELSE Refused(o, expected)
ExpectTag(r, expected) == Equals(TakeTag(r), expected)

(* The place of the text in the list, counted from 0, or the length of the  *)
(* list.                                                                    *)
PlaceOf(text, list) ==
    LET matches == {i \in 1..Len(list) : list[i] = text}
    IN  IF matches = {} THEN Len(list) ELSE (CHOOSE i \in matches : \A j \in matches : i <= j) - 1

(* mpack_expect_enum, or its string part *)
PlaceRead(t, list) ==
    Outcome(t, IF t.err = "ok" THEN PlaceOf(Bytes(t.got), list) ELSE Len(list))
LookUpText(o, list) == PlaceRead(ReadInplace(o.r, o.val), list)
LookUp(r, list) == LookUpText(ExpectStr(r), list)

AsEnum(o, list) ==
    IF o.r.err = "ok" /\ o.val = Len(list) THEN Refused(o, o.val) ELSE o
ExpectEnum(r, list) == AsEnum(LookUp(r, list), list)

(* mpack_expect_enum_optional passes over what is not a string. *)
AsEnumOptional(o, list) ==
    IF o.val.type = "str" THEN LookUp(o.r, list) ELSE Outcome(Discard(o.r), Len(list))
ExpectEnumOptional(r, list) ==
    IF r.err # "ok" THEN Outcome(r, Len(list)) ELSE AsEnumOptional(LookAtTag(r), list)

(* The key of a map counts once: each function has its array of found keys. *)
Claim(o, key, none) ==
    IF o.val # none /\ <<key, o.val>> \in found
    THEN Outcome(FlagError(o.r, "invalid"), none) ELSE o

ExpectKeyCstr(r, list) == Claim(ExpectEnumOptional(r, list), "cstr", Len(list))

(* mpack_expect_key_uint passes over what is not a uint. *)
AsKey(o, count) ==
    Outcome(o.r, IF o.r.err = "ok" /\ IsAtMost(o.val.v, count - 1) THEN o.val.v[8] ELSE count)
AsKeyOptional(o, count) ==
    IF o.val.type = "uint" THEN Claim(AsKey(ExpectUInt(o.r, 8), count), "uint", count)
    ELSE Outcome(Discard(o.r), count)
ExpectKeyUInt(r, count) ==
    IF r.err # "ok" THEN Outcome(r, count) ELSE AsKeyOptional(LookAtTag(r), count)

-----------------------------------------------------------------------------
Tells(op, arg, o) == answer' = [op |-> op, arg |-> arg, val |-> o.val]

(* A call that takes what the stream has up to there. *)
Takes(o, to) ==
    /\ Becomes(o.r)
    /\ pos' = IF o.r.err = "ok" THEN to ELSE pos
    /\ UNCHANGED <<setup, last>>

Does(op, arg, o, to) ==
    Tells(op, arg, o) /\ Takes(o, to) /\ Plain /\ UNCHANGED found

DoesTag(op, arg, o) == Does(op, arg, o, TagEnd(pos))

(* What follows the tag of a string or a blob. *)
Behindhand == TagEnd(pos) = Behind
TextLength == IF Behindhand THEN 0 ELSE Payload(ParseTag(SubSeq(stream, pos + 1, TagEnd(pos))))
TextEnd == TagEnd(pos) + TextLength

DoesText(op, arg, o) == Does(op, arg, o, TextEnd)

ExpectANumber(r) ==
    \E n \in Widths : \/ DoesTag("uint", n, ExpectUInt(r, n))
                      \/ DoesTag("int", n, ExpectInt(r, n))

SWord(n) == SInt(Word(n, 8))

(* mpack_expect_i32_range, and mpack_expect_u32_range where it applies; the *)
(* functions with max in their name have 0 as the lower bound.              *)
ExpectARange(r) ==
    \E b \in Bounds :
        \/ DoesTag("range", b, Range(ExpectInt(r, 4), SWord(b[1]), SWord(b[2])))
        \/ /\ b[1] >= 0
           /\ DoesTag("range", b, Range(ExpectUInt(r, 4), SWord(b[1]), SWord(b[2])))

ExpectAMatch(r) ==
    \E b \in Bounds :
        \/ DoesTag("match", b[1], Match(ExpectInt(r, 8), SWord(b[1])))
        \/ b[1] >= 0 /\ DoesTag("match", b[1], Match(ExpectUInt(r, 8), UInt(Word(b[1], 8))))

ExpectASimple(r) ==
    \/ DoesTag("nil", 0, ExpectNil(r))
    \/ DoesTag("bool", BOOLEAN, ExpectBool(r))
    \/ \E b \in BOOLEAN : DoesTag("bool", {b}, Match(ExpectBool(r), b))

ExpectACount(r) ==
    \E type \in {"map", "array"}, n \in Limits :
        \/ DoesTag("count", <<type, n, 255>>, RangeCount(ExpectCount(r, type), n, 255))
        \/ DoesTag("count", <<type, n, n>>, Match(ExpectCount(r, type), n))
        \/ DoesTag("or_nil", <<type, n>>, MaxOrNil(ExpectCountOrNil(r, type), n))

(* The functions that leave the text to be read. *)
BeginsText(type, low, high, o) ==
    /\ left = 0
    /\ Tells("count", <<type, low, high>>, o) /\ Takes(o, TagEnd(pos))
    /\ left' = IF o.r.err = "ok" THEN o.val ELSE 0
    /\ UNCHANGED found

ExpectALength(r) ==
    \/ BeginsText("str", 0, 255, ExpectStr(r))
    \/ \E n \in Limits :
          \/ BeginsText("str", 0, n, AtMost(ExpectStr(r), n, "too_big"))
          \/ BeginsText("str", n, n, Exactly(ExpectStr(r), n))
          \/ BeginsText("bin", 0, n, AtMost(ExpectCount(r, "bin"), n, "type"))
          \/ BeginsText("bin", n, n, Exactly(ExpectCount(r, "bin"), n))

ExpectAText(r) ==
    \E n \in Limits :
        \/ DoesText("text", <<"str", n>>, ReadText(ExpectStr(r), n))
        \/ DoesText("text", <<"bin", n>>, ReadText(ExpectCount(r, "bin"), n))
        \/ DoesText("utf8", n, ExpectUtf8(r, n))
        \/ n > 0 /\ DoesText("cstr", n, ExpectCString(r, n, NoNull))
        \/ n > 0 /\ DoesText("utf8_cstr", n, ExpectCString(r, n, CheckNoNull))

ExpectAWord(r) ==
    \/ \E i \in 1..Len(Keys) : DoesText("text_match", Keys[i], ExpectText(r, Keys[i]))
    \/ DoesText("enum", Keys, ExpectEnum(r, Keys))
    \/ \E b \in Bounds : DoesTag("match", b[1], ExpectTag(r, SWord(b[1])))

NewKey(key, none, o) ==
    /\ Tells("key", key, o) /\ Takes(o, ElementEnd(pos)) /\ Plain
    /\ IF o.val # none
       THEN found' = found \cup {<<key, o.val>>}
       ELSE UNCHANGED found

ExpectAKey(r) ==
    \/ NewKey("cstr", Len(Keys), ExpectKeyCstr(r, Keys))
    \/ NewKey("uint", UIntKeys, ExpectKeyUInt(r, UIntKeys))

ExpectInit == Init /\ found = {} /\ answer = [op |-> "none", arg |-> 0, val |-> 0]

Reads(A) == A /\ answer' = [answer EXCEPT !.op = "none"] /\ UNCHANGED found

ExpectNext ==
    \/ \E c \in Chunks :
          \/ ExpectANumber(Reader(c)) \/ ExpectARange(Reader(c)) \/ ExpectAMatch(Reader(c))
          \/ ExpectASimple(Reader(c)) \/ ExpectACount(Reader(c)) \/ ExpectALength(Reader(c))
          \/ ExpectAText(Reader(c)) \/ ExpectAWord(Reader(c)) \/ ExpectAKey(Reader(c))
          \/ \E n \in Counts : Reads(SkipSome(c, n))
    \/ Reads(SetFill)

ExpectSpec == ExpectInit /\ [][ExpectNext]_expectVars

-----------------------------------------------------------------------------
(* What a call may take, told from the element in the stream alone. *)
IsNumber(t) == t.type \in {"uint", "int"}
Within(n, low, high) == low <= n /\ n <= high

(* The key an element is, or the number that stands for none. *)
KeyOf(key, t, d) ==
    CASE key = "cstr" -> IF t.type = "str" THEN PlaceOf(d, Keys) ELSE Len(Keys)
      [] key = "uint" -> IF t.type = "uint" /\ IsAtMost(t.v, UIntKeys - 1) THEN t.v[8] ELSE UIntKeys

Meets(op, arg, t, d) ==
    CASE op = "uint"  -> IsNumber(t) /\ TagEqual(t, UInt(Unsigned(Low(t.v, arg), 8)))
      [] op = "int"   -> IsNumber(t) /\ TagEqual(t, SInt(Signed(Low(t.v, arg), 8)))
      [] op = "range" -> IsNumber(t) /\ Compare(SWord(arg[1]), t) <= 0 /\ Compare(t, SWord(arg[2])) <= 0
      [] op = "match" -> TagEqual(t, SWord(arg))
      [] op = "nil"   -> t = Nil
      [] op = "bool"  -> \E b \in arg : t = Bool(b)
      [] op = "count"  -> t.type = arg[1] /\ Within(Number(t.v), arg[2], arg[3])
      [] op = "or_nil" -> t = Nil \/ (t.type = arg[1] /\ Number(t.v) <= arg[2])
      [] op = "text"   -> t.type = arg[1] /\ Len(d) <= arg[2]
      [] op = "utf8"   -> t.type = "str" /\ Len(d) <= arg /\ WellFormed(d)
      [] op = "cstr"   -> t.type = "str" /\ Len(d) < arg /\ NUL \notin {d[i] : i \in DOMAIN d}
      [] op = "utf8_cstr"  -> /\ t.type = "str" /\ Len(d) < arg /\ WellFormed(d)
                             /\ NUL \notin {d[i] : i \in DOMAIN d}
      [] op = "text_match" -> t.type = "str" /\ d = arg
      [] op = "enum"       -> t.type = "str" /\ \E i \in DOMAIN arg : d = arg[i]
      [] op = "key"        -> <<arg, KeyOf(arg, t, d)>> \notin found

Gives(op, arg, t, d, val) ==
    CASE op \in {"uint", "int", "range", "match"} -> TagEqual(val, t)
      [] op = "bool"  -> t = Bool(val)
      [] op = "count" -> val = Number(t.v)
      [] op = "or_nil" -> val = IF t = Nil THEN NoneThere ELSE Number(t.v)
      [] op \in {"text", "utf8", "cstr", "utf8_cstr", "text_match"} -> val = d
      [] op = "enum" -> Keys[val + 1] = d
      [] op = "key"  -> val = KeyOf(arg, t, d)
      [] OTHER -> TRUE

(* How far the stream is looked at. A text that is looked up in place has   *)
(* to fit in the buffer.                                                    *)
Extent(op) ==
    CASE op \in {"text", "utf8", "cstr", "utf8_cstr", "text_match", "enum"} -> TextEnd
      [] op = "key" -> ElementEnd(pos)
      [] OTHER      -> TagEnd(pos)

TagHere == ParseTag(SubSeq(stream, pos + 1, TagEnd(pos)))
TextHere == SubSeq(stream, TagEnd(pos) + 1, TextEnd)

LooksUp(op, arg) == op = "enum" \/ (op = "key" /\ arg = "cstr" /\ TagHere.type = "str")

Available(op, arg) ==
    /\ Extent(op) <= Len(stream)
    /\ fill /\ LooksUp(op, arg) => TextLength <= size

(* A call succeeds exactly when the element in the stream is one it takes,  *)
(* and then gives its value: none is cut off, widened or mistaken for       *)
(* another, through any buffer and in whatever pieces it arrives.           *)
ContractKept ==
    [][err = "ok" /\ (fill \/ size = 0) /\ answer'.op # "none" =>
          LET a == answer'
          IN  /\ err' = "ok" <=> Available(a.op, a.arg) /\ Meets(a.op, a.arg, TagHere, TextHere)
              /\ err' = "ok" => Gives(a.op, a.arg, TagHere, TextHere, a.val)]_expectVars

(* An error is never forgotten and a call after it takes nothing more.      *)
ErrorsStay == [][err # "ok" => err' = err /\ src' = src]_expectVars

(* A call fails only for a reason in the stream or its arguments, else it   *)
(* gives what is there, and no later call hides the error.                  *)
CallsKeepContract == RefusesForAReason /\ ContractKept /\ ErrorsStay

(* The comment of mpack_expect_bin_buf: "this will accept if the underlying *)
(* type is string or binary".                                               *)
BinBufTakesStr ==
    [][err = "ok" /\ size = 0 /\ answer'.op = "text" /\ answer'.arg[1] = "bin" =>
          (Available("text", 0) /\ TagHere.type = "str" /\ TextLength <= answer'.arg[2] => err' = "ok")
      ]_expectVars

(* The comment of mpack_expect_str_match: "Reads a string, ensuring it      *)
(* exactly matches the given string."                                       *)
MatchTakesSame ==
    [][err = "ok" /\ size = 0 /\ answer'.op = "text_match" =>
          (Available("text", 0) /\ TagHere.type = "str" /\ TextHere = answer'.arg => err' = "ok")
      ]_expectVars
=============================================================================

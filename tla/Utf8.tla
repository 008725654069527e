-------------------------------- MODULE Utf8 --------------------------------
(* mpack_utf8_check_impl: the check every text passes on its way from a     *)
(* write(2) to a netlink message. Strings are sequences of bytes.           *)
EXTENDS Naturals, Sequences

Byte == 0..255

IsContinuation(b) == b \in 128..191

(* The masks on the lead byte: the length of the character it begins, 0 if  *)
(* it cannot begin one.                                                     *)
LengthOf(lead) ==
    CASE lead <= 127          -> 1
      [] lead \in 192..223    -> 2
      [] lead \in 224..239    -> 3
      [] lead \in 240..247    -> 4
      [] OTHER                -> 0

(* The code point of the character of n bytes at i. *)
CodePoint(s, i, n) ==
    IF n = 1 THEN s[i]
    ELSE IF n = 2 THEN 64 * (s[i] % 32) + (s[i+1] % 64)
    ELSE IF n = 3 THEN 4096 * (s[i] % 16) + 64 * (s[i+1] % 64) + (s[i+2] % 64)
    ELSE 262144 * (s[i] % 8) + 4096 * (s[i+1] % 64) + 64 * (s[i+2] % 64) + (s[i+3] % 64)

(* Faulty: the test against surrogates is missing. *)
AcceptableSurrogate(n, z) ==
    /\ n = 2 => z >= 128
    /\ n = 3 => z >= 2048
    /\ n = 4 => z >= 65536 /\ z <= 1114111

(* Neither overlong, nor a surrogate, nor beyond the last code point. *)
Acceptable(n, z) ==
    /\ n = 2 => z >= 128
    /\ n = 3 => z >= 2048 /\ z \notin 55296..57343
    /\ n = 4 => z >= 65536 /\ z <= 1114111

(* The loop over the string, one character per turn. *)
Check(s, allowNull) ==
    LET ok[i \in 1..Len(s) + 1] ==
          IF i > Len(s) THEN TRUE
          ELSE LET n == LengthOf(s[i])
               IN  /\ s[i] = 0 => allowNull
                   /\ n > 0 /\ i + n - 1 <= Len(s)
                   /\ \A k \in 1..n - 1 : IsContinuation(s[i + k])
                   /\ Acceptable(n, CodePoint(s, i, n))
                   /\ ok[i + n]
    IN  ok[1]

CheckNoNull(s) == Check(s, FALSE)

(* mpack_str_check_no_null *)
NoNull(s) == \A i \in 1..Len(s) : s[i] # 0

(* mpack_strlen and the C string it measures: the bytes before the first    *)
(* NUL; s ends in one.                                                      *)
CString(s) ==
    LET end == CHOOSE i \in 1..Len(s) : s[i] = 0 /\ \A j \in 1..i - 1 : s[j] # 0
    IN  SubSeq(s, 1, end - 1)

-----------------------------------------------------------------------------
(* The reference: the well-formed sequences as the table of the Unicode     *)
(* standard gives them (ranges of bytes, no code point is computed).        *)
Characters(s, i) ==
    LET At(k, lo, hi) == i + k <= Len(s) /\ s[i + k] \in lo..hi
        Tail1 == At(1, 128, 191)
        Tail2 == Tail1 /\ At(2, 128, 191)
    IN  {n \in 1..4 :
          \/ n = 1 /\ s[i] \in 0..127
          \/ n = 2 /\ s[i] \in 194..223 /\ Tail1
          \/ /\ n = 3
             /\ \/ s[i] = 224 /\ At(1, 160, 191) /\ At(2, 128, 191)
                \/ s[i] \in 225..236 \cup {238, 239} /\ Tail2
                \/ s[i] = 237 /\ At(1, 128, 159) /\ At(2, 128, 191)
          \/ /\ n = 4 /\ At(2, 128, 191) /\ At(3, 128, 191)
             /\ \/ s[i] = 240 /\ At(1, 144, 191)
                \/ s[i] \in 241..243 /\ Tail1
                \/ s[i] = 244 /\ At(1, 128, 143)}

(* The places of s where a character begins, or where it ends: a prefix of  *)
(* s up to such a place is well formed.                                     *)
Boundaries(s) ==
    LET reached[i \in 1..Len(s) + 1] ==
          i = 1 \/ \E j \in 1..i - 1 : reached[j] /\ (i - j) \in Characters(s, j)
    IN  {i \in 1..Len(s) + 1 : reached[i]}

WellFormed(s) ==
    LET from[i \in 1..Len(s) + 1] ==
          IF i > Len(s) THEN TRUE ELSE \E n \in Characters(s, i) : from[i + n]
    IN  from[1]
=============================================================================

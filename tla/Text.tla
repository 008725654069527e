-------------------------------- MODULE Text --------------------------------
(* What becomes of the bytes a program writes to a toot's file: toot_write  *)
(* copies at most Cut of them into a zeroed buffer, the serializer takes    *)
(* the C string in it and refuses it unless it is UTF-8, and the program    *)
(* writes the rest as after any short write.                                *)
EXTENDS Integers, Utf8, SequencesExt

CONSTANTS
    Alphabet,   \* the bytes texts are made of
    MaxLength,  \* bound: no text is longer
    Cut         \* 99 in toot_write, one less than its buffer

TextAssumption ==
    Alphabet \subseteq Byte /\ MaxLength \in Nat /\ Cut \in Nat \ {0}

VARIABLES
    text,     \* what the program has to write
    pos,      \* how much of it the calls have accepted
    accepted, \* the texts of the ADD_TOOT_TEXT messages
    result    \* of the last call: "none", "short", or "refused"

textVars == <<text, pos, accepted, result>>

AllTexts == UNION {[1..n -> Alphabet] : n \in 1..MaxLength}

(* copy_from_user into the buffer of Cut + 1 zeros. *)
Chunk == SubSeq(text, pos + 1, IF Len(text) - pos < Cut THEN Len(text) ELSE pos + Cut)

Stored == CString(Chunk \o <<0>>)

(* mpack_write_utf8_cstr_or_nil accepts the text and the call returns the   *)
(* number of bytes it took.                                                 *)
TootWrite ==
    /\ pos < Len(text) /\ result # "refused"
    /\ CheckNoNull(Stored)
    /\ accepted' = Append(accepted, Stored)
    /\ pos' = pos + Len(Chunk)
    /\ result' = "short"
    /\ UNCHANGED text

(* serialize_add_toot_element fails: the call returns -EFAULT. *)
WriteRefused ==
    /\ pos < Len(text) /\ result # "refused"
    /\ ~CheckNoNull(Stored)
    /\ result' = "refused"
    /\ UNCHANGED <<text, pos, accepted>>

TextInit ==
    /\ text \in AllTexts
    /\ pos = 0
    /\ accepted = <<>>
    /\ result = "none"

TextNext == TootWrite \/ WriteRefused

TextSpec == TextInit /\ [][TextNext]_textVars

-----------------------------------------------------------------------------
TextTypeOK ==
    /\ text \in Seq(Alphabet)
    /\ pos \in 0..Len(text)
    /\ accepted \in Seq(Seq(Alphabet)) /\ Len(accepted) <= MaxLength
    /\ result \in {"none", "short", "refused"}

(* The agent gets only well-formed texts, however a text was cut into calls *)
(* of toot_write: the check of the serializer against the table of Unicode. *)
SentWellFormed == \A i \in 1..Len(accepted) : WellFormed(accepted[i]) /\ NoNull(accepted[i])

(* What the calls accepted is what the agent got, unless it holds a NUL,    *)
(* which ends the text of its call although the call accepts what follows.  *)
AcceptedIsSent ==
    NoNull(SubSeq(text, 1, pos)) => FlattenSeq(accepted) = SubSeq(text, 1, pos)

(* A call is refused only when the bytes it took are not characters: the    *)
(* text is not UTF-8, or the cut at 99 bytes fell inside a character.       *)
RefusedForAReason ==
    result = "refused" /\ NoNull(text)
        => \/ ~WellFormed(text)
           \/ pos + Cut + 1 \notin Boundaries(text)

(* What toot_write accepts reaches the agent as text, and what it refuses   *)
(* is none or was cut.                                                      *)
TextInv == TextTypeOK /\ SentWellFormed /\ AcceptedIsSent /\ RefusedForAReason
=============================================================================

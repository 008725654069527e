--------------------------------- MODULE Tags ---------------------------------
(* One value on its way through a message: mpack_write_tag stores it,       *)
(* mpack_read_tag reads it back.                                            *)
EXTENDS MsgPack

CONSTANTS
    Values,     \* the tags written
    Rest        \* the bytes that follow in the message

TagsAssumption == Values \subseteq AllTags /\ Rest \in Seq(0..255)

VARIABLES
    value,    \* the tag written
    encoded,  \* the message
    read      \* the tag read back, or Unread

tagsVars == <<value, encoded, read>>

Unread == Tag("missing", <<>>)

Write == encoded = <<>> /\ encoded' = Encode(value) \o Rest /\ UNCHANGED <<value, read>>

Read == encoded # <<>> /\ read = Unread /\ read' = ParseTag(encoded) /\ UNCHANGED <<value, encoded>>

TagsInit == value \in Values /\ encoded = <<>> /\ read = Unread

TagsNext == Write \/ Read

TagsSpec == TagsInit /\ [][TagsNext]_tagsVars

-----------------------------------------------------------------------------
(* What is read is what was written: the same tag to mpack_tag_cmp, from as *)
(* many bytes as the writer used.                                           *)
ReadsWhatWasWritten ==
    read # Unread => /\ TagEqual(read, value)
                     /\ TagSize(encoded[1]) = Len(encoded) - Len(Rest)

(* The bytes from which a tag with this value can be read. *)
Spellings(t) ==
    {b \in 0..255 : /\ Refusal(b) = "ok"
                    /\ WordSize(b) <= Len(t.v)
                    /\ TagEqual(ReadTag(b, Low(t.v, WordSize(b))), t)}

(* "In the most efficient packing available": no other first byte spells    *)
(* the same value in fewer bytes.                                           *)
ShortestEncoding ==
    encoded # <<>> =>
        \A b \in Spellings(value) : Len(encoded) - Len(Rest) <= TagSize(b)

(* mpack_tag_cmp, which mpack_tag_equal and the keys of maps rely on, is a  *)
(* total order in which two tags are the same exactly when they are written *)
(* as the same bytes, as the int and the uint of one number are.            *)
CompareIsOrder ==
    encoded = <<>> => \A t, u \in Values :
        /\ Compare(value, t) = -Compare(t, value)
        /\ Compare(value, t) <= 0 /\ Compare(t, u) <= 0 => Compare(value, u) <= 0
        /\ TagEqual(value, t) <=> Encode(value) = Encode(t)

(* The encoding of a tag is one to one, the shortest there is, and agrees   *)
(* with the comparison of tags.                                             *)
TagsInv == ReadsWhatWasWritten /\ ShortestEncoding /\ CompareIsOrder
=============================================================================

------------------------------- MODULE MCParts -------------------------------
(***************************************************************************)
(* Parts that share nothing with each other: one of them runs, the others  *)
(* rest where they begin.                                                  *)
(*   text       a text on its way through toot_write                       *)
(*   tags       a tag that is written and read back                        *)
(*   writer     mpack_writer_t                                             *)
(*   wire       every message between the module and an agent              *)
(*   connection the parts of netlink messages                              *)
(*   master     the supervisor of the agents and its log                   *)
(*   lifecycle  loading and unloading the module                           *)
(***************************************************************************)
EXTENDS Text, Tags, Writer, Wire, Connection, Master, Lifecycle

VARIABLE part

Parts == {"text", "tags", "writer", "wire", "connection", "master", "lifecycle"}

Wide(n) == Word(n, 4)
MaxWord == <<255, 255, 255, 255>>
Letters(n) == [k \in 1..n |-> 97]

-----------------------------------------------------------------------------
(* Bytes on both sides of each limit of UTF-8. *)
EdgeBytes == {0, 65, 128, 143, 144, 159, 160, 191, 193, 195, 224, 237, 239, 240, 244, 245}

(* The numbers on both sides of every limit of the encodings. *)
Edges == {0, 1, 15, 16, 31, 32, 127, 128, 255, 256, 32767, 32768, 65535, 65536, 2147483647}

EdgeTags ==
    {Nil, Bool(TRUE), Bool(FALSE)}
    \cup UNION {{UInt(Word(n, 8)), SInt(Word(n, 8)), SInt(Word(-n, 8)), SInt(Word(-n - 1, 8))} : n \in Edges}
    \cup UNION {{UInt(w), SInt(w)} : w \in {<<0, 0, 0, 0, 255, 255, 255, 255>>, <<0, 0, 0, 1, 0, 0, 0, 0>>,
                                           <<255, 255, 255, 255, 127, 255, 255, 255>>,
                                           <<128, 0, 0, 0, 0, 0, 0, 0>>}}
    \cup UNION {{Str(Wide(n)), Bin(Wide(n)), Array(Wide(n)), Map(Wide(n))} : n \in Edges}

MCRest == <<1, 2, 3, 4, 5, 6, 7, 8, 9>>

(* Values of the writer on both sides of every limit that fits its buffers. *)
WrittenTags ==
    {Nil, Bool(TRUE)}
    \cup {UInt(Word(n, 8)) : n \in {0, 128, 65536}}
    \cup {SInt(Word(n, 8)) : n \in {-1, -33, -32769, 200}}
    \cup {Array(Wide(5)), Map(Wide(16))}

WrittenTexts == {Letters(0), Letters(4), Letters(33), <<206>>}

(* The ids a device can have. *)
MCDeviceWords == {Wide(n) : n \in {0, 33}}

(* Ids on both sides of every width. *)
MCIdWords == {Wide(n) : n \in {0, 127, 128, 256, 65535, 65536}} \cup {MaxWord}

(* Results that fit an int of C, and some that do not. *)
MCNumberWords ==
    {Word(n, 8) : n \in {0, 5, 200, -1, -32, -33, -129, -32769, 2147483647}}
    \cup {Unsigned(<<128, 0, 0, 0>>, 8), Signed(<<128, 0, 0, 0>>, 8),
          Signed(<<127, 255, 255, 255>>, 8), [k \in 1..8 |-> IF k = 4 THEN 254 ELSE 255],
          Unsigned(MaxWord, 8), [k \in 1..8 |-> IF k = 1 THEN 127 ELSE 255]}

(* Texts of up to 99 bytes; names on both sides of the room, one with a NUL. *)
MCContents ==
    {Letters(n) : n \in {0, 1, 31, 32, 99}}
    \cup {Letters(97) \o <<195, 169>>, Letters(98) \o <<195>>, <<128>>}

MCNames ==
    {Letters(n) : n \in {0, 1, 31, 32, 48, 49, 50, 300}}
    \cup {Letters(47) \o <<195, 169>>, Letters(48) \o <<195, 169>>, <<128>>, <<97, 0, 97>>}

(* What follows in memory: nothing of meaning, numbers, and more elements. *)
MCTails == {[k \in 1..16 |-> 0], [k \in 1..16 |-> 255], [k \in 1..16 |-> IF k = 1 THEN 207 ELSE k]}

-----------------------------------------------------------------------------
ASSUME PartsAssumption ==
    /\ TextAssumption /\ TagsAssumption /\ WriterAssumption
    /\ ConnectionAssumption /\ MasterAssumption

TextBegins ==
    IF part = "text" THEN TextInit
    ELSE text = <<65>> /\ pos = 0 /\ accepted = <<>> /\ result = "none"

TagsBegin ==
    IF part = "tags" THEN TagsInit
    ELSE value = Nil /\ encoded = <<>> /\ read = Nil

WriterBegins == WriterInit /\ (part = "writer" \/ size = 10)

PartsInit ==
    /\ part \in Parts
    /\ TextBegins /\ TagsBegin /\ WriterBegins
    /\ WireInit /\ ConnectionInit /\ MasterInit /\ Init

PartsNext ==
    /\ UNCHANGED part
    /\ IF part = "text" THEN TextNext ELSE UNCHANGED textVars
    /\ IF part = "tags" THEN TagsNext ELSE UNCHANGED tagsVars
    /\ IF part = "writer" THEN WriterNext ELSE UNCHANGED writerVars
    /\ IF part = "wire" THEN WireNext ELSE UNCHANGED wireVars
    /\ IF part = "connection" THEN ConnectionNext ELSE UNCHANGED connectionVars
    /\ IF part = "master" THEN MasterNext ELSE UNCHANGED masterVars
    /\ IF part = "lifecycle" THEN Next ELSE UNCHANGED vars

partsVars ==
    <<part, textVars, tagsVars, writerVars, wireVars, connectionVars, masterVars, vars>>

(* The master's own fairness. *)
PartsSpec ==
    /\ PartsInit /\ [][PartsNext]_partsVars
    /\ WF_masterVars(part = "master" /\ Return)
    /\ \A u \in Users : /\ WF_masterVars(part = "master" /\ Goroutine(u))
                        /\ WF_masterVars(part = "master" /\ Copy(u))

-----------------------------------------------------------------------------
(* The encoding of a tag is one to one, the shortest there is, and agrees   *)
(* with the comparison of tags. It is looked at in the states of this part. *)
TagsRight == part = "tags" => TagsInv

(* While the master runs: if no agent runs for ever, it returns.            *)
StartMasterReturns == part = "master" => MasterReturns
=============================================================================

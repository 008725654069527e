-------------------------------- MODULE Wire --------------------------------
(* The messages between the kernel module and the agents: how the           *)
(* serializers of each side write them, what netlink adds, and what the     *)
(* other side reads back. One message is under way at a time.               *)
EXTENDS MsgPack, Utf8

CONSTANTS
    DeviceWords,  \* device ids, as words of four bytes
    IdWords,      \* toot ids, element ids and uids, as words of four bytes
    NumberWords,  \* the ints a result may be, as words of eight bytes
    Flags,        \* the answers to GET_HEALTH
    Contents,     \* the texts of the elements, as toot_write cuts them
    Names,        \* the names the agents ask for
    Tails         \* what lies behind a message in the kernel's memory

(* Device ids are minor numbers, of which main.c has less than a byte       *)
(* counts; a text is the C string in the 100 bytes of toot_write's buffer.  *)
ASSUME WireAssumption ==
    /\ \A w \in DeviceWords \cup IdWords : w \in Seq(Byte) /\ Len(w) = 4
    /\ \A w \in DeviceWords : Fits(w, 1)
    /\ \A w \in NumberWords : w \in Seq(Byte) /\ Len(w) = 8
    /\ Flags \subseteq BOOLEAN
    /\ \A s \in Contents \cup Names \cup Tails : s \in Seq(Byte)
    /\ \A s \in Contents : Len(s) <= 99 /\ NoNull(s)
    /\ \A s \in Names : CanCount(Len(s))

VARIABLES
    sent,  \* the message under way
    wire,  \* its netlink type and its payload
    got    \* what the receiver makes of it

wireVars == <<sent, wire, got>>

(* A field is a tag and, for a text, its bytes. *)
Field(tag, text) == [tag |-> tag, text |-> text]
U32(w) == Field(UInt(w), <<>>)
GoInt(w) == Field(IF Negative(w) THEN SInt(w) ELSE UInt(w), <<>>)
Flag(b) == Field(Bool(b), <<>>)
Text(s) == Field(Str(Word(Len(s), 4)), s)

Message(kind, fields) == [kind |-> kind, fields |-> fields]

Nothing == Message("nothing", <<>>)   \* no message, or none yet
Refused == Message("refused", <<>>)

(* message.h and internal/driver/message: the numbers both sides give the   *)
(* messages, in units of NLMSG_MIN_TYPE.                                    *)
TypeOf(kind) ==
    CASE kind = "get_health"      -> 2  [] kind = "get_health_result"      -> 3
      [] kind = "create_device"   -> 4  [] kind = "create_device_result"   -> 5
      [] kind = "destroy_device"  -> 6  [] kind = "destroy_device_result"  -> 7
      [] kind = "new_toot"        -> 8  [] kind = "new_toot_result"        -> 9
      [] kind = "add_toot_element" -> 10 [] kind = "add_toot_element_result" -> 11
      [] kind = "send_toot"       -> 12 [] kind = "send_toot_result"       -> 13

-----------------------------------------------------------------------------
(* What the kernel sends: the structures its handlers fill in.              *)
KernelMessages ==
    {Message("get_health_result", <<U32(d), Flag(b)>>) : d \in DeviceWords, b \in Flags}
    \cup {Message(k, <<U32(d)>>) :
            k \in {"create_device_result", "destroy_device_result"}, d \in DeviceWords}
    \cup {Message(k, <<U32(t), U32(d)>>) :
            k \in {"new_toot", "send_toot"}, t \in IdWords, d \in DeviceWords}
    \cup {Message("add_toot_element", <<U32(t), U32(d), U32(e), U32(i), Text(s)>>) :
            t \in IdWords, d \in DeviceWords, e \in IdWords, i \in IdWords, s \in Contents}

(* What an agent sends: the slices its messages give the encoder.           *)
AgentMessages ==
    {Message(k, <<U32(d)>>) : k \in {"get_health", "destroy_device"}, d \in DeviceWords}
    \cup {Message("create_device", <<Text(s), U32(u)>>) : s \in Names, u \in IdWords}
    \cup {Message(k, <<U32(t), U32(d), GoInt(r)>>) :
            k \in {"new_toot_result", "send_toot_result"},
            t \in IdWords, d \in DeviceWords, r \in NumberWords}
    \cup {Message("add_toot_element_result", <<U32(t), U32(d), U32(e), GoInt(r)>>) :
            t \in IdWords, d \in DeviceWords, e \in IdWords, r \in NumberWords}

(* The encoders of both sides choose the shortest form.                     *)
Encoded(m) ==
    LET upTo[i \in 0..Len(m.fields)] ==
          IF i = 0 THEN EncodeArray(Word(Len(m.fields), 4))
          ELSE upTo[i - 1] \o Encode(m.fields[i].tag) \o m.fields[i].text
    IN  upTo[Len(m.fields)]

(* The buffers of the handlers: DEFINE_CRMNA_BUF. *)
Room(kind) == IF kind = "add_toot_element" THEN 200 ELSE 10

(* The writer of a serializer ends with no error.                           *)
InRoom(m) == Len(Encoded(m)) <= Room(m.kind)
TextsAreUtf8(m) == \A i \in DOMAIN m.fields : CheckNoNull(m.fields[i].text)

(* serialize_destroy_device_result returns true even after an error, with   *)
(* an empty message.                                                        *)
Serializes(m) == (InRoom(m) /\ TextsAreUtf8(m)) \/ m.kind = "destroy_device_result"
Serialized(m) == IF InRoom(m) THEN Encoded(m) ELSE <<>>

-----------------------------------------------------------------------------
(* The elements of an array of numbers and texts: the place of each in the  *)
(* bytes, or 0 where the bytes end first.                                   *)
TagAt(bytes, i) == ParseTag(SubSeq(bytes, i, Len(bytes)))
Holds(tag) == IF tag.type = "str" THEN Number(tag.v) ELSE 0

Behind(bytes, i) == i + TagSize(bytes[i]) + Holds(TagAt(bytes, i))

Whole(bytes, i) ==
    /\ i <= Len(bytes)
    /\ i + TagSize(bytes[i]) <= Len(bytes) + 1
    /\ Behind(bytes, i) <= Len(bytes) + 1

Places(bytes, n) ==
    LET at[i \in 1..n] ==
          IF i = 1 THEN 1 + TagSize(bytes[1])
          ELSE IF Whole(bytes, at[i - 1]) THEN Behind(bytes, at[i - 1])
          ELSE Len(bytes) + 1
    IN  at

FieldAt(bytes, i) ==
    Field(TagAt(bytes, i), SubSeq(bytes, i + TagSize(bytes[i]), Behind(bytes, i) - 1))

(* What the deserializers of the kernel take from the nodes of the array.   *)
Shape(kind) ==
    CASE kind \in {"get_health", "destroy_device"}      -> <<"u32">>
      [] kind = "create_device"                         -> <<"name", "u32">>
      [] kind \in {"new_toot_result", "send_toot_result"} -> <<"u32", "u32", "i32">>
      [] kind = "add_toot_element_result"               -> <<"u32", "u32", "u32", "i32">>

(* sizeof(result->name) in deserialize_create_conn. *)
NameRoom == 50

NameFits(text) == Len(text) <= NameRoom - 1

(* Faulty: a result is taken as the unsigned number it is on the wire. *)
TakesI32Unsigned(tag) == tag.type = "uint" /\ Fits(tag.v, 4)

(* mpack_node_u32, _i32 and _copy_utf8_cstr take the field. *)
NotNegative(tag) == tag.type = "uint" \/ (tag.type = "int" /\ ~Negative(tag.v))
TakesU32(tag) == NotNegative(tag) /\ Fits(tag.v, 4)
TakesI32(tag) ==
    \/ NotNegative(tag) /\ Fits(tag.v, 4) /\ tag.v[5] < 128
    \/ tag.type = "int" /\ FitsNegative(tag.v, 4)
TakesName(f) == f.tag.type = "str" /\ NameFits(f.text) /\ CheckNoNull(f.text)

Takes(as, f) ==
    CASE as = "u32" -> TakesU32(f.tag) [] as = "i32" -> TakesI32(f.tag) [] as = "name" -> TakesName(f)

(* The deserializers: any error of the tree refuses the message.            *)
ReadByKernel(kind, bytes) ==
    LET count  == Number(TagAt(bytes, 1).v)
        at     == Places(bytes, count)
        fields == [i \in DOMAIN Shape(kind) |-> FieldAt(bytes, at[i])]
    IN  IF /\ TagAt(bytes, 1).type = "array" /\ Len(Shape(kind)) <= count
           /\ \A i \in 1..count : Whole(bytes, at[i])
           /\ \A i \in DOMAIN Shape(kind) : Takes(Shape(kind)[i], fields[i])
        THEN Message(kind, fields)
        ELSE Refused

(* The decoder of an agent fills the structure from the array; at the end   *)
(* of the data it gives an error.                                           *)
ReadByAgent(kind, bytes) ==
    IF bytes = <<>> THEN Refused
    ELSE LET at == Places(bytes, Number(TagAt(bytes, 1).v))
         IN  Message(kind, [i \in DOMAIN at |-> FieldAt(bytes, at[i])])

-----------------------------------------------------------------------------
KernelKinds == {"get_health_result", "create_device_result", "destroy_device_result",
                "new_toot", "add_toot_element", "send_toot"}
AgentKinds == {"get_health", "create_device", "destroy_device",
               "new_toot_result", "add_toot_element_result", "send_toot_result"}

(* The receiver looks at the netlink type. *)
KindOf(type) == CHOOSE k \in KernelKinds \cup AgentKinds : TypeOf(k) = type

Idle == [type |-> 0, bytes |-> <<>>]

WireInit == sent = Nothing /\ wire = Idle /\ got = Nothing

(* A serializer and send_message; a message that cannot be written is not   *)
(* sent, and the handler fails.                                             *)
KernelSends ==
    /\ sent = Nothing
    /\ \E m \in KernelMessages :
          /\ sent' = m
          /\ IF Serializes(m)
             THEN wire' = [type |-> TypeOf(m.kind), bytes |-> Serialized(m)] /\ got' = Nothing
             ELSE wire' = Idle /\ got' = Refused

AgentReceives ==
    /\ wire.type \in {TypeOf(k) : k \in KernelKinds}
    /\ got' = ReadByAgent(KindOf(wire.type), wire.bytes)
    /\ wire' = Idle /\ UNCHANGED sent

AgentSends ==
    /\ sent = Nothing
    /\ \E m \in AgentMessages :
          sent' = m /\ wire' = [type |-> TypeOf(m.kind), bytes |-> Encoded(m)]
    /\ UNCHANGED got

(* process_recive_data gives the whole nlmsg_len as the size of the         *)
(* payload: the 16 bytes of the header too many, read from behind it.       *)
Seen(bytes, tail) == bytes \o tail

KernelReceives ==
    /\ wire.type \in {TypeOf(k) : k \in AgentKinds}
    /\ \E tail \in Tails : got' = ReadByKernel(KindOf(wire.type), Seen(wire.bytes, tail))
    /\ wire' = Idle /\ UNCHANGED sent

(* The next message. *)
Done == got # Nothing /\ sent' = Nothing /\ got' = Nothing /\ UNCHANGED wire

WireNext == KernelSends \/ AgentReceives \/ AgentSends \/ KernelReceives \/ Done

WireSpec == WireInit /\ [][WireNext]_wireVars
-----------------------------------------------------------------------------
(* Every message of the kernel reaches the agent as the handler wrote it,   *)
(* except a text that is no UTF-8; the buffers have room for every id and   *)
(* for every text of toot_write.                                            *)
KernelMessageArrives ==
    got # Nothing /\ sent.kind \in KernelKinds =>
        IF \A i \in DOMAIN sent.fields : WellFormed(sent.fields[i].text)
        THEN got = sent ELSE got = Refused

(* The words that an int of 32 bits has room for.                           *)
FitsResult(w) == w = Signed(Low(w, 4), 8)

(* What the structures of the kernel have room for: C strings of less than  *)
(* 50 bytes in UTF-8 as names, ints of C as results.                        *)
ResultKinds == {"new_toot_result", "send_toot_result", "add_toot_element_result"}

IsName(text) == Len(text) < 50 /\ WellFormed(text) /\ \A j \in DOMAIN text : text[j] # 0

HasPlace(m, i) ==
    /\ m.fields[i].tag.type = "str" => IsName(m.fields[i].text)
    /\ m.kind \in ResultKinds /\ i = Len(m.fields) => FitsResult(m.fields[i].tag.v)

(* Every message of an agent reaches the kernel as the agent wrote it,      *)
(* whatever lies behind it in memory, unless a name does not fit the        *)
(* structure or is no C string in UTF-8, or a result is no int of C.        *)
AgentMessageArrives ==
    got # Nothing /\ sent.kind \in AgentKinds =>
        IF \A i \in DOMAIN sent.fields : HasPlace(sent, i)
        THEN got = sent ELSE got = Refused

(* No message is changed on its way.                                        *)
MessagesArrive == KernelMessageArrives /\ AgentMessageArrives
=============================================================================

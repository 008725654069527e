-------------------------------- MODULE Nodes --------------------------------
(* The mpack_node functions: a caller walks the tree of a message that has   *)
(* been parsed, by index or by key, and takes values from its nodes. The    *)
(* caller holds one node; a parse takes it away. The functions are judged   *)
(* by the bytes of the element the walk leads to.                           *)
EXTENDS Tree, Utf8

CONSTANTS
    Rooms,      \* sizes of the caller's buffer
    Indices,    \* indices that are asked for
    IntKeys,    \* integer keys that are looked up, as Ints
    TextKeys    \* texts that are looked up, a sequence

VARIABLES
    node,    \* a node of the pool, or one of those below
    place,   \* history: the element in the data that the walk has led to
    answer   \* history: the last call and what it gave

nodeVars == <<vars, node, place, answer>>
treeButError == <<given, base, length, size, count, pool, free, possible, stack, state, call, nth>>

(* Nodes that are not in the pool, and the place of no node. *)
NilNode == 0
MissingNode == -1
NoNode == -2

NodesInit ==
    /\ Init /\ node = NoNode /\ place = 0
    /\ answer = [op |-> "none", arg |-> 0, val |-> 0]

NodeData == CASE node = NilNode     -> Node(Nil, 0)
              [] node = MissingNode -> Unset
              [] OTHER            -> pool[node]
T == NodeData.tag
N == Number(T.v)
Child(k) == NodeData.at + k

(* mpack_node_data_unchecked *)
Bytes == SubSeq(data, base + NodeData.at + 1, base + NodeData.at + N)

(* A call flags refusal, unless it is ok, and then gives none. After an     *)
(* error every call gives none.                                             *)
Outcome(refusal) == IF error # "ok" THEN error ELSE refusal

Asks(op, arg, refusal, value, none) ==
    /\ node # NoNode /\ call = "none"
    /\ error' = Outcome(refusal)
    /\ answer' = [op |-> op, arg |-> arg, val |-> IF Outcome(refusal) = "ok" THEN value ELSE none]
    /\ UNCHANGED <<treeButError, node, place>>

Unless(good, e) == IF good THEN "ok" ELSE e
OfType(types) == Unless(T.type \in types, "type")

-----------------------------------------------------------------------------
(* mpack_node_u8 .. _u64 and mpack_node_i8 .. _i64: n is the width.         *)
BelowSign(w, n) == Fits(w, n) /\ w[Len(w) - n + 1] < 128
Zero == Word(0, 8)

FitsUInt(n) ==
    \/ T.type = "uint" /\ Fits(T.v, n)
    \/ T.type = "int" /\ ~Negative(T.v) /\ Fits(T.v, n)

FitsInt(n) ==
    \/ T.type = "uint" /\ BelowSign(T.v, n)
    \/ T.type = "int" /\ (FitsNegative(T.v, n) \/ BelowSign(T.v, n))

NumberOf ==
    \E n \in Widths :
        \/ Asks("uint", n, Unless(FitsUInt(n), "type"), UInt(T.v), UInt(Zero))
        \/ Asks("int", n, Unless(FitsInt(n), "type"), SInt(T.v), SInt(Zero))

(* mpack_node_nil, _missing, _bool, _true and _false *)
SimpleOf ==
    \/ \E type \in {"nil", "missing"} : Asks("is", type, OfType({type}), 0, 0)
    \/ Asks("bool", BOOLEAN, OfType({"bool"}), T = Bool(TRUE), FALSE)
    \/ \E b \in BOOLEAN : Asks("bool", {b}, Unless(T = Bool(b), "type"), b, FALSE)

(* mpack_node_type, _is_nil, _is_missing and mpack_node_tag *)
TagOf == Asks("tag", 0, "ok", T, Nil)

(* mpack_node_data_len, _strlen, _bin_size, _array_length and _map_count    *)
Texts == {"str", "bin"}

LengthIn ==
    \E types \in {Texts, {"str"}, {"bin"}, {"array"}, {"map"}} :
        Asks("length", types, OfType(types), N, 0)

(* mpack_node_data, _str and _bin_data *)
PointerTo ==
    \E types \in {Texts, {"str"}, {"bin"}} : Asks("data", types, OfType(types), Bytes, <<>>)

(* mpack_node_check_utf8 and _check_utf8_cstr *)
CheckText ==
    \E nulls \in BOOLEAN :
        Asks("check", nulls, Unless(T.type = "str" /\ Check(Bytes, nulls), "type"), 0, 0)

(* The tests of the four functions that copy, in their order.               *)
CopyRefusal(types, room, content(_)) ==
    IF T.type \notin types THEN "type"
    ELSE IF N > room THEN "too_big"
    ELSE Unless(content(Bytes), "type")

Anything(s) == TRUE
Utf8(s) == Check(s, TRUE)

CopyText ==
    \E n \in Rooms :
        \/ Asks("copy_data", n, CopyRefusal(Texts, n, Anything), Bytes, <<>>)
        \/ Asks("copy_utf8", n, CopyRefusal({"str"}, n, Utf8), Bytes, <<>>)
        \/ n > 0 /\ Asks("copy_cstr", n, CopyRefusal({"str"}, n - 1, NoNull), Bytes, <<>>)
        \/ n > 0 /\ Asks("copy_utf8_cstr", n, CopyRefusal({"str"}, n - 1, CheckNoNull), Bytes, <<>>)

(* mpack_node_enum_optional and mpack_node_enum: the place of the text in   *)
(* the list, counted from 0, or the length of the list.                     *)
NoKey == Len(TextKeys)
KeyOf(text) ==
    LET matches == {i \in 1..NoKey : TextKeys[i] = text}
    IN  IF matches = {} THEN NoKey ELSE Min(matches) - 1

EnumOptional == IF T.type = "str" THEN KeyOf(Bytes) ELSE NoKey

EnumOf ==
    \/ Asks("enum_optional", 0, "ok", EnumOptional, NoKey)
    \/ Asks("enum", 0, Unless(EnumOptional # NoKey, "type"), EnumOptional, NoKey)

-----------------------------------------------------------------------------
(* The places of the children of the element at a place, from the data.     *)
ChildPlaces(at) ==
    LET list == Elements(at).list
        child[k \in 1..Total(list[1].tag)] ==
            IF k = 1 THEN 2 ELSE BehindElement(list, child[k - 1])
    IN  [k \in 1..Total(list[1].tag) |-> list[child[k]].at]

TagAt(at) == ParseTag(SubSeq(data, at + 1, at + TagSize(data[at + 1])))

(* A walk that is refused ends at the nil node.                             *)
Walks(op, arg, refusal, to, toPlace) ==
    /\ node # NoNode /\ call = "none"
    /\ error' = Outcome(refusal)
    /\ IF Outcome(refusal) = "ok" THEN node' = to /\ place' = toPlace
       ELSE node' = NilNode /\ place' = 0
    /\ answer' = [op |-> op, arg |-> arg, val |-> 0]
    /\ UNCHANGED treeButError

IndexRefusal(type, i) ==
    IF T.type # type THEN "type" ELSE Unless(i < N, "data")

(* mpack_node_array_at, _map_key_at and _map_value_at *)
WalkToIndex ==
    \E i \in Indices :
        \/ Walks("at", <<"array", i>>, IndexRefusal("array", i), Child(i), ChildPlaces(place)[i + 1])
        \/ Walks("at", <<"map", i>>, IndexRefusal("map", i), Child(2 * i), ChildPlaces(place)[2 * i + 1])
        \/ Walks("at", <<"map", i>>, IndexRefusal("map", i), Child(2 * i + 1), ChildPlaces(place)[2 * i + 2])

(* The keys that are equal to the one asked for, by the type of the lookup. *)
KeyNode(k) == pool[Child(2 * k)]
KeyBytes(k) == SubSeq(data, base + KeyNode(k).at + 1, base + KeyNode(k).at + Number(KeyNode(k).tag.v))

MatchesInt(k, w) ==
    \/ KeyNode(k).tag = Tag("int", w)
    \/ KeyNode(k).tag = Tag("uint", w) /\ ~Negative(w)

MatchesUInt(k, w) ==
    \/ KeyNode(k).tag = Tag("uint", w)
    \/ KeyNode(k).tag = Tag("int", w) /\ ~Negative(w)

MatchesText(k, text) == KeyNode(k).tag.type = "str" /\ KeyBytes(k) = text

Matching(kind, key) ==
    {k \in 0..N - 1 :
        CASE kind = "int"  -> MatchesInt(k, Word(key, 8))
          [] kind = "uint" -> MatchesUInt(k, Word(key, 8))
          [] kind = "text" -> MatchesText(k, key)}

(* Faulty: the search ends with the first match. *)
LookupRefusalFirst(kind, key) == Unless(T.type = "map", "type")

(* mpack_node_map_int_impl, _uint_impl and _str_impl: a key that occurs     *)
(* twice is an error.                                                       *)
LookupRefusal(kind, key) ==
    IF T.type # "map" THEN "type" ELSE Unless(Cardinality(Matching(kind, key)) <= 1, "data")

FoundIn(kind, key) == Min(Matching(kind, key))
NotThere(kind, key) == Matching(kind, key) = {}

(* mpack_node_wrap_lookup and mpack_node_wrap_lookup_optional               *)
StrictRefusal(kind, key) ==
    IF LookupRefusal(kind, key) = "ok" /\ NotThere(kind, key) THEN "data" ELSE LookupRefusal(kind, key)

PlaceOfKey(kind, key) == ChildPlaces(place)[2 * FoundIn(kind, key) + 2]

Value(kind, key) == Child(2 * FoundIn(kind, key) + 1)

Lookups == ({"int"} \X IntKeys) \cup ({"uint"} \X {n \in IntKeys : n >= 0})
           \cup ({"text"} \X {TextKeys[i] : i \in DOMAIN TextKeys})

WalkToKey ==
    \E l \in Lookups :
        \/ Walks("lookup", l, StrictRefusal(l[1], l[2]), Value(l[1], l[2]), PlaceOfKey(l[1], l[2]))
        \/ Walks("optional", l, LookupRefusal(l[1], l[2]),
                 IF NotThere(l[1], l[2]) THEN MissingNode ELSE Value(l[1], l[2]),
                 IF NotThere(l[1], l[2]) THEN 0 ELSE PlaceOfKey(l[1], l[2]))
        \/ Asks("contains", l, LookupRefusal(l[1], l[2]), ~NotThere(l[1], l[2]), FALSE)

(* mpack_tree_root: the nil node after an error; asking for the root of a   *)
(* tree that has not been parsed is an error.                               *)
WalkToRoot ==
    /\ call = "none" /\ state # "undefined"
    /\ error' = Outcome(Unless(state = "parsed", "bug"))
    /\ IF error' = "ok" THEN node' = 1 /\ place' = base ELSE node' = NilNode /\ place' = 0
    /\ answer' = [op |-> "root", arg |-> 0, val |-> 0]
    /\ UNCHANGED treeButError

(* A parse takes the node away. *)
Forgets == node' = NoNode /\ place' = 0 /\ answer' = [answer EXCEPT !.op = "none"]

Parses == (\E c \in {"parse", "try"} : Start(c) \/ Resume(c)) /\ Forgets

ParsesNode == ParseNode /\ Forgets

NodesNext ==
    \/ NumberOf \/ SimpleOf \/ TagOf \/ LengthIn \/ PointerTo \/ CheckText \/ CopyText \/ EnumOf
    \/ WalkToIndex \/ WalkToKey \/ WalkToRoot \/ Parses \/ ParsesNode

(* The loop of the parser does not stop by itself; nobody has to call.      *)
NodesSpec == NodesInit /\ [][NodesNext]_nodeVars /\ WF_nodeVars(ParsesNode)

-----------------------------------------------------------------------------
(* The element the caller's walk has led to, from the data alone.           *)
Element == CASE node = NilNode     -> Nil
             [] node = MissingNode -> Unset.tag
             [] OTHER            -> TagAt(place)

TextAt(at) == SubSeq(data, at + TagSize(data[at + 1]) + 1,
                     at + TagSize(data[at + 1]) + Holds(TagAt(at)))

(* What a call may take, and what it then gives.                            *)
IsText(t, d, room) == t.type = "str" /\ Len(d) <= room
HasNoNull(d) == 0 \notin {d[i] : i \in DOMAIN d}

KeyTag(kind, key) == IF kind = "uint" THEN UInt(Word(key, 8)) ELSE SInt(Word(key, 8))

(* The pairs of the map whose key is the one looked up.                     *)
Pairs(kind, key) ==
    {k \in 1..Total(Element) \div 2 :
        LET at == ChildPlaces(place)[2 * k - 1]
        IN  IF kind = "text" THEN TagAt(at).type = "str" /\ TextAt(at) = key
            ELSE TagEqual(TagAt(at), KeyTag(kind, key))}

Meets(op, arg, t, d) ==
    CASE op = "uint"   -> t.type \in {"uint", "int"} /\ TagEqual(t, UInt(Unsigned(Low(t.v, arg), 8)))
      [] op = "int"    -> t.type \in {"uint", "int"} /\ TagEqual(t, SInt(Signed(Low(t.v, arg), 8)))
      [] op = "is"     -> t.type = arg
      [] op = "bool"   -> \E b \in arg : t = Bool(b)
      [] op \in {"length", "data"} -> t.type \in arg
      [] op = "check"  -> t.type = "str" /\ WellFormed(d) /\ (arg \/ HasNoNull(d))
      [] op = "copy_data" -> t.type \in Texts /\ Len(d) <= arg
      [] op = "copy_utf8" -> IsText(t, d, arg) /\ WellFormed(d)
      [] op = "copy_cstr" -> IsText(t, d, arg - 1) /\ HasNoNull(d)
      [] op = "copy_utf8_cstr" -> IsText(t, d, arg - 1) /\ WellFormed(d) /\ HasNoNull(d)
      [] op = "enum"   -> t.type = "str" /\ \E i \in DOMAIN TextKeys : TextKeys[i] = d
      [] op = "at"     -> t.type = arg[1] /\ arg[2] < Number(t.v)
      [] op = "lookup" -> t.type = "map" /\ Cardinality(Pairs(arg[1], arg[2])) = 1
      [] op \in {"optional", "contains"} ->
                          t.type = "map" /\ Cardinality(Pairs(arg[1], arg[2])) <= 1
      [] op = "root"   -> state = "parsed"
      [] OTHER         -> TRUE

Gives(op, arg, t, d, val) ==
    CASE op \in {"uint", "int"} -> TagEqual(val, t)
      [] op = "bool"     -> t = Bool(val)
      [] op = "tag"      -> val = t
      [] op = "length"   -> val = Number(t.v)
      [] op \in {"data", "copy_data", "copy_utf8", "copy_cstr", "copy_utf8_cstr"} -> val = d
      [] op = "enum"     -> TextKeys[val + 1] = d
      [] op = "contains" -> val = (Pairs(arg[1], arg[2]) # {})
      [] OTHER           -> TRUE

ElementText == IF node <= NilNode THEN <<>> ELSE TextAt(place)

(* A function on a node succeeds exactly when the element in the data that  *)
(* the walk has led to is one it takes, and then gives what is there.       *)
NodesGiveElements ==
    [][error = "ok" /\ answer'.op # "none" =>
          LET a == answer'
              e == IF node = NoNode THEN Nil ELSE Element
          IN  /\ error' = "ok" <=> Meets(a.op, a.arg, e, ElementText)
              /\ error' = "ok" => Gives(a.op, a.arg, e, ElementText, a.val)]_nodeVars

(* The node in hand is the element that the indices and keys lead to in the *)
(* data; a text has its bytes where they are in the data.                   *)
NodeIsElement ==
    node > NilNode =>
        /\ node \in 1..free - 1
        /\ T = TagAt(place)
        /\ T.type \in Texts => Bytes = TextAt(place)

(* The tree is the message and the node in hand is the one asked for.       *)
NodesInv == ParsesRight /\ NodeIsElement

(* An error is never forgotten, and after it no call leads anywhere.        *)
ErrorEndsWalk ==
    [][error # "ok" => error' = error /\ node' \in {node, NilNode, NoNode}]_nodeVars

(* A function takes exactly the elements it says and gives what is in the   *)
(* data, and after an error none gives anything.                            *)
NodesKeepContract == NodesGiveElements /\ ErrorEndsWalk

(* The comment of mpack_node_copy_cstr: "If the string does not fit,        *)
(* mpack_error_data is raised."                                             *)
CopyTooBigIsData ==
    [][error = "ok" /\ answer'.op = "copy_cstr" /\ Element.type = "str" /\ Len(ElementText) >= answer'.arg
          => error' = "data"]_nodeVars
=============================================================================

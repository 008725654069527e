--------------------------------- MODULE Tree ---------------------------------
(* The node parser of mpack as the kernel builds it: a message in memory    *)
(* becomes nodes in a pool that the caller provides. Parsing is a loop over *)
(* the nodes; here an iteration is a step, and call tells which function    *)
(* runs. Several messages may follow each other in the data.                *)
EXTENDS MsgPack, FiniteSetsExt, SequencesExt

CONSTANTS
    Messages,     \* what the data may be, sequences of bytes
    PoolSizes,    \* how many nodes the pool may have
    NodeLimits,   \* what mpack_tree_set_limits may set,
    SizeLimits,   \* and the bytes of a message it may allow
    Depth         \* levels of the parse stack, 32 in the program

ASSUME TreeAssumption ==
    /\ Messages \subseteq Seq(0..255) /\ PoolSizes \subseteq Nat
    /\ NodeLimits \subseteq Nat \ {0} /\ SizeLimits \subseteq Nat \ {0}
    /\ Depth \in Nat \ {0}

VARIABLES
    data,       \* all the data; tree->data points behind its byte number base
    poolSize,   \* tree->pool_count
    limit,      \* tree->max_nodes
    sizeLimit,  \* tree->max_size
    base,
    length,     \* tree->data_length
    size,       \* bytes of the message parsed so far
    count,      \* tree->node_count
    pool,       \* the nodes
    free,       \* the next node of the pool, parser->nodes
    possible,   \* parser->possible_nodes_left
    stack,      \* the levels that are open, as [child, left]
    state,      \* not_started, in_progress or parsed
    call,       \* the function that is running
    error,
    nth         \* history: how many messages have been parsed

given == <<data, poolSize, limit, sizeLimit>>
vars == <<given, base, length, size, count, pool, free, possible, stack, state, call, error, nth>>

(* A node: its tag, and the offset of its bytes or its first child.         *)
Node(tag, at) == [tag |-> tag, at |-> at]
Unset == Node(Tag("missing", <<>>), 0)

Holds(t) == IF t.type \in {"str", "bin"} THEN Number(t.v) ELSE 0
Total(t) == IF t.type = "array" THEN Number(t.v) ELSE IF t.type = "map" THEN 2 * Number(t.v) ELSE 0

(* mpack_tree_init_pool, mpack_tree_set_limits and mpack_tree_init_error    *)
Init ==
    /\ data \in Messages /\ poolSize \in PoolSizes /\ limit \in NodeLimits /\ sizeLimit \in SizeLimits
    /\ error \in IF poolSize = 0 THEN {"bug"} ELSE {"ok", "io"}
    /\ base = 0 /\ length = (IF error = "ok" THEN Len(data) ELSE 0)
    /\ size = 0 /\ count = 0 /\ possible = 0
    /\ pool = [i \in 1..poolSize |-> Unset] /\ free = 1 /\ stack = <<>>
    /\ state = "not_started" /\ call = "none" /\ nth = 0

FlagError(e) == error' = IF error = "ok" THEN e ELSE error

(* A call that returns without a message: mpack_tree_parse flags that.      *)
Incomplete(c) == IF c = "parse" THEN FlagError("invalid") ELSE UNCHANGED error

Idle == call = "none" /\ error = "ok"

(* Faulty: the message before is parsed again. *)
StartAgain(c) ==
    /\ Idle /\ state # "in_progress"
    /\ length > 0
    /\ size' = 0 /\ state' = "in_progress" /\ call' = c
    /\ possible' = length - 1 /\ count' = 1
    /\ free' = 2 /\ stack' = <<[child |-> 1, left |-> 1]>>
    /\ UNCHANGED <<given, base, length, pool, error, nth>>

(* mpack_tree_parse and mpack_tree_try_parse, as far as parse_start.        *)
Start(c) ==
    /\ Idle /\ state # "in_progress"
    /\ base' = base + size /\ length' = length - size /\ size' = 0
    /\ IF length - size > 0
       THEN /\ state' = "in_progress" /\ call' = c
            /\ possible' = length - size - 1 /\ count' = 1
            /\ free' = 2 /\ stack' = <<[child |-> 1, left |-> 1]>>
            /\ UNCHANGED error
       ELSE /\ state' = "not_started" /\ possible' = 0
            /\ count' = (IF size > 0 THEN 0 ELSE count)
            /\ Incomplete(c)
            /\ UNCHANGED <<free, stack, call>>
    /\ UNCHANGED <<given, pool, nth>>

(* A parse that was left unfinished goes on with the node it stopped at.    *)
Resume(c) ==
    /\ Idle /\ state = "in_progress" /\ call' = c
    /\ UNCHANGED <<given, base, length, size, count, pool, free, possible, stack, state, error, nth>>

-----------------------------------------------------------------------------
(* An iteration of mpack_tree_continue_parsing.                             *)
First == data[base + size + 1]
WordHere == SubSeq(data, base + size + 2, base + size + TagSize(First))
TagHere == ReadTag(First, WordHere)

(* mpack_tree_reserve_bytes: one byte for each node that is announced is    *)
(* out of possible already.                                                 *)
Reaches(n) == n <= possible

IsTag == call # "none" /\ Refusal(First) = "ok"
HasWord == IsTag /\ Reaches(WordSize(First))
IsLeaf == HasWord /\ TagHere.type \notin {"array", "map"}
IsBranch == HasWord /\ TagHere.type \in {"array", "map"}

Returns == call' = "none" /\ UNCHANGED <<given, base, length, size, pool, possible, stack, state, nth>>

Fails(e) == Returns /\ FlagError(e)
(* Faulty: only an error ends the loop. *)
StopsOnError ==
    /\ Incomplete(call) /\ call' = (IF error' = "ok" THEN call ELSE "none")
    /\ UNCHANGED <<given, base, length, size, pool, possible, stack, state, nth, free>>

Stops == Returns /\ Incomplete(call) /\ UNCHANGED free

RefuseNode ==
    /\ call # "none" /\ Refusal(First) \in {"invalid", "unsupported"}
    /\ Fails(Refusal(First)) /\ UNCHANGED <<count, free>>

(* 0xca and 0xcb have no case: control leaves the switch for a statement    *)
(* that cannot be reached, and what happens is undefined.                   *)
LeaveSwitch ==
    /\ call # "none" /\ Refusal(First) = "unreachable"
    /\ state' = "undefined" /\ call' = "none"
    /\ UNCHANGED <<given, base, length, size, count, pool, free, possible, stack, error, nth>>

MissWord ==
    /\ IsTag /\ ~Reaches(WordSize(First))
    /\ Stops /\ UNCHANGED count

MissBytes ==
    /\ IsLeaf /\ ~Reaches(WordSize(First) + Holds(TagHere))
    /\ Stops /\ UNCHANGED count

(* mpack_tree_parse_children: the limits in the order in which they are     *)
(* looked at.                                                               *)
Counts == count' = count + Total(TagHere)
InLimit == count + Total(TagHere) <= limit
HasBytes == Reaches(WordSize(First) + Total(TagHere))
InPool == Total(TagHere) <= poolSize - free + 1

InStack == Total(TagHere) = 0 \/ Len(stack) < Depth

ExceedLimit == IsBranch /\ Counts /\ ~InLimit /\ Fails("too_big") /\ UNCHANGED free
MissChildren == IsBranch /\ Counts /\ InLimit /\ ~HasBytes /\ Stops
ExceedPool == IsBranch /\ Counts /\ InLimit /\ HasBytes /\ ~InPool /\ Fails("too_big") /\ UNCHANGED free

ExceedStack ==
    /\ IsBranch /\ Counts /\ InLimit /\ HasBytes /\ InPool /\ ~InStack
    /\ Fails("too_big") /\ free' = free + Total(TagHere)

Top == Last(stack)

(* Faulty: the sibling of a container is parsed into its place again. *)
NextInLevelStays(s) ==
    IF TagHere.type = "map" THEN [s EXCEPT ![Len(s)].left = @ - 1]
    ELSE [s EXCEPT ![Len(s)] = [child |-> @.child + 1, left |-> @.left - 1]]

NextInLevel(s) == [s EXCEPT ![Len(s)] = [child |-> @.child + 1, left |-> @.left - 1]]

(* The levels that are done are popped; at the end none is left.            *)
Popped(s) == SubSeq(s, 1, Max({0} \cup {i \in 1..Len(s) : s[i].left > 0}))

Goes(s) ==
    /\ stack' = Popped(s)
    /\ IF Popped(s) = <<>> THEN state' = "parsed" /\ call' = "none" /\ nth' = nth + 1
       ELSE UNCHANGED <<state, call, nth>>
    /\ UNCHANGED <<given, base, length, error>>

(* mpack_tree_parse_bytes, or a node that is its tag alone.                 *)
ParseLeaf ==
    /\ IsLeaf /\ Reaches(WordSize(First) + Holds(TagHere))
    /\ pool' = [pool EXCEPT ![Top.child] = Node(TagHere, size + TagSize(First))]
    /\ possible' = possible - WordSize(First) - Holds(TagHere)
    /\ size' = size + TagSize(First) + Holds(TagHere)
    /\ Goes(NextInLevel(stack))
    /\ UNCHANGED <<count, free>>

(* The children get nodes that follow each other and a byte each; the level *)
(* is popped when they are done. A container without children opens none.   *)
ParseBranch ==
    /\ IsBranch /\ Counts /\ InLimit /\ HasBytes /\ InPool /\ InStack
    /\ pool' = [pool EXCEPT ![Top.child] = Node(TagHere, free)]
    /\ free' = free + Total(TagHere)
    /\ possible' = possible - WordSize(First) - Total(TagHere)
    /\ size' = size + TagSize(First)
    /\ Goes(IF Total(TagHere) = 0 THEN NextInLevel(stack)
            ELSE Append(NextInLevel(stack), [child |-> free, left |-> Total(TagHere)]))

ParseNode ==
    \/ RefuseNode \/ LeaveSwitch \/ MissWord \/ MissBytes
    \/ ExceedLimit \/ MissChildren \/ ExceedPool \/ ExceedStack
    \/ ParseLeaf \/ ParseBranch

Next ==
    \/ \E c \in {"parse", "try"} : Start(c) \/ Resume(c)
    \/ ParseNode

(* The loop of the parser does not stop by itself; nobody has to call it.   *)
Spec == Init /\ [][Next]_vars /\ WF_vars(ParseNode)

-----------------------------------------------------------------------------
(* What the data says, told from the format alone: the elements of the      *)
(* message that begins after at bytes, each with the place of its tag.      *)
Elements(at) ==
    LET fits(p) == /\ p < Len(data) /\ Refusal(data[p + 1]) = "ok"
                   /\ p + TagSize(data[p + 1]) <= Len(data)
        tag(p) == ParseTag(SubSeq(data, p + 1, p + TagSize(data[p + 1])))
        end(p) == p + TagSize(data[p + 1]) + Holds(tag(p))
        next(m) == IF m.open = 0 \/ ~fits(m.end) THEN m
                   ELSE [open |-> m.open - 1 + Total(tag(m.end)), end |-> end(m.end),
                         list |-> Append(m.list, [tag |-> tag(m.end), at |-> m.end])]
        after[k \in 0..Len(data)] ==
            IF k = 0 THEN [open |-> 1, end |-> at, list |-> <<>>] ELSE next(after[k - 1])
    IN  after[Len(data)]

Complete(m) == m.open = 0 /\ m.end <= Len(data)

(* The first element behind number i and all that is in it.                 *)
BehindElement(list, i) ==
    LET open[j \in i..Len(list) + 1] ==
            IF j = i THEN 1 ELSE open[j - 1] - 1 + Total(list[j - 1].tag)
    IN  Min({j \in i + 1..Len(list) + 1 : open[j] = 0})

Levels(list) ==
    Max({Cardinality({i \in 1..j : j < BehindElement(list, i)}) : j \in 1..Len(list)})

Parsable(m) ==
    /\ Complete(m)
    /\ Len(m.list) <= limit /\ Len(m.list) <= poolSize
    /\ Levels(m.list) <= Depth

(* The nodes below node i, itself first, as the caller walks them.          *)
Walk(i) ==
    LET walk[k \in 1..poolSize] ==
            <<k>> \o FlattenSeq([c \in 1..Total(pool[k].tag) |-> walk[pool[k].at + c - 1]])
    IN  walk[i]

BeginOf(n) ==
    LET begin[k \in 1..n] == IF k = 1 THEN 0 ELSE Elements(begin[k - 1]).end IN begin[n]

(* The nodes that wait to be parsed, on all levels together.                *)
LeftIn(levels) ==
    LET sum[i \in 0..Len(levels)] == IF i = 0 THEN 0 ELSE sum[i - 1] + levels[i].left
    IN  sum[Len(levels)]
Pending == LeftIn(stack)
ChildrenOf(i) == pool[i].at .. pool[i].at + Total(pool[i].tag) - 1
Waiting(level) == level.child .. level.child + level.left - 1
WaitingIn(levels) == UNION {Waiting(levels[i]) : i \in 1..Len(levels)}

-----------------------------------------------------------------------------
(* The types of the tree: no counter leaves its range.                      *)
TreeTypeOK ==
    /\ base \in Nat /\ length \in Nat /\ base + length <= Len(data)
    /\ size \in 0..length /\ possible \in 0..length
    /\ free \in 1..poolSize + 1 /\ Len(stack) \in 0..Depth
    /\ state \in {"not_started", "in_progress", "parsed", "undefined"}
    /\ call \in {"none", "parse", "try"} /\ (call # "none" => state = "in_progress")

(* Every byte of the data is parsed, promised to a node that is announced,  *)
(* or still possible: so no node is read behind the data, and after a       *)
(* message the possible nodes are the bytes that are left over.             *)
BytesAccounted ==
    state \in {"in_progress", "parsed"} => length = size + possible + Pending

(* The nodes that have been handed out wait on one level of the stack or    *)
(* are the child of one node that has been parsed: no two containers share  *)
(* a child, and none is lost.                                               *)
NodesPlacedOnce ==
    state \in {"in_progress", "parsed"} /\ error = "ok" =>
        LET waiting == WaitingIn(stack)
            parsed == 1..free - 1 \ waiting
        IN  /\ waiting \subseteq 1..free - 1
            /\ \A i, j \in 1..Len(stack) : i # j => Waiting(stack[i]) \cap Waiting(stack[j]) = {}
            /\ \A i \in parsed : ChildrenOf(i) \subseteq i + 1..free - 1
            /\ UNION {ChildrenOf(i) : i \in parsed} = 2..free - 1
            /\ \A i, j \in parsed : i # j => ChildrenOf(i) \cap ChildrenOf(j) = {}

(* The nodes of the n-th message that is parsed, walked from the root, are  *)
(* its elements in their order, and each string has its bytes where they    *)
(* are in the data.                                                         *)
ParsedFaithful ==
    state = "parsed" =>
        LET m == Elements(BeginOf(nth))
            nodes == Walk(1)
        IN  /\ base + size = m.end
            /\ Len(nodes) = Len(m.list)
            /\ \A i \in 1..Len(nodes) :
                  LET n == pool[nodes[i]]
                      e == m.list[i]
                  IN  /\ n.tag = e.tag
                      /\ n.tag.type \in {"str", "bin"} => base + n.at = e.at + TagSize(data[e.at + 1])

(* A message is parsed exactly when it is whole, has no more nodes than the *)
(* limit and the pool, and is no deeper than the stack.                     *)
AcceptsRight ==
    /\ state = "parsed" => Parsable(Elements(base))
    /\ state = "in_progress" /\ (error \notin {"ok", "io"} \/ call = "none") => ~Parsable(Elements(base))

(* The parser neither loses nor shares a node or a byte.                    *)
TreeInv == TreeTypeOK /\ BytesAccounted /\ NodesPlacedOnce

(* The tree is the message, and there is one exactly when it may be.        *)
ParsesRight == ParsedFaithful /\ AcceptsRight

(* A message of any shape, and any number of retries of one that is cut     *)
(* short, has the parser return.                                            *)
ParseReturns == call # "none" ~> call = "none"

(* The assertion behind the switch of mpack_tree_parse_node_contents:       *)
(* "unreachable".                                                           *)
SwitchIsComplete == state # "undefined"

(* The comment of mpack_tree_size: "This is zero if an error occurred       *)
(* during tree parsing".                                                    *)
SizeZeroOnError == error \notin {"ok", "io"} => size = 0
(* The comment of mpack_tree_set_limits: "Sets the maximum byte size and    *)
(* maximum number of nodes allowed per message."                            *)
SizeLimitKept == state = "parsed" => size <= sizeLimit
=============================================================================

------------------------------ MODULE Posting ------------------------------
(***************************************************************************)
(* What is posted: Toots with the texts of the writes, the indexes         *)
(* add_element gives them, and the agent's toot manager                    *)
(* (daemon/internal/toot), which collects the texts of a toot, sorts them  *)
(* by index when the toot is sent and hands them to the Mastodon client.   *)
(*                                                                         *)
(* An open(2) and a text are the numbers of their turn, so that a post can *)
(* be compared with the calls it comes from.                               *)
(***************************************************************************)
EXTENDS Toots, Functions

CONSTANTS
    IndexCount,  \* the number of indexes: 2^32 in the code
    AnyCount,    \* what the memory of a new toot may hold for element_count
    MaxOpens,    \* bound: calls of open(2)
    MaxWrites    \* bound: calls of write(2) that get an element

Indexes == 0 .. IndexCount - 1
TextIds == 1 .. MaxWrites

ASSUME IndexAssumption == IndexCount \in Nat \ {0} /\ AnyCount \subseteq Indexes
ASSUME HistoryAssumption == MaxOpens \in Nat /\ MaxWrites \in Nat
ASSUME NoTextsAssumption == NULL \notin Seq(TextIds)

VARIABLES
    opens,    \* number of opens so far
    openOf,   \* openOf[f]: the number of the open that f comes from
    writes,   \* number of texts so far
    made,     \* made[n]: the open whose file text n was written to, its index
    text,     \* text[t]: the text that t writes
    count,    \* count[o]: element_count of the toot at o
    body,     \* body[p]: what the requests on p's socket are about, in order
    held,     \* held[p]: TootManage.toots, id -> its elements, or NULL
    posts,    \* the toots that were posted, in order
    success,  \* the texts whose write(2) returned without an error
    wrapped,  \* opens whose element_count wrapped to 0
    misled    \* an agent's "opened" was put on a toot it did not speak of

postVars ==
    <<opens, openOf, writes, made, text, count, body, held, posts, success, wrapped, misled>>
allVars == <<vars, postVars>>

(* A request on the way to the agent: a toot, the open that it belongs to, *)
(* and for ADD_TOOT_TEXT the text.                                         *)
Asked(type, f, n) == [type |-> type, toot |-> file[f].id, open |-> openOf[f], text |-> n]

Ask(p, b) == body' = [body EXCEPT ![p] = Append(@, b)]

-----------------------------------------------------------------------------
(* open(2) and close(2) *)

(* add_toot does not write element_count. *)
PostAddToot(t) ==
    /\ opens < MaxOpens
    /\ AddToot(t)
    /\ opens' = opens + 1
    /\ openOf' = [openOf EXCEPT ![MyFile(t)] = opens + 1]
    /\ \E c \in AnyCount : count' = [count EXCEPT ![toots'[file'[MyFile(t)].id]] = c]
    /\ UNCHANGED <<writes, made, text, body, held, posts, success, wrapped, misled>>

PostNewToot(t) ==
    /\ NewToot(t)
    /\ Ask(PidOf(MyToot(t)), Asked("NEW_TOOT", MyFile(t), 0))
    /\ UNCHANGED <<opens, openOf, writes, made, text, count, held, posts, success, wrapped, misled>>

PostClose(t) ==
    /\ \E f \in Files :
         /\ CloseToot(t, f)
         /\ Ask(PidOf(file[f].id), Asked("SEND_TOOT", f, 0))
    /\ UNCHANGED <<opens, openOf, writes, made, text, count, held, posts, success, wrapped, misled>>

(* The other steps of the system calls put nothing on a socket. *)
PostCall(t) ==
    /\ OtherCallStep(t) \/ UserStep(t)
    /\ UNCHANGED inbox
    /\ UNCHANGED postVars

-----------------------------------------------------------------------------
(* write(2) *)

NextIndex(c) == (c + 1) % IndexCount

(* add_element numbers the element, under the toot's own lock. *)
PostAddElement(t) ==
    /\ writes < MaxWrites
    /\ AddElement(t)
    /\ LET o     == toots[MyToot(t)]
           index == NextIndex(count[o])
           n     == writes + 1
       IN /\ count' = [count EXCEPT ![o] = index]
          /\ made' = [made EXCEPT ![n] = [open |-> openOf[MyFile(t)], index |-> index]]
          /\ text' = [text EXCEPT ![t] = n]
          /\ writes' = n
          /\ wrapped' = wrapped \cup (IF index = 0 THEN {openOf[MyFile(t)]} ELSE {})
    /\ UNCHANGED <<opens, openOf, body, held, posts, success, misled>>

PostAddText(t) ==
    /\ AddText(t)
    /\ Ask(PidOf(MyToot(t)), Asked("ADD_TOOT_TEXT", MyFile(t), text[t]))
    /\ UNCHANGED <<opens, openOf, writes, made, text, count, held, posts, success, wrapped, misled>>

PostWriteReturns(t) ==
    /\ WriteReturns(t)
    /\ success' = success \cup {text[t]}
    /\ UNCHANGED <<opens, openOf, writes, made, text, count, body, held, posts, wrapped, misled>>

-----------------------------------------------------------------------------
(* TootManage *)

(* The orders in which texts can stand. *)
Orders(texts) ==
    {[i \in DOMAIN texts |-> texts[q[i]]] : q \in Bijection(DOMAIN texts, DOMAIN texts)}

(* Faulty: in the order they came. *)
GetTextUnsorted(texts) == {texts}

(* Faulty: the last element is left out. *)
GetTextShort(texts) == {IF Len(texts) < 2 THEN texts ELSE SubSeq(texts, 1, Len(texts) - 1)}

(* GetText: sorted by index; sort.Slice leaves equal ones in any order.    *)
GetText(texts) ==
    {s \in Orders(texts) : \A i, j \in DOMAIN s : i < j => made[s[i]].index <= made[s[j]].index}

(* NewToot, AddTootElement, SendToot, for the request m at the head of p's *)
(* socket; ok is their answer.                                             *)

(* Faulty: a toot that is there already is taken over. *)
ManageNewKeeps(p, m, ok) ==
    /\ m.type = "NEW_TOOT" /\ ok
    /\ held' = IF held[p][m.toot] = NULL
               THEN [held EXCEPT ![p][m.toot] = << >>] ELSE held
    /\ UNCHANGED posts

ManageNew(p, m, ok) ==
    /\ m.type = "NEW_TOOT"
    /\ ok = (held[p][m.toot] = NULL)
    /\ held' = IF ok THEN [held EXCEPT ![p][m.toot] = << >>] ELSE held
    /\ UNCHANGED posts

ManageText(p, m, ok) ==
    /\ m.type = "ADD_TOOT_TEXT"
    /\ ok = (held[p][m.toot] # NULL)
    /\ held' = IF ok THEN [held EXCEPT ![p][m.toot] = Append(@, Head(body[p]).text)] ELSE held
    /\ UNCHANGED posts

(* PostStatus may fail before or after the server has posted: the toot     *)
(* then stays in the map.                                                  *)
ManageSend(p, m, ok) ==
    /\ m.type = "SEND_TOOT"
    /\ ok => held[p][m.toot] # NULL
    /\ \/ /\ held[p][m.toot] # NULL
          /\ \E texts \in GetText(held[p][m.toot]) :
               posts' = Append(posts, [open |-> Head(body[p]).open, texts |-> texts])
       \/ ~ok /\ UNCHANGED posts
    /\ held' = IF ok THEN [held EXCEPT ![p][m.toot] = NULL] ELSE held

(* The agent takes a request, manages it and answers; the module refuses   *)
(* the answer or handles it.                                               *)
PostAnswer(p) ==
    /\ \E ok \in BOOLEAN :
         /\ AnswerToot(p, ok) \/ AnswerText(p, ok) \/ AnswerRefused(p)
         /\ LET m == Head(inbox[p])
            IN ManageNew(p, m, ok) \/ ManageText(p, m, ok) \/ ManageSend(p, m, ok)
    /\ body' = [body EXCEPT ![p] = Tail(@)]
    /\ UNCHANGED <<opens, openOf, writes, made, text, count, success, wrapped, misled>>

(* The address p's handler has found is that of the toot it looked for, on *)
(* p's own device.                                                         *)
FoundOwn(p) ==
    LET o == ans[p].obj
    IN /\ toot[o].id = ans[p].toot
       /\ Registered(toot[o].dev) /\ dev[toot[o].dev].pid = p

(* set_toot_ready writes through the address, whatever is there by now.    *)
Misleads(p) ==
    /\ AnswerSet(p)
    /\ ans[p].op = "NEW_TOOT" /\ ans[p].ok
    /\ Live(ans[p].obj) /\ ~FoundOwn(p)

(* The other steps of agents and handlers; a socket that closes loses what *)
(* it holds.                                                               *)
PostOther(p) ==
    /\ DeviceStep(p) \/ HandlerStep(p)
    /\ body' = IF p \in sock' THEN body ELSE [body EXCEPT ![p] = << >>]
    /\ misled' = (misled \/ Misleads(p))
    /\ UNCHANGED <<opens, openOf, writes, made, text, count, held, posts, success, wrapped>>

-----------------------------------------------------------------------------
PostInit ==
    /\ Init
    /\ opens = 0 /\ openOf = [f \in Files |-> 0]
    /\ writes = 0 /\ made = [n \in TextIds |-> [open |-> 0, index |-> 0]]
    /\ text = [t \in Threads |-> 0]
    /\ count = [o \in TootObjs |-> 0]
    /\ body = [p \in Agents |-> << >>]
    /\ held = [p \in Agents |-> [i \in TootIds |-> NULL]]
    /\ posts = << >> /\ success = {} /\ wrapped = {} /\ misled = FALSE

PostNext ==
    \/ \E t \in Threads :
         \/ PostAddToot(t) \/ PostNewToot(t) \/ PostClose(t) \/ PostCall(t)
         \/ PostAddElement(t) \/ PostAddText(t) \/ PostWriteReturns(t)
    \/ \E p \in Agents : PostAnswer(p) \/ PostOther(p)

PostSpec == PostInit /\ [][PostNext]_allVars

-----------------------------------------------------------------------------
RequestTypes == {"NEW_TOOT", "ADD_TOOT_TEXT", "SEND_TOOT"}

Body == [type : RequestTypes, toot : TootIds, open : 0 .. MaxOpens, text : 0 .. MaxWrites]
Post == [open : 0 .. MaxOpens, texts : Seq(TextIds)]

(* The bodies are about the requests among the messages, one by one; Place *)
(* says where in the queue each of them is.                                *)
Follows(bodies, queue, Place) ==
    /\ \A k, l \in DOMAIN bodies : k < l => Place[k] < Place[l]
    /\ \A k \in DOMAIN bodies :
         /\ queue[Place[k]].type = bodies[k].type
         /\ queue[Place[k]].toot = bodies[k].toot
    /\ \A j \in DOMAIN queue :
         queue[j].type \in RequestTypes => \E k \in DOMAIN bodies : Place[k] = j

Aligned(bodies, queue) ==
    \E Place \in [DOMAIN bodies -> DOMAIN queue] : Follows(bodies, queue, Place)

(* Every variable has its type, and every request on a socket its body. *)
PostTypeOK ==
    /\ TypeOK
    /\ opens \in 0 .. MaxOpens
    /\ openOf \in [Files -> 0 .. MaxOpens]
    /\ writes \in 0 .. MaxWrites
    /\ made \in [TextIds -> [open : 0 .. MaxOpens, index : Indexes]]
    /\ text \in [Threads -> 0 .. MaxWrites]
    /\ count \in [TootObjs -> Indexes]
    /\ body \in [Agents -> Seq(Body)]
    /\ held \in [Agents -> [TootIds -> Seq(TextIds) \cup {NULL}]]
    /\ posts \in Seq(Post)
    /\ success \subseteq TextIds /\ wrapped \subseteq 0 .. MaxOpens
    /\ misled \in BOOLEAN
    /\ \A p \in Agents : Aligned(body[p], inbox[p])

(* Two failures are the module's own and void the rest: a device removed   *)
(* under its files (torn), and an answer put on another toot (misled).     *)
Undisturbed == ~torn /\ ~misled

(* However ids are given out again, opens give up, answers come late and   *)
(* posts fail: what is posted are texts of one open, the one whose close   *)
(* asked for the post.                                                     *)
PostedIsOneOpen ==
    Undisturbed =>
        \A k \in DOMAIN posts : \A i \in DOMAIN posts[k].texts :
            made[posts[k].texts[i]].open = posts[k].open

(* No text is posted twice, also when the server posted a toot and the     *)
(* client reported an error, so that the manager keeps it.                 *)
PostedOnce ==
    Undisturbed =>
        \A k, l \in DOMAIN posts :
            \A i \in DOMAIN posts[k].texts, j \in DOMAIN posts[l].texts :
                posts[k].texts[i] = posts[l].texts[j] => k = l /\ i = j

(* No post mixes the texts of two opens or repeats one.                    *)
PostingInv == PostTypeOK /\ PostedIsOneOpen /\ PostedOnce

(* A write(2) that succeeded is in the post of its open, although the      *)
(* answer to one write may complete another (toot.c:175).                  *)
SuccessIsPosted ==
    Undisturbed =>
        \A k \in DOMAIN posts : \A n \in success :
            made[n].open = posts[k].open => \E i \in DOMAIN posts[k].texts : posts[k].texts[i] = n

(* Texts are posted in the order in which the writes got their elements,   *)
(* in whatever order their messages were queued, unless element_count,     *)
(* which add_toot does not write, wrapped in between.                      *)
PostedInOrder ==
    Undisturbed =>
        \A k \in DOMAIN posts : posts[k].open \notin wrapped =>
            \A i, j \in DOMAIN posts[k].texts : i < j => posts[k].texts[i] < posts[k].texts[j]
=============================================================================

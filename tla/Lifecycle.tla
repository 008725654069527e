------------------------------ MODULE Lifecycle ------------------------------
(* The kernel module is loaded and unloaded: cremona_init, cremona_exit and *)
(* the store and communicator they make, with every step that can fail and  *)
(* the agents and programs that are there in the meantime. Handlers are one *)
(* step here; module Devices has their steps.                               *)
EXTENDS Integers, FiniteSets

CONSTANTS
    Agents,    \* agent processes
    Devices,   \* device ids
    Programs   \* programs that open a device's file

VARIABLES
    pc,        \* of insmod or rmmod; "out" and "live" when neither runs
    held,      \* what the module has allocated or registered
    ids,       \* device ids in the store's idr
    nodes,     \* devices with a node in /dev
    userData,  \* the kernel socket's sk_user_data is set
    known,     \* the store knows its communicator
    sockets,   \* agents with an open netlink socket
    hung,      \* agents whose request waits for ever
    files,     \* programs with an open file
    oops,      \* the kernel used a NULL pointer or freed memory
    send       \* history: the last communicator_send_message

vars == <<pc, held, ids, nodes, userData, known, sockets, hung, files, oops, send>>
store == <<ids, nodes>>
com == <<userData, known>>
users == <<sockets, hung, files>>

NoSend == [queued |-> TRUE, says |-> TRUE]

Init ==
    /\ pc = "out" /\ held = {} /\ ids = {} /\ nodes = {}
    /\ userData = FALSE /\ known = FALSE
    /\ sockets = {} /\ hung = {} /\ files = {} /\ oops = FALSE /\ send = NoSend

Step(from, to) == pc = from /\ pc' = to

-----------------------------------------------------------------------------
(* create_store: the result of kzalloc is used unseen. *)
AllocStore ==
    /\ Step("out", "region") /\ ~oops
    /\ \/ held' = held \cup {"store"} /\ UNCHANGED oops
       \/ oops' = TRUE /\ UNCHANGED held
    /\ known' = FALSE
    /\ UNCHANGED <<store, userData, users, send>>

Acquire(from, what, to) ==
    /\ Step(from, to) /\ ~oops
    /\ held' = held \cup {what}
    /\ UNCHANGED <<store, com, users, oops, send>>

AllocRegion == Acquire("region", "region", "class")
CreateClass == Acquire("class", "class", "object")
AllocCommunicator == Acquire("object", "object", "socket")
CreateSocket == Acquire("socket", "socket", "data")

(* Faulty: the region is forgotten. *)
ReleasesAllButRegion(at) ==
    CASE at = "region" -> {"store"}
      [] at = "class"  -> {"store"}
      [] at = "object" -> {"store", "region", "class"}
      [] at = "socket" -> {"store", "region", "class", "object"}

(* What the error path of each step gives back: create_store undoes itself, *)
(* create_communicator_and_register_store frees its object, and             *)
(* cremona_init calls destroy_store.                                        *)
Releases(at) ==
    CASE at = "region" -> {"store"}
      [] at = "class"  -> {"store", "region"}
      [] at = "object" -> {"store", "region", "class"}
      [] at = "socket" -> {"store", "region", "class", "object"}

LoadFails ==
    /\ pc \in {"region", "class", "object", "socket"} /\ ~oops
    /\ held' = held \ Releases(pc)
    /\ pc' = "out"
    /\ UNCHANGED <<store, com, users, oops, send>>

(* The socket is registered before these two, so that requests may come.    *)
SetUserData ==
    /\ Step("data", "register") /\ ~oops
    /\ userData' = TRUE
    /\ UNCHANGED <<held, store, known, users, oops, send>>

SetCommunicator ==
    /\ Step("register", "live") /\ ~oops
    /\ known' = TRUE
    /\ UNCHANGED <<held, store, userData, users, oops, send>>

-----------------------------------------------------------------------------
(* An open socket of the protocol and an open file of a device count as     *)
(* users of the module: it is not unloaded.                                 *)
Unused == sockets = {} /\ files = {}

(* No new users once it is going, either. *)
Going == pc \in {"detach", "release"}

OpenSocket(a) ==
    /\ "socket" \in held /\ ~Going /\ a \notin sockets /\ ~oops
    /\ sockets' = sockets \cup {a}
    /\ UNCHANGED <<pc, held, store, com, hung, files, oops, send>>

CloseSocket(a) ==
    /\ a \in sockets \ hung
    /\ sockets' = sockets \ {a}
    /\ UNCHANGED <<pc, held, store, com, hung, files, oops, send>>

OpenFile(p) ==
    /\ nodes # {} /\ ~Going /\ p \notin files /\ ~oops
    /\ files' = files \cup {p}
    /\ UNCHANGED <<pc, held, store, com, sockets, hung, oops, send>>

CloseFile(p) ==
    /\ p \in files
    /\ files' = files \ {p}
    /\ UNCHANGED <<pc, held, store, com, sockets, hung, oops, send>>

(* process_recive_data finds the store through the socket. *)
FindsStore == userData /\ {"store", "object"} \subseteq held

(* communicator_send_message: without an interface it returns -1, which as  *)
(* a bool is true.                                                          *)
Send(queued) ==
    IF known THEN send' = [queued |-> queued, says |-> queued]
    ELSE send' = [queued |-> FALSE, says |-> TRUE]

(* A request for a device: it is made, or taken back when the answer cannot *)
(* be sent; when its name is taken the handler never returns.               *)
CreateDevice(a) ==
    /\ a \in sockets \ hung /\ ~oops /\ FindsStore
    /\ \E d \in Devices \ ids :
          \/ /\ \E queued \in BOOLEAN : Send(queued)
             /\ IF send'.says THEN ids' = ids \cup {d} /\ nodes' = nodes \cup {d} ELSE UNCHANGED store
             /\ UNCHANGED hung
          \/ ids' = ids \cup {d} /\ hung' = hung \cup {a} /\ UNCHANGED <<nodes, send>>
    /\ UNCHANGED <<pc, held, com, sockets, files, oops>>

(* A request that finds no store. *)
RequestOopses(a) ==
    /\ a \in sockets \ hung /\ ~oops /\ ~FindsStore
    /\ oops' = TRUE
    /\ UNCHANGED <<pc, held, store, com, users, send>>

-----------------------------------------------------------------------------
(* cremona_exit: destroy_store takes the devices that agents have left, the *)
(* class, the region and the store; then communicator_free.                 *)
BeginExit ==
    /\ Step("live", "detach") /\ ~oops
    /\ Unused
    /\ UNCHANGED <<held, store, com, users, oops, send>>

DestroyDevice ==
    /\ pc = "detach" /\ ~oops
    /\ \E d \in ids : /\ \A e \in ids : d <= e
                     /\ nodes' = nodes \ {d} /\ ids' = ids \ {d}
    /\ UNCHANGED <<pc, held, com, users, oops, send>>

DestroyStore ==
    /\ Step("detach", "release") /\ ~oops /\ ids = {}
    /\ held' = held \ {"class", "region", "store"}
    /\ UNCHANGED <<store, com, users, oops, send>>

FreeCommunicator ==
    /\ Step("release", "out") /\ ~oops
    /\ held' = held \ {"socket", "object"} /\ userData' = FALSE
    /\ UNCHANGED <<store, known, users, oops, send>>

Next ==
    \/ AllocStore \/ AllocRegion \/ CreateClass \/ AllocCommunicator \/ CreateSocket
    \/ LoadFails \/ SetUserData \/ SetCommunicator
    \/ BeginExit \/ DestroyDevice \/ DestroyStore \/ FreeCommunicator
    \/ \E a \in Agents : OpenSocket(a) \/ CloseSocket(a) \/ CreateDevice(a) \/ RequestOopses(a)
    \/ \E p \in Programs : OpenFile(p) \/ CloseFile(p)

Spec == Init /\ [][Next]_vars
-----------------------------------------------------------------------------
LifecycleTypeOK ==
    /\ held \subseteq {"store", "region", "class", "object", "socket"}
    /\ ids \subseteq Devices /\ nodes \subseteq ids
    /\ hung \subseteq sockets /\ sockets \subseteq Agents /\ files \subseteq Programs

(* A load that failed at any step, and an unload whatever devices were      *)
(* left, leave nothing allocated, registered or in /dev.                    *)
OutHoldsNothing == pc = "out" => held = {} /\ store = <<{}, {}>> /\ ~userData

(* The store is freed before the socket that leads to it, but by then no    *)
(* agent can send: a request can only miss the store while the module is    *)
(* being loaded, between the registration of the socket and its user data.  *)
OopsesOnlyWhileLoading == oops => pc \in {"region", "data"}

(* Loading and unloading, with whatever agents and programs do meanwhile,   *)
(* leave nothing behind and let no request meet freed memory.               *)
LifecycleSound == LifecycleTypeOK /\ OutHoldsNothing /\ OopsesOnlyWhileLoading

(* What communicator_send_message says is whether the message was sent.     *)
SendReportsTruth == send.says = send.queued
=============================================================================

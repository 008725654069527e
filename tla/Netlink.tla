------------------------------ MODULE Netlink ------------------------------
(***************************************************************************)
(* The netlink channel between the Cremona kernel module and the agents:   *)
(* the messages of driver/src/cremona/message.h and the delivery done by   *)
(* driver/src/module/net_link_comm.c.                                      *)
(*                                                                         *)
(* An agent's request runs its whole handler inside the agent's own        *)
(* sendto(2), so requests need no queue: the modules above start a handler *)
(* directly.  What the kernel sends is queued on the receiver's socket.    *)
(***************************************************************************)
EXTENDS Integers, Sequences, FiniteSets

CONSTANTS
    Agents,       \* agent processes, by pid; a pid runs at most once
    MinorMin,     \* MINOR_BASE of main.c
    MinorMax,     \* MINOR_NUM of main.c
    MaxToots,     \* bound: number of toot ids (INT_MAX + 1 in the code)
    MaxElements,  \* bound: number of element ids (INT_MAX + 1 in the code)
    RcvBuf,       \* bound: messages a socket's receive buffer holds
    Faults,       \* the faults this instance lets happen, from FaultKinds
    NULL          \* no device, no toot, no value

DeviceIds  == MinorMin .. MinorMax
TootIds    == 0 .. MaxToots - 1
ElementIds == 0 .. MaxElements - 1

(* "nomem": an allocation fails; "nosend": nlmsg_unicast fails although    *)
(* the socket has room; "noattach": cdev_device_add fails although the     *)
(* name is free; "crash": an agent process dies without destroying its     *)
(* device.                                                                 *)
FaultKinds == {"nomem", "nosend", "noattach", "crash"}

ASSUME MinorAssumption  == MinorMin \in Nat /\ MinorMax \in Nat
ASSUME BoundsAssumption == MaxToots \in Nat /\ MaxElements \in Nat
ASSUME RcvBufAssumption == RcvBuf \in Nat
ASSUME FaultsAssumption == Faults \subseteq FaultKinds
ASSUME NullAssumption   == NULL \notin Agents /\ NULL \notin Int

-----------------------------------------------------------------------------
(* Messages of the kernel. *)

CreateDeviceResult(d)  == [type |-> "CREATE_DEVICE_RESULT", dev |-> d]
DestroyDeviceResult(d) == [type |-> "DESTROY_DEVICE_RESULT", dev |-> d]
GetHealthResult(d, s)  == [type |-> "GET_HEALTH_RESULT", dev |-> d, status |-> s]
NewTootMsg(t, d)       == [type |-> "NEW_TOOT", toot |-> t, dev |-> d]
AddTextMsg(t, d, e)    == [type |-> "ADD_TOOT_TEXT", toot |-> t, dev |-> d, elem |-> e]
SendTootMsg(t, d)      == [type |-> "SEND_TOOT", toot |-> t, dev |-> d]
NlMsgError             == [type |-> "NLMSG_ERROR"]

Reply ==
    [type : {"CREATE_DEVICE_RESULT", "DESTROY_DEVICE_RESULT"}, dev : DeviceIds]
      \cup [type : {"GET_HEALTH_RESULT"}, dev : DeviceIds, status : BOOLEAN]
      \cup {NlMsgError}

Request ==
    [type : {"NEW_TOOT", "SEND_TOOT"}, toot : TootIds, dev : DeviceIds]
      \cup [type : {"ADD_TOOT_TEXT"}, toot : TootIds, dev : DeviceIds, elem : ElementIds]

Message == Reply \cup Request

-----------------------------------------------------------------------------
VARIABLES
    inbox,  \* inbox[p]: messages queued on p's socket
    sock    \* processes whose socket is open

netVars == <<inbox, sock>>

(* A socket accepts a message while its receive buffer has room. *)
CanDeliver(p) == p \in sock /\ Len(inbox[p]) < RcvBuf

Deliver(p, m) == inbox' = [inbox EXCEPT ![p] = Append(@, m)] /\ UNCHANGED sock

(* send_message returns true: nlmsg_unicast queued m on p's socket. *)
SendOk(p, m) == CanDeliver(p) /\ Deliver(p, m)

(* send_message returns false: no socket, no room, or no memory. *)
MayFailToSend(p) == CanDeliver(p) => "nosend" \in Faults
SendFails(p) == MayFailToSend(p) /\ UNCHANGED netVars

(* process_recive_data returns 1: netlink_ack answers the agent with       *)
(* NLMSG_ERROR, which is lost when it cannot be queued.                    *)
Nack(p) == IF CanDeliver(p) THEN Deliver(p, NlMsgError) ELSE UNCHANGED netVars

(* The agent takes the first message off its socket. *)
HeadIs(p, types) == inbox[p] # << >> /\ Head(inbox[p]).type \in types
Pop(p) == inbox' = [inbox EXCEPT ![p] = Tail(@)] /\ UNCHANGED sock

(* The messages that wait on p's socket. *)
Pending(p) == {inbox[p][i] : i \in DOMAIN inbox[p]}

OpenSocket(p)  == sock' = sock \cup {p} /\ UNCHANGED inbox
CloseSocket(p) == sock' = sock \ {p} /\ inbox' = [inbox EXCEPT ![p] = << >>]

NetInit == inbox = [p \in Agents |-> << >>] /\ sock = {}

NetTypeOK ==
    /\ sock \subseteq Agents
    /\ inbox \in [Agents -> Seq(Message)]
    /\ \A p \in Agents : Len(inbox[p]) <= RcvBuf
=============================================================================

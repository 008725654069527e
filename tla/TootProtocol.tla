---------------------------- MODULE TootProtocol ----------------------------
(***************************************************************************)
(* What the kernel module promises an agent about the requests it sends,   *)
(* seen from the agent: a toot is announced before text is added to it and *)
(* before it is sent, it is sent at most once, and no text follows.  This  *)
(* is the order daemon/internal/toot/toot_manager.go needs: AddTootElement *)
(* and SendToot answer "No toot" for an id outside its map.                *)
(*                                                                         *)
(* The promise ends when a device is removed while files of it are in use  *)
(* (void).                                                                 *)
(***************************************************************************)
CONSTANTS Agents, TootIds, NULL

VARIABLES
    held,  \* held[p]: ids announced to p and not sent: TootManage.toots
    last,  \* the last request: its agent, type and toot; NULL at first
    void   \* the promise is void

protocolVars == <<held, last, void>>

Says(p, type, i) == last' = [agent |-> p, type |-> type, toot |-> i]

(* An announcement may be repeated: the first one's open(2) gave up. *)
Announce(p, i) ==
    /\ Says(p, "NEW_TOOT", i)
    /\ held' = [held EXCEPT ![p] = @ \cup {i}]

AddText(p, i) ==
    /\ i \in held[p]
    /\ Says(p, "ADD_TOOT_TEXT", i)
    /\ UNCHANGED held

Send(p, i) ==
    /\ i \in held[p]
    /\ Says(p, "SEND_TOOT", i)
    /\ held' = [held EXCEPT ![p] = @ \ {i}]

Init ==
    /\ held = [p \in Agents |-> {}]
    /\ last = NULL
    /\ void = FALSE

Next ==
    \/ \E p \in Agents, i \in TootIds :
         (Announce(p, i) \/ AddText(p, i) \/ Send(p, i)) /\ UNCHANGED void
    \/ void' /\ UNCHANGED <<held, last>>
    \/ void /\ void'

Spec == Init /\ [][Next]_protocolVars
=============================================================================

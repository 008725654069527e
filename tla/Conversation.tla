---------------------------- MODULE Conversation ----------------------------
(***************************************************************************)
(* Toots with two history variables: what the agents have been told.  They *)
(* follow the requests that a step puts on a socket and restrict nothing.  *)
(***************************************************************************)
EXTENDS Toots

VARIABLES told, last
talkVars == <<vars, told, last>>

Requests == {"NEW_TOOT", "ADD_TOOT_TEXT", "SEND_TOOT"}
Newest(p) == inbox'[p][Len(inbox'[p])]

(* This step queued a request on p's socket. *)
Asks(p) == Len(inbox'[p]) > Len(inbox[p]) /\ Newest(p).type \in Requests

HeldAfter(h, m) ==
    CASE m.type = "NEW_TOOT"      -> h \cup {m.toot}
      [] m.type = "SEND_TOOT"     -> h \ {m.toot}
      [] m.type = "ADD_TOOT_TEXT" -> h

Hear ==
    \/ \E p \in Agents :
         /\ Asks(p)
         /\ told' = [told EXCEPT ![p] = HeldAfter(@, Newest(p))]
         /\ last' = [agent |-> p, type |-> Newest(p).type, toot |-> Newest(p).toot]
    \/ (\A p \in Agents : ~Asks(p)) /\ UNCHANGED <<told, last>>

TalkInit == Init /\ told = [p \in Agents |-> {}] /\ last = NULL
TalkNext == Next /\ Hear
TalkSpec == TalkInit /\ [][TalkNext]_talkVars

-----------------------------------------------------------------------------
Protocol == INSTANCE TootProtocol WITH held <- told, void <- torn

(* The module keeps the promise of TootProtocol: over all interleavings of *)
(* opens, writes, closes, time-outs and answers, and however ids are given *)
(* out again, an agent hears of a toot before it gets text for it, and     *)
(* nothing about it after SEND_TOOT.                                       *)
KeepsProtocol == Protocol!Spec

(* TootManage.NewToot answers "Already Have id" for an id that it holds    *)
(* (toot_manager.go:33-42): the driver announces an id again only after it *)
(* asked to send it.                                                       *)
AnnouncesFreshIds ==
    [][\A p \in Agents : Asks(p) /\ Newest(p).type = "NEW_TOOT"
         => Newest(p).toot \notin told[p]]_talkVars
=============================================================================

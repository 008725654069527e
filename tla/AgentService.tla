---------------------------- MODULE AgentService ----------------------------
(***************************************************************************)
(* What the driver side of this project assumes of an agent (Devices,      *)
(* Toots): its requests are answered one at a time and in the order of     *)
(* their arrival; at anything else the agent stops answering; once it is   *)
(* told to leave nothing is promised of what is still queued.              *)
(***************************************************************************)
EXTENDS Naturals, Sequences

CONSTANTS Messages  \* [type, no]: requests are numbered in the order they come

VARIABLES
    queue,     \* messages on their way to the loop, a sequence of Messages
    answered,  \* the requests that were answered, in order
    mode       \* "up", "stopped", "leaving" or "ended"

serviceVars == <<queue, answered, mode>>

Init == queue = << >> /\ answered = << >> /\ mode = "up"

(* The driver sends a message. *)
Arrive ==
    /\ mode \in {"up", "stopped"}
    /\ \E m \in Messages : queue' = Append(queue, m)
    /\ UNCHANGED <<answered, mode>>

(* The oldest message is a request and is answered; the kernel may refuse  *)
(* the answer, which comes back as an error.                               *)
Answer ==
    /\ mode = "up"
    /\ queue # << >> /\ Head(queue).type = "REQUEST"
    /\ \/ queue' = Tail(queue)
       \/ \E m \in Messages : m.type = "NLMSG_ERROR" /\ queue' = Append(Tail(queue), m)
    /\ answered' = Append(answered, Head(queue).no)
    /\ UNCHANGED mode

(* The agent gives up, perhaps over the oldest message. *)
Stop ==
    /\ mode = "up"
    /\ mode' = "stopped"
    /\ UNCHANGED queue \/ (queue # << >> /\ queue' = Tail(queue))
    /\ UNCHANGED answered

Leave == mode \in {"up", "stopped"} /\ mode' = "leaving" /\ UNCHANGED <<queue, answered>>

(* Two readers on one socket: no promise about the queue. *)
Leaving == mode = "leaving" /\ mode' \in {"leaving", "ended"}

(* The process dies with what it held. *)
Die == mode # "ended" /\ mode' = "ended" /\ UNCHANGED answered

Next == Arrive \/ Answer \/ Stop \/ Leave \/ Leaving \/ Die

Spec == Init /\ [][Next]_serviceVars
=============================================================================

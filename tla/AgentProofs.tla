----------------------------- MODULE AgentProofs -----------------------------
(***************************************************************************)
(* Proofs about Agent, for any number of requests and any socket buffer.   *)
(***************************************************************************)
EXTENDS Agent, SequenceTheorems, TLAPS

-----------------------------------------------------------------------------
(* The inductive invariant.                                                *)

(* main, the loop, the reader and the context go through their lives       *)
(* together: until the interrupt main waits, until DestroyDevice it does   *)
(* not read, and the context is not cancelled before it leaves its wait.   *)
PhaseInv ==
    /\ loop # "handle" => cur = NULL
    /\ main \notin {"reading", "done"} => rd["main"] = "idle"
    /\ loop = "unstarted" => rd["reader"] = "idle"
    /\ got["reader"] # NULL => rd["reader"] \in {"shift", "return"}
    /\ "interrupt" \notin events => main \in {"starting", "waiting"}
    /\ done /\ loop # "ended" => main \notin {"starting", "waiting", "cancelling"}

(* Goroutine g has put its message on pendingMessages, or found one there. *)
Using(g) == rd[g] \in {"load", "shift"}

(* A reader alone finds what it has put there itself; two readers leave no *)
(* more there than their two.                                              *)
PendingInv ==
    /\ rd["main"] = "idle" =>
         /\ Using("reader") => Len(pending) = 1
         /\ ~Using("reader") => pending = << >>
         /\ rd["reader"] = "shift" => got["reader"] = Head(pending)
    /\ Len(pending) <= 2
    /\ ~(Using("main") /\ Using("reader")) => Len(pending) <= 1
    /\ ~Using("main") /\ ~Using("reader") => pending = << >>

(* Messages on their way to the loop. *)
OnTheWay == {cur, got["reader"]} \cup {pending[i] : i \in DOMAIN pending}
                                 \cup {inbox[i] : i \in DOMAIN inbox}

(* Nothing but a question, a refusal or the end makes the kernel send what *)
(* is no request; a reader returns nothing only after an overrun or a race.*)
ReasonInv ==
    /\ ~normal => events \cap {"health", "nosend"} # {}
    /\ \A m \in OnTheWay \ {NULL} : m.type # "REQUEST" =>
         main \notin {"starting", "waiting"} \/ events \cap {"health", "refused"} # {}
    /\ loop = "handle" /\ cur = NULL => events \cap {"overrun", "raced"} # {}
    /\ rd["reader"] \in {"shift", "return"} /\ got["reader"] = NULL =>
         events \cap {"overrun", "raced"} # {}

AgentInv == LoopInv /\ PhaseInv /\ PendingInv /\ ReasonInv

-----------------------------------------------------------------------------
(* The order of the requests. *)

Older(m, n) == m.type = "REQUEST" /\ n.type = "REQUEST" => m.no < n.no
IsSent(m) == m.type = "REQUEST" => m.no <= asked
Answers(n, m) == m.type = "REQUEST" => n < m.no

(* From the answers to the socket every request is older than those behind *)
(* it.  While the reader shifts, its own message may still be the first of *)
(* pendingMessages.                                                        *)
OrderInv ==
    /\ AnswersInOrder
    /\ \A k \in DOMAIN answered :
         answered[k] <= asked /\ \A m \in OnTheWay \ {NULL} : Answers(answered[k], m)
    /\ \A m \in OnTheWay \ {NULL} : IsSent(m)
    /\ cur # NULL =>
         /\ got["reader"] # NULL => Older(cur, got["reader"])
         /\ \A i \in DOMAIN pending : Older(cur, pending[i])
         /\ \A i \in DOMAIN inbox : Older(cur, inbox[i])
    /\ got["reader"] # NULL =>
         /\ \A i \in DOMAIN pending :
              \/ Older(got["reader"], pending[i])
              \/ i = 1 /\ rd["reader"] = "shift" /\ pending[1] = got["reader"]
         /\ \A i \in DOMAIN inbox : Older(got["reader"], inbox[i])
    /\ \A i, j \in DOMAIN pending : i < j => Older(pending[i], pending[j])
    /\ \A i \in DOMAIN pending, j \in DOMAIN inbox : Older(pending[i], inbox[j])
    /\ \A i, j \in DOMAIN inbox : i < j => Older(inbox[i], inbox[j])

-----------------------------------------------------------------------------
(* The messages and the sequences they stand in. *)

(* A message is a request with its number, or an answer of the kernel. *)
LEMMA MessageKinds ==
  /\ \A m \in Messages : m.no \in Nat /\ (m.type = "REQUEST" => m.no \in 1 .. MaxRequests)
  /\ \A n \in 1 .. MaxRequests : /\ Request(n) \in Messages
                                 /\ Request(n).type = "REQUEST" /\ Request(n).no = n
  /\ \A type \in {"GET_HEALTH_RESULT", "DESTROY_DEVICE_RESULT", "NLMSG_ERROR"} :
        Answer(type) \in Messages /\ Answer(type).type = type
  BY AgentAssumption DEF Messages, Requests, Request, Answer

(* What is appended stands behind everything else. *)
LEMMA AppendedLast ==
  ASSUME NEW S, NEW s \in Seq(S), NEW x \in S
  PROVE  /\ Append(s, x) \in Seq(S)
         /\ \A i \in DOMAIN Append(s, x) :
              \/ i \in DOMAIN s /\ Append(s, x)[i] = s[i]
              \/ i = Len(s) + 1 /\ Append(s, x)[i] = x
<1>1. /\ Append(s, x) \in Seq(S) /\ Len(Append(s, x)) = Len(s) + 1
      /\ Append(s, x)[Len(s) + 1] = x /\ \A i \in 1 .. Len(s) : Append(s, x)[i] = s[i]
  BY AppendProperties
<1>2. DOMAIN s = 1 .. Len(s) /\ Len(s) \in Nat
  BY LenProperties
<1>3. DOMAIN Append(s, x) = 1 .. Len(Append(s, x))
  BY <1>1, LenProperties
<1>4. \A n \in Nat : \A i \in 1 .. n + 1 : i \in 1 .. n \/ i = n + 1
  OBVIOUS
<1>5. \A i \in 1 .. Len(s) + 1 : i \in 1 .. Len(s) \/ i = Len(s) + 1
  BY <1>2, <1>4, Zenon
<1>6. DOMAIN Append(s, x) = 1 .. Len(s) + 1
  BY <1>1, <1>3, Zenon
<1>. QED  BY <1>1, <1>2, <1>5, <1>6, Zenon

(* What is queued is the last message on the socket, or lost. *)
LEMMA QueueEffect ==
  ASSUME TypeOK, NEW m \in Messages, Queue(m)
  PROVE  /\ inbox' \in Seq(Messages) /\ Len(inbox') <= RcvBuf /\ {overrun'} \subseteq BOOLEAN
         /\ \/ inbox' = inbox
            \/ /\ inbox' = Append(inbox, m) /\ Len(inbox') = Len(inbox) + 1
               /\ inbox'[Len(inbox')] = m
               /\ \A i \in 1 .. Len(inbox) : inbox'[i] = inbox[i]
<1>1. inbox \in Seq(Messages) /\ Len(inbox) \in Nat /\ Len(inbox) <= RcvBuf
  BY DEF TypeOK
<1>2. CASE Len(inbox) < RcvBuf
  <2>1. inbox' = Append(inbox, m) /\ overrun' = overrun
    BY <1>2 DEF Queue
  <2>2. /\ Append(inbox, m) \in Seq(Messages) /\ Len(Append(inbox, m)) = Len(inbox) + 1
        /\ Append(inbox, m)[Len(inbox) + 1] = m
        /\ \A i \in 1 .. Len(inbox) : Append(inbox, m)[i] = inbox[i]
    BY <1>1, AppendProperties
  <2>3. {overrun'} \subseteq BOOLEAN
    BY <2>1 DEF TypeOK
  <2>4. Len(inbox) + 1 <= RcvBuf
    BY <1>1, <1>2, AgentAssumption
  <2>. QED  BY <2>1, <2>2, <2>3, <2>4
<1>3. CASE ~(Len(inbox) < RcvBuf)
  BY <1>1, <1>3 DEF Queue, TypeOK
<1>. QED  BY <1>2, <1>3

(* One more message is on its way. *)
LEMMA QueueOnTheWay ==
  ASSUME TypeOK, NEW m \in Messages, Queue(m), UNCHANGED <<cur, got, pending>>
  PROVE  OnTheWay' \subseteq OnTheWay \cup {m}
<1>1. inbox \in Seq(Messages) /\ inbox' \in Seq(Messages)
  BY QueueEffect DEF TypeOK
<1>2. /\ DOMAIN inbox = 1 .. Len(inbox) /\ DOMAIN inbox' = 1 .. Len(inbox')
      /\ Len(inbox) \in Nat
  BY <1>1, LenProperties
<1>3. \A i \in DOMAIN inbox' : inbox'[i] = m \/ (i \in DOMAIN inbox /\ inbox'[i] = inbox[i])
  <2>1. CASE inbox' = inbox
    BY <2>1
  <2>2. CASE /\ Len(inbox') = Len(inbox) + 1 /\ inbox'[Len(inbox')] = m
             /\ \A i \in 1 .. Len(inbox) : inbox'[i] = inbox[i]
    BY <1>2, <2>2
  <2>. QED  BY <2>1, <2>2, QueueEffect
<1>. QED  BY <1>3 DEF OnTheWay

(* The first message of a sequence, and those behind it. *)
LEMMA TailEffect ==
  ASSUME NEW s \in Seq(Messages), s # << >>
  PROVE  /\ Head(s) \in Messages /\ Head(s) = s[1] /\ 1 \in DOMAIN s
         /\ Tail(s) \in Seq(Messages) /\ Len(Tail(s)) = Len(s) - 1 /\ Len(s) \in Nat \ {0}
         /\ \A i \in DOMAIN Tail(s) : i + 1 \in DOMAIN s /\ Tail(s)[i] = s[i + 1]
<1>1. Len(s) \in Nat \ {0} /\ DOMAIN s = 1 .. Len(s)
  BY EmptySeq, LenProperties
<1>2. Tail(s) \in Seq(Messages) /\ DOMAIN Tail(s) = 1 .. Len(Tail(s))
  BY HeadTailProperties, LenProperties
<1>. QED  BY <1>1, <1>2, HeadTailProperties

-----------------------------------------------------------------------------
(* The steps of the invariant. *)

(* The driver asks, and the kernel answers. *)
LEMMA DriverAsksKeepsInv ==
  ASSUME AgentInv, DriverAsks
  PROVE  AgentInv'
<1>1. asked \in 0 .. MaxRequests /\ asked + 1 \in 1 .. MaxRequests
  BY AgentAssumption DEF AgentInv, LoopInv, TypeOK, DriverAsks
<1>2. Request(asked + 1) \in Messages /\ Request(asked + 1).type = "REQUEST"
  BY <1>1, MessageKinds
<1>3. TypeOK'
  BY <1>1, <1>2, QueueEffect DEF AgentInv, LoopInv, TypeOK, DriverAsks
<1>4. EndsForAReason' /\ OneReaderUntilInterrupted' /\ PhaseInv' /\ PendingInv'
  BY DEF AgentInv, LoopInv, EndsForAReason, OneReaderUntilInterrupted, PhaseInv, PendingInv,
         DriverAsks, Using
<1>5. ReasonInv'
  <2>1. OnTheWay' \subseteq OnTheWay \cup {Request(asked + 1)}
    BY <1>2, QueueOnTheWay DEF AgentInv, LoopInv, DriverAsks
  <2>. QED  BY <1>2, <2>1 DEF AgentInv, ReasonInv, DriverAsks
<1>. QED  BY <1>3, <1>4, <1>5 DEF AgentInv, LoopInv

(* main waits, leaves, is interrupted, cancels, joins and finishes. *)
LEMMA MainKeepsInv ==
  ASSUME AgentInv,
         Spawn \/ Wait \/ Interrupt \/ Cancel \/ Join \/ SendDestroyFails \/ Finish \/ UNCHANGED vars
  PROVE  AgentInv'
<1>1. TypeOK'
  BY DEF AgentInv, LoopInv, TypeOK, Spawn, Wait, Interrupt, Cancel, Join, SendDestroyFails, Finish,
         MainTo, MainSteps, Readers, Note, vars
<1>2. EndsForAReason' /\ OneReaderUntilInterrupted'
  BY DEF AgentInv, LoopInv, TypeOK, EndsForAReason, OneReaderUntilInterrupted, PhaseInv, Spawn,
         Wait, Interrupt, Cancel, Join, SendDestroyFails, Finish, MainTo, Note, Readers, vars
<1>3. PhaseInv' /\ PendingInv'
  BY DEF AgentInv, LoopInv, TypeOK, PhaseInv, PendingInv, Spawn, Wait, Interrupt, Cancel, Join,
         SendDestroyFails, Finish, MainTo, Note, Using, Readers, vars
<1>4. ReasonInv'
  BY DEF AgentInv, LoopInv, TypeOK, PhaseInv, ReasonInv, OnTheWay, Spawn, Wait, Interrupt, Cancel,
         Join, SendDestroyFails, Finish, MainTo, Note, Readers, vars
<1>. QED  BY <1>1, <1>2, <1>3, <1>4 DEF AgentInv, LoopInv

(* DestroyDevice asks, and the kernel answers on the same socket. *)
LEMMA SendDestroyKeepsInv ==
  ASSUME AgentInv, SendDestroy
  PROVE  AgentInv'
<1>1. PICK m \in Messages : Queue(m)
  BY MessageKinds DEF SendDestroy
<1>2. TypeOK /\ UNCHANGED <<loop, cur, got, pending, normal, done, alive, asked, answered, events>>
      /\ main = "sending" /\ main' = "reading" /\ rd' = [rd EXCEPT !["main"] = "enter"]
  BY DEF AgentInv, LoopInv, SendDestroy, MainTo
<1>3. /\ inbox' \in Seq(Messages) /\ Len(inbox') <= RcvBuf /\ {overrun'} \subseteq BOOLEAN
      /\ OnTheWay' \subseteq OnTheWay \cup {m}
  BY <1>1, <1>2, QueueEffect, QueueOnTheWay
<1>4. TypeOK'
  BY <1>2, <1>3 DEF TypeOK, Readers, MainSteps
<1>5. EndsForAReason' /\ OneReaderUntilInterrupted' /\ PhaseInv' /\ PendingInv'
  BY <1>2 DEF AgentInv, LoopInv, TypeOK, EndsForAReason, OneReaderUntilInterrupted, PhaseInv,
              PendingInv, Using, Readers
<1>6. ReasonInv'
  BY <1>2, <1>3 DEF AgentInv, TypeOK, ReasonInv, Readers
<1>. QED  BY <1>4, <1>5, <1>6 DEF AgentInv, LoopInv

(* The loop ends, or takes a message. *)
LEMMA LoopKeepsInv ==
  ASSUME AgentInv, LoopDone \/ TickNotNormal \/ TakeMessage \/ HandleUnknown \/ HandleNil \/ LoopSendFails
  PROVE  AgentInv'
<1>1. TypeOK'
  BY DEF AgentInv, LoopInv, TypeOK, LoopDone, TickNotNormal, TakeMessage, HandleUnknown, HandleNil,
         LoopSendFails, EndLoop, Readers, Note
<1>2. EndsForAReason'
  BY DEF AgentInv, LoopInv, TypeOK, EndsForAReason, PhaseInv, ReasonInv, OnTheWay, LoopDone,
         TickNotNormal, TakeMessage, HandleUnknown, HandleNil, LoopSendFails, EndLoop, Note, Running
<1>3. OneReaderUntilInterrupted' /\ PhaseInv' /\ PendingInv'
  BY DEF AgentInv, LoopInv, TypeOK, OneReaderUntilInterrupted, PhaseInv, PendingInv, Using, At,
         LoopDone, TickNotNormal, TakeMessage, HandleUnknown, HandleNil, LoopSendFails, EndLoop,
         Note, Running, Readers
<1>4. ReasonInv'
  <2>1. CASE LoopDone \/ TickNotNormal \/ HandleUnknown
    BY <2>1 DEF AgentInv, LoopInv, ReasonInv, OnTheWay, LoopDone, TickNotNormal, HandleUnknown, EndLoop
  <2>2. CASE TakeMessage
    BY <2>2 DEF AgentInv, LoopInv, TypeOK, ReasonInv, OnTheWay, At, PhaseInv, TakeMessage, Readers
  <2>3. CASE HandleNil
    BY <2>3 DEF AgentInv, ReasonInv, OnTheWay, HandleNil
  <2>4. CASE LoopSendFails
    BY <2>4 DEF AgentInv, LoopInv, ReasonInv, OnTheWay, LoopSendFails, EndLoop, Note
  <2>. QED  BY <2>1, <2>2, <2>3, <2>4
<1>. QED  BY <1>1, <1>2, <1>3, <1>4 DEF AgentInv, LoopInv

(* The loop asks for its health, or answers a request, which is refused or *)
(* not.                                                                    *)
LEMMA AnswerKeepsInv ==
  ASSUME AgentInv, Tick \/ HandleRequest
  PROVE  AgentInv'
<1>1. \/ UNCHANGED <<inbox, overrun, events>> /\ HandleRequest
      \/ \E m \in Messages : Queue(m) /\ events' = events \cup {"health"} /\ Tick
      \/ \E m \in Messages : Queue(m) /\ events' = events \cup {"refused"}
  BY MessageKinds DEF Tick, HandleRequest, Note
<1>2. TypeOK /\ PhaseInv /\ ReasonInv /\ EndsForAReason /\ OneReaderUntilInterrupted /\ PendingInv
  BY DEF AgentInv, LoopInv
<1>3. /\ inbox' \in Seq(Messages) /\ Len(inbox') <= RcvBuf /\ {overrun'} \subseteq BOOLEAN
      /\ events \subseteq events' /\ events' \subseteq events \cup {"health", "refused"}
  BY <1>1, <1>2, QueueEffect DEF TypeOK
<1>4. answered' \in Seq(1 .. MaxRequests)
  <2>1. CASE Tick
    BY <1>2, <2>1 DEF Tick, TypeOK
  <2>2. CASE HandleRequest
    <3>1. cur.no \in 1 .. MaxRequests
      BY <1>2, <2>2, MessageKinds DEF HandleRequest, TypeOK
    <3>. QED  BY <1>2, <2>2, <3>1, AppendProperties DEF HandleRequest, TypeOK
  <2>. QED  BY <2>1, <2>2
<1>5. TypeOK'
  BY <1>2, <1>3, <1>4 DEF TypeOK, Tick, HandleRequest
<1>6. EndsForAReason' /\ OneReaderUntilInterrupted' /\ PhaseInv' /\ PendingInv'
  BY <1>2, <1>3 DEF EndsForAReason, OneReaderUntilInterrupted, PhaseInv, PendingInv, Using, Tick,
                    HandleRequest
<1>7. ReasonInv'
  <2>1. \A m \in OnTheWay' \ {NULL} :
          m \in OnTheWay \ {NULL} \/ events' \cap {"health", "refused"} # {}
    <3>1. CASE UNCHANGED <<inbox, overrun, events>> /\ HandleRequest
      BY <3>1 DEF HandleRequest, OnTheWay
    <3>2. CASE events' \cap {"health", "refused"} # {}
      BY <3>2
    <3>. QED  BY <1>1, <3>1, <3>2
  <2>. QED  BY <1>2, <1>3, <2>1 DEF ReasonInv, Tick, HandleRequest, Note
<1>. QED  BY <1>5, <1>6, <1>7 DEF AgentInv, LoopInv

(* One step of ReciveMessage, by either goroutine. *)
LEMMA EnterKeepsInv ==
  ASSUME AgentInv, NEW g \in Readers, Enter(g)
  PROVE  AgentInv'
<1>1. TypeOK' /\ EndsForAReason' /\ OneReaderUntilInterrupted'
  BY DEF AgentInv, LoopInv, TypeOK, EndsForAReason, OneReaderUntilInterrupted, PhaseInv, Enter, At,
         Readers
<1>2. PhaseInv' /\ PendingInv'
  BY DEF AgentInv, LoopInv, TypeOK, PhaseInv, PendingInv, Using, Enter, At, Readers
<1>3. ReasonInv'
  BY DEF AgentInv, LoopInv, TypeOK, PhaseInv, ReasonInv, OnTheWay, Enter, At, Readers
<1>. QED  BY <1>1, <1>2, <1>3 DEF AgentInv, LoopInv

(* The socket reports its overrun instead of a message. *)
LEMMA ReceiveFailsKeepsInv ==
  ASSUME AgentInv, NEW g \in Readers, ReceiveFails(g)
  PROVE  AgentInv'
<1>1. TypeOK' /\ EndsForAReason' /\ OneReaderUntilInterrupted'
  BY DEF AgentInv, LoopInv, TypeOK, EndsForAReason, OneReaderUntilInterrupted, PhaseInv,
         ReceiveFails, At, Robbed, Readers
<1>2. PhaseInv' /\ PendingInv'
  BY DEF AgentInv, LoopInv, TypeOK, PhaseInv, PendingInv, Using, ReceiveFails, At, Robbed, Readers
<1>3. ReasonInv'
  BY DEF AgentInv, LoopInv, TypeOK, PhaseInv, ReasonInv, OnTheWay, ReceiveFails, At, Robbed, Readers
<1>. QED  BY <1>1, <1>2, <1>3 DEF AgentInv, LoopInv

(* A message put behind the others, or over the last of them. *)
LEMMA PutEffect ==
  ASSUME NEW s \in Seq(Messages), NEW m \in Messages, NEW t,
         t = Append(s, m) \/ (s # << >> /\ t = [s EXCEPT ![Len(s)] = m])
  PROVE  /\ t \in Seq(Messages)
         /\ \/ t = Append(s, m) /\ Len(t) = Len(s) + 1
            \/ s # << >> /\ Len(t) = Len(s)
         /\ t # << >> /\ Len(t) \in Nat \ {0} /\ t[Len(t)] = m
         /\ \A i \in DOMAIN t : i # Len(t) => i \in DOMAIN s /\ t[i] = s[i]
<1>1. Len(s) \in Nat /\ DOMAIN s = 1 .. Len(s)
  BY LenProperties
<1>2. CASE t = Append(s, m)
  <2>1. /\ t \in Seq(Messages) /\ Len(t) = Len(s) + 1 /\ t[Len(s) + 1] = m
        /\ \A i \in 1 .. Len(s) : t[i] = s[i]
    BY <1>2, AppendProperties
  <2>2. DOMAIN t = 1 .. Len(t)
    BY <2>1, LenProperties
  <2>3. Len(t) \in Nat \ {0} /\ t # << >>
    <3>1. \A n \in Nat : n + 1 \in Nat \ {0}
      OBVIOUS
    <3>2. Len(t) \in Nat \ {0}
      BY <1>1, <2>1, <3>1, Zenon
    <3>. QED  BY <3>2, EmptySeq
  <2>. QED  BY <1>1, <1>2, <2>1, <2>2, <2>3
<1>3. CASE s # << >> /\ t = [s EXCEPT ![Len(s)] = m]
  <2>1. Len(s) \in 1 .. Len(s) /\ Len(s) # 0
    <3>1. Len(s) # 0
      BY <1>3, EmptySeq
    <3>. QED  BY <1>1, <3>1
  <2>2. /\ t \in Seq(Messages) /\ Len(t) = Len(s)
        /\ \A i \in 1 .. Len(s) : t[i] = IF i = Len(s) THEN m ELSE s[i]
    BY <1>3, <2>1, ExceptSeq
  <2>3. DOMAIN t = 1 .. Len(t) /\ t # << >>
    BY <2>1, <2>2, LenProperties, EmptySeq
  <2>. QED  BY <1>1, <1>3, <2>1, <2>2, <2>3
<1>. QED  BY <1>2, <1>3

(* Whatever a reader does with pendingMessages, nothing new is on its way. *)
LEMMA ReceiveKeepsInv ==
  ASSUME AgentInv, NEW g \in Readers, Receive(g)
  PROVE  AgentInv'
<1>1. /\ TypeOK /\ PhaseInv /\ PendingInv /\ ReasonInv /\ EndsForAReason
      /\ OneReaderUntilInterrupted
  BY DEF AgentInv, LoopInv
<1>2. /\ UNCHANGED <<main, loop, cur, got, overrun, normal, done, alive, asked, answered, events>>
      /\ rd[g] = "receive" /\ rd' = [rd EXCEPT ![g] = "load"] /\ inbox' = Tail(inbox)
      /\ inbox \in Seq(Messages) /\ inbox # << >> /\ pending \in Seq(Messages)
  BY <1>1 DEF Receive, At, TypeOK
<1>3. /\ Head(inbox) \in Messages /\ Head(inbox) = inbox[1] /\ 1 \in DOMAIN inbox
      /\ inbox' \in Seq(Messages) /\ Len(inbox') = Len(inbox) - 1 /\ Len(inbox) \in Nat
      /\ \A i \in DOMAIN inbox' : i + 1 \in DOMAIN inbox /\ inbox'[i] = inbox[i + 1]
  BY <1>2, TailEffect
<1>4. /\ pending' \in Seq(Messages)
      /\ \/ Len(pending') = Len(pending) + 1
         \/ Len(pending') = Len(pending) /\ pending # << >> /\ rd[Other(g)] = "load"
      /\ pending' # << >> /\ Len(pending') \in Nat /\ pending'[Len(pending')] = Head(inbox)
      /\ \A i \in DOMAIN pending' : i # Len(pending') => i \in DOMAIN pending /\ pending'[i] = pending[i]
  <2>1. CASE pending' = Append(pending, Head(inbox))
    BY <1>2, <1>3, <2>1, PutEffect
  <2>2. CASE /\ rd[Other(g)] = "load" /\ pending # << >>
             /\ pending' = [pending EXCEPT ![Len(pending)] = Head(inbox)]
    <3>1. /\ pending' \in Seq(Messages)
          /\ Len(pending') = Len(pending) + 1 \/ Len(pending') = Len(pending)
          /\ pending' # << >> /\ Len(pending') \in Nat /\ pending'[Len(pending')] = Head(inbox)
          /\ \A i \in DOMAIN pending' : i # Len(pending') => i \in DOMAIN pending /\ pending'[i] = pending[i]
      BY <1>2, <1>3, <2>2, PutEffect
    <3>. QED  BY <2>2, <3>1
  <2>. QED  BY <2>1, <2>2 DEF Receive
<1>5. TypeOK'
  <2>1. Len(inbox') <= RcvBuf
    BY <1>1, <1>3, AgentAssumption DEF TypeOK
  <2>. QED  BY <1>1, <1>2, <1>3, <1>4, <2>1 DEF TypeOK, Readers
<1>6. OnTheWay' \subseteq OnTheWay
  <2>1. \A i \in DOMAIN pending' : pending'[i] \in OnTheWay
    BY <1>3, <1>4 DEF OnTheWay
  <2>2. \A i \in DOMAIN inbox' : inbox'[i] \in OnTheWay
    BY <1>3 DEF OnTheWay
  <2>. QED  BY <1>2, <2>1, <2>2 DEF OnTheWay
<1>7. EndsForAReason' /\ PhaseInv'
  BY <1>1, <1>2 DEF TypeOK, EndsForAReason, PhaseInv, Readers
<1>8. PendingInv' /\ OneReaderUntilInterrupted'
  <2>1. /\ \/ Len(pending') = Len(pending) + 1
           \/ Len(pending') = Len(pending) /\ pending # << >> /\ rd[Other(g)] = "load"
        /\ pending' # << >> /\ Len(pending') \in Nat /\ Len(pending) \in Nat
        /\ pending = << >> <=> Len(pending) = 0
    BY <1>2, <1>4, EmptySeq, LenProperties
  <2>2. /\ rd \in [Readers -> {"idle", "enter", "receive", "load", "shift", "return"}]
        /\ rd[g] = "receive" /\ rd' = [rd EXCEPT ![g] = "load"] /\ got' = got
    BY <1>1, <1>2 DEF TypeOK
  <2>3. PendingInv'
    <3>1. CASE g = "main"
      <4>1. /\ rd["main"] = "receive" /\ rd'["main"] = "load" /\ rd'["reader"] = rd["reader"]
            /\ Other(g) = "reader"
        BY <2>2, <3>1 DEF Readers, Other
      <4>2. (Using("reader") => Len(pending) <= 1) /\ (~Using("reader") => Len(pending) = 0)
        BY <1>1, <2>1, <4>1 DEF PendingInv, Using
      <4>3. Len(pending') <= 2 /\ (~Using("reader") => Len(pending') <= 1)
        BY <2>1, <4>1, <4>2 DEF Using
      <4>. QED  BY <2>1, <4>1, <4>3 DEF PendingInv, Using
    <3>2. CASE g = "reader"
      <4>1. /\ rd["reader"] = "receive" /\ rd'["reader"] = "load" /\ rd'["main"] = rd["main"]
            /\ Other(g) = "main"
        BY <2>2, <3>2 DEF Readers, Other
      <4>2. (Using("main") => Len(pending) <= 1) /\ (~Using("main") => Len(pending) = 0)
        BY <1>1, <2>1, <4>1 DEF PendingInv, Using
      <4>3. Len(pending') <= 2
        BY <2>1, <4>1, <4>2 DEF Using
      <4>4. ~Using("main") => Len(pending') = 1
        <5>1. ~Using("main") => rd[Other(g)] # "load"
          BY <4>1 DEF Using
        <5>. QED  BY <2>1, <4>2, <5>1
      <4>5. Using("reader")' /\ (Using("main")' <=> Using("main")) /\ rd'["reader"] # "shift"
        BY <4>1 DEF Using
      <4>6. rd'["main"] = "idle" => Len(pending') = 1
        BY <4>1, <4>4 DEF Using
      <4>. QED
        <5>1. (rd["main"] = "idle" =>
                 /\ Using("reader") => Len(pending) = 1
                 /\ ~Using("reader") => pending = << >>
                 /\ rd["reader"] = "shift" => got["reader"] = Head(pending))'
          BY <4>5, <4>6
        <5>2. (~(Using("main") /\ Using("reader")) => Len(pending) <= 1)'
          <6>1. Len(pending') = 1 => Len(pending') <= 1
            OBVIOUS
          <6>. QED  BY <4>4, <4>5, <6>1, Zenon
        <5>3. (~Using("main") /\ ~Using("reader") => pending = << >>)'
          BY <4>5
        <5>. QED  BY <4>3, <5>1, <5>2, <5>3 DEF PendingInv
    <3>. QED  BY <3>1, <3>2 DEF Readers
  <2>4. OneReaderUntilInterrupted'
    BY <1>1, <1>2, <2>1, <2>2, <2>3 DEF OneReaderUntilInterrupted, PendingInv, Using, Readers
  <2>. QED  BY <2>3, <2>4
<1>9. ReasonInv'
  BY <1>1, <1>2, <1>6 DEF TypeOK, ReasonInv, Readers
<1>. QED  BY <1>5, <1>7, <1>8, <1>9 DEF AgentInv, LoopInv

(* pendingMessages[0] is read: what stands there, nothing, or a panic. *)
LEMMA LoadKeepsInv ==
  ASSUME AgentInv, NEW g \in Readers, Load(g)
  PROVE  AgentInv'
<1>1. /\ TypeOK /\ PhaseInv /\ PendingInv /\ ReasonInv /\ EndsForAReason
      /\ OneReaderUntilInterrupted
      /\ pending \in Seq(Messages) /\ Len(pending) \in Nat
      /\ pending # << >> => /\ Head(pending) \in Messages /\ Head(pending) = pending[1]
                            /\ 1 \in DOMAIN pending /\ Head(pending) # NULL
  BY LenProperties, TailEffect, NoMessageAssumption DEF AgentInv, LoopInv, TypeOK
<1>2. /\ UNCHANGED <<main, loop, cur, inbox, overrun, normal, done, asked, answered, pending>>
      /\ rd[g] = "load" /\ main # "done" /\ alive
  BY DEF Load, At, Panic
<1>3. CASE /\ pending # << >> /\ got' = [got EXCEPT ![g] = Head(pending)]
           /\ rd' = [rd EXCEPT ![g] = "shift"] /\ events' = events \cup Robbed(g)
           /\ alive' = alive
  <2>1. events \subseteq events' /\ events' \subseteq events \cup {"robbed"}
    BY <1>3 DEF Robbed
  <2>2. TypeOK'
    BY <1>1, <1>2, <1>3, <2>1 DEF TypeOK, Readers
  <2>3. EndsForAReason' /\ OneReaderUntilInterrupted' /\ PhaseInv' /\ PendingInv'
    BY <1>1, <1>2, <1>3, <2>1 DEF TypeOK, EndsForAReason, OneReaderUntilInterrupted, PhaseInv,
                                  PendingInv, Using, Readers
  <2>4. OnTheWay' \subseteq OnTheWay
    BY <1>1, <1>2, <1>3 DEF OnTheWay, TypeOK, Readers
  <2>5. ReasonInv'
    BY <1>1, <1>2, <1>3, <2>1, <2>4 DEF ReasonInv, TypeOK, Readers
  <2>. QED  BY <2>2, <2>3, <2>5 DEF AgentInv, LoopInv
<1>4. CASE /\ events' = events \cup {"raced"} /\ "interrupt" \in events
           /\ \/ /\ pending # << >> /\ g = "reader" /\ got' = [got EXCEPT ![g] = NULL]
                 /\ rd' = [rd EXCEPT ![g] = "shift"] /\ alive' = alive
                 /\ rd["main"] = "shift"
              \/ alive' = FALSE /\ UNCHANGED <<rd, got>>
  <2>1. events \subseteq events' /\ "raced" \in events' /\ TypeOK'
    BY <1>1, <1>2, <1>4 DEF TypeOK, Readers
  <2>2. EndsForAReason' /\ OneReaderUntilInterrupted'
    BY <1>1, <1>2, <1>4, <2>1 DEF EndsForAReason, OneReaderUntilInterrupted
  <2>3. PhaseInv' /\ PendingInv'
    BY <1>1, <1>2, <1>4 DEF TypeOK, PhaseInv, PendingInv, Using, Readers
  <2>4. OnTheWay' \subseteq OnTheWay \cup {NULL}
    BY <1>1, <1>2, <1>4 DEF OnTheWay, TypeOK, Readers
  <2>5. ReasonInv'
    BY <1>1, <1>2, <2>1, <2>4 DEF ReasonInv
  <2>. QED  BY <2>1, <2>2, <2>3, <2>5 DEF AgentInv, LoopInv
<1>5. rd["main"] # "idle" => "interrupt" \in events
  BY <1>1 DEF OneReaderUntilInterrupted
<1>6. pending # << >> \/ rd["main"] # "idle"
  <2>. SUFFICES ASSUME pending = << >>, rd["main"] = "idle"  PROVE FALSE
    OBVIOUS
  <2>1. Len(pending) = 0
    BY EmptySeq
  <2>. QED  BY <1>1, <1>2, <2>1 DEF PendingInv, Using, Readers
<1>. QED  BY <1>1, <1>2, <1>3, <1>4, <1>5, <1>6 DEF Load, Panic, Note, Other, Readers

(* The first message leaves pendingMessages, or there is none and the slice*)
(* expression panics.                                                      *)
LEMMA ShiftKeepsInv ==
  ASSUME AgentInv, NEW g \in Readers, Shift(g)
  PROVE  AgentInv'
<1>1. TypeOK /\ pending \in Seq(Messages) /\ Len(pending) \in Nat
  BY LenProperties DEF AgentInv, LoopInv, TypeOK
<1>2. CASE pending = << >>
  <2>1. UNCHANGED <<main, loop, cur, inbox, overrun, normal, done, asked, answered, rd, got, pending>>
        /\ alive' = FALSE /\ events' = events \cup {"raced"} /\ rd[g] = "shift"
    BY <1>2 DEF Shift, Panic, Note, At
  <2>2. "interrupt" \in events
    BY <1>1, <1>2, <2>1 DEF AgentInv, LoopInv, OneReaderUntilInterrupted, PendingInv, Using, Readers,
                            TypeOK
  <2>3. TypeOK' /\ EndsForAReason'
    BY <1>1, <2>1 DEF AgentInv, LoopInv, TypeOK, EndsForAReason
  <2>4. OneReaderUntilInterrupted' /\ PhaseInv' /\ PendingInv'
    BY <2>1, <2>2 DEF AgentInv, LoopInv, OneReaderUntilInterrupted, PhaseInv, PendingInv, Using
  <2>5. OnTheWay' = OnTheWay
    BY <2>1 DEF OnTheWay
  <2>6. ReasonInv'
    BY <2>1, <2>5 DEF AgentInv, ReasonInv
  <2>. QED  BY <2>3, <2>4, <2>6 DEF AgentInv, LoopInv
<1>3. CASE pending # << >>
  <2>1. /\ Tail(pending) \in Seq(Messages) /\ Len(Tail(pending)) = Len(pending) - 1
        /\ \A i \in DOMAIN Tail(pending) : i + 1 \in DOMAIN pending /\ Tail(pending)[i] = pending[i + 1]
        /\ pending' = Tail(pending)
    BY <1>1, <1>3, TailEffect DEF Shift
  <2>2. /\ UNCHANGED <<main, loop, cur, inbox, overrun, normal, done, asked, answered, got, alive, events>>
        /\ rd' = [rd EXCEPT ![g] = "return"] /\ rd[g] = "shift"
    BY <1>3 DEF Shift, At
  <2>3. TypeOK'
    BY <1>1, <2>1, <2>2 DEF TypeOK, Readers
  <2>4. EndsForAReason' /\ PhaseInv'
    BY <1>1, <2>2 DEF AgentInv, LoopInv, TypeOK, EndsForAReason, PhaseInv, Readers
  <2>5. PendingInv' /\ OneReaderUntilInterrupted'
    BY <1>1, <1>3, <2>1, <2>2, EmptySeq
       DEF AgentInv, LoopInv, TypeOK, PhaseInv, PendingInv, OneReaderUntilInterrupted, Using, Readers
  <2>6. OnTheWay' \subseteq OnTheWay
    BY <2>1, <2>2 DEF OnTheWay
  <2>7. ReasonInv'
    BY <1>1, <2>2, <2>6 DEF AgentInv, ReasonInv, TypeOK, Readers
  <2>. QED  BY <2>3, <2>4, <2>5, <2>7 DEF AgentInv, LoopInv
<1>. QED  BY <1>2, <1>3

(* The agent starts within the invariant. *)
LEMMA InitHasInv ==
  ASSUME Init
  PROVE  AgentInv
<1>1. inbox = << >> /\ pending = << >> /\ answered = << >> /\ Len(inbox) = 0 /\ Len(pending) = 0
  BY EmptySeq DEF Init
<1>2. TypeOK
  <2>1. << >> \in Seq(Messages) /\ << >> \in Seq(1 .. MaxRequests)
    BY EmptySeq
  <2>2. 0 \in 0 .. MaxRequests /\ 0 <= RcvBuf
    BY AgentAssumption
  <2>3. asked \in 0 .. MaxRequests /\ inbox \in Seq(Messages) /\ Len(inbox) <= RcvBuf
        /\ pending \in Seq(Messages) /\ answered \in Seq(1 .. MaxRequests)
    BY <1>1, <2>1, <2>2, Zenon DEF Init
  <2>. QED  BY <2>3 DEF Init, TypeOK, Readers, MainSteps
<1>3. EndsForAReason /\ OneReaderUntilInterrupted /\ PhaseInv /\ PendingInv
  BY <1>1 DEF Init, EndsForAReason, OneReaderUntilInterrupted, PhaseInv, PendingInv, Using, Readers
<1>4. ReasonInv
  <2>1. OnTheWay \subseteq {NULL}
    BY <1>1 DEF Init, OnTheWay, Readers
  <2>. QED  BY <2>1 DEF Init, ReasonInv, Readers
<1>. QED  BY <1>2, <1>3, <1>4 DEF AgentInv, LoopInv

(* Every step keeps the invariant. *)
LEMMA NextKeepsInv ==
  ASSUME AgentInv, [Next]_vars
  PROVE  AgentInv'
<1>1. CASE DriverAsks
  BY <1>1, DriverAsksKeepsInv
<1>2. CASE Spawn \/ Wait \/ Interrupt
  BY <1>2, MainKeepsInv
<1>3. CASE LoopStep
  BY <1>3, LoopKeepsInv, AnswerKeepsInv DEF LoopStep
<1>4. CASE MainStep
  BY <1>4, MainKeepsInv, SendDestroyKeepsInv DEF MainStep
<1>5. ASSUME NEW g \in Readers, Reading(g)
      PROVE  AgentInv'
  BY <1>5, EnterKeepsInv, ReceiveKeepsInv, ReceiveFailsKeepsInv, LoadKeepsInv, ShiftKeepsInv
     DEF Reading
<1>6. CASE UNCHANGED vars
  BY <1>6, MainKeepsInv
<1>. QED  BY <1>1, <1>2, <1>3, <1>4, <1>5, <1>6 DEF Next

(* The invariant holds in every state of the agent. *)
THEOREM AgentInvariant == Spec => []AgentInv
<1>1. Init => AgentInv
  BY InitHasInv
<1>2. AgentInv /\ [Next]_vars => AgentInv'
  BY NextKeepsInv
<1>. QED  BY <1>1, <1>2, PTL DEF Spec

(* Nothing but a named reason ends the loop or the process, and until the  *)
(* interrupt only one goroutine reads.                                     *)
THEOREM LoopIsSound == Spec => []LoopInv
<1>1. AgentInv => LoopInv
  BY DEF AgentInv
<1>. QED  BY <1>1, AgentInvariant, PTL

-----------------------------------------------------------------------------
(* The steps keep the order.                                               *)

(* Steps that move no message. *)
LEMMA CalmKeepsOrder ==
  ASSUME OrderInv, UNCHANGED <<pending, inbox, asked, answered>>, cur' \in {cur, NULL},
         got["reader"]' \in {got["reader"], NULL},
         got["reader"]' # NULL => rd["reader"]' = rd["reader"]
  PROVE  OrderInv'
<1>1. OnTheWay' \subseteq OnTheWay \cup {NULL}
  BY DEF OnTheWay
<1>2. AnswersInOrder'
  BY DEF OrderInv, AnswersInOrder
<1>3. (\A k \in DOMAIN answered :
         answered[k] <= asked /\ \A m \in OnTheWay \ {NULL} : Answers(answered[k], m))'
  BY <1>1 DEF OrderInv, Answers
<1>4. (\A m \in OnTheWay \ {NULL} : IsSent(m))'
  BY <1>1 DEF OrderInv, IsSent
<1>. QED  BY <1>2, <1>3, <1>4 DEF OrderInv, Older

(* A request is answered, or a message is queued, or both: an answer of    *)
(* the kernel, or the driver's next request.                               *)
LEMMA SendKeepsOrder ==
  ASSUME TypeOK, OrderInv, NEW m \in Messages, Queue(m) \/ UNCHANGED inbox,
         UNCHANGED <<got, pending>>, got["reader"] # NULL => rd["reader"]' = rd["reader"],
         \/ m.type # "REQUEST" /\ asked' = asked
         \/ m.no = asked + 1 /\ asked' = asked + 1,
         \/ UNCHANGED <<cur, answered>>
         \/ cur # NULL /\ cur.type = "REQUEST" /\ cur' = NULL /\ answered' = Append(answered, cur.no)
  PROVE  OrderInv'
<1>1. /\ inbox \in Seq(Messages) /\ pending \in Seq(Messages) /\ answered \in Seq(1 .. MaxRequests)
      /\ cur \in Messages \cup {NULL} /\ got["reader"] \in Messages \cup {NULL} /\ asked \in Nat
      /\ \A x \in Messages : x.no \in Nat
      /\ \A x \in OnTheWay \ {NULL} : x \in Messages
  <2>1. \A x \in OnTheWay \ {NULL} : x \in Messages
    BY LenProperties, ElementOfSeq DEF TypeOK, OnTheWay, Readers
  <2>. QED  BY <2>1, MessageKinds, AgentAssumption DEF TypeOK, Readers
<1>2. \A i \in DOMAIN inbox' :
        (i \in DOMAIN inbox /\ inbox'[i] = inbox[i]) \/ (inbox'[i] = m /\ i = Len(inbox) + 1)
  <2>1. CASE inbox' = inbox
    BY <2>1
  <2>2. CASE inbox' = Append(inbox, m)
    <3>1. \A i \in DOMAIN Append(inbox, m) :
            \/ i \in DOMAIN inbox /\ Append(inbox, m)[i] = inbox[i]
            \/ i = Len(inbox) + 1 /\ Append(inbox, m)[i] = m
      BY <1>1, AppendedLast
    <3>. QED  BY <2>2, <3>1, Zenon
  <2>. QED  BY <2>1, <2>2, QueueEffect
<1>3. DOMAIN inbox = 1 .. Len(inbox) /\ Len(inbox) \in Nat /\ Len(answered) \in Nat
      /\ DOMAIN answered = 1 .. Len(answered) /\ \A k \in DOMAIN answered : answered[k] \in Nat
  <2>1. DOMAIN inbox = 1 .. Len(inbox) /\ Len(inbox) \in Nat
    BY <1>1, LenProperties
  <2>2. Len(answered) \in Nat /\ DOMAIN answered = 1 .. Len(answered)
    BY <1>1, LenProperties
  <2>3. ASSUME NEW k \in DOMAIN answered
        PROVE  answered[k] \in Nat
    <3>1. answered[k] \in 1 .. MaxRequests
      BY <1>1, <2>2, ElementOfSeq
    <3>. QED  BY <3>1, AgentAssumption
  <2>. QED  BY <2>1, <2>2, <2>3
<1>4. \A x \in OnTheWay \ {NULL} : Older(x, m)
  BY <1>1 DEF OrderInv, IsSent, Older
<1>5. OnTheWay' \subseteq OnTheWay \cup {m, NULL}
  BY <1>2 DEF OnTheWay
<1>6. \A k \in DOMAIN answered' :
        \/ k \in DOMAIN answered /\ answered'[k] = answered[k]
        \/ /\ cur # NULL /\ cur.type = "REQUEST" /\ cur' = NULL /\ k = Len(answered) + 1
           /\ answered'[k] = cur.no /\ cur.no \in Nat
  <2>1. CASE answered' = answered
    BY <2>1
  <2>2. CASE cur # NULL /\ cur.type = "REQUEST" /\ cur' = NULL /\ answered' = Append(answered, cur.no)
    <3>1. cur.no \in 1 .. MaxRequests
      BY <1>1, <2>2, MessageKinds
    <3>2. cur.no \in Nat
      BY <3>1, AgentAssumption
    <3>3. \A k \in DOMAIN Append(answered, cur.no) :
            \/ k \in DOMAIN answered /\ Append(answered, cur.no)[k] = answered[k]
            \/ k = Len(answered) + 1 /\ Append(answered, cur.no)[k] = cur.no
      BY <1>1, <3>1, AppendedLast
    <3>. QED  BY <2>2, <3>2, <3>3, Zenon
  <2>. QED  BY <2>1, <2>2
<1>7. cur # NULL => cur \in OnTheWay \ {NULL}
  BY DEF OnTheWay
<1>8. AnswersInOrder'
  BY <1>3, <1>6, <1>7 DEF OrderInv, AnswersInOrder, Answers
<1>9. \A k \in DOMAIN answered' : answered'[k] <= asked'
  BY <1>1, <1>3, <1>6, <1>7 DEF OrderInv, IsSent
<1>10. ASSUME NEW k \in DOMAIN answered', NEW x \in OnTheWay' \ {NULL}
       PROVE  Answers(answered'[k], x)
  <2>1. CASE x = m
    BY <1>1, <1>3, <1>6, <1>7, <2>1 DEF OrderInv, Answers, IsSent
  <2>2. CASE x # m /\ k \in DOMAIN answered /\ answered'[k] = answered[k]
    BY <1>5, <2>2 DEF OrderInv
  <2>3. CASE x # m /\ cur # NULL /\ cur.type = "REQUEST" /\ cur' = NULL /\ answered'[k] = cur.no
    <3>1. x = got["reader"] \/ (\E i \in DOMAIN pending : x = pending[i])
                            \/ (\E i \in DOMAIN inbox : x = inbox[i])
      BY <1>2, <2>3 DEF OnTheWay
    <3>. QED  BY <2>3, <3>1 DEF OrderInv, Answers, Older
  <2>. QED  BY <1>6, <2>1, <2>2, <2>3
<1>11. ASSUME NEW x \in OnTheWay' \ {NULL}
       PROVE  IsSent(x)'
  BY <1>1, <1>5 DEF OrderInv, IsSent
<1>12. cur' # NULL =>
         /\ got'["reader"] # NULL => Older(cur', got'["reader"])
         /\ \A i \in DOMAIN pending' : Older(cur', pending'[i])
         /\ \A i \in DOMAIN inbox' : Older(cur', inbox'[i])
  BY <1>2, <1>4, <1>7 DEF OrderInv
<1>13. got'["reader"] # NULL =>
         /\ \A i \in DOMAIN pending' :
              \/ Older(got'["reader"], pending'[i])
              \/ i = 1 /\ rd'["reader"] = "shift" /\ pending'[1] = got'["reader"]
         /\ \A i \in DOMAIN inbox' : Older(got'["reader"], inbox'[i])
  BY <1>2, <1>4 DEF OrderInv, OnTheWay
<1>14. /\ \A i, j \in DOMAIN pending' : i < j => Older(pending'[i], pending'[j])
       /\ \A i \in DOMAIN pending', j \in DOMAIN inbox' : Older(pending'[i], inbox'[j])
  <2>1. \A i \in DOMAIN pending : pending[i] \in OnTheWay \ {NULL}
    BY <1>1, NoMessageAssumption, ElementOfSeq, LenProperties DEF OnTheWay
  <2>. QED  BY <1>2, <1>4, <2>1 DEF OrderInv
<1>15. \A i, j \in DOMAIN inbox' : i < j => Older(inbox'[i], inbox'[j])
  <2>1. \A i \in DOMAIN inbox : inbox[i] \in OnTheWay \ {NULL}
    BY <1>1, NoMessageAssumption, ElementOfSeq, LenProperties DEF OnTheWay
  <2>. QED  BY <1>2, <1>3, <1>4, <2>1 DEF OrderInv
<1>. QED  BY <1>8, <1>9, <1>10, <1>11, <1>12, <1>13, <1>14, <1>15, Zenon DEF OrderInv, Older, Answers

(* The loop takes the reader's message. *)
LEMMA TakeKeepsOrder ==
  ASSUME AgentInv, OrderInv, TakeMessage
  PROVE  OrderInv'
<1>1. /\ cur = NULL /\ cur' = got["reader"] /\ got'["reader"] = NULL /\ rd["reader"] = "return"
      /\ UNCHANGED <<pending, inbox, asked, answered>>
  BY DEF AgentInv, LoopInv, PhaseInv, TypeOK, TakeMessage, At, Readers
<1>2. OnTheWay' \subseteq OnTheWay \cup {NULL}
  BY <1>1 DEF OnTheWay
<1>. QED  BY <1>1, <1>2 DEF OrderInv, AnswersInOrder, IsSent, Older, Answers

(* The first message of the socket moves behind pendingMessages, or over   *)
(* the last of them.                                                       *)
LEMMA ReceiveKeepsOrder ==
  ASSUME AgentInv, OrderInv, NEW g \in Readers, Receive(g)
  PROVE  OrderInv'
<1>1. TypeOK /\ PhaseInv /\ PendingInv
  BY DEF AgentInv, LoopInv
<1>2. /\ UNCHANGED <<cur, got, asked, answered>> /\ inbox' = Tail(inbox)
      /\ rd[g] = "receive" /\ rd' = [rd EXCEPT ![g] = "load"]
      /\ inbox \in Seq(Messages) /\ inbox # << >> /\ pending \in Seq(Messages)
      /\ rd \in [Readers -> {"idle", "enter", "receive", "load", "shift", "return"}]
  BY <1>1 DEF Receive, At, TypeOK
<1>3. /\ Head(inbox) = inbox[1] /\ Head(inbox) \in Messages /\ 1 \in DOMAIN inbox
      /\ \A i \in DOMAIN inbox' : i + 1 \in DOMAIN inbox /\ inbox'[i] = inbox[i + 1]
      /\ inbox' \in Seq(Messages)
  BY <1>2, TailEffect
<1>4. \A i \in DOMAIN pending' :
        \/ i \in DOMAIN pending /\ pending'[i] = pending[i]
        \/ pending'[i] = inbox[1] /\ i = Len(pending')
  <2>1. CASE pending' = Append(pending, Head(inbox))
    BY <1>2, <1>3, <2>1, PutEffect
  <2>2. CASE pending # << >> /\ pending' = [pending EXCEPT ![Len(pending)] = Head(inbox)]
    BY <1>2, <1>3, <2>2, PutEffect
  <2>. QED  BY <2>1, <2>2 DEF Receive
<1>5. DOMAIN pending' = 1 .. Len(pending') /\ Len(pending') \in Nat
  <2>1. pending' \in Seq(Messages)
    BY <1>2, <1>3, PutEffect DEF Receive
  <2>. QED  BY <2>1, LenProperties
<1>6. DOMAIN inbox = 1 .. Len(inbox) /\ Len(inbox) \in Nat
      /\ DOMAIN inbox' = 1 .. Len(inbox') /\ Len(inbox') \in Nat
  BY <1>2, <1>3, LenProperties
<1>7. OnTheWay' \subseteq OnTheWay
  <2>1. \A i \in DOMAIN pending' : pending'[i] \in OnTheWay
    BY <1>3, <1>4 DEF OnTheWay
  <2>2. \A i \in DOMAIN inbox' : inbox'[i] \in OnTheWay
    BY <1>3 DEF OnTheWay
  <2>. QED  BY <1>2, <2>1, <2>2 DEF OnTheWay
<1>8. AnswersInOrder'
      /\ (\A k \in DOMAIN answered :
            answered[k] <= asked /\ \A m \in OnTheWay \ {NULL} : Answers(answered[k], m))'
      /\ (\A m \in OnTheWay \ {NULL} : IsSent(m))'
  BY <1>2, <1>7 DEF OrderInv, AnswersInOrder, Answers, IsSent
<1>9. \A i \in DOMAIN inbox' : 1 < i + 1
  BY <1>6
<1>10. cur' # NULL =>
         /\ got'["reader"] # NULL => Older(cur', got'["reader"])
         /\ \A i \in DOMAIN pending' : Older(cur', pending'[i])
         /\ \A i \in DOMAIN inbox' : Older(cur', inbox'[i])
  BY <1>2, <1>3, <1>4 DEF OrderInv
<1>11. got'["reader"] # NULL =>
         /\ \A i \in DOMAIN pending' :
              \/ Older(got'["reader"], pending'[i])
              \/ i = 1 /\ rd'["reader"] = "shift" /\ pending'[1] = got'["reader"]
         /\ \A i \in DOMAIN inbox' : Older(got'["reader"], inbox'[i])
  <2>1. got["reader"] # NULL => rd'["reader"] = rd["reader"]
    BY <1>1, <1>2 DEF PhaseInv, Readers
  <2>. QED  BY <1>2, <1>3, <1>4, <2>1 DEF OrderInv
<1>12. \A i \in DOMAIN pending', j \in DOMAIN inbox' : Older(pending'[i], inbox'[j])
  BY <1>3, <1>4, <1>9 DEF OrderInv
<1>13. \A i, j \in DOMAIN pending' : i < j => Older(pending'[i], pending'[j])
  <2>. SUFFICES ASSUME NEW i \in DOMAIN pending', NEW j \in DOMAIN pending', i < j
                PROVE  Older(pending'[i], pending'[j])
    OBVIOUS
  <2>1. i \in DOMAIN pending /\ pending'[i] = pending[i]
    BY <1>4, <1>5
  <2>. QED  BY <1>3, <1>4, <2>1 DEF OrderInv
<1>14. \A i, j \in DOMAIN inbox' : i < j => Older(inbox'[i], inbox'[j])
  <2>. SUFFICES ASSUME NEW i \in DOMAIN inbox', NEW j \in DOMAIN inbox', i < j
                PROVE  Older(inbox'[i], inbox'[j])
    OBVIOUS
  <2>1. i + 1 < j + 1
    BY <1>6
  <2>. QED  BY <1>3, <2>1 DEF OrderInv
<1>. QED  BY <1>8, <1>10, <1>11, <1>12, <1>13, <1>14 DEF OrderInv

(* The first of pendingMessages is read, and stays where it is. *)
LEMMA LoadKeepsOrder ==
  ASSUME AgentInv, OrderInv, NEW g \in Readers, Load(g)
  PROVE  OrderInv'
<1>1. /\ TypeOK /\ PhaseInv /\ pending \in Seq(Messages)
      /\ UNCHANGED <<cur, pending, inbox, asked, answered>> /\ rd[g] = "load"
  BY DEF AgentInv, LoopInv, TypeOK, Load, At, Panic
<1>2. CASE /\ pending # << >> /\ got' = [got EXCEPT ![g] = Head(pending)]
           /\ rd' = [rd EXCEPT ![g] = "shift"] /\ g = "reader"
  <2>1. /\ Head(pending) = pending[1] /\ 1 \in DOMAIN pending
        /\ DOMAIN pending = 1 .. Len(pending) /\ Len(pending) \in Nat
    BY <1>1, <1>2, TailEffect, LenProperties
  <2>2. got'["reader"] = pending[1] /\ rd'["reader"] = "shift"
    BY <1>1, <1>2, <2>1 DEF TypeOK, Readers
  <2>3. OnTheWay' \subseteq OnTheWay
    BY <1>1, <2>1, <2>2 DEF OnTheWay
  <2>4. AnswersInOrder'
        /\ (\A k \in DOMAIN answered :
              answered[k] <= asked /\ \A m \in OnTheWay \ {NULL} : Answers(answered[k], m))'
        /\ (\A m \in OnTheWay \ {NULL} : IsSent(m))'
    BY <1>1, <2>3 DEF OrderInv, AnswersInOrder, Answers, IsSent
  <2>5. \A i \in DOMAIN pending : i = 1 \/ 1 < i
    BY <2>1
  <2>. QED  BY <1>1, <2>1, <2>2, <2>4, <2>5 DEF OrderInv
<1>3. CASE \/ UNCHANGED <<rd, got>>
           \/ rd' = [rd EXCEPT ![g] = "shift"] /\ got' = [got EXCEPT ![g] = NULL]
           \/ /\ g = "main" /\ got' = [got EXCEPT ![g] = Head(pending)]
              /\ rd' = [rd EXCEPT ![g] = "shift"]
  BY <1>1, <1>3, CalmKeepsOrder DEF TypeOK, PhaseInv, Readers
<1>. QED  BY <1>2, <1>3 DEF Load, Panic, Readers

(* The first of pendingMessages leaves it. *)
LEMMA ShiftKeepsOrder ==
  ASSUME AgentInv, OrderInv, NEW g \in Readers, Shift(g)
  PROVE  OrderInv'
<1>1. /\ TypeOK /\ PhaseInv /\ pending \in Seq(Messages) /\ rd[g] = "shift"
      /\ UNCHANGED <<cur, inbox, asked, answered, got>>
  BY DEF AgentInv, LoopInv, TypeOK, Shift, At, Panic
<1>2. CASE pending = << >>
  BY <1>1, <1>2, CalmKeepsOrder DEF Shift, Panic
<1>3. CASE pending # << >>
  <2>1. /\ pending' = Tail(pending) /\ rd' = [rd EXCEPT ![g] = "return"]
        /\ rd \in [Readers -> {"idle", "enter", "receive", "load", "shift", "return"}]
    BY <1>1, <1>3 DEF Shift, TypeOK
  <2>2. /\ \A i \in DOMAIN pending' : i + 1 \in DOMAIN pending /\ pending'[i] = pending[i + 1]
        /\ pending' \in Seq(Messages)
    BY <1>1, <1>3, <2>1, TailEffect
  <2>3. DOMAIN pending' = 1 .. Len(pending') /\ Len(pending') \in Nat
    BY <2>2, LenProperties
  <2>4. OnTheWay' \subseteq OnTheWay
    BY <1>1, <2>2 DEF OnTheWay
  <2>5. AnswersInOrder'
        /\ (\A k \in DOMAIN answered :
              answered[k] <= asked /\ \A m \in OnTheWay \ {NULL} : Answers(answered[k], m))'
        /\ (\A m \in OnTheWay \ {NULL} : IsSent(m))'
    BY <1>1, <2>4 DEF OrderInv, AnswersInOrder, Answers, IsSent
  <2>6. \A i \in DOMAIN pending' : i + 1 # 1
    BY <2>3
  <2>7. \A i, j \in DOMAIN pending' : i < j => i + 1 < j + 1
    BY <2>3
  <2>8. got'["reader"] # NULL =>
          /\ \A i \in DOMAIN pending' : Older(got'["reader"], pending'[i])
          /\ \A i \in DOMAIN inbox' : Older(got'["reader"], inbox'[i])
    BY <1>1, <2>2, <2>6 DEF OrderInv
  <2>. QED  BY <1>1, <2>2, <2>5, <2>7, <2>8 DEF OrderInv
<1>. QED  BY <1>2, <1>3

(* Every step keeps the order. *)
LEMMA NextKeepsOrder ==
  ASSUME AgentInv, OrderInv, [Next]_vars
  PROVE  OrderInv'
<1>1. TypeOK /\ PhaseInv
  BY DEF AgentInv, LoopInv
<1>2. CASE DriverAsks
  <2>1. Request(asked + 1) \in Messages /\ Request(asked + 1).no = asked + 1
    <3>1. asked + 1 \in 1 .. MaxRequests
      BY <1>1, <1>2, AgentAssumption DEF TypeOK, DriverAsks
    <3>. QED  BY <3>1, MessageKinds
  <2>. QED  BY <1>1, <1>2, <2>1, SendKeepsOrder DEF DriverAsks
<1>3. CASE Spawn \/ Wait \/ Interrupt \/ Cancel \/ Join \/ SendDestroyFails \/ Finish \/ UNCHANGED vars
  BY <1>1, <1>3, CalmKeepsOrder
     DEF TypeOK, PhaseInv, Spawn, Wait, Interrupt, Cancel, Join, SendDestroyFails, Finish, MainTo,
         vars, Readers
<1>4. CASE SendDestroy
  <2>1. \A type \in {"DESTROY_DEVICE_RESULT", "NLMSG_ERROR"} :
          Answer(type) \in Messages /\ Answer(type).type # "REQUEST"
    BY MessageKinds
  <2>2. rd'["reader"] = rd["reader"] /\ UNCHANGED <<cur, got, pending, asked, answered>>
    BY <1>1, <1>4 DEF SendDestroy, TypeOK, Readers
  <2>. QED  BY <1>1, <1>4, <2>1, <2>2, SendKeepsOrder DEF SendDestroy
<1>5. CASE LoopDone \/ TickNotNormal \/ HandleUnknown \/ HandleNil \/ LoopSendFails
  BY <1>5, CalmKeepsOrder DEF LoopDone, TickNotNormal, HandleUnknown, HandleNil, LoopSendFails, EndLoop
<1>6. CASE Tick
  <2>1. \A type \in {"GET_HEALTH_RESULT", "NLMSG_ERROR"} :
          Answer(type) \in Messages /\ Answer(type).type # "REQUEST"
    BY MessageKinds
  <2>. QED  BY <1>1, <1>6, <2>1, SendKeepsOrder DEF Tick
<1>7. CASE HandleRequest
  <2>1. Answer("NLMSG_ERROR") \in Messages /\ Answer("NLMSG_ERROR").type # "REQUEST"
    BY MessageKinds
  <2>. QED  BY <1>1, <1>7, <2>1, SendKeepsOrder DEF HandleRequest
<1>8. CASE TakeMessage
  BY <1>8, TakeKeepsOrder
<1>9. ASSUME NEW g \in Readers, Reading(g)
      PROVE  OrderInv'
  <2>1. CASE Enter(g) \/ ReceiveFails(g)
    BY <1>1, <2>1, CalmKeepsOrder DEF Enter, ReceiveFails, At, TypeOK, PhaseInv, Readers
  <2>. QED  BY <1>9, <2>1, ReceiveKeepsOrder, LoadKeepsOrder, ShiftKeepsOrder DEF Reading
<1>. QED
  BY <1>2, <1>3, <1>4, <1>5, <1>6, <1>7, <1>8, <1>9 DEF Next, LoopStep, MainStep

(* No request is answered twice, or before an older one. *)
THEOREM RequestsInOrder == Spec => []AnswersInOrder
<1>1. Init => OrderInv
  <2>. SUFFICES ASSUME Init  PROVE OrderInv
    OBVIOUS
  <2>1. inbox = << >> /\ pending = << >> /\ answered = << >> /\ cur = NULL /\ got["reader"] = NULL
    BY DEF Init, Readers
  <2>2. OnTheWay \subseteq {NULL}
    BY <2>1 DEF OnTheWay
  <2>. QED  BY <2>1, <2>2 DEF OrderInv, AnswersInOrder
<1>2. AgentInv /\ OrderInv /\ [Next]_vars => OrderInv'
  BY NextKeepsOrder
<1>3. OrderInv => AnswersInOrder
  BY DEF OrderInv
<1>. QED  BY <1>1, <1>2, <1>3, AgentInvariant, PTL DEF Spec

-----------------------------------------------------------------------------
(* The agent implements AgentService.                                      *)

(* Where the messages on their way to the loop stand. *)
InHand == IF cur = NULL THEN << >> ELSE <<cur>>
InReader == IF rd["reader"] # "return" \/ got["reader"] = NULL THEN << >> ELSE <<got["reader"]>>
Behind == InReader \o (pending \o inbox)

(* A sequence with one message in front, and one taken apart. *)
LEMMA FrontEffect ==
  ASSUME NEW s \in Seq(Messages), NEW m \in Messages
  PROVE  /\ <<m>> \o s \in Seq(Messages) /\ <<m>> \o s # << >>
         /\ Head(<<m>> \o s) = m /\ Tail(<<m>> \o s) = s
<1>1. <<m>> \in Seq(Messages) /\ Len(<<m>>) = 1 /\ <<m>>[1] = m
  OBVIOUS
<1>2. /\ <<m>> \o s \in Seq(Messages) /\ Len(<<m>> \o s) = 1 + Len(s)
      /\ \A i \in 1 .. 1 + Len(s) : (<<m>> \o s)[i] = IF i <= 1 THEN <<m>>[i] ELSE s[i - 1]
  BY <1>1, ConcatProperties
<1>3. Len(s) \in Nat
  BY LenProperties
<1>4. <<m>> \o s # << >>
  <2>1. Len(<<m>> \o s) # 0
    BY <1>2, <1>3
  <2>. QED  BY <1>2, <2>1, EmptySeq
<1>5. Head(<<m>> \o s) = m
  <2>1. (<<m>> \o s)[1] = m
    BY <1>1, <1>2, <1>3
  <2>. QED  BY <1>2, <1>4, <2>1, TailEffect
<1>6. Tail(<<m>> \o s) = s
  <2>1. /\ Tail(<<m>> \o s) \in Seq(Messages)
        /\ Len(Tail(<<m>> \o s)) = Len(<<m>> \o s) - 1
        /\ \A i \in 1 .. Len(Tail(<<m>> \o s)) : Tail(<<m>> \o s)[i] = (<<m>> \o s)[i + 1]
    BY <1>2, <1>4, HeadTailProperties
  <2>2. Len(Tail(<<m>> \o s)) = Len(s)
    BY <1>2, <1>3, <2>1
  <2>3. \A i \in 1 .. Len(s) : Tail(<<m>> \o s)[i] = s[i]
    BY <1>2, <1>3, <2>1, <2>2
  <2>. QED  BY <2>1, <2>2, <2>3, SeqEqual
<1>. QED  BY <1>2, <1>4, <1>5, <1>6

(* A sequence is its first message and the rest. *)
LEMMA HeadAndTail ==
  ASSUME NEW s \in Seq(Messages), s # << >>
  PROVE  /\ Head(s) \in Messages /\ Tail(s) \in Seq(Messages)
         /\ s = <<Head(s)>> \o Tail(s)
<1>1. /\ Head(s) \in Messages /\ Tail(s) \in Seq(Messages) /\ Len(Tail(s)) = Len(s) - 1
      /\ \A i \in 1 .. Len(Tail(s)) : Tail(s)[i] = s[i + 1]
      /\ Head(s) = s[1] /\ Len(s) \in Nat \ {0}
  BY HeadTailProperties, TailEffect
<1>2. <<Head(s)>> \in Seq(Messages) /\ Len(<<Head(s)>>) = 1 /\ <<Head(s)>>[1] = Head(s)
  BY <1>1
<1>3. /\ <<Head(s)>> \o Tail(s) \in Seq(Messages) /\ Len(<<Head(s)>> \o Tail(s)) = 1 + Len(Tail(s))
      /\ \A i \in 1 .. 1 + Len(Tail(s)) :
           (<<Head(s)>> \o Tail(s))[i] = IF i <= 1 THEN <<Head(s)>>[i] ELSE Tail(s)[i - 1]
  BY <1>1, <1>2, ConcatProperties
<1>4. Len(<<Head(s)>> \o Tail(s)) = Len(s)
  BY <1>1, <1>3
<1>5. \A i \in 1 .. Len(s) : s[i] = (<<Head(s)>> \o Tail(s))[i]
  BY <1>1, <1>2, <1>3
<1>. QED  BY <1>1, <1>3, <1>4, <1>5, SeqEqual

(* Appending to what stands behind appends to the whole. *)
LEMMA ConcatAppend ==
  ASSUME NEW s \in Seq(Messages), NEW t \in Seq(Messages), NEW m \in Messages
  PROVE  s \o Append(t, m) = Append(s \o t, m)
<1>1. <<m>> \in Seq(Messages) /\ s \o t \in Seq(Messages)
  BY ConcatProperties
<1>2. Append(t, m) = t \o <<m>> /\ Append(s \o t, m) = (s \o t) \o <<m>>
  BY <1>1, AppendIsConcat
<1>. QED  BY <1>1, <1>2, ConcatAssociative

(* The queue is the message in hand and what stands behind it. *)
LEMMA QueuedInParts ==
  ASSUME TypeOK
  PROVE  /\ InHand \in Seq(Messages) /\ InReader \in Seq(Messages) /\ pending \in Seq(Messages)
         /\ inbox \in Seq(Messages) /\ pending \o inbox \in Seq(Messages)
         /\ Behind \in Seq(Messages) /\ Queued \in Seq(Messages)
         /\ Queued = InHand \o Behind
<1>1. << >> \in Seq(Messages) /\ \A m \in Messages : <<m>> \in Seq(Messages)
  BY EmptySeq
<1>2. /\ InHand \in Seq(Messages) /\ InReader \in Seq(Messages) /\ pending \in Seq(Messages)
      /\ inbox \in Seq(Messages)
  BY <1>1 DEF TypeOK, InHand, InReader, Readers
<1>3. /\ pending \o inbox \in Seq(Messages) /\ InHand \o InReader \in Seq(Messages)
      /\ InReader \o pending \in Seq(Messages)
  BY <1>2, ConcatProperties
<1>4. Behind \in Seq(Messages)
  BY <1>2, <1>3, ConcatProperties DEF Behind
<1>5. InHand \o Behind \in Seq(Messages)
  BY <1>2, <1>4, ConcatProperties
<1>6. Queued = ((InHand \o InReader) \o pending) \o inbox
  BY DEF Queued, InHand, InReader
<1>. DEFINE Joins(a, b, c) == (a \o b) \o c = a \o (b \o c)
<1>9. \A a, b, c \in Seq(Messages) : Joins(a, b, c)
  BY ConcatAssociative
<1>. HIDE DEF Joins
<1>10. Joins(InHand \o InReader, pending, inbox) /\ Joins(InHand, InReader, pending \o inbox)
  BY <1>2, <1>3, <1>9
<1>7. ((InHand \o InReader) \o pending) \o inbox = (InHand \o InReader) \o (pending \o inbox)
  BY <1>10, Zenon DEF Joins
<1>8. (InHand \o InReader) \o (pending \o inbox) = InHand \o Behind
  BY <1>10, Zenon DEF Joins, Behind
<1>. QED  BY <1>2, <1>3, <1>4, <1>5, <1>6, <1>7, <1>8

(* So it is in the next state. *)
LEMMA QueuedInPartsNext == (TypeOK => Queued = InHand \o Behind)'
<1>1. TypeOK => Queued = InHand \o Behind
  BY QueuedInParts
<1>. QED  BY <1>1, PTL

(* A message is queued: it arrives at the end, or not at all. *)
LEMMA QueueArrives ==
  ASSUME TypeOK, TypeOK', NEW m \in Messages, Queue(m), UNCHANGED <<got, pending>>,
         rd["reader"]' = rd["reader"]
  PROVE  \/ Behind' = Behind
         \/ Behind' = Append(Behind, m)
<1>1. inbox' = inbox \/ inbox' = Append(inbox, m)
  BY QueueEffect
<1>2. InReader' = InReader /\ pending' = pending
  BY DEF InReader
<1>3. CASE inbox' = inbox
  BY <1>2, <1>3 DEF Behind
<1>4. CASE inbox' = Append(inbox, m)
  <2>1. /\ InReader \in Seq(Messages) /\ pending \in Seq(Messages) /\ inbox \in Seq(Messages)
        /\ pending \o inbox \in Seq(Messages)
    BY QueuedInParts
  <2>2. pending \o Append(inbox, m) = Append(pending \o inbox, m)
    BY <2>1, ConcatAppend
  <2>3. InReader \o Append(pending \o inbox, m) = Append(Behind, m)
    BY <2>1, ConcatAppend DEF Behind
  <2>4. Behind' = InReader \o (pending \o Append(inbox, m))
    BY <1>2, <1>4 DEF Behind
  <2>. QED  BY <2>2, <2>3, <2>4
<1>. QED  BY <1>1, <1>3, <1>4

(* Until DestroyDevice reads, ReciveMessage keeps the messages in their    *)
(* order: from the socket over pendingMessages into the reader's hand.     *)
LEMMA ReadingKeepsBehind ==
  ASSUME AgentInv, AgentInv', rd["main"] = "idle", NEW g \in Readers, Reading(g), alive'
  PROVE  Behind' = Behind
<1>1. /\ TypeOK /\ PendingInv /\ PhaseInv /\ g = "reader"
      /\ rd \in [Readers -> {"idle", "enter", "receive", "load", "shift", "return"}]
      /\ got \in [Readers -> Messages \cup {NULL}]
      /\ InReader \in Seq(Messages) /\ pending \in Seq(Messages) /\ inbox \in Seq(Messages)
      /\ pending \o inbox \in Seq(Messages) /\ << >> \in Seq(Messages)
  BY QueuedInParts, EmptySeq
     DEF AgentInv, LoopInv, TypeOK, Reading, Enter, Receive, ReceiveFails, Load, Shift, At, Readers
<1>2. CASE Enter(g) \/ ReceiveFails(g)
  BY <1>1, <1>2 DEF Enter, ReceiveFails, At, Behind, InReader, Readers
<1>3. CASE Receive(g)
  <2>1. pending = << >>
    BY <1>1, <1>3 DEF Receive, At, PendingInv, Using, Readers
  <2>2. /\ inbox # << >> /\ inbox' = Tail(inbox) /\ pending' = Append(pending, Head(inbox))
        /\ InReader' = << >> /\ InReader = << >>
    BY <1>1, <1>3, <2>1 DEF Receive, At, InReader, Readers
  <2>3. /\ Head(inbox) \in Messages /\ Tail(inbox) \in Seq(Messages)
        /\ inbox = <<Head(inbox)>> \o Tail(inbox)
    BY <1>1, <2>2, HeadAndTail
  <2>4. pending' = <<Head(inbox)>>
    BY <2>1, <2>2, <2>3
  <2>5. pending \o inbox = inbox
    BY <1>1, <2>1, ConcatEmptySeq
  <2>6. pending' \o inbox' = inbox
    BY <2>2, <2>3, <2>4
  <2>. QED  BY <2>2, <2>5, <2>6 DEF Behind
<1>4. CASE Load(g)
  <2>1. pending' = pending /\ inbox' = inbox /\ rd["reader"] = "load" /\ rd' = [rd EXCEPT !["reader"] = "shift"]
    BY <1>1, <1>4 DEF Load, At, Panic, Readers
  <2>2. rd'["reader"] = "shift"
    BY <1>1, <2>1 DEF Readers
  <2>. QED  BY <2>1, <2>2 DEF Behind, InReader
<1>5. CASE Shift(g)
  <2>1. /\ rd["reader"] = "shift" /\ pending # << >> /\ pending' = Tail(pending) /\ inbox' = inbox
        /\ got' = got /\ rd' = [rd EXCEPT !["reader"] = "return"]
    BY <1>1, <1>5 DEF Shift, At, Panic
  <2>2. Len(pending) = 1 /\ got["reader"] = Head(pending)
    BY <1>1, <2>1 DEF PendingInv, Using
  <2>3. /\ Head(pending) \in Messages /\ Tail(pending) \in Seq(Messages)
        /\ pending = <<Head(pending)>> \o Tail(pending) /\ Len(Tail(pending)) = 0
    BY <1>1, <2>1, <2>2, HeadAndTail, HeadTailProperties
  <2>4. Tail(pending) = << >>
    BY <2>3, EmptySeq
  <2>5. pending = <<got["reader"]>> /\ pending' = << >>
    <3>1. <<Head(pending)>> \in Seq(Messages)
      BY <2>3
    <3>. QED  BY <2>1, <2>2, <2>3, <2>4, <3>1, ConcatEmptySeq
  <2>6. InReader = << >> /\ InReader' = pending
    BY <1>1, <2>1, <2>2, <2>3, <2>5, NoMessageAssumption DEF InReader, Readers
  <2>7. pending' \o inbox' = inbox
    BY <1>1, <2>1, <2>5, ConcatEmptySeq
  <2>8. InReader \o (pending \o inbox) = pending \o inbox
    BY <1>1, <2>6, ConcatEmptySeq
  <2>. QED  BY <2>6, <2>7, <2>8 DEF Behind
<1>. QED  BY <1>2, <1>3, <1>4, <1>5 DEF Reading

(* The loop takes the message in the reader's hand into its own. *)
LEMMA TakeKeepsQueue ==
  ASSUME AgentInv, AgentInv', rd["main"] = "idle", TakeMessage
  PROVE  Queued' = Queued
<1>1. /\ TypeOK /\ cur = NULL /\ rd["reader"] = "return" /\ cur' = got["reader"]
      /\ rd'["reader"] = "enter" /\ pending' = pending /\ inbox' = inbox
  BY DEF AgentInv, LoopInv, TypeOK, PhaseInv, TakeMessage, At, Readers
<1>2. /\ InHand = << >> /\ InReader' = << >> /\ InHand' = InReader
  BY <1>1 DEF InHand, InReader
<1>3. /\ InReader \in Seq(Messages) /\ pending \o inbox \in Seq(Messages) /\ Behind \in Seq(Messages)
  BY <1>1, QueuedInParts
<1>4. Queued = Behind
  BY <1>1, <1>2, <1>3, QueuedInParts, ConcatEmptySeq
<1>5. Behind' = pending \o inbox
  <2>1. << >> \o (pending \o inbox) = pending \o inbox
    BY <1>3, ConcatEmptySeq
  <2>. QED  BY <1>1, <1>2, <2>1 DEF Behind
<1>6. TypeOK'
  BY DEF AgentInv, LoopInv
<1>7. Queued' = InHand' \o Behind'
  BY <1>6, QueuedInPartsNext
<1>. QED  BY <1>2, <1>4, <1>5, <1>7 DEF Behind

(* What AgentService calls the agent. *)
LEMMA ModeIs ==
  /\ ~Running => Mode = "ended"
  /\ Running /\ main \in {"sending", "reading"} => Mode = "leaving"
  /\ Running /\ main \notin {"sending", "reading"} => Mode = IF loop = "ended" THEN "stopped" ELSE "up"
  BY DEF Mode

(* The same in the next state. *)
LEMMA ModeIsNext ==
  /\ ~Running' => Mode' = "ended"
  /\ Running' /\ main' \in {"sending", "reading"} => Mode' = "leaving"
  /\ Running' /\ main' \notin {"sending", "reading"} =>
        Mode' = IF loop' = "ended" THEN "stopped" ELSE "up"
  BY DEF Mode

(* Steps of AgentService, as steps of the agent. *)
LEMMA ArrivesOrStays ==
  ASSUME Mode \in {"up", "stopped"}, Mode' = Mode, answered' = answered,
         Queued' = Queued \/ \E m \in Messages : Queued' = Append(Queued, m)
  PROVE  [Service!Next]_(Service!serviceVars)
  BY DEF Service!Next, Service!Arrive, Service!serviceVars

(* The loop's own steps before DestroyDevice: they answer the oldest       *)
(* message, or stop.                                                       *)
LEMMA LoopKeepsService ==
  ASSUME AgentInv, AgentInv', LoopStep, Running, Running', main \notin {"sending", "reading"}
  PROVE  [Service!Next]_(Service!serviceVars)
<1>1. /\ TypeOK /\ TypeOK' /\ PhaseInv /\ rd["main"] = "idle" /\ main' = main
      /\ rd["main"] = "idle" /\ Mode = IF loop = "ended" THEN "stopped" ELSE "up"
      /\ Mode' = IF loop' = "ended" THEN "stopped" ELSE "up"
      /\ Queued = InHand \o Behind /\ Queued' = InHand' \o Behind'
  BY QueuedInParts, QueuedInPartsNext, ModeIs, ModeIsNext
     DEF AgentInv, LoopInv, PhaseInv, Running, LoopStep, LoopDone, Tick, TickNotNormal, TakeMessage,
         HandleRequest, HandleUnknown, HandleNil, LoopSendFails
<1>2. CASE TakeMessage
  <2>1. Queued' = Queued
    BY <1>1, <1>2, TakeKeepsQueue
  <2>. QED  BY <1>1, <1>2, <2>1, ArrivesOrStays DEF TakeMessage
<1>3. CASE Tick
  <2>1. PICK m \in Messages : Queue(m)
    BY <1>3, MessageKinds DEF Tick
  <2>2. Behind' = Behind \/ Behind' = Append(Behind, m)
    BY <1>1, <1>3, <2>1, QueueArrives DEF Tick
  <2>3. InHand' = InHand
    BY <1>3 DEF Tick, InHand
  <2>4. Queued' = Queued \/ Queued' = Append(Queued, m)
    <3>1. InHand \in Seq(Messages) /\ Behind \in Seq(Messages)
      BY <1>1, QueuedInParts
    <3>2. InHand \o Append(Behind, m) = Append(InHand \o Behind, m)
      BY <3>1, ConcatAppend
    <3>. QED  BY <1>1, <2>2, <2>3, <3>2, Zenon
  <2>. QED  BY <1>1, <1>3, <2>4, ArrivesOrStays DEF Tick
<1>4. CASE LoopDone \/ TickNotNormal \/ (LoopSendFails /\ loop = "select")
  <2>1. Queued' = Queued /\ Mode = "up" /\ Mode' = "stopped" /\ answered' = answered
    BY <1>1, <1>4 DEF PhaseInv, LoopDone, TickNotNormal, LoopSendFails, EndLoop, Queued
  <2>. QED  BY <2>1 DEF Service!Next, Service!Stop
<1>5. CASE HandleUnknown \/ (LoopSendFails /\ loop = "handle")
  <2>1. cur \in Messages /\ cur' = NULL /\ Mode = "up" /\ Mode' = "stopped" /\ answered' = answered
        /\ UNCHANGED <<rd, got, pending, inbox>>
    BY <1>1, <1>5 DEF TypeOK, HandleUnknown, LoopSendFails, EndLoop
  <2>2. InHand = <<cur>> /\ InHand' = << >> /\ Behind' = Behind
    BY <2>1, NoMessageAssumption DEF InHand, Behind, InReader
  <2>3. Behind \in Seq(Messages)
    BY <1>1, QueuedInParts
  <2>4. Queued # << >> /\ Tail(Queued) = Behind
    BY <1>1, <2>1, <2>2, <2>3, FrontEffect
  <2>5. Queued' = Behind
    BY <1>1, <2>2, <2>3, ConcatEmptySeq
  <2>. QED  BY <2>1, <2>4, <2>5 DEF Service!Next, Service!Stop
<1>6. CASE HandleRequest
  <2>1. cur \in Messages /\ cur.type = "REQUEST" /\ cur' = NULL /\ Mode = "up" /\ Mode' = Mode
        /\ answered' = Append(answered, cur.no) /\ UNCHANGED <<rd, got, pending>>
    BY <1>1, <1>6 DEF TypeOK, HandleRequest
  <2>2. InHand = <<cur>> /\ InHand' = << >> /\ Behind \in Seq(Messages)
    BY <1>1, <2>1, NoMessageAssumption, QueuedInParts DEF InHand
  <2>3. Queued # << >> /\ Head(Queued) = cur /\ Tail(Queued) = Behind
    BY <1>1, <2>1, <2>2, FrontEffect
  <2>4. \/ Behind' = Behind
        \/ \E m \in Messages : m.type = "NLMSG_ERROR" /\ Behind' = Append(Behind, m)
    <3>1. CASE UNCHANGED inbox
      BY <2>1, <3>1 DEF Behind, InReader
    <3>2. CASE Queue(Answer("NLMSG_ERROR"))
      <4>1. Answer("NLMSG_ERROR") \in Messages /\ Answer("NLMSG_ERROR").type = "NLMSG_ERROR"
        BY MessageKinds
      <4>. QED  BY <1>1, <2>1, <3>2, <4>1, QueueArrives
    <3>. QED  BY <1>6, <3>1, <3>2 DEF HandleRequest
  <2>5. Behind' \in Seq(Messages)
    BY <2>2, <2>4, AppendProperties
  <2>6. Queued' = Behind'
    BY <1>1, <2>2, <2>5, ConcatEmptySeq
  <2>. QED  BY <2>1, <2>3, <2>4, <2>6 DEF Service!Next, Service!Answer
<1>7. CASE HandleNil
  BY <1>7 DEF HandleNil, Running
<1>. QED
  BY <1>2, <1>3, <1>4, <1>5, <1>6, <1>7 DEF LoopStep, LoopSendFails

(* Every step of the agent is one of AgentService, or changes nothing of   *)
(* what it describes.                                                      *)
LEMMA StepKeepsService ==
  ASSUME AgentInv, AgentInv', [Next]_vars
  PROVE  [Service!Next]_(Service!serviceVars)
<1>1. TypeOK /\ TypeOK' /\ PhaseInv
  BY DEF AgentInv, LoopInv
<1>2. CASE UNCHANGED vars
  <2>1. UNCHANGED <<Queued, answered, Mode>>
    BY <1>2 DEF vars, Queued, Mode, Running
  <2>. QED  BY <2>1 DEF Service!serviceVars
<1>3. CASE Next
  <2>1. Running
    BY <1>3 DEF Next, DriverAsks, Spawn, LoopStep, LoopDone, Tick, TickNotNormal, TakeMessage,
                HandleRequest, HandleUnknown, HandleNil, LoopSendFails, Wait, Interrupt, MainStep,
                Cancel, Join, SendDestroy, SendDestroyFails, Finish, MainTo, Reading, Enter,
                Receive, ReceiveFails, Load, Shift, At, Running
  <2>2. CASE main \in {"sending", "reading"}
    <3>1. main' \in {"sending", "reading", "done"}
      BY <1>3, <2>2 DEF Next, DriverAsks, Spawn, LoopStep, LoopDone, Tick, TickNotNormal, TakeMessage,
                HandleRequest, HandleUnknown, HandleNil, LoopSendFails, Wait, Interrupt, MainStep,
                Cancel, Join, SendDestroy, SendDestroyFails, Finish, MainTo, Reading, Enter,
                Receive, ReceiveFails, Load, Shift
    <3>2. Mode = "leaving" /\ Mode' \in {"leaving", "ended"}
      BY <2>1, <2>2, <3>1, ModeIs, ModeIsNext DEF Running
    <3>. QED  BY <3>2 DEF Service!Next, Service!Leaving
  <2>3. CASE main \notin {"sending", "reading"} /\ ~Running'
    <3>1. answered' = answered
      BY <1>3, <2>1, <2>3 DEF Next, DriverAsks, Spawn, LoopStep, LoopDone, Tick, TickNotNormal,
                TakeMessage, HandleRequest, HandleUnknown, HandleNil, LoopSendFails, Wait, Interrupt,
                MainStep, Cancel, Join, SendDestroy, SendDestroyFails, Finish, MainTo, Reading,
                Enter, Receive, ReceiveFails, Load, Shift, Running
    <3>2. Mode # "ended" /\ Mode' = "ended"
      BY <2>1, <2>3, ModeIs, ModeIsNext
    <3>. QED  BY <3>1, <3>2 DEF Service!Next, Service!Die
  <2>4. CASE main \notin {"sending", "reading"} /\ Running'
    <3>1. rd["main"] = "idle" /\ Mode = IF loop = "ended" THEN "stopped" ELSE "up"
      BY <1>1, <2>1, <2>4, ModeIs DEF PhaseInv, Running
    <3>2. CASE LoopStep
      BY <2>1, <2>4, <3>2, LoopKeepsService
    <3>3. CASE DriverAsks
      <4>1. Request(asked + 1) \in Messages
        <5>1. asked + 1 \in 1 .. MaxRequests
          BY <1>1, <3>3, AgentAssumption DEF TypeOK, DriverAsks
        <5>. QED  BY <5>1, MessageKinds
      <4>2. Behind' = Behind \/ Behind' = Append(Behind, Request(asked + 1))
        BY <1>1, <3>3, <4>1, QueueArrives DEF DriverAsks
      <4>3. /\ InHand \in Seq(Messages) /\ Behind \in Seq(Messages) /\ InHand' = InHand
            /\ Queued = InHand \o Behind /\ Queued' = InHand' \o Behind'
        BY <1>1, <3>3, QueuedInParts, QueuedInPartsNext DEF DriverAsks, InHand
      <4>4. InHand \o Append(Behind, Request(asked + 1)) = Append(InHand \o Behind, Request(asked + 1))
        BY <4>1, <4>3, ConcatAppend
      <4>5. Queued' = Queued \/ Queued' = Append(Queued, Request(asked + 1))
        BY <4>2, <4>3, <4>4, Zenon
      <4>6. Mode' = Mode /\ answered' = answered
        BY <3>3 DEF DriverAsks, Mode, Running
      <4>. QED  BY <3>1, <4>1, <4>5, <4>6, ArrivesOrStays
    <3>4. CASE Spawn \/ Wait \/ Interrupt \/ Cancel
      <4>1. Queued' = Queued
        BY <1>1, <3>4 DEF TypeOK, PhaseInv, Spawn, Wait, Interrupt, Cancel, MainTo, Queued, Readers
      <4>2. /\ main' \notin {"sending", "reading"} /\ answered' = answered
            /\ loop' = "ended" <=> loop = "ended"
        BY <2>4, <3>4 DEF Spawn, Wait, Interrupt, Cancel, MainTo
      <4>3. Mode' = Mode
        BY <2>4, <3>1, <4>2, ModeIsNext
      <4>. QED  BY <3>1, <4>1, <4>2, <4>3, ArrivesOrStays
    <3>5. CASE Join
      <4>1. Queued' = Queued /\ answered' = answered /\ main' = "sending"
        BY <3>5 DEF Join, MainTo, Queued
      <4>2. Mode' = "leaving"
        BY <2>4, <4>1, ModeIsNext
      <4>. QED  BY <3>1, <4>1, <4>2 DEF Service!Next, Service!Leave
    <3>6. CASE SendDestroy \/ SendDestroyFails \/ Finish
      BY <2>4, <3>6 DEF SendDestroy, SendDestroyFails, Finish, MainTo
    <3>7. ASSUME NEW g \in Readers, Reading(g)
          PROVE  [Service!Next]_(Service!serviceVars)
      <4>1. Behind' = Behind
        BY <2>4, <3>1, <3>7, ReadingKeepsBehind DEF Running
      <4>2. UNCHANGED <<cur, main, loop, answered>>
        BY <3>7 DEF Reading, Enter, Receive, ReceiveFails, Load, Shift
      <4>3. Queued = InHand \o Behind /\ Queued' = InHand' \o Behind' /\ InHand' = InHand
        BY <1>1, <4>2, QueuedInParts, QueuedInPartsNext DEF InHand
      <4>4. Mode' = Mode
        BY <2>4, <3>1, <4>2, ModeIsNext
      <4>. QED  BY <3>1, <4>1, <4>2, <4>3, <4>4, ArrivesOrStays
    <3>. QED
      BY <1>3, <3>2, <3>3, <3>4, <3>5, <3>6, <3>7 DEF Next, MainStep
  <2>. QED  BY <2>2, <2>3, <2>4
<1>. QED  BY <1>2, <1>3

(* Four goroutines, an unbuffered channel and a slice of pending messages  *)
(* are one queue whose requests are answered in order.                     *)
THEOREM ServiceKept == Spec => KeepsService
<1>1. Init => Service!Init
  <2>. SUFFICES ASSUME Init  PROVE Service!Init
    OBVIOUS
  <2>1. Queued = << >> /\ Mode = "up"
    <3>1. /\ cur = NULL /\ got["reader"] = NULL /\ pending = << >> /\ inbox = << >>
          /\ << >> \in Seq(Messages)
      BY EmptySeq DEF Init, Readers
    <3>2. << >> \o << >> = << >>
      BY <3>1, ConcatEmptySeq
    <3>3. Queued = << >>
      BY <3>1, <3>2 DEF Queued
    <3>. QED  BY <3>3 DEF Init, Mode, Running
  <2>. QED  BY <2>1 DEF Init, Service!Init
<1>2. AgentInv /\ AgentInv' /\ [Next]_vars => [Service!Next]_(Service!serviceVars)
  BY StepKeepsService
<1>. QED  BY <1>1, <1>2, AgentInvariant, PTL DEF Spec, KeepsService, Service!Spec
=============================================================================

---------------------------- MODULE TootsProofs ----------------------------
(***************************************************************************)
(* Proofs about Devices, Toots and Conversation, for every set of agents,  *)
(* threads, files and toots, every range of device ids, every size of the  *)
(* receive buffers, every bound and every set of faults.                   *)
(***************************************************************************)
EXTENDS Conversation, SequenceTheorems, TLAPS

-----------------------------------------------------------------------------
(* The inductive invariant.  DevTypeOK and the properties of Devices say   *)
(* too little: why an agent that reads its answer finds a ready device is  *)
(* in what the queue, the handler and the table have to do with one        *)
(* another before it reads.                                                *)

Owns(p, d) == d \in DeviceIds /\ Registered(d) /\ dev[d].pid = p

(* p's device d is visible and ready. *)
Serves(p, d) == Owns(p, d) /\ dev[d].attached /\ dev[d].ready

(* What a request inside the kernel may rely on. *)
HandlerInv(p) ==
    /\ hpc[p] # "idle" => proc[p] \in {"creating", "destroying"} /\ Owns(p, hid[p])
    /\ hpc[p] = "attach" =>
         proc[p] = "creating" /\ ~dev[hid[p]].ready /\ ~dev[hid[p]].attached
    /\ hpc[p] = "reply" => proc[p] = "creating"
    /\ hpc[p] \in {"reply", "ready"} => dev[hid[p]].attached
    /\ hpc[p] = "ready" =>
         /\ proc[p] = "creating" => Answered(p, "CREATE_DEVICE_RESULT")
         /\ proc[p] = "destroying" => Answered(p, "DESTROY_DEVICE_RESULT")

(* What an agent that has read its answer may rely on. *)
AgentInv(p) ==
    /\ proc[p] \in {"up", "stopped"} => Serves(p, known[p])
    /\ proc[p] = "done" => Owns(p, known[p])

(* What the messages on a socket promise. *)
QueueInv(p) == \A m \in Pending(p) :
    /\ m.type = "CREATE_DEVICE_RESULT" =>
         /\ proc[p] \notin {"off", "connected"}
         /\ proc[p] = "creating" =>
              /\ hpc[p] \in {"ready", "idle"} /\ m.dev = hid[p] /\ Owns(p, hid[p])
              /\ hpc[p] = "idle" => Serves(p, hid[p])
    /\ m.type = "DESTROY_DEVICE_RESULT" =>
         /\ proc[p] \in {"destroying", "done", "exited"}
         /\ proc[p] = "destroying" => hpc[p] \in {"ready", "idle"} /\ Owns(p, known[p])
    /\ m.type = "GET_HEALTH_RESULT" =>
         /\ proc[p] \notin {"off", "connected", "creating"}
         /\ proc[p] \in {"up", "stopped"} => m.status

(* What the table holds of p: the device p knows of, or its handler works  *)
(* on, or its answer is about, and no other.                               *)
TableInv(p) == \A d \in DeviceIds : Owns(p, d) =>
    /\ proc[p] \notin {"off", "connected"}
    /\ hpc[p] # "idle" \/ proc[p] = "creating" => hid[p] = d
    /\ proc[p] \in {"up", "stopped"} => known[p] = d
    /\ hpc[p] = "idle" /\ proc[p] = "creating" => Answered(p, "CREATE_DEVICE_RESULT")
    /\ hpc[p] = "idle" /\ proc[p] = "destroying" => Answered(p, "DESTROY_DEVICE_RESULT")
    /\ ~SemFree(d) =>
         dev[d].sem = p /\ hpc[p] = "mark" /\ ~dev[d].ready /\ ~dev[d].attached

Inv(p) == HandlerInv(p) /\ AgentInv(p) /\ QueueInv(p) /\ TableInv(p)

DevInv == DevTypeOK /\ \A p \in Agents : Inv(p)

-----------------------------------------------------------------------------
(* The sockets. *)

(* Only p's queue changes, and stays within its bound. *)
OnlyQueue(p) == NetTypeOK' /\ \A q \in Agents \ {p} : Pending(q)' = Pending(q)

(* NLMSG_ERROR is a message, of no other type. *)
LEMMA NackIsMessage == NlMsgError \in Message /\ NlMsgError.type = "NLMSG_ERROR"
  BY DEF Message, Reply, NlMsgError

(* The answers are messages. *)
LEMMA AnswersAreMessages ==
  ASSUME NEW d \in DeviceIds, NEW s \in BOOLEAN
  PROVE  /\ CreateDeviceResult(d) \in Message /\ DestroyDeviceResult(d) \in Message
         /\ GetHealthResult(d, s) \in Message
  BY DEF Message, Reply, CreateDeviceResult, DestroyDeviceResult,
         GetHealthResult

(* Nothing happens on the sockets. *)
LEMMA QuietQueue ==
  ASSUME NEW p \in Agents, NetTypeOK, UNCHANGED netVars
  PROVE  OnlyQueue(p) /\ Pending(p)' = Pending(p)
  BY DEF NetTypeOK, netVars, Pending, OnlyQueue

(* Deliver: one message at the end of one queue. *)
LEMMA DeliverQueue ==
  ASSUME NEW p \in Agents, NEW m \in Message, NetTypeOK, CanDeliver(p), Deliver(p, m)
  PROVE  OnlyQueue(p) /\ Pending(p)' = Pending(p) \cup {m}
<1>1. inbox[p] \in Seq(Message) /\ Len(inbox[p]) \in Nat
  BY DEF NetTypeOK
<1>2. inbox'[p] = Append(inbox[p], m)
  BY DEF Deliver, NetTypeOK
<1>3. \A q \in Agents \ {p} : inbox'[q] = inbox[q]
  BY DEF Deliver, NetTypeOK
<1>4. /\ inbox'[p] \in Seq(Message)
      /\ Len(inbox'[p]) = Len(inbox[p]) + 1
      /\ \A i \in 1 .. Len(inbox[p]) : inbox'[p][i] = inbox[p][i]
      /\ inbox'[p][Len(inbox[p]) + 1] = m
  BY <1>1, <1>2, AppendProperties
<1>5. NetTypeOK'
  <2>1. inbox' \in [Agents -> Seq(Message)]
    BY <1>3, <1>4 DEF Deliver, NetTypeOK
  <2>2. \A q \in Agents : Len(inbox'[q]) <= RcvBuf
    BY <1>3, <1>4, RcvBufAssumption DEF NetTypeOK, CanDeliver
  <2>. QED  BY <2>1, <2>2 DEF Deliver, NetTypeOK
<1>6. Pending(p)' = Pending(p) \cup {m}
  <2>1. DOMAIN inbox[p] = 1 .. Len(inbox[p]) /\ DOMAIN inbox'[p] = 1 .. Len(inbox'[p])
    BY <1>1, <1>4
  <2>2. Pending(p)' \subseteq Pending(p) \cup {m}
    BY <1>1, <1>4, <2>1 DEF Pending
  <2>3. Pending(p) \subseteq Pending(p)'
    BY <1>1, <1>4, <2>1 DEF Pending
  <2>4. m \in Pending(p)'
    BY <1>1, <1>4, <2>1 DEF Pending
  <2>. QED  BY <2>2, <2>3, <2>4
<1>. QED  BY <1>3, <1>5, <1>6 DEF OnlyQueue, Pending

(* netlink_ack: at most the NLMSG_ERROR is added. *)
LEMMA NackQueue ==
  ASSUME NEW p \in Agents, NetTypeOK, Nack(p)
  PROVE  /\ OnlyQueue(p)
         /\ Pending(p) \subseteq Pending(p)'
         /\ Pending(p)' \subseteq Pending(p) \cup {NlMsgError}
<1>1. CASE CanDeliver(p)
  BY <1>1, DeliverQueue, NackIsMessage DEF Nack
<1>2. CASE ~CanDeliver(p)
  BY <1>2, QuietQueue DEF Nack, OnlyQueue
<1>. QED  BY <1>1, <1>2

(* Pop takes a message that was pending, and adds none. *)
LEMMA PopQueue ==
  ASSUME NEW p \in Agents, NetTypeOK, inbox[p] # << >>, Pop(p)
  PROVE  /\ OnlyQueue(p)
         /\ Pending(p)' \subseteq Pending(p)
         /\ Head(inbox[p]) \in Pending(p)
<1>1. inbox[p] \in Seq(Message) /\ Len(inbox[p]) \in Nat
  BY DEF NetTypeOK
<1>2. inbox'[p] = Tail(inbox[p]) /\ \A q \in Agents \ {p} : inbox'[q] = inbox[q]
  BY DEF Pop, NetTypeOK
<1>3. /\ inbox'[p] \in Seq(Message)
      /\ Len(inbox'[p]) = Len(inbox[p]) - 1
      /\ \A i \in 1 .. Len(inbox'[p]) : inbox'[p][i] = inbox[p][i + 1]
      /\ Head(inbox[p]) = inbox[p][1] /\ Len(inbox[p]) >= 1
  BY <1>1, <1>2, HeadTailProperties, EmptySeq
<1>4. NetTypeOK'
  <2>1. inbox' \in [Agents -> Seq(Message)]
    BY <1>2, <1>3 DEF Pop, NetTypeOK
  <2>2. \A q \in Agents : Len(inbox'[q]) <= RcvBuf
    BY <1>1, <1>2, <1>3, RcvBufAssumption DEF NetTypeOK
  <2>. QED  BY <2>1, <2>2 DEF Pop, NetTypeOK
<1>5. Pending(p)' \subseteq Pending(p)
  BY <1>1, <1>3 DEF Pending
<1>6. Head(inbox[p]) \in Pending(p)
  BY <1>1, <1>3 DEF Pending
<1>. QED  BY <1>2, <1>4, <1>5, <1>6 DEF OnlyQueue, Pending

(* connect and close: nothing is added. *)
LEMMA SocketQueue ==
  ASSUME NEW p \in Agents, NetTypeOK, OpenSocket(p) \/ CloseSocket(p)
  PROVE  OnlyQueue(p) /\ Pending(p)' \subseteq Pending(p)
<1>1. CASE OpenSocket(p)
  BY <1>1 DEF OpenSocket, NetTypeOK, Pending, OnlyQueue
<1>2. CASE CloseSocket(p)
  <2>1. inbox'[p] = << >> /\ \A q \in Agents \ {p} : inbox'[q] = inbox[q]
    BY <1>2 DEF CloseSocket, NetTypeOK
  <2>2. << >> \in Seq(Message) /\ Len(<< >>) = 0
    OBVIOUS
  <2>3. inbox' \in [Agents -> Seq(Message)]
    BY <1>2, <2>1, <2>2 DEF CloseSocket, NetTypeOK
  <2>4. \A q \in Agents : Len(inbox'[q]) <= RcvBuf
    BY <2>1, <2>2, RcvBufAssumption DEF NetTypeOK
  <2>. QED  BY <1>2, <2>1, <2>2, <2>3, <2>4
               DEF CloseSocket, NetTypeOK, Pending, OnlyQueue
<1>. QED  BY <1>1, <1>2

-----------------------------------------------------------------------------
(* One step of one agent.  What p does leaves the others alone: it changes *)
(* its own variables, its own queue, and devices that are p's or nobody's. *)
StepOf(p) ==
    /\ DevTypeOK'
    /\ OnlyQueue(p)
    /\ \A q \in Agents \ {p} :
         /\ proc'[q] = proc[q] /\ known'[q] = known[q]
         /\ hpc'[q] = hpc[q] /\ hid'[q] = hid[q]
    /\ \A d \in DeviceIds :
         \/ dev'[d] = dev[d]
         \/ /\ dev[d] = NULL \/ dev[d].pid = p
            /\ dev'[d] = NULL \/ dev'[d].pid = p

(* A step of p keeps what holds of every other agent.                      *)
LEMMA OthersKeepInv ==
  ASSUME DevInv, NEW p \in Agents, StepOf(p), NEW q \in Agents \ {p}
  PROVE  Inv(q)'
<1>1. \A d \in DeviceIds : Owns(q, d)' <=> Owns(q, d)
  BY DEF StepOf, Owns, Registered
<1>2. \A d \in DeviceIds : Owns(q, d) => dev'[d] = dev[d]
  BY DEF StepOf, Owns, Registered
<1>3. /\ Pending(q)' = Pending(q)
      /\ proc'[q] = proc[q] /\ known'[q] = known[q]
      /\ hpc'[q] = hpc[q] /\ hid'[q] = hid[q]
  BY DEF StepOf, OnlyQueue
<1>4. \A type : Answered(q, type)' <=> Answered(q, type)
  BY <1>3 DEF Answered
<1>5. Owns(q, hid[q])' <=> Owns(q, hid[q])
  BY <1>1, <1>3 DEF Owns
<1>6. Owns(q, known[q])' <=> Owns(q, known[q])
  BY <1>1, <1>3 DEF Owns
<1>7. Inv(q)
  BY DEF DevInv
<1>8. HandlerInv(q)'
  BY <1>2, <1>3, <1>4, <1>5, <1>7 DEF Inv, HandlerInv, Owns
<1>9. AgentInv(q)'
  BY <1>2, <1>3, <1>6, <1>7 DEF Inv, AgentInv, Serves, Owns
<1>10. QueueInv(q)'
  <2>1. Serves(q, hid[q]) => Serves(q, hid[q])'
    BY <1>2, <1>3, <1>5 DEF Serves, Owns
  <2>. QED  BY <1>3, <1>5, <1>6, <1>7, <2>1 DEF Inv, QueueInv
<1>11. TableInv(q)'
  BY <1>1, <1>2, <1>3, <1>4, <1>7 DEF Inv, TableInv, SemFree
<1>. QED  BY <1>8, <1>9, <1>10, <1>11 DEF Inv

(* So a step of p has only Inv(p) to establish.                            *)
LEMMA StepKeepsInv ==
  ASSUME DevInv, NEW p \in Agents, StepOf(p), Inv(p)'
  PROVE  DevInv'
  BY OthersKeepInv DEF DevInv, StepOf

-----------------------------------------------------------------------------
(* One lemma per action: DevInv survives it. *)

(* No device is p's before it connects. *)
LEMMA AgentStartKeepsInv ==
  ASSUME DevInv, NEW p \in Agents, AgentStart(p)
  PROVE  DevInv'
<1>1. DevTypeOK /\ NetTypeOK /\ Inv(p)
  BY DEF DevInv, DevTypeOK
<1>2. OnlyQueue(p) /\ Pending(p)' \subseteq Pending(p)
  BY <1>1, SocketQueue DEF AgentStart
<1>3. StepOf(p)
  BY <1>1, <1>2
     DEF StepOf, DevTypeOK, OnlyQueue, AgentStart, Goto, ProcTo, ProcStates
<1>4. HandlerInv(p)'
  BY <1>1 DEF Inv, HandlerInv, AgentStart
<1>5. AgentInv(p)'
  BY DEF AgentInv, AgentStart, ProcTo
<1>6. QueueInv(p)'
  BY <1>1, <1>2 DEF Inv, QueueInv, AgentStart
<1>7. TableInv(p)'
  BY <1>1 DEF Inv, TableInv, Owns, Registered, AgentStart
<1>. QED  BY <1>3, <1>4, <1>5, <1>6, <1>7, StepKeepsInv DEF Inv

(* An agent that gives up loses its queue. *)
LEMMA AgentRefusedKeepsInv ==
  ASSUME DevInv, NEW p \in Agents, AgentRefused(p)
  PROVE  DevInv'
<1>1. DevTypeOK /\ NetTypeOK /\ Inv(p)
  BY DEF DevInv, DevTypeOK
<1>2. OnlyQueue(p) /\ Pending(p)' \subseteq Pending(p)
  BY <1>1, SocketQueue DEF AgentRefused
<1>3. StepOf(p)
  BY <1>1, <1>2
     DEF StepOf, DevTypeOK, OnlyQueue, AgentRefused, Goto, ProcTo, ProcStates
<1>4. HandlerInv(p)'
  BY DEF HandlerInv, AgentRefused
<1>5. AgentInv(p)'
  BY DEF AgentInv, AgentRefused, ProcTo
<1>6. QueueInv(p)'
  BY <1>1 DEF QueueInv, DevTypeOK, AgentRefused, ProcTo
<1>7. TableInv(p)'
  BY <1>1
     DEF Inv, TableInv, Owns, Registered, SemFree, DevTypeOK, AgentRefused,
         ProcTo
<1>. QED  BY <1>3, <1>4, <1>5, <1>6, <1>7, StepKeepsInv DEF Inv

(* Nothing is promised to a process that has ended. *)
LEMMA AgentExitKeepsInv ==
  ASSUME DevInv, NEW p \in Agents, AgentExit(p)
  PROVE  DevInv'
<1>1. DevTypeOK /\ NetTypeOK /\ Inv(p)
  BY DEF DevInv, DevTypeOK
<1>2. OnlyQueue(p) /\ Pending(p)' \subseteq Pending(p)
  BY <1>1, SocketQueue DEF AgentExit
<1>3. StepOf(p)
  BY <1>1, <1>2
     DEF StepOf, DevTypeOK, OnlyQueue, AgentExit, Goto, ProcTo, ProcStates
<1>4. HandlerInv(p)'
  BY DEF HandlerInv, AgentExit
<1>5. AgentInv(p)'
  BY <1>1 DEF AgentInv, DevTypeOK, AgentExit, ProcTo
<1>6. QueueInv(p)'
  BY <1>1 DEF QueueInv, DevTypeOK, AgentExit, ProcTo
<1>7. TableInv(p)'
  BY <1>1
     DEF Inv, TableInv, Owns, Registered, SemFree, DevTypeOK, AgentExit, ProcTo
<1>. QED  BY <1>3, <1>4, <1>5, <1>6, <1>7, StepKeepsInv DEF Inv

(* The answer that is read names the device that serves. *)
LEMMA AgentCreatedKeepsInv ==
  ASSUME DevInv, NEW p \in Agents, AgentCreated(p)
  PROVE  DevInv'
<1>1. DevTypeOK /\ NetTypeOK /\ Inv(p)
  BY DEF DevInv, DevTypeOK
<1>2. /\ OnlyQueue(p) /\ Pending(p)' \subseteq Pending(p)
      /\ Head(inbox[p]) \in Pending(p)
  BY <1>1, PopQueue DEF AgentCreated, HeadIs
<1>3. Serves(p, Head(inbox[p]).dev)
  BY <1>1, <1>2 DEF Inv, QueueInv, AgentCreated, HeadIs
<1>4. StepOf(p)
  BY <1>1, <1>2, <1>3
     DEF StepOf, DevTypeOK, OnlyQueue, AgentCreated, ProcTo, ProcStates,
         Serves, Owns
<1>5. HandlerInv(p)'
  BY DEF HandlerInv, AgentCreated
<1>6. AgentInv(p)'
  BY <1>1, <1>3 DEF AgentInv, Owns, Serves, Registered, DevTypeOK, AgentCreated
<1>7. QueueInv(p)'
  BY <1>1, <1>2 DEF Inv, QueueInv, DevTypeOK, AgentCreated, ProcTo
<1>8. TableInv(p)'
  BY <1>1, <1>3
     DEF Inv, TableInv, Owns, Serves, Registered, SemFree, DevTypeOK,
         AgentCreated, ProcTo
<1>. QED  BY <1>4, <1>5, <1>6, <1>7, <1>8, StepKeepsInv DEF Inv

(* A read takes a promise off the queue. *)
LEMMA AgentReadsKeepsInv ==
  ASSUME DevInv, NEW p \in Agents, AgentReads(p)
  PROVE  DevInv'
<1>1. DevTypeOK /\ NetTypeOK /\ Inv(p)
  BY DEF DevInv, DevTypeOK
<1>2. /\ OnlyQueue(p) /\ Pending(p)' \subseteq Pending(p)
      /\ Head(inbox[p]) \in Pending(p)
  BY <1>1, PopQueue DEF AgentReads, HeadIs
<1>3. StepOf(p)
  BY <1>1, <1>2
     DEF StepOf, DevTypeOK, OnlyQueue, AgentReads, Goto, ProcTo, ProcStates
<1>4. HandlerInv(p)'
  BY DEF HandlerInv, AgentReads
<1>5. AgentInv(p)'
  BY <1>1 DEF Inv, AgentInv, Owns, Serves, Registered, AgentReads
<1>6. QueueInv(p)'
  BY <1>1, <1>2 DEF Inv, QueueInv, DevTypeOK, AgentReads, ProcTo
<1>7. TableInv(p)'
  BY <1>1
     DEF Inv, TableInv, Owns, Registered, SemFree, DevTypeOK, AgentReads,
         ProcTo
<1>. QED  BY <1>3, <1>4, <1>5, <1>6, <1>7, StepKeepsInv DEF Inv

(* The answer that is read names a device that is still p's. *)
LEMMA AgentDestroyedKeepsInv ==
  ASSUME DevInv, NEW p \in Agents, AgentDestroyed(p)
  PROVE  DevInv'
<1>1. DevTypeOK /\ NetTypeOK /\ Inv(p)
  BY DEF DevInv, DevTypeOK
<1>2. /\ OnlyQueue(p) /\ Pending(p)' \subseteq Pending(p)
      /\ Head(inbox[p]) \in Pending(p)
  BY <1>1, PopQueue DEF AgentDestroyed, HeadIs
<1>3. StepOf(p)
  BY <1>1, <1>2
     DEF StepOf, DevTypeOK, OnlyQueue, AgentDestroyed, Goto, ProcTo, ProcStates
<1>4. HandlerInv(p)'
  BY DEF HandlerInv, AgentDestroyed
<1>5. AgentInv(p)'
  BY <1>1, <1>2
     DEF Inv, AgentInv, QueueInv, Owns, Registered, AgentDestroyed, ProcTo,
         HeadIs
<1>6. QueueInv(p)'
  BY <1>1 DEF QueueInv, DevTypeOK, AgentDestroyed, ProcTo
<1>7. TableInv(p)'
  BY <1>1
     DEF Inv, TableInv, Owns, Registered, SemFree, DevTypeOK, AgentDestroyed,
         ProcTo
<1>. QED  BY <1>3, <1>4, <1>5, <1>6, <1>7, StepKeepsInv DEF Inv

(* A failed add_device leaves no device. *)
LEMMA AddDeviceFailsKeepsInv ==
  ASSUME DevInv, NEW p \in Agents, AddDeviceFails(p)
  PROVE  DevInv'
<1>1. DevTypeOK /\ NetTypeOK /\ Inv(p)
  BY DEF DevInv, DevTypeOK
<1>2. /\ OnlyQueue(p) /\ Pending(p) \subseteq Pending(p)'
      /\ Pending(p)' \subseteq Pending(p) \cup {NlMsgError}
      /\ NlMsgError.type = "NLMSG_ERROR"
  BY <1>1, NackQueue, NackIsMessage DEF AddDeviceFails
<1>3. StepOf(p)
  BY <1>1, <1>2
     DEF StepOf, DevTypeOK, OnlyQueue, AddDeviceFails, Goto, ProcTo, ProcStates
<1>4. HandlerInv(p)'
  BY <1>1 DEF Inv, HandlerInv, AddDeviceFails
<1>5. AgentInv(p)'
  BY DEF AgentInv, AddDeviceFails, ProcTo
<1>6. QueueInv(p)'
  BY <1>1, <1>2 DEF Inv, QueueInv, AddDeviceFails
<1>7. TableInv(p)'
  BY <1>1 DEF Inv, TableInv, Owns, Registered, AddDeviceFails
<1>. QED  BY <1>3, <1>4, <1>5, <1>6, <1>7, StepKeepsInv DEF Inv

(* The device is attached before the agent is answered. *)
LEMMA AttachDeviceClassKeepsInv ==
  ASSUME DevInv, NEW p \in Agents, AttachDeviceClass(p)
  PROVE  DevInv'
<1>1. DevTypeOK /\ NetTypeOK /\ Inv(p)
  BY DEF DevInv, DevTypeOK
<1>2. OnlyQueue(p) /\ Pending(p)' = Pending(p)
  BY <1>1, QuietQueue DEF AttachDeviceClass
<1>3. Owns(p, hid[p]) /\ dev[hid[p]] \in Device
  BY <1>1 DEF AttachDeviceClass, DevTypeOK, Inv, HandlerInv, Owns, Registered
<1>4. /\ dev' \in [DeviceIds -> Device \cup {NULL}]
      /\ dev'[hid[p]] # NULL /\ dev'[hid[p]].pid = p
      /\ dev'[hid[p]].attached = TRUE
      /\ dev'[hid[p]].ready = dev[hid[p]].ready
      /\ dev'[hid[p]].sem = dev[hid[p]].sem
      /\ \A d \in DeviceIds \ {hid[p]} : dev'[d] = dev[d]
  BY <1>1, <1>3, NoDeviceAssumption
     DEF AttachDeviceClass, Device, DevTypeOK, Owns
<1>5. StepOf(p)
  BY <1>1, <1>2, <1>4
     DEF StepOf, DevTypeOK, OnlyQueue, AttachDeviceClass, Goto, ProcTo,
         HandlerSteps
<1>6. HandlerInv(p)'
  BY <1>1, <1>4
     DEF Inv, HandlerInv, Owns, Registered, DevTypeOK, AttachDeviceClass, Goto
<1>7. AgentInv(p)'
  BY <1>1, <1>4 DEF Inv, AgentInv, Owns, Serves, Registered, AttachDeviceClass
<1>8. QueueInv(p)'
  BY <1>1, <1>2 DEF Inv, QueueInv, AttachDeviceClass
<1>9. TableInv(p)'
  BY <1>1
     DEF Inv, HandlerInv, TableInv, Owns, Registered, SemFree,
         AttachDeviceClass, Goto
<1>. QED  BY <1>5, <1>6, <1>7, <1>8, <1>9, StepKeepsInv DEF Inv

(* The lock that stays is on a hidden device. *)
LEMMA AttachDeviceClassFailsKeepsInv ==
  ASSUME DevInv, NEW p \in Agents, AttachDeviceClassFails(p)
  PROVE  DevInv'
<1>1. DevTypeOK /\ NetTypeOK /\ Inv(p)
  BY DEF DevInv, DevTypeOK
<1>2. OnlyQueue(p) /\ Pending(p)' = Pending(p)
  BY <1>1, QuietQueue DEF AttachDeviceClassFails
<1>3. Owns(p, hid[p]) /\ dev[hid[p]] \in Device
  BY <1>1
     DEF AttachDeviceClassFails, DevTypeOK, Inv, HandlerInv, Owns, Registered
<1>4. /\ dev' \in [DeviceIds -> Device \cup {NULL}]
      /\ dev'[hid[p]] # NULL /\ dev'[hid[p]].pid = p
      /\ dev'[hid[p]].attached = dev[hid[p]].attached
      /\ dev'[hid[p]].ready = dev[hid[p]].ready
      /\ dev'[hid[p]].sem = p
      /\ \A d \in DeviceIds \ {hid[p]} : dev'[d] = dev[d]
  BY <1>1, <1>3, NoDeviceAssumption
     DEF AttachDeviceClassFails, Device, DevTypeOK, Owns
<1>5. StepOf(p)
  BY <1>1, <1>2, <1>4
     DEF StepOf, DevTypeOK, OnlyQueue, AttachDeviceClassFails, Goto, ProcTo,
         HandlerSteps
<1>6. HandlerInv(p)'
  BY <1>1, <1>4
     DEF Inv, HandlerInv, Owns, Registered, AttachDeviceClassFails, Goto
<1>7. AgentInv(p)'
  BY <1>1, <1>4
     DEF Inv, AgentInv, Owns, Serves, Registered, AttachDeviceClassFails
<1>8. QueueInv(p)'
  BY <1>1, <1>2 DEF Inv, QueueInv, AttachDeviceClassFails
<1>9. TableInv(p)'
  BY <1>1
     DEF Inv, HandlerInv, TableInv, Owns, Registered, DevTypeOK,
         AttachDeviceClassFails, Goto
<1>. QED  BY <1>5, <1>6, <1>7, <1>8, <1>9, StepKeepsInv DEF Inv

(* An answer that is lost leads to the removal. *)
LEMMA ReplyCreatedFailsKeepsInv ==
  ASSUME DevInv, NEW p \in Agents, ReplyCreatedFails(p)
  PROVE  DevInv'
<1>1. DevTypeOK /\ NetTypeOK /\ Inv(p)
  BY DEF DevInv, DevTypeOK
<1>2. OnlyQueue(p) /\ Pending(p)' = Pending(p)
  BY <1>1, QuietQueue DEF ReplyCreatedFails, SendFails
<1>3. StepOf(p)
  BY <1>1, <1>2
     DEF StepOf, DevTypeOK, OnlyQueue, ReplyCreatedFails, Goto, ProcTo,
         HandlerSteps
<1>4. HandlerInv(p)'
  BY <1>1 DEF Inv, HandlerInv, Owns, Registered, ReplyCreatedFails, Goto
<1>5. AgentInv(p)'
  BY <1>1 DEF Inv, AgentInv, Owns, Serves, Registered, ReplyCreatedFails
<1>6. QueueInv(p)'
  BY <1>1, <1>2 DEF Inv, QueueInv, ReplyCreatedFails
<1>7. TableInv(p)'
  BY <1>1 DEF Inv, TableInv, Owns, Registered, SemFree, ReplyCreatedFails, Goto
<1>. QED  BY <1>3, <1>4, <1>5, <1>6, <1>7, StepKeepsInv DEF Inv

(* The answer is queued when the device becomes ready. *)
LEMMA SetDeviceReadyKeepsInv ==
  ASSUME DevInv, NEW p \in Agents, SetDeviceReady(p)
  PROVE  DevInv'
<1>1. DevTypeOK /\ NetTypeOK /\ Inv(p)
  BY DEF DevInv, DevTypeOK
<1>2. OnlyQueue(p) /\ Pending(p)' = Pending(p)
  BY <1>1, QuietQueue DEF SetDeviceReady
<1>3. Owns(p, hid[p]) /\ dev[hid[p]] \in Device
  BY <1>1 DEF SetDeviceReady, DevTypeOK, Inv, HandlerInv, Owns, Registered
<1>4. /\ dev' \in [DeviceIds -> Device \cup {NULL}]
      /\ dev'[hid[p]] # NULL /\ dev'[hid[p]].pid = p
      /\ dev'[hid[p]].attached = dev[hid[p]].attached
      /\ dev'[hid[p]].ready = TRUE
      /\ dev'[hid[p]].sem = dev[hid[p]].sem
      /\ \A d \in DeviceIds \ {hid[p]} : dev'[d] = dev[d]
  BY <1>1, <1>3, NoDeviceAssumption
     DEF SetDeviceReady, Device, DevTypeOK, Owns, SetReady
<1>5. StepOf(p)
  BY <1>1, <1>2, <1>4
     DEF StepOf, DevTypeOK, OnlyQueue, SetDeviceReady, Goto, ProcTo,
         HandlerSteps, Inv, HandlerInv, Owns
<1>6. HandlerInv(p)'
  BY <1>1 DEF HandlerInv, DevTypeOK, SetDeviceReady, Goto
<1>7. AgentInv(p)'
  BY <1>1, <1>4 DEF Inv, AgentInv, Owns, Serves, Registered, SetDeviceReady
<1>8. QueueInv(p)'
  BY <1>1, <1>2, <1>4
     DEF Inv, HandlerInv, QueueInv, Owns, Serves, Registered, SetDeviceReady,
         Goto
<1>9. TableInv(p)'
  BY <1>1, <1>2, <1>4
     DEF Inv, HandlerInv, TableInv, Owns, Registered, SemFree, Answered,
         SetDeviceReady
<1>. QED  BY <1>5, <1>6, <1>7, <1>8, <1>9, StepKeepsInv DEF Inv

(* The removal hides the device. *)
LEMMA DetachDeviceClassKeepsInv ==
  ASSUME DevInv, NEW p \in Agents, DetachDeviceClass(p)
  PROVE  DevInv'
<1>1. DevTypeOK /\ NetTypeOK /\ Inv(p)
  BY DEF DevInv, DevTypeOK
<1>2. OnlyQueue(p) /\ Pending(p)' = Pending(p)
  BY <1>1, QuietQueue DEF DetachDeviceClass
<1>3. Owns(p, hid[p]) /\ dev[hid[p]] \in Device
  BY <1>1 DEF DetachDeviceClass, DevTypeOK, Inv, HandlerInv, Owns, Registered
<1>4. /\ dev' \in [DeviceIds -> Device \cup {NULL}]
      /\ dev'[hid[p]] # NULL /\ dev'[hid[p]].pid = p
      /\ dev'[hid[p]].attached = FALSE
      /\ dev'[hid[p]].ready = dev[hid[p]].ready
      /\ dev'[hid[p]].sem = dev[hid[p]].sem
      /\ \A d \in DeviceIds \ {hid[p]} : dev'[d] = dev[d]
  BY <1>1, <1>3, NoDeviceAssumption
     DEF DetachDeviceClass, Device, DevTypeOK, Owns
<1>5. StepOf(p)
  BY <1>1, <1>2, <1>4
     DEF StepOf, DevTypeOK, OnlyQueue, DetachDeviceClass, Goto, ProcTo,
         HandlerSteps
<1>6. HandlerInv(p)'
  BY <1>1, <1>4 DEF Inv, HandlerInv, Owns, Registered, DetachDeviceClass, Goto
<1>7. AgentInv(p)'
  BY <1>1 DEF Inv, HandlerInv, AgentInv, DetachDeviceClass
<1>8. QueueInv(p)'
  BY <1>1, <1>2 DEF Inv, QueueInv, DetachDeviceClass
<1>9. TableInv(p)'
  BY <1>1
     DEF Inv, HandlerInv, TableInv, Owns, Registered, SemFree,
         DetachDeviceClass, Goto
<1>. QED  BY <1>5, <1>6, <1>7, <1>8, <1>9, StepKeepsInv DEF Inv

(* The removal makes the device unready. *)
LEMMA MarkUnreadyKeepsInv ==
  ASSUME DevInv, NEW p \in Agents, MarkUnready(p)
  PROVE  DevInv'
<1>1. DevTypeOK /\ NetTypeOK /\ Inv(p)
  BY DEF DevInv, DevTypeOK
<1>2. OnlyQueue(p) /\ Pending(p)' = Pending(p)
  BY <1>1, QuietQueue DEF MarkUnready
<1>3. Owns(p, hid[p]) /\ dev[hid[p]] \in Device
  BY <1>1 DEF MarkUnready, DevTypeOK, Inv, HandlerInv, Owns, Registered
<1>4. /\ dev' \in [DeviceIds -> Device \cup {NULL}]
      /\ dev'[hid[p]] # NULL /\ dev'[hid[p]].pid = p
      /\ dev'[hid[p]].attached = dev[hid[p]].attached
      /\ dev'[hid[p]].ready = FALSE
      /\ dev'[hid[p]].sem = dev[hid[p]].sem
      /\ \A d \in DeviceIds \ {hid[p]} : dev'[d] = dev[d]
  BY <1>1, <1>3, NoDeviceAssumption
     DEF MarkUnready, Device, DevTypeOK, Owns, SetReady
<1>5. StepOf(p)
  BY <1>1, <1>2, <1>4
     DEF StepOf, DevTypeOK, OnlyQueue, MarkUnready, Goto, ProcTo, HandlerSteps,
         Inv, HandlerInv, Owns
<1>6. dev[hid[p]].sem = NULL /\ hpc[p] = "mark"
  BY DEF MarkUnready, SetReady, SemFree
<1>7. hpc'[p] = "toots" /\ hid'[p] = hid[p] /\ proc'[p] = proc[p]
  BY <1>1 DEF MarkUnready, Goto, DevTypeOK
<1>8. HandlerInv(p)'
  BY <1>1, <1>4, <1>7 DEF Inv, HandlerInv, Owns, Registered, MarkUnready
<1>9. AgentInv(p)'
  BY <1>1 DEF Inv, HandlerInv, AgentInv, MarkUnready
<1>10. QueueInv(p)'
  BY <1>1, <1>2 DEF Inv, QueueInv, MarkUnready
<1>11. TableInv(p)'
  BY <1>1, <1>4, <1>6, <1>7
     DEF Inv, HandlerInv, TableInv, Owns, Registered, SemFree
<1>. QED  BY <1>5, <1>8, <1>9, <1>10, <1>11, StepKeepsInv DEF Inv

(* The handler's device was p's only one. *)
LEMMA ForgetDeviceKeepsInv ==
  ASSUME DevInv, NEW p \in Agents, ForgetDevice(p)
  PROVE  DevInv'
<1>1. DevTypeOK /\ NetTypeOK /\ Inv(p)
  BY DEF DevInv, DevTypeOK
<1>2. /\ OnlyQueue(p) /\ Pending(p) \subseteq Pending(p)'
      /\ Pending(p)' \subseteq Pending(p) \cup {NlMsgError}
      /\ NlMsgError.type = "NLMSG_ERROR"
  BY <1>1, NackQueue, NackIsMessage DEF ForgetDevice
<1>3. /\ dev' \in [DeviceIds -> Device \cup {NULL}] /\ dev'[hid[p]] = NULL
      /\ \A d \in DeviceIds \ {hid[p]} : dev'[d] = dev[d]
  BY <1>1 DEF ForgetDevice, DevTypeOK, Inv, HandlerInv, Owns
<1>4. StepOf(p)
  BY <1>1, <1>2
     DEF StepOf, DevTypeOK, OnlyQueue, ForgetDevice, Goto, ProcTo,
         HandlerSteps, Inv, HandlerInv, Owns
<1>5. HandlerInv(p)'
  BY <1>1 DEF HandlerInv, DevTypeOK, ForgetDevice, Goto
<1>6. AgentInv(p)'
  BY <1>1 DEF Inv, HandlerInv, AgentInv, ForgetDevice
<1>7. QueueInv(p)'
  BY <1>1, <1>2 DEF Inv, QueueInv, ForgetDevice
<1>8. TableInv(p)'
  BY <1>1, <1>3 DEF Inv, TableInv, Owns, Registered, ForgetDevice
<1>. QED  BY <1>4, <1>5, <1>6, <1>7, <1>8, StepKeepsInv DEF Inv

(* The new device is p's only one. *)
LEMMA AddDeviceKeepsInv ==
  ASSUME DevInv, NEW p \in Agents, AddDevice(p)
  PROVE  DevInv'
<1>1. DevTypeOK /\ NetTypeOK /\ Inv(p)
  BY DEF DevInv, DevTypeOK
<1>2. OnlyQueue(p) /\ Pending(p)' = Pending(p)
  BY <1>1, QuietQueue DEF AddDevice
<1>3. PICK d \in DeviceIds : /\ IsNextDeviceId(d)
                             /\ dev' = [dev EXCEPT ![d] = NewDevice(p)]
                             /\ hid' = [hid EXCEPT ![p] = d]
  BY DEF AddDevice
<1>4. NewDevice(p) \in Device /\ NewDevice(p) # NULL
  <2>1. NewDevice(p) \in Device
    BY NamesAssumption DEF NewDevice, Device
  <2>. QED  BY <2>1, NoDeviceAssumption
<1>5. /\ NewDevice(p).pid = p /\ NewDevice(p).sem = NULL
       /\ ~NewDevice(p).ready /\ ~NewDevice(p).attached
  BY DEF NewDevice
<1>6. dev[d] = NULL /\ dev'[d] = NewDevice(p) /\ \A j \in DeviceIds \ {d} : dev'[j] = dev[j]
  BY <1>1, <1>3 DEF IsNextDeviceId, Registered, DevTypeOK
<1>7. \A j \in DeviceIds : ~Owns(p, j)
  BY <1>1 DEF Inv, TableInv, AddDevice
<1>8. StepOf(p)
  BY <1>1, <1>2, <1>4, <1>5, <1>6
     DEF StepOf, DevTypeOK, OnlyQueue, Goto, ProcTo, HandlerSteps, ProcStates,
         Registered, AddDevice
<1>9. HandlerInv(p)'
  BY <1>1, <1>4, <1>5
     DEF HandlerInv, Owns, Registered, DevTypeOK, Goto, ProcTo, AddDevice
<1>10. AgentInv(p)'
  BY DEF AgentInv, ProcTo, AddDevice
<1>11. QueueInv(p)'
  BY <1>1, <1>2 DEF Inv, QueueInv, AddDevice
<1>12. TableInv(p)'
  BY <1>1, <1>5, <1>7
     DEF TableInv, Owns, Registered, SemFree, DevTypeOK, Goto, ProcTo,
         AddDevice
<1>. QED  BY <1>8, <1>9, <1>10, <1>11, <1>12, StepKeepsInv DEF Inv

(* The answer is queued after the device is attached. *)
LEMMA ReplyCreatedKeepsInv ==
  ASSUME DevInv, NEW p \in Agents, ReplyCreated(p)
  PROVE  DevInv'
<1>1. DevTypeOK /\ NetTypeOK /\ Inv(p)
  BY DEF DevInv, DevTypeOK
<1>2. Owns(p, hid[p]) /\ CreateDeviceResult(hid[p]) \in Message
  BY <1>1, AnswersAreMessages DEF Inv, HandlerInv, Owns, ReplyCreated
<1>3. OnlyQueue(p) /\ Pending(p)' = Pending(p) \cup {CreateDeviceResult(hid[p])}
  BY <1>1, <1>2, DeliverQueue DEF ReplyCreated, SendOk
<1>4. StepOf(p)
  BY <1>1, <1>3
     DEF StepOf, DevTypeOK, OnlyQueue, Goto, ProcTo, HandlerSteps, ReplyCreated
<1>5. HandlerInv(p)'
  BY <1>1, <1>3
     DEF Inv, HandlerInv, Owns, Registered, Answered, Goto, ReplyCreated,
         CreateDeviceResult
<1>6. AgentInv(p)'
  BY <1>1 DEF Inv, AgentInv, Owns, Serves, Registered, ReplyCreated
<1>7. QueueInv(p)'
  BY <1>1, <1>2, <1>3
     DEF Inv, QueueInv, TableInv, Owns, Registered, DevTypeOK, Goto,
         ReplyCreated, CreateDeviceResult
<1>8. TableInv(p)'
  BY <1>1 DEF Inv, TableInv, Owns, Registered, SemFree, Goto, ReplyCreated
<1>. QED  BY <1>4, <1>5, <1>6, <1>7, <1>8, StepKeepsInv DEF Inv

(* The answer is queued while the device is served. *)
LEMMA DestroyDeviceKeepsInv ==
  ASSUME DevInv, NEW p \in Agents, DestroyDevice(p)
  PROVE  DevInv'
<1>1. DevTypeOK /\ NetTypeOK /\ Inv(p)
  BY DEF DevInv, DevTypeOK
<1>2. Serves(p, known[p]) /\ DestroyDeviceResult(known[p]) \in Message
  BY <1>1, AnswersAreMessages
     DEF Inv, AgentInv, Serves, Owns, DestroyDevice, StartsDestroy
<1>3. OnlyQueue(p) /\ Pending(p)' = Pending(p) \cup {DestroyDeviceResult(known[p])}
  BY <1>1, <1>2, DeliverQueue DEF DestroyDevice, SendOk
<1>4. StepOf(p)
  BY <1>1, <1>3
     DEF StepOf, DevTypeOK, OnlyQueue, Goto, ProcTo, HandlerSteps, ProcStates,
         Registered, DestroyDevice, StartsDestroy
<1>5. HandlerInv(p)'
  BY <1>1, <1>2, <1>3
     DEF HandlerInv, Owns, Serves, Registered, Answered, DevTypeOK, Goto,
         ProcTo, DestroyDevice, StartsDestroy, DestroyDeviceResult
<1>6. AgentInv(p)'
  BY <1>1 DEF AgentInv, DevTypeOK, ProcTo, DestroyDevice, StartsDestroy
<1>7. QueueInv(p)'
  BY <1>1, <1>2
     DEF QueueInv, Owns, Serves, Registered, DevTypeOK, Goto, ProcTo,
         DestroyDevice, StartsDestroy
<1>8. TableInv(p)'
  BY <1>1
     DEF Inv, TableInv, Owns, Registered, SemFree, DevTypeOK, Goto, ProcTo,
         DestroyDevice, StartsDestroy
<1>. QED  BY <1>4, <1>5, <1>6, <1>7, <1>8, StepKeepsInv DEF Inv

(* The removal is of the device that p knows of. *)
LEMMA DestroyDeviceFailsKeepsInv ==
  ASSUME DevInv, NEW p \in Agents, DestroyDeviceFails(p)
  PROVE  DevInv'
<1>1. DevTypeOK /\ NetTypeOK /\ Inv(p)
  BY DEF DevInv, DevTypeOK
<1>2. Serves(p, known[p])
  BY <1>1 DEF Inv, AgentInv, DestroyDeviceFails, StartsDestroy
<1>3. OnlyQueue(p) /\ Pending(p)' = Pending(p)
  BY <1>1, QuietQueue DEF DestroyDeviceFails, SendFails
<1>4. StepOf(p)
  BY <1>1, <1>3
     DEF StepOf, DevTypeOK, OnlyQueue, Goto, ProcTo, HandlerSteps, ProcStates,
         Registered, DestroyDeviceFails, StartsDestroy
<1>5. HandlerInv(p)'
  BY <1>1, <1>2
     DEF HandlerInv, Owns, Serves, Registered, DevTypeOK, Goto, ProcTo,
         DestroyDeviceFails, StartsDestroy
<1>6. AgentInv(p)'
  BY <1>1 DEF AgentInv, DevTypeOK, ProcTo, DestroyDeviceFails, StartsDestroy
<1>7. QueueInv(p)'
  BY <1>1, <1>3 DEF Inv, QueueInv, ProcTo, DestroyDeviceFails, StartsDestroy
<1>8. TableInv(p)'
  BY <1>1
     DEF Inv, TableInv, Owns, Registered, SemFree, DevTypeOK, Goto, ProcTo,
         DestroyDeviceFails, StartsDestroy
<1>. QED  BY <1>4, <1>5, <1>6, <1>7, <1>8, StepKeepsInv DEF Inv

(* A served device is healthy for its own agent. *)
LEMMA GetHealthKeepsInv ==
  ASSUME DevInv, NEW p \in Agents, GetHealth(p)
  PROVE  DevInv'
<1>1. DevTypeOK /\ NetTypeOK /\ Inv(p)
  BY DEF DevInv, DevTypeOK
<1>2. UNCHANGED devVars
  BY DEF GetHealth
<1>3. Owns(p, known[p]) /\ (proc[p] = "up" => Healthy(p, known[p]))
  BY <1>1 DEF Inv, AgentInv, Serves, Owns, Ready, Healthy, GetHealth
<1>. DEFINE m == GetHealthResult(known[p], Healthy(p, known[p]))
<1>4. m \in Message /\ m.type = "GET_HEALTH_RESULT" /\ m.status = Healthy(p, known[p])
  <2>1. Healthy(p, known[p]) \in BOOLEAN
    BY DEF Healthy, Ready, Registered
  <2>. QED  BY <1>3, <2>1, AnswersAreMessages DEF GetHealthResult, Owns
<1>. HIDE DEF m
<1>5. /\ OnlyQueue(p) /\ Pending(p) \subseteq Pending(p)'
       /\ Pending(p)' \subseteq Pending(p) \cup {m, NlMsgError}
  <2>1. CASE SendOk(p, m)
    BY <1>1, <1>4, <2>1, DeliverQueue DEF SendOk
  <2>2. CASE Nack(p)
    BY <1>1, <2>2, NackQueue
  <2>. QED  BY <2>1, <2>2 DEF GetHealth, m
<1>6. StepOf(p)
  BY <1>1, <1>2, <1>5 DEF StepOf, DevTypeOK, OnlyQueue, Goto, ProcTo, devVars
<1>7. HandlerInv(p)'
  BY DEF HandlerInv, GetHealth, devVars
<1>8. AgentInv(p)'
  BY <1>1, <1>2 DEF Inv, AgentInv, Owns, Serves, Registered, devVars
<1>9. QueueInv(p)'
  BY <1>1, <1>3, <1>4, <1>5, NackIsMessage DEF Inv, QueueInv, GetHealth, devVars
<1>10. TableInv(p)'
  BY <1>1 DEF Inv, TableInv, Owns, Registered, SemFree, GetHealth, devVars
<1>. QED  BY <1>6, <1>7, <1>8, <1>9, <1>10, StepKeepsInv DEF Inv

-----------------------------------------------------------------------------
(* The invariant of the specification. *)

(* It holds when the module has been loaded and no agent runs.             *)
LEMMA InitEstablishesInv == DevInit => DevInv
<1>. SUFFICES ASSUME DevInit PROVE DevInv
  OBVIOUS
<1>1. NetTypeOK
  <2>1. << >> \in Seq(Message) /\ Len(<< >>) = 0
    OBVIOUS
  <2>. QED  BY <2>1, RcvBufAssumption DEF DevInit, NetInit, NetTypeOK
<1>2. DevTypeOK
  BY <1>1 DEF DevInit, DevTypeOK, ProcStates, HandlerSteps
<1>3. ASSUME NEW p \in Agents PROVE Inv(p)
  <2>1. Pending(p) = {}
    BY DEF DevInit, NetInit, Pending
  <2>2. \A d \in DeviceIds : ~Owns(p, d)
    BY DEF DevInit, Owns, Registered
  <2>. QED  BY <2>1, <2>2
               DEF DevInit, Inv, HandlerInv, AgentInv, QueueInv, TableInv
<1>. QED  BY <1>2, <1>3 DEF DevInv

(* Every action keeps it.                                                  *)
LEMMA NextKeepsInv == DevInv /\ [DevNext]_deviceVars => DevInv'
<1>. SUFFICES ASSUME DevInv, [DevNext]_deviceVars PROVE DevInv'
  OBVIOUS
<1>1. CASE \E p \in Agents : AgentStart(p)
  BY <1>1, AgentStartKeepsInv
<1>2. CASE \E p \in Agents : AgentCreated(p)
  BY <1>2, AgentCreatedKeepsInv
<1>3. CASE \E p \in Agents : AgentRefused(p)
  BY <1>3, AgentRefusedKeepsInv
<1>4. CASE \E p \in Agents : AgentReads(p)
  BY <1>4, AgentReadsKeepsInv
<1>5. CASE \E p \in Agents : AgentDestroyed(p)
  BY <1>5, AgentDestroyedKeepsInv
<1>6. CASE \E p \in Agents : AgentExit(p)
  BY <1>6, AgentExitKeepsInv
<1>7. CASE \E p \in Agents : AddDevice(p)
  BY <1>7, AddDeviceKeepsInv
<1>8. CASE \E p \in Agents : AddDeviceFails(p)
  BY <1>8, AddDeviceFailsKeepsInv
<1>9. CASE \E p \in Agents : AttachDeviceClass(p)
  BY <1>9, AttachDeviceClassKeepsInv
<1>10. CASE \E p \in Agents : AttachDeviceClassFails(p)
  BY <1>10, AttachDeviceClassFailsKeepsInv
<1>11. CASE \E p \in Agents : ReplyCreated(p)
  BY <1>11, ReplyCreatedKeepsInv
<1>12. CASE \E p \in Agents : ReplyCreatedFails(p)
  BY <1>12, ReplyCreatedFailsKeepsInv
<1>13. CASE \E p \in Agents : SetDeviceReady(p)
  BY <1>13, SetDeviceReadyKeepsInv
<1>14. CASE \E p \in Agents : DestroyDevice(p)
  BY <1>14, DestroyDeviceKeepsInv
<1>15. CASE \E p \in Agents : DestroyDeviceFails(p)
  BY <1>15, DestroyDeviceFailsKeepsInv
<1>16. CASE \E p \in Agents : DetachDeviceClass(p)
  BY <1>16, DetachDeviceClassKeepsInv
<1>17. CASE \E p \in Agents : MarkUnready(p)
  BY <1>17, MarkUnreadyKeepsInv
<1>18. CASE \E p \in Agents : ForgetDevice(p)
  BY <1>18, ForgetDeviceKeepsInv
<1>19. CASE \E p \in Agents : GetHealth(p)
  BY <1>19, GetHealthKeepsInv
<1>20. CASE UNCHANGED deviceVars
  BY <1>20
     DEF deviceVars, devVars, netVars, DevInv, DevTypeOK, NetTypeOK, Inv,
         HandlerInv, AgentInv, QueueInv, TableInv, Owns, Serves, Registered,
         SemFree, Answered, Pending
<1>. QED
  BY <1>1, <1>2, <1>3, <1>4, <1>5, <1>6, <1>7, <1>8, <1>9, <1>10, <1>11, <1>12,
     <1>13, <1>14, <1>15, <1>16, <1>17, <1>18, <1>19, <1>20
     DEF DevNext, KernelStep, StoreStep, RemoveStep, AgentStep

(* Every reachable state satisfies the invariant: what the queues, the     *)
(* handlers and the table of devices say of an agent always agrees.        *)
THEOREM Invariant == DevSpec => []DevInv
<1>1. DevInit => DevInv
  BY InitEstablishesInv
<1>2. DevInv /\ [DevNext]_deviceVars => DevInv'
  BY NextKeepsInv
<1>. QED  BY <1>1, <1>2, PTL DEF DevSpec

(* Types, device table and receive buffers are as DevTypeOK says.          *)
THEOREM TypeCorrect == DevSpec => []DevTypeOK
<1>1. DevInv => DevTypeOK
  BY DEF DevInv
<1>. QED  BY <1>1, Invariant, PTL

(* The invariant gives every property of Devices. *)
LEMMA InvIsEnough ==
  DevInv => UpIsServed /\ HandlerOwnsDevice /\ LockedIsUnreachable /\ NoFalseAlarm
              /\ FailureLeavesNothing
<1>1. DevInv => UpIsServed
  BY DEF DevInv, Inv, AgentInv, Serves, Owns, UpIsServed, Ready
<1>2. DevInv => HandlerOwnsDevice
  BY DEF DevInv, Inv, HandlerInv, Owns, HandlerOwnsDevice
<1>3. DevInv => LockedIsUnreachable
  <2>. SUFFICES ASSUME DevInv, NEW d \in DeviceIds, Registered(d), ~SemFree(d)
                PROVE  /\ ~dev[d].ready /\ ~dev[d].attached
                       /\ hpc[dev[d].sem] = "mark" /\ hid[dev[d].sem] = d
                       /\ \A p \in Agents : known[p] = d => proc[p] \notin {"up", "stopped", "done"}
    BY DEF LockedIsUnreachable
  <2>. DEFINE a == dev[d].pid
  <2>1. a \in Agents /\ Owns(a, d)
    BY DEF DevInv, DevTypeOK, Device, Registered, Owns
  <2>2. dev[d].sem = a /\ hpc[a] = "mark" /\ ~dev[d].ready /\ ~dev[d].attached /\ hid[a] = d
    BY <2>1 DEF DevInv, Inv, TableInv
  <2>3. ASSUME NEW p \in Agents, known[p] = d, proc[p] \in {"up", "stopped", "done"}
        PROVE  FALSE
    <3>1. p = a
      BY <2>3 DEF DevInv, Inv, AgentInv, Serves, Owns
    <3>2. proc[a] \in {"creating", "destroying"}
      BY <2>1, <2>2 DEF DevInv, Inv, HandlerInv
    <3>. QED  BY <2>3, <3>1, <3>2
  <2>. QED  BY <2>2, <2>3
<1>4. DevInv => NoFalseAlarm
  BY DEF DevInv, Inv, QueueInv, NoFalseAlarm
<1>5. DevInv => FailureLeavesNothing
  BY DEF DevInv, Inv, TableInv, Owns, FailureLeavesNothing
<1>. QED  BY <1>1, <1>2, <1>3, <1>4, <1>5

(* An agent that has read its device id is served under it by create_device *)
(* until it asks for the device's end.                                     *)
THEOREM Served == DevSpec => []UpIsServed
  BY InvIsEnough, Invariant, PTL

(* A handler of create_device or destroy_device works on a registered      *)
(* device of the agent that called it, whatever other handlers do.         *)
THEOREM HandlersOwnTheirDevice == DevSpec => []HandlerOwnsDevice
  BY InvIsEnough, Invariant, PTL

(* The write lock that attach_device_class loses is on a device that no    *)
(* file and no other agent can reach.                                      *)
THEOREM LockedUnreachable == DevSpec => []LockedIsUnreachable
  BY InvIsEnough, Invariant, PTL

(* No health answer that waits for a served agent says its device failed.  *)
THEOREM HealthTrue == DevSpec => []NoFalseAlarm
  BY InvIsEnough, Invariant, PTL

(* A create_device or destroy_device that returned without an answer on    *)
(* the socket has left no device of its agent behind.                      *)
THEOREM FailureLeaves == DevSpec => []FailureLeavesNothing
  BY InvIsEnough, Invariant, PTL

-----------------------------------------------------------------------------
(***************************************************************************)
(* The device table implements DeviceNode, for every set of agents, every  *)
(* range of device ids and every set of faults.                            *)
(***************************************************************************)

(* What DevInv leaves open about the nodes: whose name a device has, and   *)
(* where a handler may leave a node that cannot be opened.                 *)
NodeInv(p) ==
    /\ \A d \in DeviceIds : Owns(p, d) =>
         /\ dev[d].name = NameOf[p]
         /\ hpc[p] = "idle" /\ dev[d].attached => dev[d].ready
    /\ hpc[p] \in {"mark", "toots"} => ~dev[hid[p]].attached

AllInv == DevInv /\ \A p \in Agents : NodeInv(p)

(* What a step of p may change of the devices.                             *)
OnlyDevicesOf(p) ==
    /\ \A q \in Agents \ {p} : proc'[q] = proc[q] /\ hpc'[q] = hpc[q] /\ hid'[q] = hid[q]
    /\ \A d \in DeviceIds :
         \/ dev'[d] = dev[d]
         \/ /\ dev[d] = NULL \/ dev[d].pid = p
            /\ dev'[d] = NULL \/ dev'[d].pid = p

(* The steps of DeviceNode, said of p alone.                               *)
LivingStep(p) ==
    /\ proc'[p] # "exited"
    /\ \/ NodeOf(p)' = NodeOf(p)
       \/ /\ NodeOf(p) = "none" /\ NodeOf(p)' = "shown"
          /\ \A q \in Agents : NameOf[q] = NameOf[p] => ~Attached(q)
       \/ NodeOf(p) = "shown" /\ NodeOf(p)' = "served"
       \/ NodeOf(p) # "gone" /\ NodeOf(p)' = "gone"

LastStep(p) ==
    /\ proc'[p] = "exited"
    /\ NodeOf(p) # "shown"
    /\ NodeOf(p)' = IF NodeOf(p) = "none" THEN "gone" ELSE NodeOf(p)

NodeStep(p) ==
    /\ OnlyDevicesOf(p) /\ NodeInv(p)'
    /\ proc[p] # "exited" /\ (LivingStep(p) \/ LastStep(p))

-----------------------------------------------------------------------------
(* The cases of NodeOf.                                                    *)
LEMMA NodeCases ==
  ASSUME NEW p \in Agents
  PROVE  /\ Openable(p) => Attached(p) /\ NodeOf(p) = "served"
         /\ Attached(p) /\ ~Openable(p) => NodeOf(p) = "shown"
         /\ ~Attached(p) /\ (proc[p] \in {"off", "connected"} \/ hpc[p] = "attach")
              => NodeOf(p) = "none"
         /\ ~Attached(p) /\ proc[p] \notin {"off", "connected"} /\ hpc[p] # "attach"
              => NodeOf(p) = "gone"
         /\ NodeOf(p) \in {"none", "shown", "served", "gone"}
<1>1. Openable(p) => Attached(p)
  BY DEF Openable, Attached, Ready
<1>. QED  BY <1>1 DEF NodeOf

(* Two states in which p's devices look alike have the same node.          *)
LEMMA SameDevicesSameNode ==
  ASSUME NEW p \in Agents, UNCHANGED dev,
         hpc[p] # "attach", hpc'[p] # "attach",
         proc[p] \notin {"off", "connected"}, proc'[p] \notin {"off", "connected"}
  PROVE  NodeOf(p)' = NodeOf(p)
<1>1. (Attached(p)' <=> Attached(p)) /\ (Openable(p)' <=> Openable(p))
  BY DEF Attached, Openable, Ready, Registered
<1>. QED  BY <1>1 DEF NodeOf

(* A step of p leaves the nodes of others, and what is known of them.      *)
LEMMA OthersKeepNode ==
  ASSUME NEW p \in Agents, OnlyDevicesOf(p), NEW q \in Agents \ {p}, NodeInv(q),
         DevInv
  PROVE  NodeOf(q)' = NodeOf(q) /\ NodeInv(q)'
<1>1. \A d \in DeviceIds : Owns(q, d)' <=> Owns(q, d)
  BY DEF OnlyDevicesOf, Owns, Registered
<1>2. \A d \in DeviceIds : Owns(q, d) => dev'[d] = dev[d]
  BY DEF OnlyDevicesOf, Owns, Registered
<1>3. proc'[q] = proc[q] /\ hpc'[q] = hpc[q] /\ hid'[q] = hid[q]
  BY DEF OnlyDevicesOf
<1>4. Attached(q)' <=> Attached(q)
  BY <1>1, <1>2 DEF Attached, Owns
<1>5. Openable(q)' <=> Openable(q)
  BY <1>1, <1>2 DEF Openable, Ready, Owns
<1>6. NodeOf(q)' = NodeOf(q)
  BY <1>3, <1>4, <1>5 DEF NodeOf
<1>7. NodeInv(q)'
  BY <1>1, <1>2, <1>3 DEF NodeInv, DevInv, Inv, HandlerInv, Owns
<1>. QED  BY <1>6, <1>7

(* So a NodeStep is a step of DeviceNode.                                  *)
LEMMA NodeStepImplements ==
  ASSUME AllInv, NEW p \in Agents, NodeStep(p)
  PROVE  [Node!Next]_(Node!nodeVars) /\ \A q \in Agents : NodeInv(q)'
<1>. DEFINE nodes == [q \in Agents |-> NodeOf(q)]
            living == {q \in Agents : proc[q] # "exited"}
<1>1. \A q \in Agents \ {p} : NodeOf(q)' = NodeOf(q) /\ NodeInv(q)'
  BY OthersKeepNode DEF AllInv, NodeStep
<1>2. nodes' = [nodes EXCEPT ![p] = NodeOf(p)']
  BY <1>1
<1>3. \A q \in Agents \ {p} : proc'[q] = proc[q]
  BY DEF NodeStep, OnlyDevicesOf
<1>4. p \in living
  BY DEF NodeStep
<1>5. nodes[p] = NodeOf(p) /\ \A q \in Agents : nodes[q] = NodeOf(q)
  OBVIOUS
<1>6. ASSUME LivingStep(p) PROVE [Node!Next]_(Node!nodeVars)
  <2>1. living' = living
    BY <1>3, <1>6 DEF LivingStep, NodeStep
  <2>2. CASE NodeOf(p)' = NodeOf(p)
    BY <1>2, <2>1, <2>2 DEF Node!nodeVars
  <2>3. CASE /\ NodeOf(p) = "none" /\ NodeOf(p)' = "shown"
             /\ \A q \in Agents : NameOf[q] = NameOf[p] => ~Attached(q)
    <3>1. \A q \in Agents : NameOf[q] = NameOf[p] => nodes[q] \notin {"shown", "served"}
      BY <2>3, NodeCases
    <3>. QED  BY <1>2, <1>4, <2>1, <2>3, <3>1
              DEF Node!Next, Node!Show, Node!Visible, Node!Becomes
  <2>4. CASE NodeOf(p) = "shown" /\ NodeOf(p)' = "served"
    BY <1>2, <1>4, <2>1, <2>4 DEF Node!Next, Node!Serve, Node!Becomes
  <2>5. CASE NodeOf(p) # "gone" /\ NodeOf(p)' = "gone"
    <3>1. NodeOf(p) = "none" \/ NodeOf(p) \in {"shown", "served"}
      BY <2>5, NodeCases
    <3>. QED  BY <1>2, <1>4, <2>1, <2>5, <3>1
              DEF Node!Next, Node!Remove, Node!Refuse, Node!Visible, Node!Becomes
  <2>. QED  BY <1>6, <2>2, <2>3, <2>4, <2>5 DEF LivingStep
<1>7. ASSUME LastStep(p) PROVE Node!Next
  <2>1. living' = living \ {p}
    BY <1>3, <1>7 DEF LastStep, NodeStep
  <2>2. nodes' = IF nodes[p] = "none" THEN [nodes EXCEPT ![p] = "gone"] ELSE nodes
    BY <1>2, <1>7 DEF LastStep
  <2>3. nodes[p] # "shown"
    BY <1>7 DEF LastStep
  <2>. QED  BY <1>4, <2>1, <2>2, <2>3 DEF Node!Next, Node!End
<1>8. NodeInv(p)'
  BY DEF NodeStep
<1>. QED  BY <1>1, <1>6, <1>7, <1>8 DEF NodeStep

-----------------------------------------------------------------------------
(* Steps that change no device and stay outside the kernel: what the agent *)
(* does with its answers, and its health checks.                           *)
QuietSteps(p) ==
    AgentCreated(p) \/ AgentReads(p) \/ AgentDestroyed(p) \/ GetHealth(p)

(* Such a step changes nothing of a node. *)
LEMMA QuietIsNodeStep ==
  ASSUME AllInv, NEW p \in Agents, QuietSteps(p)
  PROVE  NodeStep(p)
<1>1. /\ UNCHANGED <<dev, hpc, hid>> /\ hpc[p] = "idle"
      /\ proc[p] \in {"creating", "up", "stopped", "destroying", "done"}
  BY DEF QuietSteps, AgentCreated, AgentReads, AgentDestroyed, GetHealth, devVars
<1>2. /\ proc'[p] \in {"creating", "up", "stopped", "destroying", "done"}
      /\ \A q \in Agents \ {p} : proc'[q] = proc[q]
  BY <1>1 DEF AllInv, DevInv, DevTypeOK, ProcTo, QuietSteps, AgentCreated, AgentReads,
              AgentDestroyed, GetHealth, devVars
<1>3. NodeOf(p)' = NodeOf(p)
  BY <1>1, <1>2, SameDevicesSameNode
<1>4. NodeInv(p)'
  BY <1>1 DEF AllInv, NodeInv, Owns, Registered
<1>. QED  BY <1>1, <1>2, <1>3, <1>4 DEF NodeStep, OnlyDevicesOf, LivingStep

(* An agent that connects has no device yet.                               *)
LEMMA AgentStartIsNodeStep ==
  ASSUME AllInv, NEW p \in Agents, AgentStart(p)
  PROVE  NodeStep(p)
<1>1. /\ UNCHANGED <<dev, hpc, hid>> /\ proc[p] = "off" /\ proc'[p] = "connected"
      /\ \A q \in Agents \ {p} : proc'[q] = proc[q]
  BY DEF AllInv, DevInv, DevTypeOK, ProcTo, AgentStart
<1>2. NodeOf(p)' = NodeOf(p)
  BY <1>1 DEF NodeOf, Attached, Openable, Ready, Registered
<1>3. NodeInv(p)'
  BY <1>1 DEF AllInv, NodeInv, Owns, Registered
<1>. QED  BY <1>1, <1>2, <1>3 DEF NodeStep, OnlyDevicesOf, LivingStep

(* An agent ends outside the kernel, where its node can be opened or is no *)
(* longer there.                                                           *)
LEMMA EndIsNodeStep ==
  ASSUME AllInv, NEW p \in Agents, AgentExit(p) \/ AgentRefused(p)
  PROVE  NodeStep(p)
<1>1. /\ UNCHANGED <<dev, hpc, hid>> /\ hpc[p] = "idle"
      /\ proc[p] \notin {"off", "exited"} /\ proc'[p] = "exited"
      /\ \A q \in Agents \ {p} : proc'[q] = proc[q]
  BY DEF AllInv, DevInv, DevTypeOK, ProcTo, AgentExit, AgentRefused
<1>2. Attached(p) => Openable(p)
  BY <1>1 DEF AllInv, NodeInv, Owns, Attached, Openable, Ready
<1>3. (Attached(p)' <=> Attached(p)) /\ (Openable(p)' <=> Openable(p))
  BY <1>1 DEF Attached, Openable, Ready, Registered
<1>4. NodeOf(p) # "shown"
  BY <1>2, NodeCases
<1>5. NodeOf(p)' = IF NodeOf(p) = "none" THEN "gone" ELSE NodeOf(p)
  BY <1>1, <1>2, <1>3, NodeCases DEF NodeOf
<1>6. NodeInv(p)'
  BY <1>1 DEF AllInv, NodeInv, Owns, Registered
<1>. QED  BY <1>1, <1>4, <1>5, <1>6 DEF NodeStep, OnlyDevicesOf, LastStep

(* A refused request for a device ends the hope for a node.                *)
LEMMA AddDeviceFailsIsNodeStep ==
  ASSUME AllInv, NEW p \in Agents, AddDeviceFails(p)
  PROVE  NodeStep(p)
<1>1. /\ UNCHANGED <<dev, hpc, hid>>
      /\ proc[p] = "connected" /\ proc'[p] = "creating"
      /\ \A q \in Agents \ {p} : proc'[q] = proc[q]
  BY DEF AllInv, DevInv, DevTypeOK, ProcTo, AddDeviceFails
<1>2. \A d \in DeviceIds : ~Owns(p, d)
  BY <1>1 DEF AllInv, DevInv, Inv, TableInv
<1>3. hpc[p] = "idle" /\ hpc'[p] = "idle"
  BY <1>1 DEF AllInv, DevInv, Inv, HandlerInv
<1>4. ~Attached(p) /\ ~Attached(p)' /\ ~Openable(p)'
  BY <1>1, <1>2 DEF Attached, Openable, Ready, Owns, Registered
<1>5. NodeOf(p) = "none" /\ NodeOf(p)' = "gone"
  BY <1>1, <1>3, <1>4, NodeCases DEF NodeOf
<1>6. NodeInv(p)'
  BY <1>1 DEF AllInv, NodeInv, Owns, Registered
<1>. QED  BY <1>1, <1>5, <1>6 DEF NodeStep, OnlyDevicesOf, LivingStep

(* A new device has no node yet.                                           *)
LEMMA AddDeviceIsNodeStep ==
  ASSUME AllInv, NEW p \in Agents, AddDevice(p)
  PROVE  NodeStep(p)
<1>1. PICK d \in DeviceIds : /\ IsNextDeviceId(d)
                             /\ dev' = [dev EXCEPT ![d] = NewDevice(p)]
                             /\ hid' = [hid EXCEPT ![p] = d]
  BY DEF AddDevice
<1>2. /\ proc[p] = "connected" /\ proc'[p] = "creating" /\ hpc'[p] = "attach"
      /\ \A q \in Agents \ {p} : proc'[q] = proc[q] /\ hpc'[q] = hpc[q] /\ hid'[q] = hid[q]
  BY <1>1 DEF AllInv, DevInv, DevTypeOK, ProcTo, Goto, AddDevice
<1>3. /\ dev[d] = NULL /\ dev'[d] = NewDevice(p)
      /\ \A j \in DeviceIds \ {d} : dev'[j] = dev[j]
  BY <1>1 DEF AllInv, DevInv, DevTypeOK, IsNextDeviceId, Registered
<1>4. NewDevice(p).pid = p /\ ~NewDevice(p).attached /\ NewDevice(p).name = NameOf[p]
  BY DEF NewDevice
<1>5. \A j \in DeviceIds : ~Owns(p, j)
  BY <1>2 DEF AllInv, DevInv, Inv, TableInv
<1>6. ~Attached(p) /\ ~Attached(p)' /\ ~Openable(p)'
  BY <1>3, <1>4, <1>5 DEF Attached, Openable, Ready, Owns, Registered
<1>7. NodeOf(p) = "none" /\ NodeOf(p)' = "none"
  BY <1>2, <1>6, NodeCases DEF NodeOf
<1>8. NodeInv(p)'
  BY <1>2, <1>3, <1>4, <1>5 DEF NodeInv, Owns, Registered
<1>9. OnlyDevicesOf(p)
  BY <1>2, <1>3, <1>4 DEF OnlyDevicesOf
<1>. QED  BY <1>2, <1>7, <1>8, <1>9 DEF NodeStep, LivingStep

-----------------------------------------------------------------------------
(* Steps inside the kernel: hid[p] is p's only device, and p lives.        *)
LEMMA HandlerDevice ==
  ASSUME AllInv, NEW p \in Agents, hpc[p] # "idle"
  PROVE  /\ Owns(p, hid[p]) /\ dev[hid[p]] \in Device /\ dev[hid[p]].name = NameOf[p]
         /\ \A d \in DeviceIds : Owns(p, d) => d = hid[p]
         /\ proc[p] \in {"creating", "destroying"}
         /\ Attached(p) <=> dev[hid[p]].attached
         /\ Openable(p) <=> dev[hid[p]].attached /\ dev[hid[p]].ready
<1>1. Owns(p, hid[p]) /\ proc[p] \in {"creating", "destroying"}
  BY DEF AllInv, DevInv, Inv, HandlerInv
<1>2. \A d \in DeviceIds : Owns(p, d) => d = hid[p]
  BY DEF AllInv, DevInv, Inv, TableInv
<1>3. dev[hid[p]] \in Device /\ dev[hid[p]].name = NameOf[p]
  BY <1>1 DEF AllInv, DevInv, DevTypeOK, NodeInv, Owns, Registered
<1>. QED  BY <1>1, <1>2, <1>3 DEF Attached, Openable, Ready, Owns

(* A handler's step that writes one field of its device, or none.          *)
OneField(p) ==
    /\ UNCHANGED <<proc, hid>>
    /\ \A q \in Agents \ {p} : hpc'[q] = hpc[q]
    /\ \A d \in DeviceIds \ {hid[p]} : dev'[d] = dev[d]
    /\ dev'[hid[p]] # NULL /\ dev'[hid[p]].pid = p /\ dev'[hid[p]].name = dev[hid[p]].name

(* A step on one device shows only in its own node. *)
LEMMA OneFieldNode ==
  ASSUME AllInv, NEW p \in Agents, hpc[p] # "idle", OneField(p)
  PROVE  /\ OnlyDevicesOf(p)
         /\ \A d \in DeviceIds : Owns(p, d)' <=> d = hid[p]
         /\ dev'[hid[p]].name = NameOf[p]
         /\ Attached(p)' <=> dev'[hid[p]].attached
         /\ Openable(p)' <=> dev'[hid[p]].attached /\ dev'[hid[p]].ready
<1>1. /\ Owns(p, hid[p]) /\ dev[hid[p]].name = NameOf[p]
      /\ \A d \in DeviceIds : Owns(p, d) => d = hid[p]
  BY HandlerDevice
<1>2. \A d \in DeviceIds : Owns(p, d)' <=> d = hid[p]
  BY <1>1 DEF OneField, Owns, Registered
<1>3. OnlyDevicesOf(p)
  BY <1>1 DEF OneField, OnlyDevicesOf, Owns
<1>4. /\ Attached(p)' <=> dev'[hid[p]].attached
      /\ Openable(p)' <=> dev'[hid[p]].attached /\ dev'[hid[p]].ready
  <2>1. hid[p] \in DeviceIds
    BY <1>1 DEF Owns
  <2>2. \A d \in DeviceIds : dev'[d] # NULL /\ dev'[d].pid = p <=> d = hid[p]
    BY <1>2 DEF Owns, Registered
  <2>. QED  BY <2>1, <2>2 DEF Attached, Openable, Ready, Registered
<1>. QED  BY <1>1, <1>2, <1>3, <1>4 DEF OneField

(* cdev_device_add shows the node: no other agent of the name has one.     *)
LEMMA AttachIsNodeStep ==
  ASSUME AllInv, NEW p \in Agents, AttachDeviceClass(p)
  PROVE  NodeStep(p)
<1>1. hpc[p] = "attach" /\ ~NameTaken(hid[p])
  BY DEF AttachDeviceClass
<1>2. /\ Owns(p, hid[p]) /\ dev[hid[p]] \in Device /\ dev[hid[p]].name = NameOf[p]
      /\ proc[p] \in {"creating", "destroying"}
      /\ Attached(p) <=> dev[hid[p]].attached
  BY <1>1, HandlerDevice
<1>3. ~dev[hid[p]].attached /\ ~dev[hid[p]].ready
  BY <1>1 DEF AllInv, DevInv, Inv, HandlerInv
<1>4. /\ OneField(p) /\ hpc'[p] = "reply"
      /\ dev'[hid[p]].attached = TRUE /\ dev'[hid[p]].ready = dev[hid[p]].ready
  BY <1>2, NoDeviceAssumption
     DEF AllInv, DevInv, DevTypeOK, AttachDeviceClass, Goto, OneField, Device, Owns
<1>5. NodeOf(p) = "none" /\ NodeOf(p)' = "shown"
  BY <1>1, <1>2, <1>3, <1>4, OneFieldNode, NodeCases DEF NodeOf
<1>6. \A q \in Agents : NameOf[q] = NameOf[p] => ~Attached(q)
  <2>. SUFFICES ASSUME NEW q \in Agents, NameOf[q] = NameOf[p], Attached(q) PROVE FALSE
    OBVIOUS
  <2>1. PICK d \in DeviceIds : Owns(q, d) /\ dev[d].attached
    BY DEF Attached, Owns
  <2>2. dev[d].name = NameOf[q]
    BY <2>1 DEF AllInv, NodeInv
  <2>. QED  BY <1>1, <1>2, <2>1, <2>2 DEF NameTaken, Owns
<1>7. NodeInv(p)'
  BY <1>1, <1>4, OneFieldNode DEF NodeInv
<1>8. OnlyDevicesOf(p)
  BY <1>1, <1>4, OneFieldNode
<1>. QED  BY <1>2, <1>4, <1>5, <1>6, <1>7, <1>8 DEF NodeStep, LivingStep, OneField

(* A device whose node was refused never has one.                          *)
LEMMA AttachFailsIsNodeStep ==
  ASSUME AllInv, NEW p \in Agents, AttachDeviceClassFails(p)
  PROVE  NodeStep(p)
<1>1. hpc[p] = "attach"
  BY DEF AttachDeviceClassFails
<1>2. /\ Owns(p, hid[p]) /\ dev[hid[p]] \in Device
      /\ proc[p] \in {"creating", "destroying"}
      /\ Attached(p) <=> dev[hid[p]].attached
  BY <1>1, HandlerDevice
<1>3. ~dev[hid[p]].attached
  BY <1>1 DEF AllInv, DevInv, Inv, HandlerInv
<1>4. /\ OneField(p) /\ hpc'[p] = "mark" /\ dev'[hid[p]].attached = dev[hid[p]].attached
  BY <1>2, NoDeviceAssumption
     DEF AllInv, DevInv, DevTypeOK, AttachDeviceClassFails, Goto, OneField, Device, Owns
<1>5. NodeOf(p) = "none" /\ NodeOf(p)' = "gone"
  BY <1>1, <1>2, <1>3, <1>4, OneFieldNode, NodeCases DEF NodeOf, OneField
<1>6. NodeInv(p)'
  BY <1>1, <1>3, <1>4, OneFieldNode DEF NodeInv, OneField
<1>7. OnlyDevicesOf(p)
  BY <1>1, <1>4, OneFieldNode
<1>. QED  BY <1>2, <1>4, <1>5, <1>6, <1>7 DEF NodeStep, LivingStep, OneField

(* The answers leave the node as it is.                                    *)
LEMMA ReplyIsNodeStep ==
  ASSUME AllInv, NEW p \in Agents, ReplyCreated(p) \/ ReplyCreatedFails(p)
  PROVE  NodeStep(p)
<1>1. hpc[p] = "reply" /\ hpc'[p] \in {"ready", "detach"} /\ UNCHANGED <<dev, proc, hid>>
  BY DEF AllInv, DevInv, DevTypeOK, ReplyCreated, ReplyCreatedFails, Goto
<1>2. proc[p] \in {"creating", "destroying"}
  BY <1>1, HandlerDevice
<1>3. \A q \in Agents \ {p} : hpc'[q] = hpc[q]
  BY DEF AllInv, DevInv, DevTypeOK, ReplyCreated, ReplyCreatedFails, Goto
<1>4. NodeOf(p)' = NodeOf(p)
  BY <1>1, <1>2, SameDevicesSameNode
<1>5. NodeInv(p)'
  BY <1>1 DEF AllInv, NodeInv, Owns, Registered
<1>. QED  BY <1>1, <1>2, <1>3, <1>4, <1>5 DEF NodeStep, LivingStep, OnlyDevicesOf

(* The node can be opened from now on, if it could not before.             *)
LEMMA SetDeviceReadyIsNodeStep ==
  ASSUME AllInv, NEW p \in Agents, SetDeviceReady(p)
  PROVE  NodeStep(p)
<1>1. hpc[p] = "ready"
  BY DEF SetDeviceReady
<1>2. /\ Owns(p, hid[p]) /\ dev[hid[p]] \in Device
      /\ proc[p] \in {"creating", "destroying"}
      /\ Attached(p) <=> dev[hid[p]].attached
  BY <1>1, HandlerDevice
<1>3. dev[hid[p]].attached
  BY <1>1 DEF AllInv, DevInv, Inv, HandlerInv
<1>4. /\ OneField(p) /\ hpc'[p] = "idle"
      /\ dev'[hid[p]].attached = dev[hid[p]].attached /\ dev'[hid[p]].ready = TRUE
  BY <1>2, NoDeviceAssumption
     DEF AllInv, DevInv, DevTypeOK, SetDeviceReady, SetReady, Goto, OneField, Device, Owns
<1>5. NodeOf(p) \in {"shown", "served"} /\ NodeOf(p)' = "served"
  BY <1>1, <1>2, <1>3, <1>4, OneFieldNode, NodeCases DEF NodeOf
<1>6. NodeInv(p)'
  BY <1>1, <1>4, OneFieldNode DEF NodeInv
<1>7. OnlyDevicesOf(p)
  BY <1>1, <1>4, OneFieldNode
<1>. QED  BY <1>2, <1>4, <1>5, <1>6, <1>7 DEF NodeStep, LivingStep, OneField

(* The early part of a removal takes the node away.                        *)
LEMMA DetachIsNodeStep ==
  ASSUME AllInv, NEW p \in Agents, DetachDeviceClass(p)
  PROVE  NodeStep(p)
<1>1. hpc[p] = "detach"
  BY DEF DetachDeviceClass
<1>2. /\ Owns(p, hid[p]) /\ dev[hid[p]] \in Device
      /\ proc[p] \in {"creating", "destroying"}
  BY <1>1, HandlerDevice
<1>3. /\ OneField(p) /\ hpc'[p] = "mark" /\ dev'[hid[p]].attached = FALSE
  BY <1>2, NoDeviceAssumption
     DEF AllInv, DevInv, DevTypeOK, DetachDeviceClass, Goto, OneField, Device, Owns
<1>4. NodeOf(p)' = "gone"
  BY <1>1, <1>2, <1>3, OneFieldNode DEF NodeOf, OneField
<1>5. NodeInv(p)'
  BY <1>1, <1>3, OneFieldNode DEF NodeInv, OneField
<1>6. OnlyDevicesOf(p)
  BY <1>1, <1>3, OneFieldNode
<1>. QED  BY <1>2, <1>3, <1>4, <1>5, <1>6 DEF NodeStep, LivingStep, OneField

(* From then on the device has no node.                                    *)
LEMMA MarkIsNodeStep ==
  ASSUME AllInv, NEW p \in Agents, MarkUnready(p)
  PROVE  NodeStep(p)
<1>1. hpc[p] = "mark"
  BY DEF MarkUnready
<1>2. /\ Owns(p, hid[p]) /\ dev[hid[p]] \in Device
      /\ proc[p] \in {"creating", "destroying"}
  BY <1>1, HandlerDevice
<1>3. ~dev[hid[p]].attached
  BY <1>1 DEF AllInv, NodeInv
<1>4. /\ OneField(p) /\ hpc'[p] = "toots" /\ dev'[hid[p]].attached = dev[hid[p]].attached
  BY <1>2, NoDeviceAssumption
     DEF AllInv, DevInv, DevTypeOK, MarkUnready, SetReady, Goto, OneField, Device, Owns
<1>5. NodeOf(p)' = "gone"
  BY <1>1, <1>2, <1>3, <1>4, OneFieldNode DEF NodeOf, OneField
<1>6. NodeInv(p)'
  BY <1>1, <1>3, <1>4, OneFieldNode DEF NodeInv, OneField
<1>7. OnlyDevicesOf(p)
  BY <1>1, <1>4, OneFieldNode
<1>. QED  BY <1>2, <1>4, <1>5, <1>6, <1>7 DEF NodeStep, LivingStep, OneField

(* The device that is forgotten was p's only one, without a node.          *)
LEMMA ForgetIsNodeStep ==
  ASSUME AllInv, NEW p \in Agents, ForgetDevice(p)
  PROVE  NodeStep(p)
<1>1. hpc[p] = "toots"
  BY DEF ForgetDevice
<1>2. /\ Owns(p, hid[p]) /\ proc[p] \in {"creating", "destroying"}
      /\ \A d \in DeviceIds : Owns(p, d) => d = hid[p]
  BY <1>1, HandlerDevice
<1>3. /\ UNCHANGED <<proc, hid>> /\ hpc'[p] = "idle"
      /\ \A q \in Agents \ {p} : hpc'[q] = hpc[q]
      /\ dev'[hid[p]] = NULL /\ \A d \in DeviceIds \ {hid[p]} : dev'[d] = dev[d]
  BY <1>2 DEF AllInv, DevInv, DevTypeOK, ForgetDevice, Goto, Owns
<1>4. \A d \in DeviceIds : ~Owns(p, d)'
  BY <1>2, <1>3 DEF Owns, Registered
<1>5. ~Attached(p)' /\ ~Openable(p)'
  BY <1>4 DEF Attached, Openable, Ready, Owns
<1>6. NodeOf(p)' = "gone"
  BY <1>2, <1>3, <1>5 DEF NodeOf
<1>7. NodeInv(p)'
  BY <1>3, <1>4 DEF NodeInv
<1>8. OnlyDevicesOf(p)
  BY <1>2, <1>3 DEF OnlyDevicesOf, Owns
<1>. QED  BY <1>2, <1>3, <1>6, <1>7, <1>8 DEF NodeStep, LivingStep

(* DESTROY_DEVICE begins, whether its answer is queued or not.             *)
LEMMA DestroyIsNodeStep ==
  ASSUME AllInv, NEW p \in Agents, DestroyDevice(p) \/ DestroyDeviceFails(p)
  PROVE  NodeStep(p)
<1>1. /\ proc[p] \in {"up", "stopped"} /\ hpc[p] = "idle" /\ UNCHANGED dev
      /\ proc'[p] = "destroying" /\ hpc'[p] \in {"ready", "detach"}
      /\ \A q \in Agents \ {p} : proc'[q] = proc[q] /\ hpc'[q] = hpc[q] /\ hid'[q] = hid[q]
  BY DEF AllInv, DevInv, DevTypeOK, ProcTo, Goto, DestroyDevice, DestroyDeviceFails,
         StartsDestroy
<1>2. NodeOf(p)' = NodeOf(p)
  BY <1>1, SameDevicesSameNode
<1>3. NodeInv(p)'
  BY <1>1 DEF AllInv, NodeInv, Owns, Registered
<1>. QED  BY <1>1, <1>2, <1>3 DEF NodeStep, LivingStep, OnlyDevicesOf

-----------------------------------------------------------------------------
(* Every step of Devices is a step of DeviceNode.                          *)
LEMMA NextImplements ==
  ASSUME AllInv, [DevNext]_deviceVars
  PROVE  AllInv' /\ [Node!Next]_(Node!nodeVars)
<1>1. DevInv'
  BY NextKeepsInv DEF AllInv
<1>2. CASE DevNext
  <2>1. PICK p \in Agents : KernelStep(p) \/ AgentStep(p)
    BY <1>2 DEF DevNext
  <2>2. CASE KernelStep(p)
    <3>1. NodeStep(p)
      BY <2>2, AttachIsNodeStep, AttachFailsIsNodeStep, ReplyIsNodeStep,
         SetDeviceReadyIsNodeStep, DetachIsNodeStep, MarkIsNodeStep, ForgetIsNodeStep
         DEF KernelStep, StoreStep, RemoveStep
    <3>. QED  BY <1>1, <3>1, NodeStepImplements DEF AllInv
  <2>3. CASE AgentStep(p)
    <3>1. NodeStep(p)
      BY <2>3, AgentStartIsNodeStep, QuietIsNodeStep, EndIsNodeStep, AddDeviceIsNodeStep,
         AddDeviceFailsIsNodeStep, DestroyIsNodeStep
         DEF AgentStep, QuietSteps
    <3>. QED  BY <1>1, <3>1, NodeStepImplements DEF AllInv
  <2>. QED  BY <2>1, <2>2, <2>3
<1>3. CASE UNCHANGED deviceVars
  <2>1. \A p \in Agents : NodeInv(p)'
    BY <1>3 DEF deviceVars, devVars, AllInv, NodeInv, Owns, Registered
  <2>2. \A p \in Agents : NodeOf(p)' = NodeOf(p)
    BY <1>3 DEF deviceVars, devVars, NodeOf, Attached, Openable, Ready, Registered
  <2>3. UNCHANGED Node!nodeVars
    BY <1>3, <2>2 DEF deviceVars, devVars, Node!nodeVars
  <2>. QED  BY <1>1, <2>1, <2>3 DEF AllInv
<1>. QED  BY <1>2, <1>3

(* No node is there when the module has been loaded.                       *)
LEMMA InitImplements ==
  ASSUME DevInit
  PROVE  AllInv /\ Node!Init
<1>1. \A p \in Agents : ~Attached(p) /\ ~Openable(p) /\ NodeOf(p) = "none"
  BY DEF DevInit, Attached, Openable, Ready, Registered, NodeOf
<1>2. \A p \in Agents : NodeInv(p)
  BY DEF DevInit, NodeInv, Owns, Registered
<1>3. {p \in Agents : proc[p] # "exited"} = Agents
  BY DEF DevInit
<1>. QED  BY <1>1, <1>2, <1>3, InitEstablishesInv DEF AllInv, Node!Init

(* The handlers of create_device and destroy_device, with every failure,   *)
(* show users what DeviceNode says: one node per name at a time, that can  *)
(* be opened until it goes for good, and no agent ends between its node's  *)
(* appearance and its service.                                             *)
THEOREM NodesKept == DevSpec => KeepsNode
<1>1. DevInit => AllInv /\ Node!Init
  BY InitImplements
<1>2. AllInv /\ [DevNext]_deviceVars => AllInv' /\ [Node!Next]_(Node!nodeVars)
  BY NextImplements
<1>. QED  BY <1>1, <1>2, PTL DEF DevSpec, KeepsNode, Node!Spec

-----------------------------------------------------------------------------
(* The inductive invariant of Toots.                                       *)

OpenSteps  == {"addToot", "newToot", "openFind", "openWait"}
WriteSteps == {"addElement", "addText", "writeFind", "writeWait"}
CloseSteps == {"closeFind", "closeWait"}
ElemSteps  == {"addText", "writeFind", "writeWait"}

(* A thread inside a call has a file at the stage of that call; the call   *)
(* has an id once add_toot gave it one, and removes no other toot.         *)
CallInv(t) ==
    /\ At(t, "idle") => MyFile(t) = NULL
    /\ ~At(t, "idle") => MyFile(t) \in Files
    /\ thr[t].step \in OpenSteps => file[MyFile(t)].stage = "opening"
    /\ thr[t].step \in WriteSteps => file[MyFile(t)].stage = "open"
    /\ thr[t].step \in CloseSteps => file[MyFile(t)].stage = "closing"
    /\ At(t, "removeToot") => file[MyFile(t)].stage \in {"opening", "closing"}
    /\ thr[t].step \notin {"idle", "addToot"} => MyToot(t) \in TootIds
    /\ thr[t].elem # NULL => thr[t].step \in ElemSteps
    /\ thr[t].step \in ElemSteps => thr[t].elem \in ElementIds
    /\ rm[t] # NULL => At(t, "removeToot") /\ rm[t].id = MyToot(t)

(* A file in use has a device, an open one has an id, and two calls use    *)
(* one file only to write.                                                 *)
FileInv ==
    /\ \A f \in Files :
         /\ file[f].stage # "closed" => file[f].dev \in DeviceIds
         /\ file[f].stage \in {"open", "closing"} => file[f].id \in TootIds
    /\ \A t, u \in Threads :
         t # u /\ MyFile(t) # NULL /\ MyFile(u) = MyFile(t) => file[MyFile(t)].stage = "open"

CallsInv == FileInv /\ \A t \in Threads : CallInv(t)

(* A toot that lives has an id and a device. *)
LiveInv == \A o \in TootObjs : Live(o) => toot[o].id \in TootIds /\ toot[o].dev \in DeviceIds

ShapeInv == TypeOK /\ CallsInv /\ LiveInv /\ DevInv

(* A remove_toot in progress has found the toot the id still stands for,   *)
(* and none of its elements is left; remove_device does so with toots of   *)
(* its own device, which is not ready, so no file of it is opened.         *)
RemovalInv ==
    /\ \A a \in Actors : rm[a] # NULL =>
         /\ toots[rm[a].id] = rm[a].obj
         /\ \A e \in ElementIds : elements[e] # NULL => elements[e].toot # rm[a].id
    /\ \A p \in Agents :
         /\ rm[p] # NULL => hpc[p] = "toots" /\ toot[rm[p].obj].dev = hid[p]
         /\ hpc[p] = "toots" => ~InUse(hid[p])

(* A device is not ready before create_device has answered, nor while its  *)
(* toots are removed.                                                      *)
UnreadyInv ==
    \A p \in Agents :
        hpc[p] = "toots" \/ (proc[p] = "creating" /\ hpc[p] \in {"reply", "detach", "mark"})
            => ~dev[hid[p]].ready

OwnInv ==
    /\ UnreadyInv
    /\ FileOwnsToot /\ TableSound /\ SleepersSafe /\ WriterOwnsElement /\ ElementsHaveToot
    /\ ~torn => RemovalInv

(* Nothing waits on a socket before the request it answers; a request of a *)
(* user names the device of the agent that it waits for.  An agent that    *)
(* has an answer handled is up.                                            *)
Mail(p) ==
    /\ proc[p] \in {"off", "connected"} => inbox[p] = << >>
    /\ proc[p] = "creating" /\ inbox[p] # << >> =>
         HeadIs(p, {"CREATE_DEVICE_RESULT", "NLMSG_ERROR"})
    /\ ~torn => \A m \in Pending(p) : m.type \in {"NEW_TOOT", "ADD_TOOT_TEXT"} =>
         /\ proc[p] = "creating" => m.dev = hid[p]
         /\ proc[p] \in {"up", "stopped"} => m.dev = known[p]
    /\ ans[p] # NULL => proc[p] = "up"

MailInv == \A p \in Agents : Mail(p)

TootsInv == ShapeInv /\ OwnInv /\ MailInv

-----------------------------------------------------------------------------
(* The sockets and the devices. *)

(* A toot that get_toot_when_ready gives is of a device that is served.    *)
LEMMA ReadyToot ==
  ASSUME ShapeInv, NEW i, TootReady(i)
  PROVE  /\ i \in TootIds /\ toots[i] \in TootObjs /\ Live(toots[i])
         /\ DeviceOf(i) \in DeviceIds /\ dev[DeviceOf(i)] \in Device
         /\ Ready(DeviceOf(i)) /\ PidOf(i) \in Agents
         /\ Owns(PidOf(i), DeviceOf(i))
<1>1. i \in TootIds /\ toots[i] \in TootObjs /\ Live(toots[i]) /\ Ready(DeviceOf(i))
  BY DEF TootReady, ShapeInv, TypeOK, Live, DeviceOf
<1>2. DeviceOf(i) \in DeviceIds
  BY <1>1 DEF ShapeInv, LiveInv, DeviceOf
<1>3. dev[DeviceOf(i)] \in Device
  BY <1>1, <1>2 DEF ShapeInv, TypeOK, DevTypeOK, Ready, Registered
<1>4. PidOf(i) \in Agents
  BY <1>3 DEF PidOf, Device
<1>. QED  BY <1>1, <1>2, <1>3, <1>4 DEF Owns, PidOf, Ready

MailTypes == {"NEW_TOOT", "ADD_TOOT_TEXT", "SEND_TOOT", "NLMSG_ERROR"}

(* The requests to an agent are messages, and promise nothing of devices.  *)
LEMMA RequestsAreMessages ==
  ASSUME NEW i \in TootIds, NEW d \in DeviceIds, NEW e \in ElementIds
  PROVE  /\ NewTootMsg(i, d) \in Message /\ NewTootMsg(i, d).type \in MailTypes
         /\ AddTextMsg(i, d, e) \in Message /\ AddTextMsg(i, d, e).type \in MailTypes
         /\ SendTootMsg(i, d) \in Message /\ SendTootMsg(i, d).type \in MailTypes
  BY DEF Message, Request, NewTootMsg, AddTextMsg, SendTootMsg, MailTypes

(* The answer that is refused takes the request off the queue and puts the *)
(* error on it.                                                            *)
LEMMA PopAndNackQueue ==
  ASSUME NEW p \in Agents, NetTypeOK, inbox[p] # << >>, PopAndNack(p)
  PROVE  /\ OnlyQueue(p)
         /\ Pending(p)' \subseteq Pending(p) \cup {NlMsgError}
<1>1. inbox[p] \in Seq(Message) /\ Len(inbox[p]) \in Nat
  BY DEF NetTypeOK
<1>2. inbox'[p] = Append(Tail(inbox[p]), NlMsgError) /\ \A q \in Agents \ {p} : inbox'[q] = inbox[q]
  BY DEF PopAndNack, NetTypeOK
<1>3. /\ Tail(inbox[p]) \in Seq(Message)
      /\ Len(Tail(inbox[p])) = Len(inbox[p]) - 1
      /\ \A i \in 1 .. Len(inbox[p]) - 1 : Tail(inbox[p])[i] = inbox[p][i + 1]
  BY <1>1, HeadTailProperties, EmptySeq
<1>4. /\ inbox'[p] \in Seq(Message)
      /\ Len(inbox'[p]) = Len(inbox[p])
      /\ \A i \in 1 .. Len(inbox[p]) - 1 : inbox'[p][i] = inbox[p][i + 1]
      /\ inbox'[p][Len(inbox[p])] = NlMsgError
  BY <1>1, <1>2, <1>3, NackIsMessage, AppendProperties
<1>5. NetTypeOK'
  <2>1. inbox' \in [Agents -> Seq(Message)]
    BY <1>2, <1>4 DEF PopAndNack, NetTypeOK
  <2>2. \A q \in Agents : Len(inbox'[q]) <= RcvBuf
    BY <1>1, <1>2, <1>4, RcvBufAssumption DEF NetTypeOK
  <2>. QED  BY <2>1, <2>2 DEF PopAndNack, NetTypeOK
<1>6. Pending(p)' \subseteq Pending(p) \cup {NlMsgError}
  BY <1>1, <1>4 DEF Pending
<1>. QED  BY <1>2, <1>5, <1>6 DEF OnlyQueue, Pending

(* Mail on the socket of p, or read by p when it is up, leaves the devices *)
(* alone.                                                                  *)
LEMMA MailKeepsDevices ==
  ASSUME DevInv, UNCHANGED devVars, NEW p \in Agents, OnlyQueue(p),
         \A m \in Pending(p)' : m \in Pending(p) \/ m.type \in MailTypes,
         proc[p] = "up" \/ Pending(p) \subseteq Pending(p)'
  PROVE  DevInv'
<1>1. DevTypeOK /\ Inv(p)
  BY DEF DevInv
<1>2. StepOf(p)
  BY <1>1 DEF StepOf, DevTypeOK, OnlyQueue, devVars
<1>3. HandlerInv(p)'
  BY <1>1 DEF Inv, HandlerInv, Owns, Registered, Answered, devVars
<1>4. AgentInv(p)'
  BY <1>1 DEF Inv, AgentInv, Owns, Serves, Registered, devVars
<1>5. QueueInv(p)'
  BY <1>1 DEF Inv, QueueInv, Owns, Serves, Registered, devVars, MailTypes
<1>6. TableInv(p)'
  BY <1>1 DEF Inv, TableInv, Owns, Registered, SemFree, Answered, devVars
<1>. QED  BY <1>2, <1>3, <1>4, <1>5, <1>6, StepKeepsInv DEF Inv

(* A request that is sent to the agent of a ready toot. *)
LEMMA RequestKeepsDevices ==
  ASSUME DevInv, UNCHANGED devVars, NEW p \in Agents, NEW m \in Message, m.type \in MailTypes,
         SendOk(p, m)
  PROVE  DevInv'
<1>1. NetTypeOK
  BY DEF DevInv, DevTypeOK
<1>2. OnlyQueue(p) /\ Pending(p)' = Pending(p) \cup {m}
  BY <1>1, DeliverQueue DEF SendOk
<1>. QED  BY <1>2, MailKeepsDevices

(* An error is queued for an agent. *)
LEMMA NackKeepsDevices ==
  ASSUME DevInv, UNCHANGED devVars, NEW p \in Agents, Nack(p)
  PROVE  DevInv'
<1>1. NetTypeOK
  BY DEF DevInv, DevTypeOK
<1>2. /\ OnlyQueue(p) /\ Pending(p) \subseteq Pending(p)'
      /\ Pending(p)' \subseteq Pending(p) \cup {NlMsgError}
  BY <1>1, NackQueue
<1>. QED  BY <1>2, NackIsMessage, MailKeepsDevices DEF MailTypes

(* An agent takes a message, and its device may refuse it. *)
LEMMA PopKeepsDevices ==
  ASSUME DevInv, UNCHANGED devVars, NEW p \in Agents, proc[p] = "up", inbox[p] # << >>,
         Pop(p) \/ PopAndNack(p)
  PROVE  DevInv'
<1>1. NetTypeOK
  BY DEF DevInv, DevTypeOK
<1>2. OnlyQueue(p) /\ Pending(p)' \subseteq Pending(p) \cup {NlMsgError}
  BY <1>1, PopQueue, PopAndNackQueue
<1>. QED  BY <1>2, NackIsMessage, MailKeepsDevices DEF MailTypes

(* Nothing of the devices changes. *)
LEMMA QuietDevices ==
  ASSUME DevInv, UNCHANGED deviceVars
  PROVE  DevInv'
  BY NextKeepsInv

(* Every step of the module is a step of the device table, or mail. *)
LEMMA NextKeepsDevices ==
  ASSUME ShapeInv, [Next]_vars
  PROVE  DevInv'
<1>. USE DEF ShapeInv
<1>1. ASSUME NEW t \in Threads, CallStep(t) PROVE DevInv'
  <2>1. CASE NewToot(t)
    <3>1. TootReady(MyToot(t)) /\ MyFile(t) \in Files /\ file[MyFile(t)].dev \in DeviceIds
      BY <2>1 DEF NewToot, CallsInv, CallInv, FileInv, OpenSteps, At
    <3>2. NewTootMsg(MyToot(t), file[MyFile(t)].dev) \in Message
          /\ NewTootMsg(MyToot(t), file[MyFile(t)].dev).type \in MailTypes
      BY <3>1, ReadyToot DEF NewTootMsg, Message, Request, MailTypes
    <3>. QED  BY <2>1, <3>1, <3>2, ReadyToot, RequestKeepsDevices DEF NewToot
  <2>2. CASE AddText(t)
    <3>1. TootReady(MyToot(t)) /\ thr[t].elem \in ElementIds
      BY <2>2 DEF AddText, CallsInv, CallInv, ElemSteps, At
    <3>. QED  BY <2>2, <3>1, ReadyToot, RequestsAreMessages, RequestKeepsDevices DEF AddText
  <2>3. CASE UNCHANGED deviceVars
    BY <2>3, QuietDevices
  <2>. QED
    BY <1>1, <2>1, <2>2, <2>3
       DEF CallStep, OtherCallStep, AddToot, AddElement, WriteReturns, AddTootFails,
           NewTootFails, OpenFind, OpenFindFails, OpenReturns, OpenGivesUp, AddElementFails,
           AddTextFails, AddTextNoToot, WriteFind, WriteFindFails, WriteGivesUp, CloseFind,
           CloseFindFails, CloseReturns, RemoveToot, RemovedToot, NothingToRemove
<1>2. ASSUME NEW t \in Threads, UserStep(t) PROVE DevInv'
  <2>1. ASSUME NEW f \in Files, CloseToot(t, f) PROVE DevInv'
    <3>1. PICK g \in TootIds : /\ TootReady(g)
                               /\ SendOk(PidOf(file[f].id), SendTootMsg(file[f].id, DeviceOf(g)))
      BY <2>1 DEF CloseToot
    <3>2. TootReady(file[f].id) /\ UNCHANGED devVars
      BY <2>1 DEF CloseToot
    <3>3. /\ SendTootMsg(file[f].id, DeviceOf(g)) \in Message
          /\ SendTootMsg(file[f].id, DeviceOf(g)).type \in MailTypes
      BY <3>1, <3>2, ReadyToot DEF SendTootMsg, Message, Request, MailTypes
    <3>. QED  BY <3>1, <3>2, <3>3, ReadyToot, RequestKeepsDevices
  <2>2. CASE UNCHANGED deviceVars
    BY <2>2, QuietDevices
  <2>. QED
    BY <1>2, <2>1, <2>2 DEF UserStep, OpenDevice, WriteToot, CloseTootFails, CloseTootLost
<1>3. ASSUME NEW p \in Agents, DeviceStep(p) \/ HandlerStep(p) PROVE DevInv'
  <2>1. CASE DeviceStep(p) \/ MarkDeviceUnready(p) \/ ForgetEmptyDevice(p)
    <3>1. KernelStep(p) \/ AgentStep(p)
      BY <2>1 DEF DeviceStep, MarkDeviceUnready, ForgetEmptyDevice, KernelStep, RemoveStep
    <3>. QED  BY <3>1, NextKeepsInv DEF DevNext
  <2>2. CASE UNCHANGED devVars /\ (Nack(p) \/ UNCHANGED netVars)
    BY <2>2, NackKeepsDevices, QuietDevices DEF deviceVars
  <2>3. CASE UNCHANGED deviceVars
    BY <2>3, QuietDevices
  <2>. QED
    BY <1>3, <2>1, <2>2, <2>3
       DEF HandlerStep, AnswerFind, AnswerTooLate, AnswerSet, AnswerDone, RemoveDeviceToot,
           RemovedDeviceToot, deviceVars
<1>4. ASSUME NEW p \in Agents, AnswerStep(p) PROVE DevInv'
  BY <1>4, PopKeepsDevices
     DEF AnswerStep, AnswerToot, AnswerText, AnswerRefused, CanAnswer, HeadIs
<1>5. CASE UNCHANGED vars
  BY <1>5, QuietDevices DEF vars
<1>. QED  BY <1>1, <1>2, <1>3, <1>4, <1>5 DEF Next

-----------------------------------------------------------------------------
(* Threads and files.  CallsShape is what a step of a thread has to keep.  *)

CallsType == file \in [Files -> File] /\ thr \in [Threads -> Call]
             /\ rm \in [Actors -> Removal \cup {NULL}]

CallsShape == CallsType /\ CallsInv

(* A thread is not an agent, and no value is NULL. *)
LEMMA NoValueIsNull ==
  /\ NULL \notin TootIds /\ NULL \notin DeviceIds /\ NULL \notin ElementIds
  /\ NULL \notin TootObjs /\ NULL \notin Files /\ NULL \notin Agents /\ NULL \notin Element
  /\ \A t \in Threads : t \in Actors /\ t \notin Agents
  /\ \A p \in Agents : p \in Actors /\ p \notin Threads
  BY NullAssumption, BoundsAssumption, MinorAssumption, PoolAssumption, ThreadsAssumption,
     NoElementAssumption
     DEF TootIds, DeviceIds, ElementIds, Actors

(* A call whose file keeps its stage and its id goes on as before. *)
LEMMA OtherCallsKept ==
  ASSUME CallsShape, NEW t \in Threads, CallsType',
         \A u \in Threads \ {t} :
           /\ thr'[u] = thr[u] /\ rm'[u] = rm[u]
           /\ MyFile(u) \in Files =>
                /\ file'[MyFile(u)].stage = file[MyFile(u)].stage
                /\ file'[MyFile(u)].id = file[MyFile(u)].id,
         CallInv(t)', FileInv'
  PROVE  CallsShape'
<1>1. ASSUME NEW u \in Threads \ {t} PROVE CallInv(u)'
  <2>1. CallInv(u) /\ thr'[u] = thr[u] /\ rm'[u] = rm[u]
    BY DEF CallsShape, CallsInv
  <2>2. CASE At(u, "idle")
    BY <2>1, <2>2 DEF CallInv, At, MyFile, OpenSteps, WriteSteps, CloseSteps, ElemSteps
  <2>3. CASE MyFile(u) \in Files
    <3>1. /\ file'[MyFile(u)].stage = file[MyFile(u)].stage
          /\ file'[MyFile(u)].id = file[MyFile(u)].id
      BY <2>3
    <3>. QED  BY <2>1, <3>1 DEF CallInv, At, MyFile, MyToot
  <2>. QED  BY <2>1, <2>2, <2>3 DEF CallInv
<1>. QED  BY <1>1 DEF CallsShape, CallsInv

(* The call goes on to its next step, with the object it waits for. *)
NextStep(t, s) ==
    \/ thr[t].step \in {"newToot", "openFind", "openWait"} /\ s \in {"openFind", "openWait", "removeToot"}
    \/ thr[t].step \in CloseSteps /\ s \in {"closeWait", "removeToot"}
    \/ thr[t].step \in ElemSteps /\ s \in {"writeFind", "writeWait"}

(* A call that goes on to its next step keeps the shape of the calls. *)
LEMMA StepKeepsCalls ==
  ASSUME CallsShape, NEW t \in Threads, NEW s \in ThreadSteps, NextStep(t, s),
         \/ StepTo(t, s)
         \/ \E o \in TootObjs : thr' = [thr EXCEPT ![t].step = s, ![t].obj = o],
         UNCHANGED <<file, rm>>
  PROVE  CallsShape'
<1>1. /\ thr' \in [Threads -> Call]
      /\ thr'[t].step = s /\ thr'[t].file = thr[t].file /\ thr'[t].elem = thr[t].elem
      /\ \A u \in Threads \ {t} : thr'[u] = thr[u]
  BY DEF CallsShape, CallsType, Call, StepTo
<1>2. CallInv(t)'
  BY <1>1 DEF CallsShape, CallsInv, CallInv, NextStep, At, MyFile, MyToot, OpenSteps,
              WriteSteps, CloseSteps, ElemSteps
<1>3. FileInv'
  BY <1>1 DEF CallsShape, CallsInv, FileInv, MyFile
<1>. QED  BY <1>1, <1>2, <1>3, OtherCallsKept DEF CallsShape, CallsType

(* The call returns: nobody else uses a file that is then closed. *)
LEMMA ReturnKeepsCalls ==
  ASSUME CallsShape, NEW t \in Threads, NEW s \in {"open", "closed"}, Return(t, s),
         ~At(t, "idle"), s = "open" => thr[t].step \in WriteSteps \cup {"openWait"},
         s = "closed" => thr[t].step \in {"addToot", "removeToot"},
         rm'[t] = NULL, \A u \in Threads \ {t} : rm'[u] = rm[u],
         rm' \in [Actors -> Removal \cup {NULL}]
  PROVE  CallsShape'
<1>. DEFINE f == MyFile(t)
<1>1. f \in Files /\ f # NULL
  BY NoValueIsNull DEF CallsShape, CallsInv, CallInv
<1>2. /\ thr' \in [Threads -> Call]
      /\ thr'[t] = IdleThread
      /\ \A u \in Threads \ {t} : thr'[u] = thr[u]
  BY DEF CallsShape, CallsType, Call, Return, IdleThread, ThreadSteps
<1>3. /\ file' \in [Files -> File]
      /\ file'[f].stage = s
      /\ s = "open" => file'[f].id = file[f].id /\ file'[f].dev = file[f].dev
      /\ \A g \in Files \ {f} : file'[g] = file[g]
  BY <1>1 DEF CallsShape, CallsType, File, Return, ClosedFile, FileStages
<1>4. ASSUME NEW u \in Threads \ {t}, MyFile(u) = f
      PROVE  s = "open" /\ file[f].stage = "open"
  <2>1. file[f].stage = "open"
    BY <1>1, <1>4 DEF CallsShape, CallsInv, FileInv
  <2>2. s # "closed"
    BY <2>1 DEF CallsShape, CallsInv, CallInv, OpenSteps, At
  <2>. QED  BY <2>1, <2>2
<1>5. CallInv(t)'
  BY <1>2 DEF CallInv, IdleThread, At, MyFile, OpenSteps, WriteSteps, CloseSteps, ElemSteps
<1>6. FileInv'
  <2>1. \A g \in Files : /\ file'[g].stage # "closed" => file'[g].dev \in DeviceIds
                         /\ file'[g].stage \in {"open", "closing"} => file'[g].id \in TootIds
    <3>1. file[f].dev \in DeviceIds /\ (s = "open" => MyToot(t) \in TootIds)
      BY <1>1 DEF CallsShape, CallsInv, CallInv, FileInv, At, OpenSteps, WriteSteps
    <3>. QED  BY <1>3, <3>1 DEF CallsShape, CallsInv, FileInv, MyToot
  <2>2. \A u, v \in Threads : u # v /\ MyFile(u)' # NULL /\ MyFile(v)' = MyFile(u)'
          => file'[MyFile(u)'].stage = "open"
    BY <1>1, <1>2, <1>3, <1>4 DEF CallsShape, CallsInv, CallInv, FileInv, IdleThread, MyFile
  <2>. QED  BY <2>1, <2>2 DEF FileInv
<1>7. \A u \in Threads \ {t} : MyFile(u) \in Files =>
         file'[MyFile(u)].stage = file[MyFile(u)].stage /\ file'[MyFile(u)].id = file[MyFile(u)].id
  BY <1>3, <1>4
<1>8. CallsType'
  BY <1>2, <1>3 DEF CallsType
<1>. QED  BY <1>2, <1>5, <1>6, <1>7, <1>8, OtherCallsKept

(* An idle thread takes a file that no other call uses, to open or close   *)
(* it.                                                                     *)
LEMMA TakeKeepsCalls ==
  ASSUME CallsShape, NEW t \in Threads, NEW f \in Files, NEW s \in ThreadSteps, NEW new \in File,
         At(t, "idle"), \A u \in Threads : MyFile(u) # f,
         thr' = [thr EXCEPT ![t] = [IdleThread EXCEPT !.step = s, !.file = f]],
         file' = [file EXCEPT ![f] = new], UNCHANGED rm,
         new.dev \in DeviceIds,
         \/ s = "addToot" /\ new.stage = "opening"
         \/ s \in {"closeFind", "removeToot"} /\ new.stage = "closing" /\ new.id \in TootIds
  PROVE  CallsShape'
<1>1. /\ thr' \in [Threads -> Call]
      /\ thr'[t].step = s /\ thr'[t].file = f /\ thr'[t].elem = NULL
      /\ \A u \in Threads \ {t} : thr'[u] = thr[u]
  BY DEF CallsShape, CallsType, Call, IdleThread
<1>2. /\ file' \in [Files -> File]
      /\ file'[f] = new
      /\ \A g \in Files \ {f} : file'[g] = file[g]
  BY DEF CallsShape, CallsType
<1>3. CallInv(t)'
  <2>1. rm[t] = NULL /\ rm'[t] = NULL
    BY DEF CallsShape, CallsInv, CallInv, At
  <2>. QED
    BY <1>1, <1>2, <2>1 DEF CallInv, At, MyFile, MyToot, OpenSteps, WriteSteps, CloseSteps, ElemSteps
<1>4. FileInv'
  <2>1. \A g \in Files : /\ file'[g].stage # "closed" => file'[g].dev \in DeviceIds
                         /\ file'[g].stage \in {"open", "closing"} => file'[g].id \in TootIds
    BY <1>2 DEF CallsShape, CallsInv, FileInv
  <2>2. \A u, v \in Threads : u # v /\ MyFile(u)' # NULL /\ MyFile(v)' = MyFile(u)'
          => file'[MyFile(u)'].stage = "open"
    <3>. SUFFICES ASSUME NEW u \in Threads, NEW v \in Threads, u # v, MyFile(u)' # NULL,
                         MyFile(v)' = MyFile(u)'
                  PROVE  file'[MyFile(u)'].stage = "open"
      OBVIOUS
    <3>1. u # t /\ v # t
      BY <1>1 DEF MyFile
    <3>2. MyFile(u)' = MyFile(u) /\ MyFile(v)' = MyFile(v) /\ MyFile(u) \in Files \ {f}
      BY <1>1, <3>1 DEF CallsShape, CallsInv, CallInv, MyFile
    <3>. QED  BY <1>2, <3>2 DEF CallsShape, CallsInv, FileInv
  <2>. QED  BY <2>1, <2>2 DEF FileInv
<1>5. \A u \in Threads \ {t} : MyFile(u) \in Files => file'[MyFile(u)] = file[MyFile(u)]
  BY <1>2
<1>6. CallsType'
  BY <1>1, <1>2 DEF CallsShape, CallsType
<1>. QED  BY <1>1, <1>3, <1>4, <1>5, <1>6, OtherCallsKept

(* No call uses a file that is closed. *)
LEMMA ClosedUnused ==
  ASSUME CallsShape, NEW f \in Files, file[f].stage = "closed", NEW u \in Threads
  PROVE  MyFile(u) # f
<1>. SUFFICES ASSUME MyFile(u) = f PROVE FALSE
  OBVIOUS
<1>1. CallInv(u) /\ thr[u].step \in ThreadSteps /\ MyFile(u) # NULL
  BY NoValueIsNull DEF CallsShape, CallsType, CallsInv, Call
<1>. QED  BY <1>1 DEF CallInv, ThreadSteps, OpenSteps, WriteSteps, CloseSteps, At

(* add_toot gives the file that a call opens its id. *)
LEMMA AddTootKeepsCalls ==
  ASSUME CallsShape, NEW t \in Threads, NEW i \in TootIds, At(t, "addToot"),
         file' = [file EXCEPT ![MyFile(t)].id = i], StepTo(t, "newToot"), UNCHANGED rm
  PROVE  CallsShape'
<1>. DEFINE f == MyFile(t)
<1>1. f \in Files /\ f # NULL /\ file[f].stage = "opening"
  BY NoValueIsNull DEF CallsShape, CallsInv, CallInv, At, OpenSteps
<1>2. /\ thr' \in [Threads -> Call]
      /\ thr'[t].step = "newToot" /\ thr'[t].file = f /\ thr'[t].elem = thr[t].elem
      /\ \A u \in Threads \ {t} : thr'[u] = thr[u]
  BY DEF CallsShape, CallsType, Call, StepTo, ThreadSteps, MyFile
<1>3. /\ file' \in [Files -> File]
      /\ file'[f].stage = "opening" /\ file'[f].id = i /\ file'[f].dev = file[f].dev
      /\ \A g \in Files \ {f} : file'[g] = file[g]
  BY <1>1 DEF CallsShape, CallsType, File
<1>4. \A u \in Threads \ {t} : MyFile(u) # f
  BY <1>1 DEF CallsShape, CallsInv, FileInv
<1>5. CallInv(t)'
  <2>1. rm[t] = NULL /\ rm'[t] = NULL /\ thr[t].elem = NULL
    BY DEF CallsShape, CallsInv, CallInv, At, ElemSteps
  <2>. QED
    BY <1>1, <1>2, <1>3, <2>1
       DEF CallInv, At, MyFile, MyToot, OpenSteps, WriteSteps, CloseSteps, ElemSteps
<1>6. FileInv'
  <2>1. \A g \in Files : /\ file'[g].stage # "closed" => file'[g].dev \in DeviceIds
                         /\ file'[g].stage \in {"open", "closing"} => file'[g].id \in TootIds
    BY <1>1, <1>3 DEF CallsShape, CallsInv, FileInv
  <2>2. \A u \in Threads : MyFile(u)' = MyFile(u)
    BY <1>2 DEF MyFile
  <2>3. \A g \in Files : file'[g].stage = file[g].stage
    BY <1>1, <1>3
  <2>4. \A u \in Threads : MyFile(u) # NULL => MyFile(u) \in Files
    BY DEF CallsShape, CallsInv, CallInv
  <2>. QED  BY <2>1, <2>2, <2>3, <2>4 DEF CallsShape, CallsInv, FileInv
<1>7. \A u \in Threads \ {t} : MyFile(u) \in Files => file'[MyFile(u)] = file[MyFile(u)]
  BY <1>3, <1>4
<1>8. CallsType'
  BY <1>2, <1>3 DEF CallsShape, CallsType
<1>. QED  BY <1>2, <1>5, <1>6, <1>7, <1>8, OtherCallsKept

(* A write begins, and add_element gives it its element. *)
LEMMA WriteKeepsCalls ==
  ASSUME CallsShape, NEW t \in Threads, UNCHANGED <<file, rm>>,
         \/ \E f \in Files :
              /\ At(t, "idle") /\ file[f].stage = "open"
              /\ thr' = [thr EXCEPT ![t] = [IdleThread EXCEPT !.step = "addElement", !.file = f]]
         \/ \E e \in ElementIds :
              /\ At(t, "addElement")
              /\ thr' = [thr EXCEPT ![t].step = "addText", ![t].elem = e]
  PROVE  CallsShape'
<1>1. PICK f \in Files :
        /\ file[f].stage = "open" /\ (MyFile(t) = NULL \/ MyFile(t) = f)
        /\ thr' \in [Threads -> Call] /\ MyFile(t)' = f
        /\ \/ thr'[t].step = "addElement" /\ thr'[t].elem = NULL
           \/ thr'[t].step = "addText" /\ thr'[t].elem \in ElementIds
        /\ \A u \in Threads \ {t} : thr'[u] = thr[u]
  <2>1. CASE At(t, "addElement")
    <3>1. MyFile(t) \in Files /\ file[MyFile(t)].stage = "open"
      BY <2>1 DEF CallsShape, CallsInv, CallInv, At, WriteSteps
    <3>. QED  BY <2>1, <3>1 DEF CallsShape, CallsType, Call, At, ThreadSteps, MyFile
  <2>2. CASE At(t, "idle")
    <3>1. MyFile(t) = NULL
      BY <2>2 DEF CallsShape, CallsInv, CallInv
    <3>2. PICK f \in Files :
            /\ file[f].stage = "open"
            /\ thr' = [thr EXCEPT ![t] = [IdleThread EXCEPT !.step = "addElement", !.file = f]]
      BY <2>2 DEF At
    <3>3. /\ thr' \in [Threads -> Call]
          /\ thr'[t].step = "addElement" /\ thr'[t].elem = NULL /\ thr'[t].file = f
          /\ \A u \in Threads \ {t} : thr'[u] = thr[u]
      BY <3>2 DEF CallsShape, CallsType, Call, IdleThread, ThreadSteps
    <3>. QED  BY <3>1, <3>2, <3>3 DEF MyFile
  <2>. QED  BY <2>1, <2>2
<1>2. rm'[t] = NULL
  BY DEF CallsShape, CallsInv, CallInv, At
<1>3. CallInv(t)'
  BY <1>1, <1>2, NoValueIsNull
     DEF CallsShape, CallsInv, FileInv, CallInv, At, MyFile, MyToot, OpenSteps, WriteSteps,
         CloseSteps, ElemSteps
<1>4. FileInv'
  <2>1. \A u, v \in Threads : u # v /\ MyFile(u)' # NULL /\ MyFile(v)' = MyFile(u)'
          => file[MyFile(u)'].stage = "open"
    <3>. SUFFICES ASSUME NEW u \in Threads, NEW v \in Threads, u # v, MyFile(u)' # NULL,
                         MyFile(v)' = MyFile(u)'
                  PROVE  file[MyFile(u)'].stage = "open"
      OBVIOUS
    <3>1. CASE u = t \/ v = t
      BY <1>1, <3>1
    <3>2. CASE u # t /\ v # t
      <4>1. MyFile(u)' = MyFile(u) /\ MyFile(v)' = MyFile(v)
        BY <1>1, <3>2 DEF MyFile
      <4>. QED  BY <4>1 DEF CallsShape, CallsInv, FileInv
    <3>. QED  BY <3>1, <3>2
  <2>. QED  BY <2>1 DEF CallsShape, CallsInv, FileInv
<1>5. CallsType'
  BY <1>1 DEF CallsShape, CallsType
<1>. QED  BY <1>1, <1>3, <1>4, <1>5, OtherCallsKept

(* remove_toot begins or ends. *)
LEMMA RemovalKeepsCalls ==
  ASSUME CallsShape, NEW a \in Actors, NEW r \in Removal \cup {NULL},
         rm' = [rm EXCEPT ![a] = r], UNCHANGED <<file, thr>>,
         a \in Threads /\ r # NULL => At(a, "removeToot") /\ r.id = MyToot(a)
  PROVE  CallsShape'
<1>1. CallsType' /\ FileInv'
  BY DEF CallsShape, CallsType, CallsInv, FileInv, MyFile
<1>2. ASSUME NEW u \in Threads PROVE CallInv(u)'
  <2>1. CallInv(u) /\ (rm'[u] # rm[u] => u = a /\ rm'[u] = r)
    BY NoValueIsNull DEF CallsShape, CallsType, CallsInv
  <2>. QED  BY <2>1 DEF CallInv, At, MyFile, MyToot
<1>. QED  BY <1>1, <1>2 DEF CallsShape, CallsInv

(* What the threads do keeps the shape of their calls and files. *)
LEMMA CallStepKeepsCalls ==
  ASSUME ShapeInv, NEW t \in Threads, CallStep(t)
  PROVE  CallsShape'
<1>. DEFINE Goes(s) == StepTo(t, s) /\ UNCHANGED <<file, rm>>
<1>. DEFINE Ends(s) == Return(t, s) /\ UNCHANGED rm
<1>1. CallsShape /\ CallInv(t) /\ NULL \in Removal \cup {NULL} /\ t \in Actors
  BY DEF ShapeInv, TypeOK, CallsShape, CallsType, CallsInv, Actors
<1>2. CASE Goes("openFind") /\ At(t, "newToot")
  BY <1>1, <1>2, StepKeepsCalls DEF NextStep, At, ThreadSteps
<1>3. CASE Goes("removeToot")
           /\ thr[t].step \in {"newToot", "openFind", "openWait", "closeFind", "closeWait"}
  BY <1>1, <1>3, StepKeepsCalls DEF NextStep, CloseSteps, ThreadSteps
<1>4. CASE OpenFind(t) \/ CloseFind(t)
  <2>1. toots[MyToot(t)] \in TootObjs
    BY <1>4, ReadyToot DEF OpenFind, CloseFind
  <2>2. \E s \in {"openWait", "closeWait"} :
          /\ NextStep(t, s)
          /\ thr' = [thr EXCEPT ![t].step = s, ![t].obj = toots[MyToot(t)]]
    BY <1>4 DEF OpenFind, CloseFind, NextStep, CloseSteps, At
  <2>3. UNCHANGED <<file, rm>>
    BY <1>4 DEF OpenFind, CloseFind
  <2>. QED  BY <1>1, <2>1, <2>2, <2>3, StepKeepsCalls DEF ThreadSteps
<1>5. CASE \E s \in {"writeFind", "writeWait"} : Goes(s) /\ thr[t].step \in ElemSteps
  BY <1>1, <1>5, StepKeepsCalls DEF NextStep, ThreadSteps
<1>6. CASE Ends("open") /\ thr[t].step \in WriteSteps \cup {"openWait"}
  <2>1. ~At(t, "idle") /\ rm[t] = NULL
    BY <1>1, <1>6 DEF CallInv, At, WriteSteps
  <2>. QED  BY <1>1, <1>6, <2>1, ReturnKeepsCalls DEF CallsShape, CallsType
<1>7. CASE Ends("closed") /\ (At(t, "addToot") \/ (At(t, "removeToot") /\ rm[t] = NULL))
  <2>1. ~At(t, "idle") /\ rm[t] = NULL
    BY <1>1, <1>7 DEF CallInv, At
  <2>. QED  BY <1>1, <1>7, <2>1, ReturnKeepsCalls DEF CallsShape, CallsType, At
<1>8. CASE AddToot(t)
  BY <1>1, <1>8, AddTootKeepsCalls DEF AddToot
<1>9. CASE AddElement(t)
  BY <1>1, <1>9, WriteKeepsCalls DEF AddElement
<1>10. CASE RemoveToot(t)
  <2>1. MyToot(t) \in TootIds
    BY <1>1, <1>10 DEF RemoveToot, CallInv, At
  <2>2. [id |-> MyToot(t), obj |-> toots[MyToot(t)]] \in Removal
    BY <1>10, <2>1 DEF RemoveToot, StartRemove, ShapeInv, TypeOK, Removal
  <2>. QED  BY <1>1, <1>10, <2>2, RemovalKeepsCalls DEF RemoveToot, StartRemove
<1>11. CASE RemovedToot(t)
  <2>1. /\ rm' \in [Actors -> Removal \cup {NULL}]
        /\ rm'[t] = NULL /\ \A u \in Threads \ {t} : rm'[u] = rm[u]
    BY <1>1, <1>11 DEF RemovedToot, FinishRemove, CallsShape, CallsType
  <2>. QED  BY <1>1, <1>11, <2>1, ReturnKeepsCalls DEF RemovedToot, At
<1>. QED
  BY <1>2, <1>3, <1>4, <1>5, <1>6, <1>7, <1>8, <1>9, <1>10, <1>11
     DEF CallStep, OtherCallStep, WriteReturns, AddTootFails, NewToot,
         NewTootFails, OpenFindFails, OpenReturns, OpenGivesUp, AddElementFails, AddText,
         AddTextFails, AddTextNoToot, WriteFind, WriteFindFails, WriteGivesUp,
         CloseFindFails, CloseReturns, NothingToRemove, At, WriteSteps, ElemSteps

(* So do the calls that begin. *)
LEMMA UserStepKeepsCalls ==
  ASSUME ShapeInv, NEW t \in Threads, UserStep(t)
  PROVE  CallsShape'
<1>1. CallsShape
  BY DEF ShapeInv, TypeOK, CallsShape, CallsType
<1>2. PICK f \in Files : \/ \E d \in DeviceIds : OpenDevice(t, f, d)
                         \/ WriteToot(t, f)
                         \/ CloseToot(t, f) \/ CloseTootFails(t, f) \/ CloseTootLost(t, f)
  BY DEF UserStep
<1>3. ASSUME NEW d \in DeviceIds, OpenDevice(t, f, d) PROVE CallsShape'
  <2>1. \A u \in Threads : MyFile(u) # f
    BY <1>1, <1>3, ClosedUnused DEF OpenDevice
  <2>2. [stage |-> "opening", id |-> NULL, dev |-> d] \in File
    BY DEF File, FileStages
  <2>. QED  BY <1>1, <1>3, <2>1, <2>2, TakeKeepsCalls DEF OpenDevice, ThreadSteps
<1>4. CASE WriteToot(t, f)
  BY <1>1, <1>4, WriteKeepsCalls DEF WriteToot
<1>5. CASE CloseToot(t, f) \/ CloseTootFails(t, f)
  <2>. DEFINE new == [file[f] EXCEPT !.stage = "closing"]
  <2>1. PICK s \in {"closeFind", "removeToot"} :
          ClosingAt(t, f, s) /\ StartsClose(t, f) /\ UNCHANGED rm
    BY <1>5 DEF CloseToot, CloseTootFails
  <2>2. file[f].id \in TootIds /\ file[f].dev \in DeviceIds
    BY <1>1, <2>1 DEF StartsClose, CallsShape, CallsInv, FileInv
  <2>3. /\ new \in File /\ new.stage = "closing" /\ new.id = file[f].id /\ new.dev = file[f].dev
        /\ file' = [file EXCEPT ![f] = new]
    BY <1>1, <2>1 DEF CallsShape, CallsType, File, FileStages, ClosingAt, Stage
  <2>. HIDE DEF new
  <2>. QED
    BY <1>1, <2>1, <2>2, <2>3, TakeKeepsCalls DEF ClosingAt, StartsClose, ThreadSteps
<1>6. CASE CloseTootLost(t, f)
  <2>1. /\ file' \in [Files -> File] /\ file'[f] = ClosedFile /\ UNCHANGED <<thr, rm>>
        /\ \A g \in Files \ {f} : file'[g] = file[g]
        /\ \A u \in Threads : MyFile(u) # f
    BY <1>1, <1>6
       DEF CloseTootLost, StartsClose, CallsShape, CallsType, ClosedFile, File, FileStages
  <2>2. CallInv(t)'
    BY <1>1, <1>6, <2>1
       DEF CloseTootLost, StartsClose, CallsShape, CallsInv, CallInv, At, MyFile, OpenSteps,
           WriteSteps, CloseSteps, ElemSteps
  <2>3. FileInv'
    <3>1. \A g \in Files : /\ file'[g].stage # "closed" => file'[g].dev \in DeviceIds
                           /\ file'[g].stage \in {"open", "closing"} => file'[g].id \in TootIds
      BY <1>1, <2>1 DEF CallsShape, CallsInv, FileInv, ClosedFile
    <3>2. \A u \in Threads : MyFile(u) # NULL => MyFile(u) \in Files
      BY <1>1 DEF CallsShape, CallsInv, CallInv
    <3>3. \A u \in Threads : MyFile(u)' = MyFile(u)
      BY <2>1 DEF MyFile
    <3>4. \A u, v \in Threads : u # v /\ MyFile(u) # NULL /\ MyFile(v) = MyFile(u)
            => file'[MyFile(u)].stage = "open"
      BY <1>1, <2>1, <3>2 DEF CallsShape, CallsInv, FileInv
    <3>. QED  BY <3>1, <3>3, <3>4 DEF FileInv
  <2>4. CallsType'
    BY <1>1, <2>1 DEF CallsShape, CallsType
  <2>. QED  BY <1>1, <2>1, <2>2, <2>3, <2>4, OtherCallsKept
<1>. QED  BY <1>2, <1>3, <1>4, <1>5, <1>6

(* So does the module's every step. *)
LEMMA NextKeepsCalls ==
  ASSUME ShapeInv, [Next]_vars
  PROVE  CallsShape'
<1>1. CallsShape
  BY DEF ShapeInv, TypeOK, CallsShape, CallsType
<1>2. CASE UNCHANGED <<file, thr, rm>>
  BY <1>1, <1>2
     DEF CallsShape, CallsType, CallsInv, FileInv, CallInv, At, MyFile, MyToot
<1>3. ASSUME NEW p \in Agents, RemoveDeviceToot(p) PROVE CallsShape'
  <2>1. PICK i \in TootIds : StartRemove(p, i)
    BY <1>3 DEF RemoveDeviceToot
  <2>2. [id |-> i, obj |-> toots[i]] \in Removal
    BY <2>1 DEF StartRemove, ShapeInv, TypeOK, Removal
  <2>. QED
    BY <1>1, <1>3, <2>1, <2>2, NoValueIsNull, RemovalKeepsCalls DEF RemoveDeviceToot, StartRemove
<1>4. ASSUME NEW p \in Agents, RemovedDeviceToot(p) PROVE CallsShape'
  BY <1>1, <1>4, NoValueIsNull, RemovalKeepsCalls DEF RemovedDeviceToot, FinishRemove
<1>. QED
  BY <1>2, <1>3, <1>4, CallStepKeepsCalls, UserStepKeepsCalls
     DEF Next, vars, tootVars, DeviceStep, HandlerStep, AnswerStep, AnswerFind, AnswerTooLate,
         AnswerSet, MarkDeviceUnready, ForgetEmptyDevice, AnswerToot, AnswerText, AnswerRefused

-----------------------------------------------------------------------------
(* What a step may change: its actions, one by one. *)

(* What the call of a thread may do to the tables. *)
TablesChange(t) ==
    \/ UNCHANGED <<toots, toot, elements>>
    \/ RemoveElement(thr[t].elem) /\ UNCHANGED <<toots, toot>>
    \/ AddToot(t) \/ AddElement(t) \/ RemoveToot(t) \/ RemovedToot(t)

(* A call of a thread leaves the devices and the handlers alone. *)
LEMMA CallsChange ==
  ASSUME NEW t \in Threads, CallStep(t) \/ UserStep(t)
  PROVE  UNCHANGED <<devVars, ans, cursor, torn>> /\ TablesChange(t)
<1>. DEFINE Changes == UNCHANGED <<devVars, ans, cursor, torn>> /\ TablesChange(t)
<1>1. ASSUME AddToot(t) \/ AddElement(t) \/ RemoveToot(t) \/ RemovedToot(t) PROVE Changes
  BY <1>1 DEF TablesChange, AddToot, AddElement, RemoveToot, RemovedToot, deviceVars
<1>2. ASSUME AddTextFails(t) \/ WriteFindFails(t) \/ WriteGivesUp(t) PROVE Changes
  BY <1>2 DEF TablesChange, AddTextFails, WriteFindFails, WriteGivesUp, deviceVars
<1>3. ASSUME AddText(t) \/ WriteReturns(t) \/ AddTextNoToot(t) \/ WriteFind(t) PROVE Changes
  BY <1>3 DEF TablesChange, AddText, WriteReturns, AddTextNoToot, WriteFind, deviceVars
<1>4. ASSUME AddTootFails(t) \/ NewToot(t) \/ NewTootFails(t) \/ AddElementFails(t)
      PROVE  Changes
  BY <1>4 DEF TablesChange, AddTootFails, NewToot, NewTootFails, AddElementFails, deviceVars
<1>5. ASSUME OpenFind(t) \/ OpenFindFails(t) \/ OpenReturns(t) \/ OpenGivesUp(t) PROVE Changes
  BY <1>5 DEF TablesChange, OpenFind, OpenFindFails, OpenReturns, OpenGivesUp, deviceVars
<1>6. ASSUME CloseFind(t) \/ CloseFindFails(t) \/ CloseReturns(t) \/ NothingToRemove(t)
      PROVE  Changes
  BY <1>6 DEF TablesChange, CloseFind, CloseFindFails, CloseReturns, NothingToRemove, deviceVars
<1>7. ASSUME CallStep(t) PROVE Changes
  BY <1>1, <1>2, <1>3, <1>4, <1>5, <1>6, <1>7, Zenon DEF CallStep, OtherCallStep
<1>8. ASSUME NEW f, (\E d \in DeviceIds : OpenDevice(t, f, d)) \/ WriteToot(t, f) PROVE Changes
  BY <1>8 DEF TablesChange, OpenDevice, WriteToot, deviceVars
<1>9. ASSUME NEW f, CloseToot(t, f) \/ CloseTootFails(t, f) \/ CloseTootLost(t, f) PROVE Changes
  BY <1>9 DEF TablesChange, CloseToot, CloseTootFails, CloseTootLost, deviceVars
<1>. QED  BY <1>7, <1>8, <1>9, Zenon DEF UserStep

(* What a handler of p may do to the tables, and to what handlers keep. *)
AnswersChange(p) ==
    \/ UNCHANGED <<toots, toot, elements>>
    \/ AnswerSet(p) \/ RemoveDeviceToot(p) \/ RemovedDeviceToot(p)
    \/ \E ok \in BOOLEAN : AnswerText(p, ok)

HandsChange(p) ==
    \/ UNCHANGED <<ans, cursor, torn>>
    \/ \E ok \in BOOLEAN : AnswerToot(p, ok)
    \/ AnswerDone(p) /\ UNCHANGED <<cursor, torn>>
    \/ AnswerFind(p) \/ MarkDeviceUnready(p) \/ RemoveDeviceToot(p) \/ ForgetEmptyDevice(p)

(* Only a handler that removes its device changes the devices. *)
LEMMA HandlersChange ==
  ASSUME NEW p \in Agents, HandlerStep(p) \/ AnswerStep(p)
  PROVE  /\ AnswersChange(p) /\ HandsChange(p)
         /\ UNCHANGED devVars \/ RemoveStep(p)
         /\ UNCHANGED torn \/ MarkDeviceUnready(p)
<1>. DEFINE Devices == UNCHANGED devVars \/ RemoveStep(p)
            Torn    == UNCHANGED torn \/ MarkDeviceUnready(p)
            Changes == AnswersChange(p) /\ HandsChange(p) /\ Devices /\ Torn
<1>1. ASSUME AnswerFind(p) PROVE Changes
  BY <1>1 DEF AnswersChange, HandsChange, AnswerFind, deviceVars
<1>2. ASSUME AnswerTooLate(p) PROVE Changes
  BY <1>2 DEF AnswersChange, HandsChange, AnswerTooLate
<1>3. ASSUME AnswerSet(p) PROVE Changes
  BY <1>3 DEF AnswersChange, HandsChange, AnswerSet
<1>4. ASSUME MarkDeviceUnready(p) PROVE Changes
  BY <1>4 DEF AnswersChange, HandsChange, MarkDeviceUnready, RemoveStep
<1>5. ASSUME RemoveDeviceToot(p) PROVE Changes
  BY <1>5 DEF AnswersChange, HandsChange, RemoveDeviceToot, deviceVars
<1>6. ASSUME RemovedDeviceToot(p) PROVE Changes
  BY <1>6 DEF AnswersChange, HandsChange, RemovedDeviceToot, deviceVars
<1>7. ASSUME ForgetEmptyDevice(p) PROVE Changes
  BY <1>7 DEF AnswersChange, HandsChange, ForgetEmptyDevice, RemoveStep
<1>8. ASSUME NEW ok \in BOOLEAN, AnswerToot(p, ok) PROVE Changes
  BY <1>8 DEF AnswersChange, HandsChange, AnswerToot
<1>9. ASSUME NEW ok \in BOOLEAN, AnswerText(p, ok) PROVE Changes
  BY <1>9 DEF AnswersChange, HandsChange, AnswerText
<1>10. ASSUME AnswerRefused(p) PROVE Changes
  BY <1>10 DEF AnswersChange, HandsChange, AnswerRefused, tootVars
<1>. HIDE DEF Changes
<1>11. Changes
  BY <1>1, <1>2, <1>3, <1>4, <1>5, <1>6, <1>7, <1>8, <1>9, <1>10, Zenon
     DEF HandlerStep, AnswerStep
<1>. QED  BY <1>11 DEF Changes

(* A step is a thread's, a handler's, or leaves files and toots alone. *)
LEMMA StepCases ==
  ASSUME [Next]_vars
  PROVE  \/ \E t \in Threads : CallStep(t) \/ UserStep(t)
         \/ \E p \in Agents : HandlerStep(p) \/ AnswerStep(p)
         \/ UNCHANGED tootVars
<1>1. CASE UNCHANGED vars
  BY <1>1 DEF vars
<1>2. ASSUME NEW p \in Agents, DeviceStep(p) PROVE UNCHANGED tootVars
  BY <1>2 DEF DeviceStep
<1>. QED  BY <1>1, <1>2, Zenon DEF Next

(* It leaves the devices alone, or is a step of one device or its agent. *)
LEMMA DeviceCases ==
  ASSUME [Next]_vars
  PROVE  UNCHANGED devVars \/ \E p \in Agents : KernelStep(p) \/ AgentStep(p)
<1>1. CASE UNCHANGED vars
  BY <1>1 DEF vars, deviceVars
<1>2. ASSUME NEW t \in Threads, CallStep(t) \/ UserStep(t) PROVE UNCHANGED devVars
  BY <1>2, CallsChange
<1>3. ASSUME NEW p \in Agents, DeviceStep(p) PROVE KernelStep(p) \/ AgentStep(p)
  BY <1>3 DEF DeviceStep, KernelStep
<1>4. ASSUME NEW p \in Agents, HandlerStep(p) \/ AnswerStep(p)
      PROVE  UNCHANGED devVars \/ KernelStep(p)
  BY <1>4, HandlersChange DEF KernelStep
<1>. QED  BY <1>1, <1>2, <1>3, <1>4, Zenon DEF Next

(* The promise is void for good. *)
LEMMA TornForGood ==
  ASSUME ShapeInv, [Next]_vars
  PROVE  torn' = torn \/ torn' = TRUE
<1>1. CASE UNCHANGED tootVars
  BY <1>1 DEF tootVars
<1>2. ASSUME NEW t \in Threads, CallStep(t) \/ UserStep(t) PROVE torn' = torn
  BY <1>2, CallsChange
<1>3. ASSUME NEW p \in Agents, HandlerStep(p) \/ AnswerStep(p)
      PROVE  torn' = torn \/ torn' = TRUE
  <2>1. CASE MarkDeviceUnready(p)
    BY <2>1 DEF MarkDeviceUnready, InUse, ShapeInv, TypeOK
  <2>. QED  BY <1>3, <2>1, HandlersChange
<1>. QED  BY <1>1, <1>2, <1>3, StepCases

-----------------------------------------------------------------------------
(* The types of the tables. *)

TablesType ==
    /\ toots \in [TootIds -> TootObjs \cup {NULL}]
    /\ toot \in [TootObjs -> Toot]
    /\ elements \in [ElementIds -> Element \cup {NULL}]
    /\ LiveInv

(* The state of a toot changes only while it lives, and never to "FREE".   *)
LEMMA SetStateKeepsToots ==
  ASSUME TablesType, NEW o \in TootObjs, NEW s \in TootStates \ {"FREE"}, SetState(o, s)
  PROVE  /\ toot' \in [TootObjs -> Toot]
         /\ \A x \in TootObjs : /\ Live(x)' = Live(x)
                                /\ toot'[x].id = toot[x].id /\ toot'[x].dev = toot[x].dev
         /\ \A x \in TootObjs \ {o} : toot'[x] = toot[x]
         /\ LiveInv'
<1>1. CASE Live(o)
  BY <1>1 DEF SetState, TablesType, LiveInv, Live, Toot, TootStates
<1>2. CASE ~Live(o)
  BY <1>2 DEF SetState, TablesType, LiveInv, Live
<1>. QED  BY <1>1, <1>2

(* kfree. *)
LEMMA FreeKeepsToots ==
  ASSUME TablesType, NEW o \in TootObjs, toot' = [toot EXCEPT ![o] = FreeToot]
  PROVE  /\ toot' \in [TootObjs -> Toot] /\ LiveInv'
         /\ ~Live(o)' /\ \A x \in TootObjs \ {o} : toot'[x] = toot[x]
<1>1. FreeToot \in Toot
  BY DEF FreeToot, Toot, TootStates
<1>. QED  BY <1>1 DEF TablesType, LiveInv, Live, FreeToot

(* remove_toot, by whomever. *)
LEMMA RemovalKeepsTables ==
  ASSUME ShapeInv, NEW a \in Actors,
         (\E i \in TootIds : StartRemove(a, i)) \/ FinishRemove(a)
  PROVE  TablesType'
<1>0. TablesType
  BY DEF ShapeInv, TypeOK, TablesType
<1>1. ASSUME NEW i \in TootIds, StartRemove(a, i) PROVE TablesType'
  <2>1. toots[i] \in TootObjs /\ SetState(toots[i], "DESTROYED")
    BY <1>0, <1>1 DEF StartRemove, TablesType
  <2>2. elements' \in [ElementIds -> Element \cup {NULL}]
    BY <1>0, <1>1 DEF StartRemove, ElementsWithout, TablesType
  <2>3. toot' \in [TootObjs -> Toot] /\ LiveInv'
    BY <1>0, <2>1, SetStateKeepsToots DEF TootStates
  <2>. QED  BY <1>0, <1>1, <2>2, <2>3 DEF StartRemove, TablesType
<1>2. CASE FinishRemove(a)
  <2>1. rm[a] \in Removal
    BY <1>2 DEF FinishRemove, ShapeInv, TypeOK
  <2>2. toot' \in [TootObjs -> Toot] /\ LiveInv'
    BY <1>0, <1>2, <2>1, FreeKeepsToots DEF FinishRemove, Removal
  <2>. QED  BY <1>0, <1>2, <2>1, <2>2 DEF FinishRemove, TablesType, Removal
<1>. QED  BY <1>1, <1>2

(* Every step keeps them. *)
LEMMA NextKeepsTables ==
  ASSUME ShapeInv, [Next]_vars
  PROVE  TablesType'
<1>0. TablesType
  BY DEF ShapeInv, TypeOK, TablesType
<1>1. CASE UNCHANGED <<toots, toot, elements>>
  BY <1>0, <1>1 DEF TablesType, LiveInv, Live
<1>2. ASSUME NEW t \in Threads, AddToot(t) PROVE TablesType'
  <2>1. PICK i \in TootIds, o \in TootObjs :
          /\ toots' = [toots EXCEPT ![i] = o]
          /\ toot' = [toot EXCEPT ![o] = [state |-> "OPEN_RESULT_WAIT", id |-> i,
                                         dev |-> file[MyFile(t)].dev]]
    BY <1>2 DEF AddToot
  <2>2. MyFile(t) \in Files /\ file[MyFile(t)].dev \in DeviceIds
    BY <1>2 DEF AddToot, ShapeInv, CallsInv, CallInv, FileInv, At, OpenSteps
  <2>3. [state |-> "OPEN_RESULT_WAIT", id |-> i, dev |-> file[MyFile(t)].dev] \in Toot
    BY <2>2 DEF Toot, TootStates
  <2>. QED  BY <1>0, <1>2, <2>1, <2>2, <2>3 DEF AddToot, TablesType, LiveInv, Live
<1>3. ASSUME NEW t \in Threads, AddElement(t) PROVE TablesType'
  <2>1. MyToot(t) \in TootIds
    BY <1>3 DEF AddElement, ShapeInv, CallsInv, CallInv, At
  <2>2. NewElement(MyToot(t)) \in Element
    BY <2>1 DEF NewElement, Element, ElementStates
  <2>. QED  BY <1>0, <1>3, <2>2 DEF AddElement, TablesType, LiveInv, Live
<1>4. ASSUME NEW t \in Threads, RemoveElement(thr[t].elem), UNCHANGED <<toots, toot>>
      PROVE TablesType'
  BY <1>0, <1>4 DEF RemoveElement, TablesType, LiveInv, Live
<1>5. ASSUME NEW t \in Threads, RemoveToot(t) \/ RemovedToot(t) PROVE TablesType'
  <2>1. MyToot(t) \in TootIds
    BY <1>5 DEF RemoveToot, RemovedToot, ShapeInv, CallsInv, CallInv, At
  <2>. QED  BY <1>5, <2>1, NoValueIsNull, RemovalKeepsTables DEF RemoveToot, RemovedToot
<1>6. ASSUME NEW p \in Agents, RemoveDeviceToot(p) \/ RemovedDeviceToot(p) PROVE TablesType'
  BY <1>6, NoValueIsNull, RemovalKeepsTables DEF RemoveDeviceToot, RemovedDeviceToot
<1>7. ASSUME NEW p \in Agents, AnswerSet(p) PROVE TablesType'
  <2>1. ans[p].obj \in TootObjs
    BY <1>7 DEF AnswerSet, ShapeInv, TypeOK, Answer
  <2>2. AnsweredState(ans[p]) \in TootStates \ {"FREE"}
    BY DEF AnsweredState, TootStates
  <2>3. SetState(ans[p].obj, AnsweredState(ans[p])) /\ UNCHANGED <<toots, elements>>
    BY <1>7 DEF AnswerSet
  <2>4. toot' \in [TootObjs -> Toot] /\ LiveInv'
    BY <1>0, <2>1, <2>2, <2>3, SetStateKeepsToots
  <2>. QED  BY <1>0, <2>3, <2>4 DEF TablesType
<1>8. ASSUME NEW p \in Agents, NEW ok \in BOOLEAN, AnswerText(p, ok) PROVE TablesType'
  <2>1. elements' \in [ElementIds -> Element \cup {NULL}]
    BY <1>0, <1>8 DEF AnswerText, ElementReady, TablesType, Element, ElementStates
  <2>. QED  BY <1>0, <1>8, <2>1 DEF AnswerText, TablesType, LiveInv, Live
<1>9. ASSUME NEW t \in Threads, CallStep(t) \/ UserStep(t) PROVE TablesType'
  BY <1>1, <1>2, <1>3, <1>4, <1>5, <1>9, CallsChange, Zenon DEF TablesChange
<1>10. ASSUME NEW p \in Agents, HandlerStep(p) \/ AnswerStep(p) PROVE TablesType'
  BY <1>1, <1>6, <1>7, <1>8, <1>10, HandlersChange, Zenon DEF AnswersChange
<1>11. CASE UNCHANGED tootVars
  BY <1>1, <1>11 DEF tootVars
<1>. QED  BY <1>9, <1>10, <1>11, StepCases

(* The answers that a handler has in hand, and the cursors, keep theirs.   *)
LEMMA NextKeepsHandlers ==
  ASSUME ShapeInv, [Next]_vars
  PROVE  /\ ans' \in [Agents -> Answer \cup {NULL}]
         /\ cursor' \in [Agents -> 0 .. MaxToots]
         /\ torn' \in BOOLEAN
<1>. USE DEF ShapeInv, TypeOK
<1>1. CASE UNCHANGED <<ans, cursor, torn>>
  BY <1>1
<1>2. ASSUME NEW p \in Agents, NEW ok \in BOOLEAN, AnswerToot(p, ok)
      PROVE  ans' \in [Agents -> Answer \cup {NULL}] /\ UNCHANGED <<cursor, torn>>
  <2>1. Head(inbox[p]).toot \in TootIds
    BY <1>2 DEF AnswerToot, Accepts, AcceptsNew, AcceptsOther, TootReady
  <2>2. Head(inbox[p]).type \in {"NEW_TOOT", "SEND_TOOT"}
    BY <1>2 DEF AnswerToot, CanAnswer, HeadIs
  <2>. QED  BY <1>2, <2>1, <2>2 DEF AnswerToot, Answer
<1>3. ASSUME NEW p \in Agents, AnswerDone(p), UNCHANGED <<cursor, torn>>
      PROVE  ans' \in [Agents -> Answer \cup {NULL}]
  BY <1>3 DEF AnswerDone
<1>4. ASSUME NEW p \in Agents, AnswerFind(p)
      PROVE  ans' \in [Agents -> Answer \cup {NULL}] /\ UNCHANGED <<cursor, torn>>
  <2>1. ans[p] \in Answer /\ toots[ans[p].toot] \in TootObjs
    BY <1>4, ReadyToot DEF AnswerFind
  <2>. QED  BY <1>4, <2>1 DEF AnswerFind, Answer
<1>5. ASSUME NEW p \in Agents, MarkDeviceUnready(p)
      PROVE  torn' \in BOOLEAN /\ UNCHANGED <<ans, cursor>>
  <2>1. InUse(hid[p]) \in BOOLEAN
    BY DEF InUse
  <2>. QED  BY <1>5, <2>1 DEF MarkDeviceUnready
<1>6. ASSUME NEW p \in Agents, RemoveDeviceToot(p) \/ ForgetEmptyDevice(p)
      PROVE  cursor' \in [Agents -> 0 .. MaxToots] /\ UNCHANGED <<ans, torn>>
  BY <1>6, BoundsAssumption DEF RemoveDeviceToot, ForgetEmptyDevice, TootIds
<1>. DEFINE Kept == /\ ans' \in [Agents -> Answer \cup {NULL}]
                    /\ cursor' \in [Agents -> 0 .. MaxToots]
                    /\ torn' \in BOOLEAN
<1>7. ASSUME NEW t \in Threads, CallStep(t) \/ UserStep(t) PROVE Kept
  BY <1>1, <1>7, CallsChange
<1>8. ASSUME NEW p \in Agents, HandlerStep(p) \/ AnswerStep(p) PROVE Kept
  <2>1. ans \in [Agents -> Answer \cup {NULL}] /\ cursor \in [Agents -> 0 .. MaxToots]
        /\ torn \in BOOLEAN
    OBVIOUS
  <2>. QED
    BY <1>1, <1>2, <1>3, <1>4, <1>5, <1>6, <1>8, <2>1, HandlersChange DEF HandsChange
<1>9. CASE UNCHANGED tootVars
  BY <1>1, <1>9 DEF tootVars
<1>. QED  BY <1>7, <1>8, <1>9, StepCases

(* Types, calls, tables and devices: the part of the invariant that holds  *)
(* whether or not a device was torn down under its files.                  *)
LEMMA NextKeepsShape ==
  ASSUME ShapeInv, [Next]_vars
  PROVE  ShapeInv'
  BY NextKeepsDevices, NextKeepsCalls, NextKeepsTables, NextKeepsHandlers
     DEF ShapeInv, TypeOK, DevInv, CallsShape, CallsType, TablesType

(* The module starts with tables and calls in shape. *)
LEMMA InitIsShaped == Init => ShapeInv
<1>. SUFFICES ASSUME Init PROVE ShapeInv
  OBVIOUS
<1>1. DevInv
  BY InitEstablishesInv DEF Init
<1>2. TypeOK
  <2>1. FreeToot \in Toot /\ ClosedFile \in File /\ IdleThread \in Call
    BY DEF FreeToot, ClosedFile, IdleThread, Toot, File, Call, TootStates, FileStages, ThreadSteps
  <2>2. 0 \in 0 .. MaxToots
    BY BoundsAssumption
  <2>. QED  BY <1>1, <2>1, <2>2 DEF DevInv, Init, TypeOK
<1>3. CallsInv
  BY NoValueIsNull
     DEF Init, CallsInv, FileInv, CallInv, ClosedFile, IdleThread, At, MyFile, OpenSteps,
         WriteSteps, CloseSteps, ElemSteps
<1>4. LiveInv
  BY DEF Init, LiveInv, Live, FreeToot
<1>. QED  BY <1>1, <1>2, <1>3, <1>4 DEF ShapeInv

-----------------------------------------------------------------------------
(* The devices and their handlers. *)

HandlerVars(p) == <<proc[p], known[p], hpc[p], hid[p]>>

(* A step of one agent's handler, or of the agent, leaves the others' alone *)
(* and writes to no device of theirs.                                      *)
LEMMA StepIsOwn ==
  ASSUME DevInv, NEW q \in Agents, KernelStep(q) \/ AgentStep(q), NEW p \in Agents \ {q}
  PROVE  /\ UNCHANGED HandlerVars(p)
         /\ \A d \in DeviceIds : Owns(p, d) => dev'[d] = dev[d]
<1>1. hpc[q] # "idle" => Owns(q, hid[q])
  BY DEF DevInv, Inv, HandlerInv
<1>2. UNCHANGED HandlerVars(p)
  BY DEF KernelStep, StoreStep, RemoveStep, AttachDeviceClass, AttachDeviceClassFails,
         ReplyCreated, ReplyCreatedFails, SetDeviceReady, DetachDeviceClass, MarkUnready,
         ForgetDevice, AgentStep, AgentStart, AgentCreated, AgentRefused, AgentReads,
         AgentDestroyed, AgentExit, AddDevice, AddDeviceFails, DestroyDevice,
         DestroyDeviceFails, StartsDestroy, GetHealth, Goto, ProcTo, devVars, HandlerVars,
         DevInv, DevTypeOK
<1>3. ASSUME NEW d \in DeviceIds, Owns(p, d) PROVE dev'[d] = dev[d]
  <2>1. dev[d] # NULL /\ dev[d].pid = p
    BY <1>3 DEF Owns, Registered
  <2>2. hpc[q] # "idle" => hid[q] # d
    BY <1>1, <2>1 DEF Owns
  <2>. QED
    BY <2>1, <2>2
       DEF KernelStep, StoreStep, RemoveStep, AttachDeviceClass, AttachDeviceClassFails,
           ReplyCreated, ReplyCreatedFails, SetDeviceReady, DetachDeviceClass, MarkUnready,
           ForgetDevice, AgentStep, AgentStart, AgentCreated, AgentRefused, AgentReads,
           AgentDestroyed, AgentExit, AddDevice, AddDeviceFails, DestroyDevice,
           DestroyDeviceFails, StartsDestroy, GetHealth, devVars, SetReady, IsNextDeviceId,
           Registered, DevInv, DevTypeOK
<1>. QED  BY <1>2, <1>3

(* No device becomes ready too early. *)
LEMMA NextKeepsUnready ==
  ASSUME ShapeInv, UnreadyInv, [Next]_vars
  PROVE  UnreadyInv'
<1>1. DevInv /\ DevTypeOK
  BY DEF ShapeInv, DevInv
<1>2. CASE UNCHANGED devVars
  BY <1>2 DEF UnreadyInv, devVars
<1>3. ASSUME NEW q \in Agents, KernelStep(q) \/ AgentStep(q) PROVE UnreadyInv'
  <2>. DEFINE Unready(p) ==
         hpc[p] = "toots" \/ (proc[p] = "creating" /\ hpc[p] \in {"reply", "detach", "mark"})
           => ~dev[hid[p]].ready
  <2>1. ASSUME NEW p \in Agents \ {q} PROVE Unready(p)'
    <3>1. hpc[p] # "idle" => Owns(p, hid[p])
      BY <1>1 DEF DevInv, Inv, HandlerInv
    <3>. QED
      BY <1>1, <1>3, <3>1, StepIsOwn DEF UnreadyInv, HandlerVars, Owns
  <2>2. Unready(q)'
    <3>1. HandlerInv(q)
      BY <1>1 DEF DevInv, Inv
    <3>2. CASE AgentStep(q)
      BY <1>1, <3>1, <3>2
         DEF AgentStep, AgentStart, AgentCreated, AgentRefused, AgentReads, AgentDestroyed,
             AgentExit, AddDevice, AddDeviceFails, DestroyDevice, DestroyDeviceFails,
             StartsDestroy, GetHealth, Goto, ProcTo, devVars, HandlerInv, DevTypeOK
    <3>3. CASE KernelStep(q)
      <4>1. hpc[q] # "idle" /\ Owns(q, hid[q]) /\ dev[hid[q]] \in Device
        BY <1>1, <3>1, <3>3
           DEF KernelStep, StoreStep, RemoveStep, AttachDeviceClass, AttachDeviceClassFails,
               ReplyCreated, ReplyCreatedFails, SetDeviceReady, DetachDeviceClass, MarkUnready,
               ForgetDevice, HandlerInv, Owns, Registered, DevTypeOK
      <4>2. hid' = hid
        BY <3>3
           DEF KernelStep, StoreStep, RemoveStep, AttachDeviceClass, AttachDeviceClassFails,
               ReplyCreated, ReplyCreatedFails, SetDeviceReady, DetachDeviceClass, MarkUnready,
               ForgetDevice
      <4>3. Unready(q) /\ (hpc[q] = "attach" => ~dev[hid[q]].ready)
        BY <3>1 DEF UnreadyInv, HandlerInv
      <4>. QED
        BY <1>1, <3>3, <4>1, <4>2, <4>3
           DEF KernelStep, StoreStep, RemoveStep, AttachDeviceClass, AttachDeviceClassFails,
               ReplyCreated, ReplyCreatedFails, SetDeviceReady, DetachDeviceClass, MarkUnready,
               ForgetDevice, Goto, SetReady, DevTypeOK, Owns, Device
    <3>. QED  BY <1>3, <3>2, <3>3
  <2>. QED  BY <2>1, <2>2 DEF UnreadyInv
<1>. QED  BY <1>2, <1>3, DeviceCases

-----------------------------------------------------------------------------
(* Files and their toots, while no device is torn down under its files.    *)

TidyInv ==
    FileOwnsToot /\ TableSound /\ SleepersSafe /\ WriterOwnsElement /\ ElementsHaveToot

(* The toots are where they were; at most their states changed. *)
SameToots ==
    /\ toots' = toots
    /\ \A o \in TootObjs : /\ Live(o)' = Live(o)
                           /\ toot'[o].id = toot[o].id /\ toot'[o].dev = toot[o].dev

(* No file holds an id it did not hold. *)
FewerHeld ==
    \A f \in Files, i \in TootIds : Holds(f, i)' => Holds(f, i) /\ file'[f].dev = file[f].dev

(* Elements are only removed, or answered. *)
FewerElements ==
    \A e \in ElementIds : elements'[e] # NULL =>
        elements[e] # NULL /\ elements'[e].toot = elements[e].toot

(* The element of a write stays with it. *)
WritersKept ==
    \A u \in Threads : thr'[u].elem # NULL =>
        thr'[u].elem = thr[u].elem /\ MyToot(u)' = MyToot(u) /\ elements'[thr[u].elem] # NULL

(* A sleeper sleeps on, or sleeps now on the toot of its file. *)
SleepersKept ==
    \A u \in Threads : At(u, "openWait")' \/ At(u, "closeWait")' =>
        \/ /\ At(u, "openWait") \/ At(u, "closeWait")
           /\ thr'[u].obj = thr[u].obj /\ MyToot(u)' = MyToot(u)
        \/ toots[MyToot(u)'] = thr'[u].obj /\ thr'[u].obj \in TootObjs /\ Live(thr'[u].obj)

(* A file in a call that has an id holds it. *)
LEMMA CallHolds ==
  ASSUME ShapeInv, NEW t \in Threads, thr[t].step \notin {"idle", "addToot"}
  PROVE  /\ MyFile(t) \in Files /\ MyToot(t) \in TootIds /\ Holds(MyFile(t), MyToot(t))
         /\ thr[t].step \in WriteSteps <=> file[MyFile(t)].stage = "open"
<1>1. CallInv(t) /\ thr[t].step \in ThreadSteps
  BY DEF ShapeInv, CallsInv, TypeOK, Call
<1>. QED
  BY <1>1 DEF CallInv, ThreadSteps, At, OpenSteps, WriteSteps, CloseSteps, Holds, MyToot

(* Who waits for an answer waits on a toot of the table. *)
LEMMA SleeperToot ==
  ASSUME ShapeInv, TidyInv, ~torn, NEW t \in Threads, At(t, "openWait") \/ At(t, "closeWait")
  PROVE  /\ MyFile(t) \in Files /\ MyToot(t) \in TootIds /\ Holds(MyFile(t), MyToot(t))
         /\ thr[t].obj = toots[MyToot(t)] /\ thr[t].obj \in TootObjs /\ Live(thr[t].obj)
<1>1. MyFile(t) \in Files /\ MyToot(t) \in TootIds /\ Holds(MyFile(t), MyToot(t))
  BY CallHolds DEF At
<1>2. toots[MyToot(t)] \in TootObjs
  BY <1>1 DEF TidyInv, FileOwnsToot, ShapeInv, TypeOK
<1>. QED  BY <1>1, <1>2 DEF TidyInv, SleepersSafe

(* Steps that neither give out nor take back ids. *)
LEMMA FrameKeepsTidy ==
  ASSUME ShapeInv, TidyInv, ~torn, SameToots, FewerHeld, FewerElements, WritersKept, SleepersKept
  PROVE  TidyInv'
<1>1. FileOwnsToot'
  <2>. SUFFICES ASSUME NEW f \in Files, NEW i \in TootIds, Holds(f, i)'
                PROVE  /\ toots[i] # NULL /\ Live(toots[i])' /\ toot'[toots[i]].dev = file'[f].dev
                       /\ \A g \in Files \ {f} : ~Holds(g, i)'
    BY DEF FileOwnsToot, SameToots
  <2>1. Holds(f, i) /\ file'[f].dev = file[f].dev /\ \A g \in Files : Holds(g, i)' => Holds(g, i)
    BY DEF FewerHeld
  <2>2. toots[i] \in TootObjs /\ Live(toots[i]) /\ toot[toots[i]].dev = file[f].dev
        /\ \A g \in Files \ {f} : ~Holds(g, i)
    BY <2>1 DEF TidyInv, FileOwnsToot, ShapeInv, TypeOK
  <2>. QED  BY <2>1, <2>2, NoValueIsNull DEF SameToots
<1>2. TableSound'
  BY DEF TidyInv, TableSound, SameToots, ShapeInv, TypeOK
<1>3. SleepersSafe'
  <2>. SUFFICES ASSUME NEW u \in Threads, (At(u, "openWait") \/ At(u, "closeWait"))'
                PROVE  (toots[MyToot(u)] = thr[u].obj /\ Live(thr[u].obj))'
    BY DEF SleepersSafe
  <2>1. /\ toots[MyToot(u)'] = thr'[u].obj /\ thr'[u].obj \in TootObjs
        /\ Live(thr'[u].obj)
    BY SleeperToot DEF SleepersKept
  <2>. QED  BY <2>1 DEF SameToots, Live
<1>4. WriterOwnsElement'
  <2>. SUFFICES ASSUME NEW u \in Threads, thr'[u].elem # NULL
                PROVE  /\ elements'[thr'[u].elem] # NULL
                       /\ elements'[thr'[u].elem].toot = MyToot(u)'
                       /\ \A v \in Threads \ {u} : thr'[v].elem # thr'[u].elem
    BY DEF WriterOwnsElement
  <2>1. /\ thr'[u].elem = thr[u].elem /\ MyToot(u)' = MyToot(u) /\ elements'[thr[u].elem] # NULL
        /\ \A v \in Threads : thr'[v].elem # NULL => thr'[v].elem = thr[v].elem
    BY DEF WritersKept
  <2>2. thr[u].elem \in ElementIds
    BY <2>1 DEF ShapeInv, TypeOK, Call
  <2>. QED  BY <2>1, <2>2 DEF TidyInv, WriterOwnsElement, FewerElements
<1>5. ElementsHaveToot'
  BY DEF TidyInv, ElementsHaveToot, FewerElements, SameToots
<1>. QED  BY <1>1, <1>2, <1>3, <1>4, <1>5 DEF TidyInv

(* The toot that is being removed is held by no file, but for the file of  *)
(* the thread that removes it.                                             *)
LEMMA RemovedIsHeld ==
  ASSUME ShapeInv, TidyInv, RemovalInv, ~torn, NEW a \in Actors, rm[a] # NULL,
         NEW f \in Files, Holds(f, rm[a].id)
  PROVE  a \in Threads /\ At(a, "removeToot") /\ f = MyFile(a)
<1>1. rm[a] \in Removal /\ rm[a].id \in TootIds /\ toots[rm[a].id] = rm[a].obj
  BY DEF ShapeInv, TypeOK, Removal, RemovalInv
<1>2. ASSUME a \in Agents PROVE FALSE
  <2>1. hpc[a] = "toots" /\ toot[rm[a].obj].dev = hid[a] /\ ~InUse(hid[a])
    BY <1>2 DEF RemovalInv
  <2>2. toot[rm[a].obj].dev = file[f].dev /\ file[f].stage # "closed"
    BY <1>1 DEF TidyInv, FileOwnsToot, Holds
  <2>. QED  BY <2>1, <2>2 DEF InUse
<1>3. a \in Threads
  BY <1>2 DEF Actors
<1>4. At(a, "removeToot") /\ rm[a].id = MyToot(a)
  BY <1>3 DEF ShapeInv, CallsInv, CallInv
<1>5. MyFile(a) \in Files /\ Holds(MyFile(a), rm[a].id)
  BY <1>3, <1>4, CallHolds DEF At
<1>. QED  BY <1>1, <1>3, <1>4, <1>5 DEF TidyInv, FileOwnsToot

(* No two remove_toot are about one toot. *)
LEMMA RemovedOnce ==
  ASSUME ShapeInv, TidyInv, RemovalInv, ~torn,
         NEW a \in Actors, NEW b \in Actors, a # b, rm[a] # NULL, rm[b] # NULL
  PROVE  rm[a].id # rm[b].id
<1>. SUFFICES ASSUME rm[a].id = rm[b].id PROVE FALSE
  OBVIOUS
<1>1. ASSUME NEW x \in Actors, NEW y \in Actors, rm[x] # NULL, rm[y] # NULL,
             rm[x].id = rm[y].id, x \in Threads, x # y
      PROVE  FALSE
  <2>1. At(x, "removeToot") /\ rm[x].id = MyToot(x)
    BY <1>1 DEF ShapeInv, CallsInv, CallInv
  <2>2. MyFile(x) \in Files /\ Holds(MyFile(x), rm[x].id) /\ file[MyFile(x)].stage # "open"
    BY <1>1, <2>1, CallHolds DEF At, WriteSteps
  <2>3. y \in Threads /\ MyFile(y) = MyFile(x)
    BY <1>1, <2>2, RemovedIsHeld
  <2>. QED  BY <1>1, <2>2, <2>3, NoValueIsNull DEF ShapeInv, CallsInv, FileInv
<1>2. a \in Agents /\ b \in Agents
  BY <1>1 DEF Actors
<1>3. hid[a] = hid[b] /\ hpc[a] = "toots" /\ hpc[b] = "toots"
  BY <1>2 DEF RemovalInv
<1>4. Owns(a, hid[a]) /\ Owns(b, hid[b])
  BY <1>2, <1>3 DEF ShapeInv, DevInv, Inv, HandlerInv
<1>. QED  BY <1>3, <1>4 DEF Owns

(* Steps that begin and end no removal. *)
LEMMA FrameKeepsRemovals ==
  ASSUME ShapeInv, TidyInv, RemovalInv, ~torn, SameToots, FewerElements, UNCHANGED rm,
         \A p \in Agents : rm[p] # NULL => hpc'[p] = hpc[p] /\ hid'[p] = hid[p],
         \A p \in Agents : hpc'[p] = "toots" => ~InUse(hid[p])'
  PROVE  RemovalInv'
<1>1. ASSUME NEW a \in Actors, rm'[a] # NULL
      PROVE  /\ toots'[rm'[a].id] = rm'[a].obj
             /\ \A e \in ElementIds : elements'[e] # NULL => elements'[e].toot # rm'[a].id
  BY <1>1 DEF RemovalInv, SameToots, FewerElements
<1>2. ASSUME NEW p \in Agents
      PROVE  /\ rm'[p] # NULL => hpc'[p] = "toots" /\ toot'[rm'[p].obj].dev = hid'[p]
             /\ hpc'[p] = "toots" => ~InUse(hid[p])'
  <2>1. rm[p] # NULL => rm[p].obj \in TootObjs
    BY NoValueIsNull DEF ShapeInv, TypeOK, Removal
  <2>. QED  BY <2>1 DEF RemovalInv, SameToots
<1>. QED  BY <1>1, <1>2 DEF RemovalInv

(* add_toot takes an id that nothing stands for, and free memory. *)
LEMMA AddTootKeepsTidy ==
  ASSUME ShapeInv, TidyInv, RemovalInv, ~torn, NEW t \in Threads, AddToot(t)
  PROVE  TidyInv' /\ RemovalInv'
<1>. DEFINE f == MyFile(t)
<1>1. PICK i \in TootIds, o \in TootObjs :
        /\ toots[i] = NULL /\ ~Live(o)
        /\ toots' = [toots EXCEPT ![i] = o]
        /\ toot' = [toot EXCEPT ![o] = [state |-> "OPEN_RESULT_WAIT", id |-> i,
                                       dev |-> file[f].dev]]
        /\ file' = [file EXCEPT ![f].id = i]
  BY DEF AddToot, IsNextTootId
<1>2. f \in Files /\ f # NULL /\ file[f].stage = "opening"
  BY NoValueIsNull DEF AddToot, ShapeInv, CallsInv, CallInv, At, OpenSteps
<1>3. \A u \in Threads \ {t} : MyFile(u) # f
  BY <1>2 DEF ShapeInv, CallsInv, FileInv
<1>4. /\ thr'[t].step = "newToot" /\ thr'[t].file = f /\ thr'[t].elem = thr[t].elem
      /\ thr'[t].obj = thr[t].obj
      /\ \A u \in Threads \ {t} : thr'[u] = thr[u]
      /\ UNCHANGED <<deviceVars, elements, rm, torn>>
  BY DEF AddToot, StepTo, ShapeInv, TypeOK, Call, MyFile
<1>5. /\ file'[f].stage = "opening" /\ file'[f].id = i /\ file'[f].dev = file[f].dev
      /\ \A g \in Files \ {f} : file'[g] = file[g]
  BY <1>1, <1>2 DEF ShapeInv, TypeOK, File
<1>6. /\ toots'[i] = o /\ \A j \in TootIds \ {i} : toots'[j] = toots[j] /\ toots[j] # o
      /\ Live(o)' /\ toot'[o].id = i /\ toot'[o].dev = file[f].dev
      /\ \A x \in TootObjs \ {o} : toot'[x] = toot[x]
  BY <1>1, NoValueIsNull DEF ShapeInv, TypeOK, Live, TidyInv, TableSound
<1>7. \A j \in TootIds : toots[j] # NULL => j # i /\ toots[j] \in TootObjs \ {o}
  BY <1>1, <1>6, NoValueIsNull DEF ShapeInv, TypeOK
<1>8. \A u \in Threads \ {t} :
        (MyFile(u)' = MyFile(u) /\ MyToot(u)' = MyToot(u)) \/ At(u, "idle")
  BY <1>3, <1>4, <1>5 DEF ShapeInv, CallsInv, CallInv, MyFile, MyToot
<1>9. FileOwnsToot'
  <2>. SUFFICES ASSUME NEW g \in Files, NEW j \in TootIds, Holds(g, j)'
                PROVE  (/\ toots[j] # NULL /\ Live(toots[j]) /\ toot[toots[j]].dev = file[g].dev
                        /\ \A h \in Files \ {g} : ~Holds(h, j))'
    BY DEF FileOwnsToot
  <2>1. CASE g = f
    <3>1. j = i
      BY <1>5, <2>1 DEF Holds
    <3>2. ASSUME NEW h \in Files \ {f} PROVE ~Holds(h, i)'
      <4>1. ~Holds(h, i)
        BY <1>1 DEF TidyInv, FileOwnsToot
      <4>. QED  BY <1>5, <4>1 DEF Holds
    <3>. QED  BY <1>5, <1>6, <2>1, <3>1, <3>2, NoValueIsNull DEF Live
  <2>2. CASE g # f
    <3>1. Holds(g, j) /\ file'[g] = file[g]
      BY <1>5, <2>2 DEF Holds
    <3>2. /\ toots[j] # NULL /\ Live(toots[j]) /\ toot[toots[j]].dev = file[g].dev
          /\ \A h \in Files \ {g} : ~Holds(h, j)
      BY <3>1 DEF TidyInv, FileOwnsToot
    <3>3. j # i /\ toots'[j] = toots[j] /\ toot'[toots[j]] = toot[toots[j]]
      BY <1>6, <1>7, <3>2
    <3>4. \A h \in Files \ {g} : ~Holds(h, j)'
      BY <1>5, <3>2, <3>3 DEF Holds
    <3>. QED  BY <3>1, <3>2, <3>3, <3>4 DEF Live
  <2>. QED  BY <2>1, <2>2
<1>10. TableSound'
  <2>1. ASSUME NEW j \in TootIds, toots'[j] # NULL PROVE (Live(toots[j]) /\ toot[toots[j]].id = j)'
    BY <1>6, <1>7, <2>1 DEF TidyInv, TableSound, Live
  <2>2. ASSUME NEW x \in TootObjs, Live(x)' PROVE toots'[toot'[x].id] = x
    <3>1. CASE x = o
      BY <1>6, <3>1
    <3>2. CASE x # o
      <4>1. Live(x) /\ toot'[x] = toot[x] /\ toot[x].id \in TootIds
        BY <1>6, <2>2, <3>2 DEF Live, ShapeInv, LiveInv
      <4>2. toots[toot[x].id] = x
        BY <4>1 DEF TidyInv, TableSound
      <4>. QED  BY <1>1, <1>6, <4>1, <4>2, NoValueIsNull
    <3>. QED  BY <3>1, <3>2
  <2>. QED  BY <2>1, <2>2 DEF TableSound
<1>11. SleepersSafe'
  <2>. SUFFICES ASSUME NEW u \in Threads, (At(u, "openWait") \/ At(u, "closeWait"))'
                PROVE  (toots[MyToot(u)] = thr[u].obj /\ Live(thr[u].obj))'
    BY DEF SleepersSafe
  <2>1. u # t /\ thr'[u] = thr[u] /\ (At(u, "openWait") \/ At(u, "closeWait"))
    BY <1>4 DEF At
  <2>2. /\ MyToot(u) \in TootIds /\ toots[MyToot(u)] = thr[u].obj
        /\ thr[u].obj \in TootObjs /\ Live(thr[u].obj) /\ MyToot(u)' = MyToot(u)
    BY <1>8, <2>1, SleeperToot DEF At
  <2>. QED  BY <1>6, <1>7, <2>1, <2>2, NoValueIsNull DEF Live
<1>12. WriterOwnsElement'
  <2>1. \A u \in Threads : thr'[u].elem = thr[u].elem
    BY <1>4
  <2>2. \A u \in Threads : thr[u].elem # NULL => MyToot(u)' = MyToot(u)
    <3>1. thr[t].elem = NULL
      BY DEF AddToot, ShapeInv, CallsInv, CallInv, At, ElemSteps
    <3>2. \A u \in Threads : At(u, "idle") => thr[u].elem = NULL
      BY DEF ShapeInv, CallsInv, CallInv, At, ElemSteps
    <3>. QED  BY <1>8, <3>1, <3>2
  <2>. QED  BY <1>4, <2>1, <2>2 DEF TidyInv, WriterOwnsElement
<1>13. ElementsHaveToot'
  <2>1. \A e \in ElementIds : elements[e] # NULL => elements[e].toot \in TootIds
    BY DEF ShapeInv, TypeOK, Element
  <2>. QED  BY <1>4, <1>6, <2>1, NoValueIsNull DEF TidyInv, ElementsHaveToot
<1>14. RemovalInv'
  <2>1. \A d : InUse(d)' <=> InUse(d)
    BY <1>2, <1>5 DEF InUse
  <2>2. \A a \in Actors : rm[a] # NULL =>
          rm[a].id \in TootIds \ {i} /\ rm[a].obj \in TootObjs \ {o}
    <3>1. \A a \in Actors : rm[a] # NULL => rm[a] \in Removal /\ toots[rm[a].id] = rm[a].obj
      BY DEF ShapeInv, TypeOK, RemovalInv
    <3>. QED  BY <1>7, <3>1, NoValueIsNull DEF Removal
  <2>. QED
    BY <1>4, <1>6, <2>1, <2>2, NoValueIsNull DEF RemovalInv, deviceVars, devVars
<1>. QED  BY <1>9, <1>10, <1>11, <1>12, <1>13, <1>14 DEF TidyInv

(* add_element: the write's element is new, on a toot that nobody removes. *)
LEMMA AddElementKeepsTidy ==
  ASSUME ShapeInv, TidyInv, RemovalInv, ~torn, NEW t \in Threads, AddElement(t)
  PROVE  TidyInv' /\ RemovalInv'
<1>. DEFINE i == MyToot(t)
<1>1. PICK e \in ElementIds :
        /\ elements[e] = NULL
        /\ elements' = [elements EXCEPT ![e] = NewElement(i)]
        /\ thr' = [thr EXCEPT ![t].step = "addText", ![t].elem = e]
  BY DEF AddElement, IsNextElementId
<1>2. UNCHANGED <<deviceVars, toots, toot, file, rm, torn>> /\ toots[i] # NULL /\ At(t, "addElement")
  BY DEF AddElement
<1>3. MyFile(t) \in Files /\ i \in TootIds /\ Holds(MyFile(t), i) /\ file[MyFile(t)].stage = "open"
  BY <1>2, CallHolds DEF At, WriteSteps
<1>4. /\ thr'[t].step = "addText" /\ thr'[t].elem = e /\ thr'[t].file = thr[t].file
      /\ \A u \in Threads \ {t} : thr'[u] = thr[u]
  BY <1>1 DEF ShapeInv, TypeOK, Call
<1>5. /\ elements'[e] = NewElement(i) /\ elements'[e] # NULL /\ elements'[e].toot = i
      /\ \A x \in ElementIds \ {e} : elements'[x] = elements[x]
  <2>1. NewElement(i) \in Element
    BY <1>3 DEF NewElement, Element, ElementStates
  <2>. QED  BY <1>1, <2>1, NoValueIsNull DEF ShapeInv, TypeOK, NewElement
<1>6. \A u \in Threads : MyFile(u)' = MyFile(u) /\ MyToot(u)' = MyToot(u)
  BY <1>2, <1>4 DEF MyFile, MyToot
<1>7. FileOwnsToot' /\ TableSound'
  BY <1>2 DEF TidyInv, FileOwnsToot, TableSound, Holds, Live
<1>8. SleepersSafe'
  BY <1>2, <1>4, <1>6 DEF TidyInv, SleepersSafe, At, Live
<1>9. WriterOwnsElement'
  <2>1. \A u \in Threads : thr[u].elem # NULL => thr[u].elem \in ElementIds \ {e}
    BY <1>1 DEF TidyInv, WriterOwnsElement, ShapeInv, TypeOK, Call
  <2>. QED  BY <1>2, <1>4, <1>5, <1>6, <2>1, NoValueIsNull DEF TidyInv, WriterOwnsElement
<1>10. ElementsHaveToot'
  BY <1>2, <1>5 DEF TidyInv, ElementsHaveToot
<1>11. RemovalInv'
  <2>1. \A a \in Actors : rm[a] # NULL => rm[a].id # i
    <3>. SUFFICES ASSUME NEW a \in Actors, rm[a] # NULL, rm[a].id = i PROVE FALSE
      OBVIOUS
    <3>1. a \in Threads /\ At(a, "removeToot") /\ MyFile(t) = MyFile(a)
      BY <1>3, RemovedIsHeld
    <3>. QED  BY <1>3, <3>1, CallHolds DEF At, WriteSteps
  <2>. QED
    BY <1>2, <1>5, <2>1 DEF RemovalInv, deviceVars, devVars, InUse
<1>. QED  BY <1>7, <1>8, <1>9, <1>10, <1>11 DEF TidyInv

(* remove_toot marks the toot and takes its elements. *)
LEMMA StartRemoveKeepsTidy ==
  ASSUME ShapeInv, TidyInv, RemovalInv, ~torn, NEW a \in Actors, NEW i \in TootIds,
         StartRemove(a, i), UNCHANGED <<deviceVars, file, thr, torn>>,
         a \in Threads => At(a, "removeToot") /\ i = MyToot(a),
         a \in Agents => hpc[a] = "toots" /\ toot[toots[i]].dev = hid[a]
  PROVE  TidyInv' /\ RemovalInv'
<1>1. toots[i] \in TootObjs /\ rm[a] = NULL
  BY DEF StartRemove, ShapeInv, TypeOK
<1>2. SameToots
  <2>1. SetState(toots[i], "DESTROYED") /\ toots' = toots
    BY DEF StartRemove
  <2>2. TablesType
    BY DEF ShapeInv, TypeOK, TablesType
  <2>. QED  BY <1>1, <2>1, <2>2, SetStateKeepsToots DEF SameToots, TootStates
<1>3. /\ rm'[a].id = i /\ rm'[a].obj = toots[i]
      /\ \A b \in Actors \ {a} : rm'[b] = rm[b]
  BY DEF StartRemove, ShapeInv, TypeOK
<1>4. \A e \in ElementIds : /\ elements'[e] # NULL => elements'[e] = elements[e] /\ elements[e].toot # i
                            /\ elements[e] # NULL /\ elements[e].toot # i => elements'[e] = elements[e]
  BY DEF StartRemove, ElementsWithout, ShapeInv, TypeOK
<1>5. FewerElements
  BY <1>4 DEF FewerElements
<1>6. \A u \in Threads : MyToot(u)' = MyToot(u) /\ MyFile(u)' = MyFile(u)
  BY DEF MyToot, MyFile
<1>7. WritersKept
  <2>. SUFFICES ASSUME NEW u \in Threads, thr[u].elem # NULL PROVE elements'[thr[u].elem] # NULL
    BY <1>6 DEF WritersKept
  <2>1. thr[u].step \in ElemSteps
    BY DEF ShapeInv, CallsInv, CallInv
  <2>2. MyFile(u) \in Files /\ MyToot(u) \in TootIds /\ Holds(MyFile(u), MyToot(u))
        /\ file[MyFile(u)].stage = "open"
    BY <2>1, CallHolds DEF ElemSteps, WriteSteps
  <2>3. /\ thr[u].elem \in ElementIds /\ elements[thr[u].elem] # NULL
        /\ elements[thr[u].elem].toot = MyToot(u)
    BY DEF ShapeInv, TypeOK, Call, TidyInv, WriterOwnsElement
  <2>4. ASSUME MyToot(u) = i PROVE FALSE
    <3>1. CASE a \in Threads
      <4>1. MyFile(a) \in Files /\ Holds(MyFile(a), i) /\ file[MyFile(a)].stage # "open"
        BY <3>1, CallHolds DEF At, WriteSteps
      <4>. QED  BY <2>2, <2>4, <4>1 DEF TidyInv, FileOwnsToot
    <3>2. CASE a \in Agents
      <4>1. toot[toots[i]].dev = file[MyFile(u)].dev /\ file[MyFile(u)].stage # "closed"
        BY <2>2, <2>4 DEF TidyInv, FileOwnsToot, Holds
      <4>. QED  BY <2>2, <3>2, <4>1 DEF RemovalInv, InUse
    <3>. QED  BY <3>1, <3>2 DEF Actors
  <2>. QED  BY <1>4, <2>3, <2>4
<1>8. FewerHeld /\ SleepersKept
  BY <1>6 DEF FewerHeld, SleepersKept, Holds, At
<1>9. TidyInv'
  BY <1>2, <1>5, <1>7, <1>8, FrameKeepsTidy
<1>10. RemovalInv'
  <2>1. ASSUME NEW b \in Actors, rm'[b] # NULL
        PROVE  /\ toots'[rm'[b].id] = rm'[b].obj
               /\ \A e \in ElementIds : elements'[e] # NULL => elements'[e].toot # rm'[b].id
    BY <1>2, <1>3, <1>4, <2>1 DEF RemovalInv, SameToots
  <2>2. ASSUME NEW p \in Agents
        PROVE  /\ rm'[p] # NULL => hpc[p] = "toots" /\ toot'[rm'[p].obj].dev = hid[p]
               /\ hpc[p] = "toots" => ~InUse(hid[p])'
    <3>1. p \in Actors /\ (rm[p] # NULL => rm[p].obj \in TootObjs)
      BY NoValueIsNull DEF ShapeInv, TypeOK, Removal
    <3>2. hpc[p] = "toots" => ~InUse(hid[p])'
      BY DEF RemovalInv, InUse, deviceVars, devVars
    <3>3. CASE p = a
      BY <1>1, <1>2, <1>3, <3>2, <3>3 DEF SameToots
    <3>4. CASE p # a
      BY <1>2, <1>3, <3>1, <3>2, <3>4 DEF SameToots, RemovalInv
    <3>. QED  BY <3>3, <3>4
  <2>. QED  BY <2>1, <2>2 DEF RemovalInv, deviceVars, devVars
<1>. QED  BY <1>9, <1>10

(* It takes the id back and frees the memory. *)
LEMMA FinishRemoveKeepsTidy ==
  ASSUME ShapeInv, TidyInv, RemovalInv, ~torn, NEW a \in Actors, FinishRemove(a),
         UNCHANGED <<deviceVars, torn>>,
         IF a \in Threads THEN At(a, "removeToot") /\ Return(a, "closed") ELSE UNCHANGED <<file, thr>>
  PROVE  TidyInv' /\ RemovalInv'
<1>1. PICK i \in TootIds, o \in TootObjs :
        rm[a].id = i /\ rm[a].obj = o /\ toots[i] = o /\ rm[a] # NULL
  BY DEF FinishRemove, ShapeInv, TypeOK, Removal, RemovalInv
<1>2. /\ toots'[i] = NULL /\ \A j \in TootIds \ {i} : toots'[j] = toots[j]
      /\ ~Live(o)' /\ \A x \in TootObjs \ {o} : toot'[x] = toot[x]
      /\ rm'[a] = NULL /\ (\A b \in Actors \ {a} : rm'[b] = rm[b]) /\ elements' = elements
  BY <1>1 DEF FinishRemove, ShapeInv, TypeOK, Live, FreeToot
<1>3. \A j \in TootIds : j # i /\ toots[j] # NULL => toots[j] \in TootObjs \ {o}
  BY <1>1 DEF TidyInv, TableSound, ShapeInv, TypeOK
<1>4. \A g \in Files, j \in TootIds : Holds(g, j)' => Holds(g, j) /\ j # i /\ file'[g] = file[g]
  <2>. SUFFICES ASSUME NEW g \in Files, NEW j \in TootIds, Holds(g, j)'
                PROVE  Holds(g, j) /\ j # i /\ file'[g] = file[g]
    OBVIOUS
  <2>1. CASE a \in Threads
    <3>1. MyFile(a) \in Files
      BY <2>1, CallHolds DEF At
    <3>2. /\ file'[MyFile(a)].stage = "closed"
          /\ \A h \in Files \ {MyFile(a)} : file'[h] = file[h]
      BY <2>1, <3>1 DEF Return, ClosedFile, ShapeInv, TypeOK
    <3>3. g # MyFile(a) /\ file'[g] = file[g] /\ Holds(g, j)
      BY <3>2 DEF Holds
    <3>. QED  BY <1>1, <3>3, RemovedIsHeld
  <2>2. CASE a \notin Threads
    <3>1. file' = file
      BY <2>2
    <3>. QED  BY <1>1, <2>2, <3>1, RemovedIsHeld DEF Holds
  <2>. QED  BY <2>1, <2>2
<1>5. \A u \in Threads : \/ thr'[u] = IdleThread
                         \/ /\ u # a /\ thr'[u] = thr[u]
                            /\ MyFile(u) \in Files => MyToot(u)' = MyToot(u)
  <2>. SUFFICES ASSUME NEW u \in Threads, thr'[u] # IdleThread
                PROVE  /\ u # a /\ thr'[u] = thr[u]
                       /\ MyFile(u) \in Files => MyToot(u)' = MyToot(u)
    OBVIOUS
  <2>1. CASE a \in Threads
    <3>1. u # a /\ thr'[u] = thr[u]
      BY <2>1 DEF Return, ShapeInv, TypeOK
    <3>2. MyFile(a) \in Files /\ file[MyFile(a)].stage # "open"
      BY <2>1, CallHolds DEF At, WriteSteps
    <3>3. MyFile(u) # MyFile(a)
      BY <2>1, <3>1, <3>2, NoValueIsNull DEF ShapeInv, CallsInv, FileInv
    <3>. QED  BY <2>1, <3>1, <3>2, <3>3 DEF Return, ShapeInv, TypeOK, MyFile, MyToot
  <2>2. CASE a \notin Threads
    BY <2>2 DEF MyFile, MyToot
  <2>. QED  BY <2>1, <2>2
<1>6. FileOwnsToot'
  <2>. SUFFICES ASSUME NEW g \in Files, NEW j \in TootIds, Holds(g, j)'
                PROVE  (/\ toots[j] # NULL /\ Live(toots[j]) /\ toot[toots[j]].dev = file[g].dev
                        /\ \A h \in Files \ {g} : ~Holds(h, j))'
    BY DEF FileOwnsToot
  <2>1. /\ j # i /\ file'[g] = file[g]
        /\ toots[j] # NULL /\ Live(toots[j]) /\ toot[toots[j]].dev = file[g].dev
        /\ \A h \in Files \ {g} : ~Holds(h, j)'
    BY <1>4 DEF TidyInv, FileOwnsToot
  <2>. QED  BY <1>2, <1>3, <2>1 DEF Live
<1>7. TableSound'
  <2>1. ASSUME NEW j \in TootIds, toots'[j] # NULL PROVE (Live(toots[j]) /\ toot[toots[j]].id = j)'
    BY <1>2, <1>3, <2>1 DEF TidyInv, TableSound, Live
  <2>2. ASSUME NEW x \in TootObjs, Live(x)' PROVE toots'[toot'[x].id] = x
    <3>1. x # o /\ Live(x) /\ toot'[x] = toot[x] /\ toot[x].id \in TootIds
      BY <1>2, <2>2 DEF Live, ShapeInv, LiveInv
    <3>2. toots[toot[x].id] = x
      BY <3>1 DEF TidyInv, TableSound
    <3>. QED  BY <1>1, <1>2, <3>1, <3>2
  <2>. QED  BY <2>1, <2>2 DEF TableSound
<1>8. SleepersSafe'
  <2>. SUFFICES ASSUME NEW u \in Threads, (At(u, "openWait") \/ At(u, "closeWait"))'
                PROVE  (toots[MyToot(u)] = thr[u].obj /\ Live(thr[u].obj))'
    BY DEF SleepersSafe
  <2>1. /\ u # a /\ thr'[u] = thr[u]
        /\ MyFile(u) \in Files => MyToot(u)' = MyToot(u)
    BY <1>5 DEF At, IdleThread
  <2>2. /\ MyFile(u) \in Files /\ MyToot(u) \in TootIds /\ Holds(MyFile(u), MyToot(u))
        /\ thr[u].obj = toots[MyToot(u)] /\ thr[u].obj \in TootObjs /\ Live(thr[u].obj)
        /\ At(u, "openWait") \/ At(u, "closeWait")
    BY <2>1, SleeperToot DEF At
  <2>3. MyToot(u) # i
    BY <1>1, <2>2, <2>1, RemovedIsHeld, NoValueIsNull DEF ShapeInv, CallsInv, FileInv, At, Actors,
       CallInv, OpenSteps, CloseSteps
  <2>. QED  BY <1>2, <1>3, <2>1, <2>2, <2>3, NoValueIsNull DEF Live
<1>9. WriterOwnsElement'
  <2>1. \A u \in Threads : thr[u].elem # NULL => MyFile(u) \in Files
    BY CallHolds DEF ShapeInv, CallsInv, CallInv, ElemSteps
  <2>2. \A u \in Threads : thr'[u].elem # NULL => thr'[u] = thr[u] /\ MyToot(u)' = MyToot(u)
    BY <1>5, <2>1 DEF IdleThread
  <2>3. \A u \in Threads : thr'[u].elem = NULL \/ thr'[u].elem = thr[u].elem
    BY <2>2
  <2>. QED  BY <1>2, <2>2, <2>3 DEF TidyInv, WriterOwnsElement
<1>10. ElementsHaveToot'
  <2>1. \A e \in ElementIds : elements[e] # NULL => elements[e].toot \in TootIds \ {i}
    BY <1>1 DEF ShapeInv, TypeOK, Element, RemovalInv
  <2>. QED  BY <1>2, <2>1 DEF TidyInv, ElementsHaveToot
<1>11. RemovalInv'
  <2>1. ASSUME NEW b \in Actors, rm'[b] # NULL
        PROVE  /\ rm'[b] = rm[b] /\ rm[b].obj \in TootObjs \ {o} /\ b # a
               /\ toots'[rm[b].id] = rm[b].obj
               /\ \A e \in ElementIds : elements[e] # NULL => elements[e].toot # rm[b].id
    <3>1. rm'[b] = rm[b] /\ b # a /\ rm[b] \in Removal
      BY <1>2, <2>1 DEF ShapeInv, TypeOK
    <3>2. rm[b].id # i /\ rm[b].id \in TootIds
      BY <1>1, <2>1, <3>1, RemovedOnce DEF Removal
    <3>3. toots[rm[b].id] = rm[b].obj /\ rm[b].obj # NULL
      BY <2>1, <3>1, NoValueIsNull DEF RemovalInv, Removal
    <3>. QED  BY <1>2, <1>3, <2>1, <3>1, <3>2, <3>3 DEF RemovalInv
  <2>2. \A d : InUse(d)' => InUse(d)
    <3>1. \A g \in Files : file'[g].stage # "closed" => file'[g] = file[g]
      <4>1. CASE a \in Threads
        <5>1. MyFile(a) \in Files
          BY <4>1, CallHolds DEF At
        <5>. QED  BY <4>1, <5>1 DEF Return, ClosedFile, ShapeInv, TypeOK
      <4>. QED  BY <4>1
    <3>. QED  BY <3>1 DEF InUse
  <2>3. ASSUME NEW p \in Agents
        PROVE  /\ rm'[p] # NULL => hpc[p] = "toots" /\ toot'[rm'[p].obj].dev = hid[p]
               /\ hpc[p] = "toots" => ~InUse(hid[p])'
    <3>1. p \in Actors
      BY NoValueIsNull
    <3>2. hpc[p] = "toots" => ~InUse(hid[p])'
      <4>1. hid' = hid
        BY DEF deviceVars, devVars
      <4>. QED  BY <4>1, <2>2 DEF RemovalInv, InUse
    <3>. QED  BY <1>2, <2>1, <3>1, <3>2 DEF RemovalInv
  <2>. QED  BY <1>2, <2>1, <2>3 DEF RemovalInv, deviceVars, devVars
<1>. QED  BY <1>6, <1>7, <1>8, <1>9, <1>10, <1>11 DEF TidyInv

(* Steps of a thread that do nothing to the toots. *)
LEMMA FrameKeepsOwn ==
  ASSUME ShapeInv, TidyInv, RemovalInv, ~torn,
         UNCHANGED <<devVars, toots, toot, rm>>,
         FewerHeld, FewerElements, WritersKept, SleepersKept, \A d : InUse(d)' => InUse(d)
  PROVE  TidyInv' /\ RemovalInv'
<1>1. SameToots
  BY DEF SameToots, Live
<1>2. \A p \in Agents : hpc'[p] = "toots" => ~InUse(hid[p])'
  BY DEF RemovalInv, InUse, devVars
<1>. QED  BY <1>1, <1>2, FrameKeepsTidy, FrameKeepsRemovals DEF devVars

(* The call goes on, perhaps to sleep on its toot. *)
LEMMA StepKeepsTidy ==
  ASSUME ShapeInv, TidyInv, RemovalInv, ~torn, NEW t \in Threads, NEW s \in ThreadSteps,
         UNCHANGED <<devVars, toots, toot, elements, file, rm>>,
         \/ StepTo(t, s) /\ s \notin {"openWait", "closeWait"}
         \/ /\ thr' = [thr EXCEPT ![t].step = s, ![t].obj = toots[MyToot(t)]]
            /\ TootReady(MyToot(t))
         \/ /\ \E g : thr' = [thr EXCEPT ![t] = [IdleThread EXCEPT !.step = s, !.file = g]]
            /\ s \notin {"openWait", "closeWait"}
  PROVE  TidyInv' /\ RemovalInv'
<1>1. /\ \A u \in Threads \ {t} : thr'[u] = thr[u]
      /\ thr'[t].step = s
      /\ \/ thr'[t].elem = NULL
         \/ thr'[t].elem = thr[t].elem /\ thr'[t].file = thr[t].file
  <2>1. thr \in [Threads -> Call]
    BY DEF ShapeInv, TypeOK
  <2>2. ASSUME \/ StepTo(t, s)
               \/ thr' = [thr EXCEPT ![t].step = s, ![t].obj = toots[MyToot(t)]]
        PROVE  /\ \A u \in Threads \ {t} : thr'[u] = thr[u]
               /\ thr'[t].step = s /\ thr'[t].elem = thr[t].elem /\ thr'[t].file = thr[t].file
    <3>1. thr[t] \in Call
      BY <2>1
    <3>2. ASSUME NEW c, thr' = [thr EXCEPT ![t] = c]
          PROVE  thr'[t] = c /\ \A u \in Threads \ {t} : thr'[u] = thr[u]
      BY <2>1, <3>2
    <3>3. CASE StepTo(t, s)
      <4>. DEFINE c == [thr[t] EXCEPT !.step = s]
      <4>1. c.step = s /\ c.elem = thr[t].elem /\ c.file = thr[t].file
        BY <3>1 DEF Call
      <4>2. thr' = [thr EXCEPT ![t] = c]
        BY <3>3 DEF StepTo
      <4>. HIDE DEF c
      <4>. QED  BY <3>2, <4>1, <4>2, Zenon
    <3>4. CASE thr' = [thr EXCEPT ![t].step = s, ![t].obj = toots[MyToot(t)]]
      <4>. DEFINE c == [thr[t] EXCEPT !.step = s, !.obj = toots[MyToot(t)]]
      <4>1. c.step = s /\ c.elem = thr[t].elem /\ c.file = thr[t].file
        BY <3>1 DEF Call
      <4>2. thr' = [thr EXCEPT ![t] = c]
        BY <2>1, <3>4
      <4>. HIDE DEF c
      <4>. QED  BY <3>2, <4>1, <4>2, Zenon
    <3>. QED  BY <2>2, <3>3, <3>4
  <2>3. ASSUME NEW g, thr' = [thr EXCEPT ![t] = [IdleThread EXCEPT !.step = s, !.file = g]]
        PROVE  thr'[t].step = s /\ thr'[t].elem = NULL /\ \A u \in Threads \ {t} : thr'[u] = thr[u]
    BY <2>1, <2>3 DEF IdleThread
  <2>. QED  BY <2>2, <2>3
<1>2. FewerHeld /\ FewerElements /\ (\A d : InUse(d)' => InUse(d))
  BY DEF FewerHeld, FewerElements, Holds, InUse
<1>3. WritersKept
  BY <1>1 DEF WritersKept, MyFile, MyToot, TidyInv, WriterOwnsElement
<1>4. s \in {"openWait", "closeWait"} =>
        /\ toots[MyToot(t)'] = thr'[t].obj /\ thr'[t].obj \in TootObjs /\ Live(thr'[t].obj)
  <2>. SUFFICES ASSUME s \in {"openWait", "closeWait"}
                PROVE  /\ toots[MyToot(t)'] = thr'[t].obj /\ thr'[t].obj \in TootObjs
                       /\ Live(thr'[t].obj)
    OBVIOUS
  <2>1. /\ thr' = [thr EXCEPT ![t].step = s, ![t].obj = toots[MyToot(t)]]
        /\ toots[MyToot(t)] \in TootObjs /\ Live(toots[MyToot(t)])
    BY ReadyToot
  <2>2. thr'[t].obj = toots[MyToot(t)] /\ thr'[t].file = thr[t].file
    BY <2>1 DEF ShapeInv, TypeOK, Call
  <2>. QED  BY <2>1, <2>2 DEF MyToot, MyFile
<1>5. SleepersKept
  BY <1>1, <1>4 DEF SleepersKept, At, MyToot, MyFile
<1>. QED  BY <1>2, <1>3, <1>5, FrameKeepsOwn

(* The call returns, perhaps with its element removed. *)
LEMMA ReturnKeepsTidy ==
  ASSUME ShapeInv, TidyInv, RemovalInv, ~torn, NEW t \in Threads, NEW s \in {"open", "closed"},
         Return(t, s), UNCHANGED <<devVars, toots, toot, rm>>,
         s = "open" => thr[t].step \in WriteSteps \cup {"openWait"},
         s = "closed" => thr[t].step \in {"addToot", "removeToot"},
         UNCHANGED elements \/ (thr[t].step \in ElemSteps /\ RemoveElement(thr[t].elem))
  PROVE  TidyInv' /\ RemovalInv'
<1>. DEFINE f == MyFile(t)
<1>1. f \in Files /\ f # NULL /\ file[f].stage # "closed" /\ (file[f].stage = "open" => s = "open")
  BY NoValueIsNull
     DEF ShapeInv, CallsInv, CallInv, At, OpenSteps, WriteSteps, CloseSteps
<1>2. /\ thr'[t] = IdleThread
      /\ \A u \in Threads \ {t} : thr'[u] = thr[u]
  BY DEF Return, ShapeInv, TypeOK
<1>3. /\ \A g \in Files \ {f} : file'[g] = file[g]
      /\ file'[f].stage = s
      /\ s = "open" => file'[f].id = file[f].id /\ file'[f].dev = file[f].dev
  BY <1>1 DEF Return, ClosedFile, ShapeInv, TypeOK, File
<1>4. FewerHeld /\ \A d : InUse(d)' => InUse(d)
  BY <1>1, <1>3 DEF FewerHeld, Holds, InUse
<1>5. FewerElements
  BY DEF FewerElements, RemoveElement, ShapeInv, TypeOK
<1>6. \A u \in Threads \ {t} : MyFile(u) \in Files => MyToot(u)' = MyToot(u)
  <2>. SUFFICES ASSUME NEW u \in Threads \ {t}, MyFile(u) \in Files PROVE MyToot(u)' = MyToot(u)
    OBVIOUS
  <2>1. MyFile(u) = f => s = "open"
    BY <1>1 DEF ShapeInv, CallsInv, FileInv
  <2>. QED  BY <1>2, <1>3, <2>1 DEF MyToot, MyFile
<1>7. WritersKept
  <2>. SUFFICES ASSUME NEW u \in Threads, thr'[u].elem # NULL
                PROVE  /\ thr'[u].elem = thr[u].elem /\ MyToot(u)' = MyToot(u)
                       /\ elements'[thr[u].elem] # NULL
    BY DEF WritersKept
  <2>1. u # t /\ thr'[u] = thr[u]
    BY <1>2 DEF IdleThread
  <2>2. MyFile(u) \in Files
    BY <2>1, CallHolds DEF ShapeInv, CallsInv, CallInv, ElemSteps
  <2>3. elements[thr[u].elem] # NULL /\ thr[u].elem \in ElementIds /\ thr[t].elem # thr[u].elem
    BY <2>1 DEF TidyInv, WriterOwnsElement, ShapeInv, TypeOK, Call
  <2>. QED  BY <1>6, <2>1, <2>2, <2>3 DEF RemoveElement, ShapeInv, TypeOK
<1>8. SleepersKept
  <2>. SUFFICES ASSUME NEW u \in Threads, At(u, "openWait")' \/ At(u, "closeWait")'
                PROVE  /\ At(u, "openWait") \/ At(u, "closeWait")
                       /\ thr'[u].obj = thr[u].obj /\ MyToot(u)' = MyToot(u)
    BY DEF SleepersKept
  <2>1. u # t /\ thr'[u] = thr[u] /\ (At(u, "openWait") \/ At(u, "closeWait"))
    BY <1>2 DEF IdleThread, At
  <2>. QED  BY <1>6, <2>1, SleeperToot
<1>. QED  BY <1>4, <1>5, <1>7, <1>8, FrameKeepsOwn

(* An idle thread takes a file, to open or close it. *)
LEMMA TakeKeepsTidy ==
  ASSUME ShapeInv, TidyInv, RemovalInv, ~torn, NEW t \in Threads, NEW f \in Files,
         NEW new, At(t, "idle"), \A u \in Threads : MyFile(u) # f,
         file' = [file EXCEPT ![f] = new], UNCHANGED <<devVars, toots, toot, elements, rm>>,
         \/ thr' = thr
         \/ \E s \in {"addToot", "closeFind", "removeToot"} :
              thr' = [thr EXCEPT ![t] = [IdleThread EXCEPT !.step = s, !.file = f]],
         \/ new.stage = "closed"
         \/ new.stage = "opening" /\ new.id = NULL /\ Ready(new.dev)
         \/ file[f].stage # "closed" /\ new.dev = file[f].dev /\ new.id = file[f].id,
         UnreadyInv
  PROVE  TidyInv' /\ RemovalInv'
<1>1. /\ \A u \in Threads \ {t} : thr'[u] = thr[u]
      /\ ~At(t, "openWait")' /\ ~At(t, "closeWait")' /\ thr'[t].elem = NULL
  <2>1. thr[t].elem = NULL
    BY DEF ShapeInv, CallsInv, CallInv, At, ElemSteps
  <2>2. thr \in [Threads -> Call]
    BY DEF ShapeInv, TypeOK
  <2>3. CASE thr' = thr
    BY <2>1, <2>3 DEF At
  <2>4. ASSUME NEW s \in {"addToot", "closeFind", "removeToot"},
               thr' = [thr EXCEPT ![t] = [IdleThread EXCEPT !.step = s, !.file = f]]
        PROVE  /\ thr'[t].step = s /\ thr'[t].elem = NULL
               /\ \A u \in Threads \ {t} : thr'[u] = thr[u]
    BY <2>2, <2>4 DEF IdleThread
  <2>. QED  BY <2>3, <2>4 DEF At
<1>2. file'[f] = new /\ \A g \in Files \ {f} : file'[g] = file[g]
  BY DEF ShapeInv, TypeOK
<1>3. FewerHeld
  BY <1>2, NoValueIsNull DEF FewerHeld, Holds
<1>4. FewerElements
  BY DEF FewerElements
<1>5. \A u \in Threads \ {t} : MyFile(u) \in Files => MyToot(u)' = MyToot(u)
  BY <1>1, <1>2 DEF MyToot, MyFile
<1>6. WritersKept
  <2>. SUFFICES ASSUME NEW u \in Threads, thr'[u].elem # NULL
                PROVE  /\ thr'[u].elem = thr[u].elem /\ MyToot(u)' = MyToot(u)
                       /\ elements'[thr[u].elem] # NULL
    BY DEF WritersKept
  <2>1. u # t /\ thr'[u] = thr[u]
    BY <1>1
  <2>2. MyFile(u) \in Files
    BY <2>1, CallHolds DEF ShapeInv, CallsInv, CallInv, ElemSteps
  <2>. QED  BY <1>5, <2>1, <2>2 DEF TidyInv, WriterOwnsElement
<1>7. SleepersKept
  <2>. SUFFICES ASSUME NEW u \in Threads, At(u, "openWait")' \/ At(u, "closeWait")'
                PROVE  /\ At(u, "openWait") \/ At(u, "closeWait")
                       /\ thr'[u].obj = thr[u].obj /\ MyToot(u)' = MyToot(u)
    BY DEF SleepersKept
  <2>1. u # t /\ thr'[u] = thr[u] /\ (At(u, "openWait") \/ At(u, "closeWait"))
    BY <1>1 DEF At
  <2>. QED  BY <1>5, <2>1, SleeperToot
<1>8. SameToots
  BY DEF SameToots, Live
<1>9. ASSUME NEW p \in Agents, hpc[p] = "toots" PROVE ~InUse(hid[p])'
  <2>1. ~InUse(hid[p]) /\ ~dev[hid[p]].ready /\ hid' = hid
    BY <1>9 DEF RemovalInv, UnreadyInv, devVars
  <2>. QED  BY <1>2, <2>1 DEF InUse, Ready
<1>10. TidyInv'
  BY <1>3, <1>4, <1>6, <1>7, <1>8, FrameKeepsTidy
<1>11. RemovalInv'
  BY <1>4, <1>8, <1>9, FrameKeepsRemovals DEF devVars
<1>. QED  BY <1>10, <1>11

(* Every step of a system call keeps files and toots together. *)
LEMMA CallStepKeepsTidy ==
  ASSUME ShapeInv, TidyInv, RemovalInv, ~torn, NEW t \in Threads, CallStep(t)
  PROVE  TidyInv' /\ RemovalInv'
<1>. DEFINE Goes(s) == StepTo(t, s) /\ UNCHANGED <<devVars, toots, toot, elements, file, rm>>
<1>. DEFINE Ends(s) == Return(t, s) /\ UNCHANGED <<devVars, toots, toot, rm>>
<1>1. CASE \E s \in {"openFind", "writeFind", "writeWait", "removeToot"} : Goes(s)
  BY <1>1, StepKeepsTidy DEF ThreadSteps
<1>2. CASE OpenFind(t)
  BY <1>2, StepKeepsTidy DEF OpenFind, ThreadSteps, deviceVars
<1>3. CASE CloseFind(t)
  BY <1>3, StepKeepsTidy DEF CloseFind, ThreadSteps, deviceVars
<1>4. CASE /\ Ends("open") /\ thr[t].step \in WriteSteps \cup {"openWait"}
           /\ UNCHANGED elements \/ (thr[t].step \in ElemSteps /\ RemoveElement(thr[t].elem))
  BY <1>4, ReturnKeepsTidy
<1>5. CASE Ends("closed") /\ thr[t].step \in {"addToot", "removeToot"} /\ UNCHANGED elements
  BY <1>5, ReturnKeepsTidy
<1>6. CASE AddToot(t)
  BY <1>6, AddTootKeepsTidy
<1>7. CASE AddElement(t)
  BY <1>7, AddElementKeepsTidy
<1>8. CASE RemoveToot(t)
  <2>1. MyToot(t) \in TootIds
    BY <1>8, CallHolds DEF RemoveToot, At
  <2>. QED  BY <1>8, <2>1, NoValueIsNull, StartRemoveKeepsTidy DEF RemoveToot
<1>9. CASE RemovedToot(t)
  BY <1>9, NoValueIsNull, FinishRemoveKeepsTidy DEF RemovedToot
<1>. QED
  BY <1>1, <1>2, <1>3, <1>4, <1>5, <1>6, <1>7, <1>8, <1>9
     DEF CallStep, OtherCallStep, WriteReturns, AddTootFails, NewToot,
         NewTootFails, OpenFindFails, OpenReturns, OpenGivesUp, AddElementFails, AddText,
         AddTextFails, AddTextNoToot, WriteFind, WriteFindFails, WriteGivesUp,
         CloseFindFails, CloseReturns, NothingToRemove, At, WriteSteps, ElemSteps, deviceVars

(* So does every call that begins. *)
LEMMA UserStepKeepsTidy ==
  ASSUME ShapeInv, UnreadyInv, TidyInv, RemovalInv, ~torn, NEW t \in Threads, UserStep(t)
  PROVE  TidyInv' /\ RemovalInv'
<1>1. CallsShape
  BY DEF ShapeInv, TypeOK, CallsShape, CallsType
<1>2. PICK f \in Files : \/ \E d \in DeviceIds : OpenDevice(t, f, d)
                         \/ WriteToot(t, f)
                         \/ CloseToot(t, f) \/ CloseTootFails(t, f) \/ CloseTootLost(t, f)
  BY DEF UserStep
<1>3. ASSUME NEW d \in DeviceIds, OpenDevice(t, f, d) PROVE TidyInv' /\ RemovalInv'
  <2>1. \A u \in Threads : MyFile(u) # f
    BY <1>1, <1>3, ClosedUnused DEF OpenDevice
  <2>. DEFINE new == [stage |-> "opening", id |-> NULL, dev |-> d]
  <2>2. new.stage = "opening" /\ new.id = NULL /\ Ready(new.dev)
    BY <1>3 DEF OpenDevice
  <2>3. file' = [file EXCEPT ![f] = new]
    BY <1>3 DEF OpenDevice
  <2>. HIDE DEF new
  <2>. QED  BY <1>3, <2>1, <2>2, <2>3, TakeKeepsTidy DEF OpenDevice, deviceVars
<1>4. CASE WriteToot(t, f)
  BY <1>4, StepKeepsTidy DEF WriteToot, ThreadSteps, deviceVars
<1>5. CASE CloseToot(t, f) \/ CloseTootFails(t, f)
  <2>. DEFINE new == [file[f] EXCEPT !.stage = "closing"]
  <2>1. PICK s \in {"closeFind", "removeToot"} :
          /\ ClosingAt(t, f, s) /\ StartsClose(t, f)
          /\ UNCHANGED <<devVars, toots, toot, elements, rm>>
    BY <1>5 DEF CloseToot, CloseTootFails, deviceVars
  <2>2. file' = [file EXCEPT ![f] = new] /\ new.id = file[f].id /\ new.dev = file[f].dev
    BY <2>1 DEF ClosingAt, Stage, ShapeInv, TypeOK, File
  <2>3. file[f].stage # "closed"
    BY <2>1 DEF StartsClose
  <2>. HIDE DEF new
  <2>. QED  BY <2>1, <2>2, <2>3, TakeKeepsTidy DEF ClosingAt, StartsClose
<1>6. CASE CloseTootLost(t, f)
  <2>1. ClosedFile.stage = "closed"
    BY DEF ClosedFile
  <2>. QED  BY <1>6, <2>1, TakeKeepsTidy DEF CloseTootLost, StartsClose, deviceVars
<1>. QED  BY <1>2, <1>3, <1>4, <1>5, <1>6

(* So does every step of a handler, while it tears no device down. *)
LEMMA AgentsKeepTidy ==
  ASSUME ShapeInv, TidyInv, RemovalInv, ~torn, ~torn', NEW p \in Agents,
         DeviceStep(p) \/ HandlerStep(p) \/ AnswerStep(p)
  PROVE  TidyInv' /\ RemovalInv'
<1>1. HandlerInv(p)
  BY DEF ShapeInv, DevInv, Inv
<1>2. p \in Actors /\ p \notin Threads /\ (rm[p] # NULL => hpc[p] = "toots")
  BY NoValueIsNull DEF RemovalInv
<1>3. UNCHANGED <<file, thr>> => FewerHeld /\ SleepersKept
                                /\ \A u \in Threads : MyToot(u)' = MyToot(u)
  BY DEF FewerHeld, SleepersKept, Holds, At, MyToot, MyFile
<1>4. ASSUME UNCHANGED <<file, thr>>, FewerElements, SameToots,
             \A e \in ElementIds : elements[e] # NULL => elements'[e] # NULL
      PROVE  TidyInv'
  <2>1. WritersKept
    BY <1>3, <1>4 DEF WritersKept, TidyInv, WriterOwnsElement, ShapeInv, TypeOK, Call
  <2>. QED  BY <1>3, <1>4, <2>1, FrameKeepsTidy
<1>5. ASSUME UNCHANGED <<file, thr, rm, hpc, hid>>, FewerElements, SameToots,
             \A e \in ElementIds : elements[e] # NULL => elements'[e] # NULL
      PROVE  TidyInv' /\ RemovalInv'
  <2>1. \A q \in Agents : hpc'[q] = "toots" => ~InUse(hid[q])'
    BY <1>5 DEF RemovalInv, InUse
  <2>. QED  BY <1>4, <1>5, <2>1, FrameKeepsRemovals
<1>6. CASE UNCHANGED <<toots, toot, elements, file, thr, rm, hpc, hid>>
  BY <1>5, <1>6 DEF FewerElements, SameToots, Live
<1>7. CASE DeviceStep(p) \/ MarkDeviceUnready(p) \/ ForgetEmptyDevice(p)
  <2>1. /\ UNCHANGED <<toots, toot, elements, file, thr, rm>>
        /\ KernelStep(p) \/ AgentStep(p)
    BY <1>7
       DEF DeviceStep, MarkDeviceUnready, ForgetEmptyDevice, KernelStep, RemoveStep, tootVars
  <2>2. FewerElements /\ SameToots
    BY <2>1 DEF FewerElements, SameToots, Live
  <2>3. \A q \in Agents \ {p} : hpc'[q] = hpc[q] /\ hid'[q] = hid[q]
    BY <2>1, StepIsOwn DEF ShapeInv, HandlerVars
  <2>4. rm[p] = NULL
    <3>1. DeviceStep(p) \/ MarkDeviceUnready(p) => hpc[p] # "toots"
      BY <1>1
         DEF DeviceStep, MarkDeviceUnready, StoreStep, AttachDeviceClass, AttachDeviceClassFails,
             ReplyCreated, ReplyCreatedFails, SetDeviceReady, DetachDeviceClass, MarkUnready,
             AgentStep, AgentStart, AgentCreated, AgentRefused, AgentReads, AgentDestroyed,
             AgentExit, AddDevice, AddDeviceFails, DestroyDevice, DestroyDeviceFails,
             StartsDestroy, GetHealth, HandlerInv
    <3>. QED  BY <1>2, <1>7, <3>1 DEF ForgetEmptyDevice
  <2>5. hpc'[p] = "toots" => ~InUse(hid[p])'
    <3>1. CASE DeviceStep(p)
      BY <1>1, <3>1
         DEF DeviceStep, StoreStep, AttachDeviceClass, AttachDeviceClassFails,
             ReplyCreated, ReplyCreatedFails, SetDeviceReady, DetachDeviceClass,
             AgentStep, AgentStart, AgentCreated, AgentRefused, AgentReads, AgentDestroyed,
             AgentExit, AddDevice, AddDeviceFails, DestroyDevice, DestroyDeviceFails,
             StartsDestroy, GetHealth, HandlerInv, Goto, devVars, ShapeInv, DevInv, DevTypeOK
    <3>2. CASE MarkDeviceUnready(p)
      BY <3>2 DEF MarkDeviceUnready, MarkUnready, InUse
    <3>3. CASE ForgetEmptyDevice(p)
      BY <3>3 DEF ForgetEmptyDevice, ForgetDevice, Goto, ShapeInv, DevInv, DevTypeOK
    <3>. QED  BY <1>7, <3>1, <3>2, <3>3
  <2>6. \A q \in Agents : hpc'[q] = "toots" => ~InUse(hid[q])'
    BY <2>1, <2>3, <2>5 DEF RemovalInv, InUse
  <2>7. \A q \in Agents : rm[q] # NULL => hpc'[q] = hpc[q] /\ hid'[q] = hid[q]
    BY <2>3, <2>4
  <2>8. TidyInv'
    BY <1>4, <2>1, <2>2
  <2>. QED  BY <2>1, <2>2, <2>6, <2>7, <2>8, FrameKeepsRemovals
<1>8. CASE AnswerSet(p)
  <2>1. ans[p].obj \in TootObjs /\ TablesType
    BY <1>8 DEF AnswerSet, ShapeInv, TypeOK, Answer, TablesType
  <2>2. AnsweredState(ans[p]) \in TootStates \ {"FREE"}
    BY DEF AnsweredState, TootStates
  <2>3. /\ SetState(ans[p].obj, AnsweredState(ans[p]))
        /\ UNCHANGED <<toots, elements, file, thr, rm, hpc, hid>>
    BY <1>8 DEF AnswerSet, devVars
  <2>4. SameToots
    BY <2>1, <2>2, <2>3, SetStateKeepsToots DEF SameToots
  <2>5. FewerElements /\ \A e \in ElementIds : elements[e] # NULL => elements'[e] # NULL
    BY <2>3 DEF FewerElements
  <2>. QED  BY <1>5, <2>3, <2>4, <2>5
<1>9. ASSUME NEW ok \in BOOLEAN, AnswerText(p, ok) PROVE TidyInv' /\ RemovalInv'
  <2>1. UNCHANGED <<toots, toot, file, thr, rm, hpc, hid>>
    BY <1>9 DEF AnswerText, devVars
  <2>2. FewerElements /\ \A e \in ElementIds : elements[e] # NULL => elements'[e] # NULL
    <3>1. CASE UNCHANGED elements
      BY <3>1 DEF FewerElements
    <3>2. CASE ~UNCHANGED elements
      <4>1. PICK e \in ElementIds :
              /\ ElementReady(e)
              /\ elements' = [elements EXCEPT ![e].state = IF ok THEN "SENT" ELSE "ERROR"]
        BY <1>9, <3>2 DEF AnswerText
      <4>2. elements[e] \in Element /\ elements'[e] \in Element
        BY <4>1 DEF ElementReady, ShapeInv, TypeOK, Element, ElementStates
      <4>. QED
        BY <4>1, <4>2, NoValueIsNull DEF FewerElements, ShapeInv, TypeOK, Element
    <3>. QED  BY <3>1, <3>2
  <2>3. SameToots
    BY <2>1 DEF SameToots, Live
  <2>. QED  BY <1>5, <2>1, <2>2, <2>3
<1>10. CASE RemoveDeviceToot(p)
  <2>1. PICK i \in TootIds : IsVisited(p, i) /\ StartRemove(p, i)
    BY <1>10 DEF RemoveDeviceToot
  <2>. QED
    BY <1>2, <1>10, <2>1, StartRemoveKeepsTidy DEF RemoveDeviceToot, IsVisited
<1>11. CASE RemovedDeviceToot(p)
  BY <1>2, <1>11, FinishRemoveKeepsTidy DEF RemovedDeviceToot
<1>. QED
  BY <1>6, <1>7, <1>8, <1>9, <1>10, <1>11
     DEF HandlerStep, AnswerStep, AnswerFind, AnswerTooLate, AnswerToot, AnswerRefused,
         deviceVars, devVars, tootVars

(* Every step keeps who owns what. *)
LEMMA NextKeepsOwn ==
  ASSUME ShapeInv, OwnInv, [Next]_vars
  PROVE  OwnInv'
<1>1. UnreadyInv /\ TidyInv /\ (~torn => RemovalInv)
  BY DEF OwnInv, TidyInv
<1>2. ~torn' => ~torn
  BY TornForGood
<1>3. CASE torn'
  BY <1>1, <1>3, NextKeepsUnready
     DEF OwnInv, FileOwnsToot, TableSound, SleepersSafe, WriterOwnsElement, ElementsHaveToot
<1>4. CASE ~torn'
  <2>1. CASE UNCHANGED vars
    <3>1. FewerHeld /\ FewerElements /\ SleepersKept /\ (\A d : InUse(d)' => InUse(d))
      BY <2>1
         DEF vars, tootVars, FewerHeld, FewerElements, SleepersKept, Holds, At, MyToot, MyFile,
             InUse
    <3>2. WritersKept
      BY <1>1, <1>2, <1>4, <2>1
         DEF vars, tootVars, WritersKept, MyToot, MyFile, TidyInv, WriterOwnsElement
    <3>. QED
      BY <1>1, <1>2, <1>4, <2>1, <3>1, <3>2, FrameKeepsOwn, NextKeepsUnready
         DEF vars, tootVars, deviceVars, OwnInv, TidyInv
  <2>2. CASE Next
    <3>1. TidyInv' /\ RemovalInv'
      BY <1>1, <1>2, <1>4, <2>2, CallStepKeepsTidy, UserStepKeepsTidy, AgentsKeepTidy DEF Next
    <3>. QED  BY <1>1, <3>1, NextKeepsUnready DEF OwnInv, TidyInv
  <2>. QED  BY <2>1, <2>2
<1>. QED  BY <1>3, <1>4

-----------------------------------------------------------------------------
(* The queues of the agents. *)

UserRequests == {"NEW_TOOT", "ADD_TOOT_TEXT"}

(* A message that is sent to p. *)
LEMMA SendKeepsMail ==
  ASSUME NetTypeOK, NEW p \in Agents, NEW m \in Message, Mail(p), SendOk(p, m), ~torn' => ~torn,
         proc'[p] \notin {"off", "connected"},
         proc'[p] = "creating" =>
           /\ (hid'[p] = hid[p] /\ proc[p] = "creating") \/ inbox[p] = << >>
           /\ inbox[p] = << >> => m.type \in {"CREATE_DEVICE_RESULT", "NLMSG_ERROR"}
         ,
         proc'[p] \in {"up", "stopped"} => proc[p] \in {"up", "stopped"} /\ known'[p] = known[p],
         ~torn /\ m.type \in UserRequests =>
           /\ proc'[p] = "creating" => m.dev = hid'[p]
           /\ proc'[p] \in {"up", "stopped"} => m.dev = known'[p]
         ,
         ans'[p] # NULL => proc'[p] = "up"
  PROVE  Mail(p)'
<1>1. inbox[p] \in Seq(Message) /\ inbox'[p] = Append(inbox[p], m)
  BY DEF NetTypeOK, SendOk, Deliver
<1>2. /\ inbox'[p] # << >>
      /\ Head(inbox'[p]) = IF inbox[p] = << >> THEN m ELSE Head(inbox[p])
  <2>1. ASSUME NEW s \in Seq(Message)
        PROVE  Append(s, m) # << >> /\ Head(Append(s, m)) = IF s = << >> THEN m ELSE Head(s)
    <3>1. Len(Append(s, m)) = Len(s) + 1 /\ Append(s, m)[1] = IF Len(s) = 0 THEN m ELSE s[1]
      OBVIOUS
    <3>2. Append(s, m) # << >>
      <4>1. Len(<< >>) = 0 /\ Len(s) \in Nat
        OBVIOUS
      <4>2. Len(Append(s, m)) # Len(<< >>)
        BY <3>1, <4>1
      <4>. QED  BY <4>2, Zenon
    <3>3. s = << >> <=> Len(s) = 0
      OBVIOUS
    <3>. QED  BY <3>1, <3>2, <3>3
  <2>. QED  BY <1>1, <2>1, Zenon
<1>3. Pending(p)' = Pending(p) \cup {m}
  BY DeliverQueue DEF SendOk
<1>4. inbox[p] = << >> => Pending(p) = {}
  BY DEF Pending
<1>5. /\ proc'[p] \in {"off", "connected"} => inbox'[p] = << >>
      /\ proc'[p] = "creating" /\ inbox'[p] # << >> =>
           HeadIs(p, {"CREATE_DEVICE_RESULT", "NLMSG_ERROR"})'
  BY <1>2 DEF Mail, HeadIs
<1>6. ~torn' => \A x \in Pending(p)' : x.type \in UserRequests =>
        /\ proc'[p] = "creating" => x.dev = hid'[p]
        /\ proc'[p] \in {"up", "stopped"} => x.dev = known'[p]
  BY <1>3, <1>4 DEF Mail, UserRequests
<1>. QED  BY <1>5, <1>6 DEF Mail, UserRequests

(* A message that p reads, or a socket that is opened or closed. *)
LEMMA FewerKeepsMail ==
  ASSUME NEW p \in Agents, Mail(p), Pending(p)' \subseteq Pending(p), ~torn' => ~torn,
         proc'[p] \in {"off", "connected"} => inbox'[p] = << >>,
         proc'[p] = "creating" =>
           /\ inbox'[p] = inbox[p]
           /\ (hid'[p] = hid[p] /\ proc[p] = "creating") \/ inbox[p] = << >>
         ,
         proc'[p] \in {"up", "stopped"} =>
           \/ proc[p] \in {"up", "stopped"} /\ known'[p] = known[p]
           \/ proc[p] = "creating" /\ known'[p] = hid[p]
         ,
         ans'[p] # NULL => proc'[p] = "up"
  PROVE  Mail(p)'
<1>1. inbox[p] = << >> => Pending(p) = {}
  BY DEF Pending
<1>2. proc'[p] = "creating" /\ inbox'[p] # << >> =>
        HeadIs(p, {"CREATE_DEVICE_RESULT", "NLMSG_ERROR"})'
  BY DEF Mail, HeadIs
<1>3. ~torn' => \A x \in Pending(p)' : x.type \in UserRequests =>
        /\ proc'[p] = "creating" => x.dev = hid'[p]
        /\ proc'[p] \in {"up", "stopped"} => x.dev = known'[p]
  BY <1>1 DEF Mail, UserRequests
<1>. QED  BY <1>2, <1>3 DEF Mail, UserRequests

(* NLMSG_ERROR. *)
LEMMA NackKeepsMail ==
  ASSUME NetTypeOK, NEW p \in Agents, Mail(p), Nack(p), ~torn' => ~torn,
         proc'[p] \notin {"off", "connected"},
         proc'[p] = "creating" =>
           (hid'[p] = hid[p] /\ proc[p] = "creating") \/ inbox[p] = << >>,
         proc'[p] \in {"up", "stopped"} => proc[p] \in {"up", "stopped"} /\ known'[p] = known[p],
         ans'[p] # NULL => proc'[p] = "up"
  PROVE  Mail(p)'
<1>1. CASE CanDeliver(p)
  <2>1. SendOk(p, NlMsgError)
    BY <1>1 DEF Nack, SendOk
  <2>. QED  BY <2>1, NackIsMessage, SendKeepsMail DEF UserRequests
<1>2. CASE ~CanDeliver(p)
  <2>1. UNCHANGED netVars
    BY <1>2 DEF Nack
  <2>2. Pending(p)' = Pending(p) /\ inbox' = inbox
    BY <2>1, QuietQueue DEF netVars
  <2>. QED  BY <2>2, FewerKeepsMail
<1>. QED  BY <1>1, <1>2

(* The other agents keep theirs. *)
LEMMA OthersKeepMail ==
  ASSUME NEW p \in Agents, Mail(p), inbox'[p] = inbox[p], ans'[p] = ans[p], ~torn' => ~torn,
         UNCHANGED HandlerVars(p)
  PROVE  Mail(p)'
  BY DEF Mail, HandlerVars, HeadIs, Pending

(* A device that is ready is one its agent was answered about, and waits   *)
(* for or knows.                                                           *)
LEMMA ServedQueue ==
  ASSUME ShapeInv, UnreadyInv, NEW p \in Agents, NEW d, Owns(p, d), Ready(d)
  PROVE  /\ proc[p] \notin {"off", "connected"}
         /\ proc[p] = "creating" => hid[p] = d /\ inbox[p] # << >>
         /\ proc[p] \in {"up", "stopped"} => known[p] = d
<1>1. HandlerInv(p) /\ TableInv(p) /\ d \in DeviceIds /\ hpc[p] \in HandlerSteps
  BY DEF ShapeInv, DevInv, DevTypeOK, Inv, Owns
<1>2. /\ proc[p] \notin {"off", "connected"}
      /\ proc[p] = "creating" => hid[p] = d
      /\ proc[p] \in {"up", "stopped"} => known[p] = d
  BY <1>1 DEF TableInv
<1>3. ASSUME proc[p] = "creating" PROVE Answered(p, "CREATE_DEVICE_RESULT")
  <2>1. hid[p] = d /\ dev[hid[p]].ready
    BY <1>2, <1>3 DEF Ready
  <2>2. hpc[p] \in {"idle", "ready"}
    BY <1>1, <1>3, <2>1 DEF UnreadyInv, HandlerInv, HandlerSteps
  <2>. QED  BY <1>1, <1>3, <2>2 DEF HandlerInv, TableInv
<1>4. Answered(p, "CREATE_DEVICE_RESULT") => inbox[p] # << >>
  BY DEF Answered, Pending
<1>. QED  BY <1>2, <1>3, <1>4

(* A request of a user goes to such an agent. *)
LEMMA RequestKeepsMail ==
  ASSUME ShapeInv, UnreadyInv, MailInv, NEW i, TootReady(i), NEW m \in Message,
         SendOk(PidOf(i), m), UNCHANGED <<devVars, ans, torn>>,
         ~torn /\ m.type \in UserRequests => m.dev = DeviceOf(i)
  PROVE  MailInv'
<1>. DEFINE p == PidOf(i)
<1>1. p \in Agents /\ Owns(p, DeviceOf(i)) /\ Ready(DeviceOf(i))
  BY ReadyToot
<1>2. /\ proc[p] \notin {"off", "connected"}
      /\ proc[p] = "creating" => hid[p] = DeviceOf(i) /\ inbox[p] # << >>
      /\ proc[p] \in {"up", "stopped"} => known[p] = DeviceOf(i)
  BY <1>1, ServedQueue
<1>3. NetTypeOK /\ \A q \in Agents : Mail(q)
  BY DEF ShapeInv, DevInv, DevTypeOK, MailInv
<1>4. ASSUME NEW q \in Agents, q = p PROVE Mail(q)'
  <2>1. /\ SendOk(q, m) /\ proc[q] \notin {"off", "connected"}
        /\ proc[q] = "creating" => hid[q] = DeviceOf(i) /\ inbox[q] # << >>
        /\ proc[q] \in {"up", "stopped"} => known[q] = DeviceOf(i)
    BY <1>2, <1>4
  <2>2. UNCHANGED HandlerVars(q) /\ ans'[q] = ans[q]
    BY DEF HandlerVars, devVars
  <2>. HIDE DEF p
  <2>. QED  BY <1>3, <2>1, <2>2, SendKeepsMail DEF HandlerVars, Mail
<1>5. ASSUME NEW q \in Agents \ {p} PROVE Mail(q)'
  <2>1. inbox'[q] = inbox[q]
    BY <1>1, <1>3 DEF SendOk, Deliver, NetTypeOK
  <2>2. UNCHANGED HandlerVars(q) /\ ans'[q] = ans[q]
    BY DEF HandlerVars, devVars
  <2>. QED  BY <1>3, <2>1, <2>2, OthersKeepMail
<1>. QED  BY <1>4, <1>5 DEF MailInv

(* Nothing of the queues, the handlers and the agents changes. *)
LEMMA QuietMail ==
  ASSUME MailInv, UNCHANGED <<deviceVars, ans>>, ~torn' => ~torn
  PROVE  MailInv'
  BY OthersKeepMail DEF MailInv, HandlerVars, deviceVars, netVars, devVars

(* What the threads do keeps the queues. *)
LEMMA ThreadsKeepMail ==
  ASSUME ShapeInv, OwnInv, MailInv, NEW t \in Threads, CallStep(t) \/ UserStep(t)
  PROVE  MailInv'
<1>0. UnreadyInv
  BY DEF OwnInv
<1>1. CASE NewToot(t)
  <2>1. TootReady(MyToot(t)) /\ UNCHANGED <<devVars, ans, torn>>
    BY <1>1 DEF NewToot
  <2>2. MyFile(t) \in Files /\ MyToot(t) \in TootIds /\ Holds(MyFile(t), MyToot(t))
        /\ file[MyFile(t)].dev \in DeviceIds
    BY <1>1, CallHolds DEF NewToot, At, ShapeInv, CallsInv, FileInv, Holds
  <2>3. ~torn => file[MyFile(t)].dev = DeviceOf(MyToot(t))
    BY <2>2 DEF OwnInv, FileOwnsToot, DeviceOf
  <2>4. /\ NewTootMsg(MyToot(t), file[MyFile(t)].dev) \in Message
        /\ NewTootMsg(MyToot(t), file[MyFile(t)].dev).dev = file[MyFile(t)].dev
    BY <2>2 DEF NewTootMsg, Message, Request
  <2>. QED  BY <1>0, <1>1, <2>1, <2>3, <2>4, RequestKeepsMail DEF NewToot
<1>2. CASE AddText(t)
  <2>1. TootReady(MyToot(t)) /\ UNCHANGED <<devVars, ans, torn>>
    BY <1>2 DEF AddText
  <2>2. thr[t].elem \in ElementIds
    BY <1>2 DEF AddText, ShapeInv, CallsInv, CallInv, ElemSteps, At
  <2>3. /\ AddTextMsg(MyToot(t), DeviceOf(MyToot(t)), thr[t].elem) \in Message
        /\ AddTextMsg(MyToot(t), DeviceOf(MyToot(t)), thr[t].elem).dev = DeviceOf(MyToot(t))
    BY <2>1, <2>2, ReadyToot DEF AddTextMsg, Message, Request
  <2>. QED  BY <1>0, <1>2, <2>1, <2>3, RequestKeepsMail DEF AddText
<1>3. ASSUME NEW f \in Files, CloseToot(t, f) PROVE MailInv'
  <2>1. PICK g \in TootIds : /\ TootReady(g)
                             /\ SendOk(PidOf(file[f].id), SendTootMsg(file[f].id, DeviceOf(g)))
    BY <1>3 DEF CloseToot
  <2>2. TootReady(file[f].id) /\ UNCHANGED <<devVars, ans, torn>>
    BY <1>3 DEF CloseToot
  <2>3. /\ SendTootMsg(file[f].id, DeviceOf(g)) \in Message
        /\ SendTootMsg(file[f].id, DeviceOf(g)).type \notin UserRequests
    BY <2>1, <2>2, ReadyToot DEF SendTootMsg, Message, Request, UserRequests
  <2>. QED  BY <1>0, <2>1, <2>2, <2>3, RequestKeepsMail
<1>4. CASE UNCHANGED <<deviceVars, ans, torn>>
  BY <1>4, QuietMail
<1>. QED
  BY <1>1, <1>2, <1>3, <1>4
     DEF CallStep, OtherCallStep, UserStep, AddToot, AddElement, WriteReturns, AddTootFails,
         NewTootFails, OpenFind, OpenFindFails, OpenReturns, OpenGivesUp, AddElementFails,
         AddTextFails, AddTextNoToot, WriteFind, WriteFindFails, WriteGivesUp, CloseFind,
         CloseFindFails, CloseReturns, RemoveToot, RemovedToot, NothingToRemove, OpenDevice,
         WriteToot, CloseTootFails, CloseTootLost

(* Only the queue of the agent that takes the step changes. *)
LEMMA StepHasOneQueue ==
  ASSUME NetTypeOK, NEW q \in Agents,
         \/ KernelStep(q) \/ AgentStep(q)
         \/ Nack(q) \/ Pop(q) \/ PopAndNack(q) \/ UNCHANGED netVars,
         NEW p \in Agents \ {q}
  PROVE  inbox'[p] = inbox[p]
  BY DEF KernelStep, StoreStep, RemoveStep, AttachDeviceClass, AttachDeviceClassFails,
         ReplyCreated, ReplyCreatedFails, SetDeviceReady, DetachDeviceClass, MarkUnready,
         ForgetDevice, AgentStep, AgentStart, AgentCreated, AgentRefused, AgentReads,
         AgentDestroyed, AgentExit, AddDevice, AddDeviceFails, DestroyDevice,
         DestroyDeviceFails, StartsDestroy, GetHealth, NetTypeOK, netVars, Deliver, SendOk,
         SendFails, Nack, Pop, PopAndNack, OpenSocket, CloseSocket

(* What an agent and its handler do to its own queue. *)
LEMMA DeviceStepKeepsMail ==
  ASSUME ShapeInv, MailInv, NEW p \in Agents, KernelStep(p) \/ AgentStep(p),
         ans[p] = NULL, ans' = ans, ~torn' => ~torn
  PROVE  MailInv'
<1>1. NetTypeOK /\ DevTypeOK /\ HandlerInv(p) /\ AgentInv(p) /\ QueueInv(p) /\ \A q \in Agents : Mail(q)
  BY DEF ShapeInv, DevInv, DevTypeOK, Inv, MailInv
<1>2. ASSUME NEW q \in Agents \ {p} PROVE Mail(q)'
  BY <1>1, StepIsOwn, StepHasOneQueue, OthersKeepMail DEF ShapeInv
<1>3. inbox[p] = << >> => Pending(p) = {}
  BY DEF Pending
<1>4. CASE AgentStart(p)
  <2>1. Pending(p)' = Pending(p) /\ inbox'[p] = inbox[p] /\ inbox[p] = << >>
        /\ proc'[p] = "connected"
    BY <1>1, <1>4 DEF AgentStart, OpenSocket, Pending, ProcTo, DevTypeOK, Mail
  <2>. QED  BY <1>1, <2>1, FewerKeepsMail, <1>2 DEF MailInv
<1>5. CASE AgentCreated(p)
  <2>1. /\ Pending(p)' \subseteq Pending(p) /\ Head(inbox[p]) \in Pending(p)
    BY <1>1, <1>5, PopQueue DEF AgentCreated, HeadIs
  <2>2. proc[p] = "creating" /\ proc'[p] = "up" /\ known'[p] = hid[p]
    BY <1>1, <1>5, <2>1 DEF AgentCreated, ProcTo, DevTypeOK, QueueInv, HeadIs
  <2>. QED  BY <1>1, <2>1, <2>2, FewerKeepsMail, <1>2 DEF MailInv
<1>6. CASE AgentReads(p)
  <2>1. Pending(p)' \subseteq Pending(p)
    BY <1>1, <1>6, PopQueue DEF AgentReads, HeadIs
  <2>2. known' = known /\ proc'[p] \notin {"off", "connected", "creating"}
        /\ (proc'[p] \in {"up", "stopped"} => proc[p] \in {"up", "stopped"})
    BY <1>1, <1>6 DEF AgentReads, ProcTo, DevTypeOK
  <2>. QED  BY <1>1, <2>1, <2>2, FewerKeepsMail, <1>2 DEF MailInv
<1>7. CASE AgentDestroyed(p)
  <2>1. Pending(p)' \subseteq Pending(p)
    BY <1>1, <1>7, PopQueue DEF AgentDestroyed, HeadIs
  <2>2. proc'[p] = "done"
    BY <1>1, <1>7 DEF AgentDestroyed, ProcTo, DevTypeOK
  <2>. QED  BY <1>1, <2>1, <2>2, FewerKeepsMail, <1>2 DEF MailInv
<1>8. CASE AgentRefused(p) \/ AgentExit(p)
  <2>1. Pending(p)' \subseteq Pending(p)
    BY <1>1, <1>8, SocketQueue DEF AgentRefused, AgentExit
  <2>2. proc'[p] = "exited"
    BY <1>1, <1>8 DEF AgentRefused, AgentExit, ProcTo, DevTypeOK
  <2>. QED  BY <1>1, <2>1, <2>2, FewerKeepsMail, <1>2 DEF MailInv
<1>9. CASE AddDevice(p)
  <2>1. Pending(p)' = Pending(p) /\ inbox' = inbox /\ inbox[p] = << >>
    BY <1>1, <1>9, QuietQueue DEF AddDevice, netVars, Mail
  <2>2. proc'[p] = "creating"
    BY <1>1, <1>9 DEF AddDevice, ProcTo, DevTypeOK
  <2>. QED  BY <1>1, <2>1, <2>2, FewerKeepsMail, <1>2 DEF MailInv
<1>10. CASE AddDeviceFails(p)
  <2>1. inbox[p] = << >> /\ Nack(p) /\ proc'[p] = "creating"
    BY <1>1, <1>10 DEF AddDeviceFails, ProcTo, DevTypeOK, Mail
  <2>. QED  BY <1>1, <2>1, NackKeepsMail, <1>2 DEF MailInv
<1>11. CASE DestroyDevice(p) \/ DestroyDeviceFails(p)
  <2>1. proc'[p] = "destroying"
    BY <1>1, <1>11 DEF DestroyDevice, DestroyDeviceFails, StartsDestroy, ProcTo, DevTypeOK
  <2>2. CASE DestroyDevice(p)
    <3>1. /\ DestroyDeviceResult(known[p]) \in Message
          /\ DestroyDeviceResult(known[p]).type \notin UserRequests
          /\ SendOk(p, DestroyDeviceResult(known[p]))
      BY <1>1, <2>2, AnswersAreMessages
         DEF DestroyDevice, StartsDestroy, AgentInv, Serves, Owns, DestroyDeviceResult, UserRequests
    <3>. QED  BY <1>1, <2>1, <3>1, SendKeepsMail, <1>2 DEF MailInv
  <2>3. CASE DestroyDeviceFails(p)
    <3>1. Pending(p)' = Pending(p)
      BY <1>1, <2>3, QuietQueue DEF DestroyDeviceFails, SendFails
    <3>. QED  BY <1>1, <2>1, <3>1, FewerKeepsMail, <1>2 DEF MailInv
  <2>. QED  BY <1>11, <2>2, <2>3
<1>12. CASE GetHealth(p)
  <2>1. UNCHANGED HandlerVars(p) /\ proc[p] \in {"up", "done"}
    BY <1>12 DEF GetHealth, HandlerVars, devVars
  <2>2. ASSUME SendOk(p, GetHealthResult(known[p], Healthy(p, known[p]))) PROVE Mail(p)'
    <3>1. known[p] \in DeviceIds /\ Healthy(p, known[p]) \in BOOLEAN
      BY <1>1, <2>1 DEF AgentInv, Serves, Owns, Healthy, Ready, Registered, DevTypeOK, Device
    <3>2. /\ GetHealthResult(known[p], Healthy(p, known[p])) \in Message
          /\ GetHealthResult(known[p], Healthy(p, known[p])).type \notin UserRequests
      BY <3>1, AnswersAreMessages DEF GetHealthResult, UserRequests
    <3>. QED  BY <1>1, <2>1, <2>2, <3>2, SendKeepsMail DEF HandlerVars
  <2>3. ASSUME Nack(p) PROVE Mail(p)'
    BY <1>1, <2>1, <2>3, NackKeepsMail DEF HandlerVars
  <2>. QED  BY <1>2, <1>12, <2>2, <2>3 DEF GetHealth, MailInv
<1>13. CASE ReplyCreated(p)
  <2>1. UNCHANGED <<proc, known, hid>> /\ proc[p] = "creating" /\ hid[p] \in DeviceIds
    BY <1>1, <1>13 DEF ReplyCreated, HandlerInv, Owns
  <2>2. /\ CreateDeviceResult(hid[p]) \in Message
        /\ CreateDeviceResult(hid[p]).type = "CREATE_DEVICE_RESULT"
        /\ SendOk(p, CreateDeviceResult(hid[p]))
    BY <1>13, <2>1, AnswersAreMessages DEF ReplyCreated, CreateDeviceResult
  <2>. QED  BY <1>1, <2>1, <2>2, SendKeepsMail, <1>2 DEF MailInv, UserRequests
<1>14. CASE ForgetDevice(p)
  <2>1. UNCHANGED <<proc, known, hid>> /\ proc[p] \in {"creating", "destroying"} /\ Nack(p)
    BY <1>1, <1>14 DEF ForgetDevice, HandlerInv
  <2>. QED  BY <1>1, <2>1, NackKeepsMail, <1>2 DEF MailInv
<1>15. CASE UNCHANGED <<netVars, proc, known, hid>>
  <2>1. Pending(p)' = Pending(p) /\ inbox' = inbox
    BY <1>1, <1>15, QuietQueue DEF netVars
  <2>. QED  BY <1>1, <1>15, <2>1, FewerKeepsMail, <1>2 DEF MailInv, Mail
<1>. QED
  BY <1>4, <1>5, <1>6, <1>7, <1>8, <1>9, <1>10, <1>11, <1>12, <1>13, <1>14, <1>15
     DEF KernelStep, StoreStep, RemoveStep, AttachDeviceClass, AttachDeviceClassFails,
         ReplyCreatedFails, SendFails, SetDeviceReady, DetachDeviceClass, MarkUnready, AgentStep

(* What the answers of the agents do to the queues. *)
LEMMA AnswersKeepMail ==
  ASSUME ShapeInv, MailInv, NEW p \in Agents,
         AnswerStep(p) \/ AnswerFind(p) \/ AnswerTooLate(p) \/ AnswerSet(p)
  PROVE  MailInv'
<1>1. NetTypeOK /\ (\A q \in Agents : Mail(q)) /\ UNCHANGED <<devVars, torn>>
      /\ proc' = proc /\ known' = known /\ hid' = hid
  BY DEF ShapeInv, DevInv, DevTypeOK, MailInv, AnswerStep, AnswerFind, AnswerTooLate, AnswerSet,
         AnswerToot, AnswerText, AnswerRefused, deviceVars, devVars, tootVars
<1>2. \/ Nack(p) \/ Pop(p) \/ PopAndNack(p) \/ UNCHANGED netVars
  BY DEF AnswerStep, AnswerFind, AnswerTooLate, AnswerSet, AnswerToot, AnswerText, AnswerRefused,
         AnswerDone, deviceVars
<1>3. \A q \in Agents \ {p} : ans'[q] = ans[q]
  BY DEF AnswerStep, AnswerFind, AnswerTooLate, AnswerSet, AnswerToot, AnswerText, AnswerRefused,
         AnswerDone, ShapeInv, TypeOK, tootVars
<1>4. ASSUME NEW q \in Agents \ {p} PROVE Mail(q)'
  <2>1. inbox'[q] = inbox[q]
    BY <1>1, <1>2, StepHasOneQueue
  <2>. QED  BY <1>1, <1>3, <2>1, OthersKeepMail DEF HandlerVars, devVars
<1>5. proc[p] = "up"
  BY <1>1
     DEF AnswerStep, AnswerFind, AnswerTooLate, AnswerSet, AnswerToot, AnswerText, AnswerRefused,
         CanAnswer, Mail
<1>6. Pending(p)' \subseteq Pending(p) \cup {NlMsgError}
  <2>1. CASE Nack(p)
    BY <1>1, <2>1, NackQueue
  <2>2. CASE UNCHANGED netVars
    BY <1>1, <2>2, QuietQueue
  <2>3. CASE Pop(p) \/ PopAndNack(p)
    <3>1. CASE inbox[p] # << >>
      BY <1>1, <2>3, <3>1, PopQueue, PopAndNackQueue
    <3>2. CASE inbox[p] = << >>
      BY <1>1, <2>3, <3>2, NackQueue, QuietQueue
         DEF AnswerStep, AnswerFind, AnswerTooLate, AnswerSet, AnswerToot, AnswerText,
             AnswerRefused, AnswerDone, CanAnswer, HeadIs, deviceVars
    <3>. QED  BY <3>1, <3>2
  <2>. QED  BY <1>2, <2>1, <2>2, <2>3
<1>7. Mail(p)'
  BY <1>1, <1>5, <1>6, NackIsMessage DEF Mail
<1>. QED  BY <1>4, <1>7 DEF MailInv

(* Every step keeps what is on its way to the agents. *)
LEMMA NextKeepsMail ==
  ASSUME ShapeInv, OwnInv, MailInv, [Next]_vars
  PROVE  MailInv'
<1>1. CASE UNCHANGED <<deviceVars, ans, torn>>
  BY <1>1, QuietMail
<1>2. ASSUME NEW p \in Agents, DeviceStep(p) PROVE MailInv'
  BY <1>2, DeviceStepKeepsMail DEF DeviceStep, KernelStep, tootVars
<1>3. ASSUME NEW p \in Agents, MarkDeviceUnready(p) \/ ForgetEmptyDevice(p) PROVE MailInv'
  <2>1. hpc[p] # "idle" /\ HandlerInv(p) /\ Mail(p)
    BY <1>3
       DEF MarkDeviceUnready, ForgetEmptyDevice, MarkUnready, ForgetDevice, ShapeInv, DevInv,
           Inv, MailInv
  <2>2. ans[p] = NULL
    BY <2>1 DEF HandlerInv, Mail
  <2>3. KernelStep(p) /\ ans' = ans
    BY <1>3 DEF MarkDeviceUnready, ForgetEmptyDevice, KernelStep, RemoveStep
  <2>4. ~torn' => ~torn
    BY <1>3, Zenon DEF MarkDeviceUnready, ForgetEmptyDevice
  <2>. QED  BY <2>2, <2>3, <2>4, DeviceStepKeepsMail
<1>4. ASSUME NEW p \in Agents, RemoveDeviceToot(p) \/ RemovedDeviceToot(p) PROVE MailInv'
  BY <1>4, QuietMail DEF RemoveDeviceToot, RemovedDeviceToot
<1>. QED
  BY <1>1, <1>2, <1>3, <1>4, ThreadsKeepMail, AnswersKeepMail
     DEF Next, HandlerStep, vars, tootVars

-----------------------------------------------------------------------------
(* What a step keeps. *)

(* The invariant is inductive. *)
LEMMA NextKeepsToots ==
  ASSUME TootsInv, [Next]_vars
  PROVE  TootsInv'
  BY NextKeepsShape, NextKeepsOwn, NextKeepsMail DEF TootsInv

(* The device of a file in use stays, and its process. *)
LEMMA DevicesStay ==
  ASSUME TootsInv, [Next]_vars, ~torn, NEW f \in Files, file[f].stage # "closed",
         Registered(file[f].dev)
  PROVE  dev'[file[f].dev] # NULL /\ dev'[file[f].dev].pid = dev[file[f].dev].pid
<1>1. /\ DevTypeOK /\ file[f].dev \in DeviceIds /\ RemovalInv
      /\ dev[file[f].dev] \in Device /\ dev[file[f].dev] # NULL
  BY DEF TootsInv, ShapeInv, OwnInv, TypeOK, CallsInv, FileInv, DevTypeOK, Registered
<1>2. CASE dev' = dev
  BY <1>1, <1>2
<1>3. ASSUME NEW p \in Agents, StoreStep(p) \/ AgentStep(p) \/ MarkUnready(p)
      PROVE  dev'[file[f].dev] # NULL /\ dev'[file[f].dev].pid = dev[file[f].dev].pid
  <2>1. CASE AddDevice(p)
    BY <1>1, <2>1 DEF AddDevice, IsNextDeviceId, Registered, DevTypeOK
  <2>2. CASE ~AddDevice(p)
    <3>1. \/ dev' = dev
          \/ \E b \in BOOLEAN : dev' = [dev EXCEPT ![hid[p]].attached = b]
          \/ \E b \in BOOLEAN : dev' = [dev EXCEPT ![hid[p]].ready = b]
          \/ dev' = [dev EXCEPT ![hid[p]].sem = p]
      BY <1>3, <2>2
         DEF StoreStep, AgentStep, AttachDeviceClass, AttachDeviceClassFails, ReplyCreated,
             ReplyCreatedFails, SetDeviceReady, SetReady, DetachDeviceClass, MarkUnready,
             AgentStart, AgentCreated, AgentRefused, AgentReads, AgentDestroyed, AgentExit,
             AddDeviceFails, DestroyDevice, DestroyDeviceFails, StartsDestroy, GetHealth, devVars
    <3>. QED  BY <1>1, <3>1, NoDeviceAssumption DEF DevTypeOK, Device
  <2>. QED  BY <2>1, <2>2
<1>4. ASSUME NEW p \in Agents, ForgetDevice(p)
      PROVE  dev'[file[f].dev] # NULL /\ dev'[file[f].dev].pid = dev[file[f].dev].pid
  <2>1. hid[p] # file[f].dev
    BY <1>1, <1>4 DEF ForgetDevice, RemovalInv, InUse
  <2>. QED  BY <1>1, <1>4, <2>1 DEF ForgetDevice, DevTypeOK
<1>5. CASE UNCHANGED devVars
  BY <1>2, <1>5 DEF devVars
<1>. QED  BY <1>3, <1>4, <1>5, DeviceCases, Zenon DEF KernelStep, RemoveStep

-----------------------------------------------------------------------------
(* The theorems. *)

(* The module starts with the invariant. *)
LEMMA InitIsToots ==
  ASSUME Init
  PROVE  TootsInv
<1>1. ShapeInv
  BY InitIsShaped
<1>2. OwnInv
  BY NoValueIsNull
     DEF Init, DevInit, OwnInv, UnreadyInv, FileOwnsToot, TableSound, SleepersSafe,
         WriterOwnsElement, ElementsHaveToot, RemovalInv, Holds, Live, FreeToot, ClosedFile,
         IdleThread, At, InUse
<1>3. MailInv
  BY DEF Init, DevInit, NetInit, MailInv, Mail, Pending
<1>. QED  BY <1>1, <1>2, <1>3 DEF TootsInv

(* The invariant holds in every state of the module: types, calls and      *)
(* files, toots and elements, and what waits for the agents.               *)
THEOREM TootsInvariant == Spec => []TootsInv
<1>1. Init => TootsInv
  BY InitIsToots
<1>2. TootsInv /\ [Next]_vars => TootsInv'
  BY NextKeepsToots
<1>. QED  BY <1>1, <1>2, PTL DEF Spec

(* Every variable has its type. *)
THEOREM TootsTypeCorrect == Spec => []TypeOK
<1>1. TootsInv => TypeOK
  BY DEF TootsInv, ShapeInv
<1>. QED  BY <1>1, TootsInvariant, PTL

(* The id in a file's private_data names a toot of the file's own device,  *)
(* that no other file has.                                                 *)
THEOREM FilesOwnToots == Spec => []FileOwnsToot
<1>1. TootsInv => FileOwnsToot
  BY DEF TootsInv, OwnInv
<1>. QED  BY <1>1, TootsInvariant, PTL

(* No entry of the toot table is freed memory and no toot is lost. *)
THEOREM TableIsSound == Spec => []TableSound
<1>1. TootsInv => TableSound
  BY DEF TootsInv, OwnInv
<1>. QED  BY <1>1, TootsInvariant, PTL

(* No thread sleeps on the wait queue of a toot that is freed. *)
THEOREM SleepersAreSafe == Spec => []SleepersSafe
<1>1. TootsInv => SleepersSafe
  BY DEF TootsInv, OwnInv
<1>. QED  BY <1>1, TootsInvariant, PTL

(* A write(2) keeps its element to the end. *)
THEOREM WritersOwnElements == Spec => []WriterOwnsElement
<1>1. TootsInv => WriterOwnsElement
  BY DEF TootsInv, OwnInv
<1>. QED  BY <1>1, TootsInvariant, PTL

(* No element is left under the id of a toot that is gone. *)
THEOREM ElementsAreOfToots == Spec => []ElementsHaveToot
<1>1. TootsInv => ElementsHaveToot
  BY DEF TootsInv, OwnInv
<1>. QED  BY <1>1, TootsInvariant, PTL

(* The first message an agent gets is the answer to its CREATE_DEVICE. *)
THEOREM CreateAnswerIsFirst == Spec => []CreateAnswerFirst
<1>1. TootsInv => CreateAnswerFirst
  BY DEF TootsInv, MailInv, Mail, CreateAnswerFirst
<1>. QED  BY <1>1, TootsInvariant, PTL

(* NEW_TOOT and ADD_TOOT_TEXT reach the process of the device they name.   *)
THEOREM RequestsReachOwner == Spec => []RequestsToOwner
<1>1. TootsInv => RequestsToOwner
  BY DEF TootsInv, MailInv, Mail, RequestsToOwner
<1>. QED  BY <1>1, TootsInvariant, PTL

(* What Devices promises holds with the users' calls and the answers in    *)
(* between.                                                                *)
THEOREM DevicesStillServed ==
  Spec => [](UpIsServed /\ HandlerOwnsDevice /\ LockedIsUnreachable /\ NoFalseAlarm
               /\ FailureLeavesNothing)
<1>1. TootsInv => UpIsServed /\ HandlerOwnsDevice /\ LockedIsUnreachable /\ NoFalseAlarm
                    /\ FailureLeavesNothing
  BY InvIsEnough DEF TootsInv, ShapeInv
<1>. QED  BY <1>1, TootsInvariant, PTL

-----------------------------------------------------------------------------
(* The inductive invariant: TootsInv, and what the agents have been told.  *)

(* create_toot has sent NEW_TOOT for f, and f is not being closed. *)
Announced(f) ==
    \/ file[f].stage = "open"
    \/ \E t \in Threads : MyFile(t) = f /\ thr[t].step \in {"openFind", "openWait"}

(* The device of a file in use is there, and its process holds the toot.   *)
Told(f) ==
    file[f].stage # "closed" =>
        /\ Registered(file[f].dev)
        /\ Announced(f) => file[f].id \in told[dev[file[f].dev].pid]

TalkInv ==
    /\ told \in [Agents -> SUBSET TootIds]
    /\ ~torn => \A f \in Files : Told(f)

ConversationInv == TootsInv /\ TalkInv

-----------------------------------------------------------------------------
(* What the agents hear. *)

(* A request that is sent is heard by its agent. *)
LEMMA RequestIsHeard ==
  ASSUME NetTypeOK, NEW p \in Agents, NEW m \in Message, m.type \in Requests, SendOk(p, m), Hear
  PROVE  /\ told' = [told EXCEPT ![p] = HeldAfter(@, m)]
         /\ last' = [agent |-> p, type |-> m.type, toot |-> m.toot]
<1>1. inbox[p] \in Seq(Message) /\ inbox'[p] = Append(inbox[p], m)
  BY DEF SendOk, Deliver, NetTypeOK
<1>2. Len(inbox'[p]) = Len(inbox[p]) + 1 /\ Len(inbox[p]) \in Nat /\ Newest(p) = m
  BY <1>1, AppendProperties DEF Newest
<1>3. Asks(p)
  BY <1>2 DEF Asks
<1>4. \A q \in Agents \ {p} : ~Asks(q)
  BY DEF SendOk, Deliver, NetTypeOK, Asks
<1>. QED  BY <1>2, <1>3, <1>4 DEF Hear

(* An answer of the kernel, or a message less, is no request. *)
LEMMA NoRequest ==
  ASSUME NetTypeOK, NEW p \in Agents,
         \A q \in Agents \ {p} : inbox'[q] = inbox[q],
         \/ inbox'[p] = inbox[p]
         \/ inbox'[p] = << >>
         \/ inbox[p] # << >> /\ inbox'[p] = Tail(inbox[p])
         \/ inbox[p] # << >> /\ PopAndNack(p)
         \/ \E m \in Message : m.type \notin Requests /\ Deliver(p, m)
  PROVE  \A q \in Agents : ~Asks(q)
<1>1. inbox[p] \in Seq(Message) /\ Len(inbox[p]) \in Nat
  BY DEF NetTypeOK
<1>2. \A q \in Agents \ {p} : Len(inbox'[q]) = Len(inbox[q]) /\ Len(inbox[q]) \in Nat
  BY DEF NetTypeOK
<1>3. ~Asks(p)
  <2>1. CASE inbox'[p] = inbox[p] \/ inbox'[p] = << >>
    BY <1>1, <2>1 DEF Asks
  <2>2. CASE inbox[p] # << >> /\ (inbox'[p] = Tail(inbox[p]) \/ PopAndNack(p))
    <3>1. Tail(inbox[p]) \in Seq(Message) /\ Len(Tail(inbox[p])) = Len(inbox[p]) - 1
      BY <1>1, <2>2, HeadTailProperties, EmptySeq
    <3>2. CASE inbox'[p] = Tail(inbox[p])
      BY <1>1, <3>1, <3>2 DEF Asks
    <3>3. CASE PopAndNack(p)
      <4>1. inbox'[p] = Append(Tail(inbox[p]), NlMsgError)
        BY <3>3 DEF PopAndNack, NetTypeOK
      <4>2. Len(inbox'[p]) = Len(inbox[p])
        BY <1>1, <3>1, <4>1, NackIsMessage, AppendProperties
      <4>. QED  BY <1>1, <4>2 DEF Asks
    <3>. QED  BY <2>2, <3>2, <3>3
  <2>3. ASSUME NEW m \in Message, m.type \notin Requests, Deliver(p, m) PROVE ~Asks(p)
    <3>1. inbox'[p] = Append(inbox[p], m)
      BY <2>3 DEF Deliver, NetTypeOK
    <3>2. Newest(p) = m
      BY <1>1, <3>1, AppendProperties DEF Newest
    <3>. QED  BY <2>3, <3>2 DEF Asks
  <2>. QED  BY <2>1, <2>2, <2>3
<1>. QED  BY <1>2, <1>3 DEF Asks

(* The answers of the kernel are no requests. *)
LEMMA AnswersAskNothing ==
  ASSUME NEW d \in DeviceIds, NEW s \in BOOLEAN
  PROVE  /\ CreateDeviceResult(d).type \notin Requests
         /\ DestroyDeviceResult(d).type \notin Requests
         /\ GetHealthResult(d, s).type \notin Requests
         /\ NlMsgError.type \notin Requests
  BY DEF Requests, CreateDeviceResult, DestroyDeviceResult, GetHealthResult, NlMsgError

(* The handlers of the devices put no request on a socket. *)
LEMMA DevicesAskNothing ==
  ASSUME DevInv, NEW p \in Agents, KernelStep(p) \/ AgentStep(p)
  PROVE  \A q \in Agents : ~Asks(q)
<1>1. DevTypeOK /\ NetTypeOK /\ HandlerInv(p) /\ AgentInv(p)
  BY DEF DevInv, DevTypeOK, Inv
<1>2. \A q \in Agents \ {p} : inbox'[q] = inbox[q]
  BY <1>1, StepHasOneQueue
<1>3. CASE Nack(p)
  BY <1>1, <1>2, <1>3, NoRequest, NackIsMessage, AnswersAskNothing DEF Nack, netVars, Requests
<1>4. CASE inbox' = inbox
  BY <1>1, <1>2, <1>4, NoRequest
<1>5. CASE inbox[p] # << >> /\ Pop(p)
  <2>1. inbox'[p] = Tail(inbox[p])
    BY <1>1, <1>5 DEF Pop, NetTypeOK
  <2>. QED  BY <1>1, <1>2, <1>5, <2>1, NoRequest
<1>6. CASE CloseSocket(p)
  <2>1. inbox'[p] = << >>
    BY <1>1, <1>6 DEF CloseSocket, NetTypeOK
  <2>. QED  BY <1>1, <1>2, <2>1, NoRequest
<1>7. CASE ReplyCreated(p)
  <2>1. hid[p] \in DeviceIds
    BY <1>1, <1>7 DEF ReplyCreated, HandlerInv, Owns
  <2>. QED
    BY <1>1, <1>2, <1>7, <2>1, NoRequest, AnswersAreMessages, AnswersAskNothing
       DEF ReplyCreated, SendOk
<1>8. CASE DestroyDevice(p)
  <2>1. known[p] \in DeviceIds
    BY <1>1, <1>8 DEF DestroyDevice, StartsDestroy, AgentInv, Owns, Serves
  <2>. QED
    BY <1>1, <1>2, <1>8, <2>1, NoRequest, AnswersAreMessages, AnswersAskNothing
       DEF DestroyDevice, SendOk
<1>9. CASE GetHealth(p)
  <2>1. known[p] \in DeviceIds
    BY <1>1, <1>9 DEF GetHealth, AgentInv, Owns, Serves
  <2>2. Healthy(p, known[p]) \in BOOLEAN
    BY <1>1, <2>1 DEF Healthy, Ready, Registered, DevTypeOK, Device
  <2>3. CASE SendOk(p, GetHealthResult(known[p], Healthy(p, known[p])))
    BY <1>1, <1>2, <2>1, <2>2, <2>3, NoRequest, AnswersAreMessages, AnswersAskNothing DEF SendOk
  <2>. QED  BY <1>3, <1>9, <2>3 DEF GetHealth
<1>. QED
  BY <1>3, <1>4, <1>5, <1>6, <1>7, <1>8, <1>9
     DEF KernelStep, StoreStep, RemoveStep, AttachDeviceClass, AttachDeviceClassFails,
         ReplyCreatedFails, SetDeviceReady, DetachDeviceClass, MarkUnready, ForgetDevice,
         AgentStep, AgentStart, AgentCreated, AgentRefused, AgentReads, AgentDestroyed,
         AgentExit, AddDevice, AddDeviceFails, DestroyDeviceFails, SendFails, HeadIs,
         OpenSocket, netVars

(* A step that sends no request to an agent. *)
SendsRequest == \E t \in Threads : NewToot(t) \/ AddText(t) \/ \E f \in Files : CloseToot(t, f)

(* Any other step asks nothing of an agent. *)
LEMMA OthersAskNothing ==
  ASSUME ShapeInv, [Next]_vars, ~SendsRequest
  PROVE  \A q \in Agents : ~Asks(q)
<1>1. NetTypeOK /\ DevInv
  BY DEF ShapeInv, DevInv, DevTypeOK
<1>2. CASE inbox' = inbox
  BY <1>1, <1>2 DEF Asks, NetTypeOK
<1>3. ASSUME NEW t \in Threads, CallStep(t) \/ UserStep(t) PROVE inbox' = inbox
  BY <1>3
     DEF SendsRequest, CallStep, OtherCallStep, UserStep, AddToot, AddElement, WriteReturns,
         AddTootFails, NewTootFails, OpenFind, OpenFindFails, OpenReturns, OpenGivesUp,
         AddElementFails, AddTextFails, AddTextNoToot, WriteFind, WriteFindFails, WriteGivesUp,
         CloseFind, CloseFindFails, CloseReturns, RemoveToot, RemovedToot, NothingToRemove,
         OpenDevice, WriteToot, CloseTootFails, CloseTootLost, deviceVars, netVars
<1>4. ASSUME NEW p \in Agents, DeviceStep(p) \/ HandlerStep(p) \/ AnswerStep(p)
      PROVE  \A q \in Agents : ~Asks(q)
  <2>1. CASE KernelStep(p) \/ AgentStep(p)
    BY <1>1, <2>1, DevicesAskNothing
  <2>2. CASE Nack(p)
    <3>1. \A q \in Agents \ {p} : inbox'[q] = inbox[q]
      BY <1>1, <2>2, StepHasOneQueue
    <3>. QED
      BY <1>1, <1>2, <2>2, <3>1, NoRequest, NackIsMessage DEF Nack, netVars, Requests
  <2>3. CASE inbox[p] # << >> /\ (Pop(p) \/ PopAndNack(p))
    <3>1. \A q \in Agents \ {p} : inbox'[q] = inbox[q]
      BY <1>1, <2>3, StepHasOneQueue
    <3>2. Pop(p) => inbox'[p] = Tail(inbox[p])
      BY <1>1 DEF Pop, NetTypeOK
    <3>. QED  BY <1>1, <2>3, <3>1, <3>2, NoRequest
  <2>. QED
    BY <1>2, <1>4, <2>1, <2>2, <2>3
       DEF DeviceStep, HandlerStep, AnswerStep, KernelStep, RemoveStep, MarkDeviceUnready,
           ForgetEmptyDevice, RemoveDeviceToot, RemovedDeviceToot, AnswerFind, AnswerTooLate,
           AnswerSet, AnswerDone, AnswerToot, AnswerText, AnswerRefused, CanAnswer, HeadIs,
           deviceVars, netVars
<1>. QED  BY <1>2, <1>3, <1>4 DEF Next, vars, deviceVars, netVars

-----------------------------------------------------------------------------
(* The files and what their agents were told. *)

(* A file in use had its device before, or has one that is there, and is   *)
(* announced only if it was.                                               *)
FileKept(f) ==
    file'[f].stage # "closed" =>
        \/ /\ file[f].stage # "closed" /\ file'[f].dev = file[f].dev
           /\ Announced(f)' => Announced(f) /\ file'[f].id = file[f].id
        \/ Registered(file[f].dev)' /\ ~Announced(f)'

(* An announced file is in use, and two calls use it only to write.        *)
LEMMA AnnouncedInUse ==
  ASSUME CallsShape, NEW f \in Files, Announced(f)
  PROVE  /\ file[f].stage \in {"opening", "open"}
         /\ \A t, u \in Threads : t # u /\ MyFile(t) = f /\ MyFile(u) = f => file[f].stage = "open"
<1>1. file[f].stage \in {"opening", "open"}
  BY DEF Announced, CallsShape, CallsInv, CallInv, OpenSteps
<1>. QED  BY <1>1, NoValueIsNull DEF CallsShape, CallsInv, FileInv

(* Whatever a thread does with one file leaves the others as they were.    *)
LEMMA OtherFilesKept ==
  ASSUME CallsShape, NEW t \in Threads, NEW f \in Files, NEW g \in Files \ {f},
         file'[g] = file[g],
         \A u \in Threads \ {t} : thr'[u] = thr[u],
         thr'[t].file \in {f, NULL}
  PROVE  FileKept(g)
<1>1. Announced(g)' => Announced(g)
  BY NoValueIsNull DEF Announced, MyFile
<1>. QED  BY <1>1 DEF FileKept

(* Steps that send no request announce nothing and move no file. *)
LEMMA ThreadKeepsFiles ==
  ASSUME ShapeInv, NEW t \in Threads, CallStep(t) \/ UserStep(t), ~SendsRequest, NEW g \in Files
  PROVE  FileKept(g)
<1>1. CallsShape /\ thr \in [Threads -> Call] /\ file \in [Files -> File]
  BY DEF ShapeInv, TypeOK, CallsShape, CallsType
<1>2. CASE file' = file /\ thr' = thr
  BY <1>2 DEF FileKept, Announced, MyFile
<1>3. ASSUME file' = file, \A u \in Threads \ {t} : thr'[u] = thr[u],
             thr'[t].step \in {"openFind", "openWait"} =>
                 thr[t].step \in {"openFind", "openWait"} /\ thr'[t].file = thr[t].file
      PROVE  FileKept(g)
  <2>1. Announced(g)' => Announced(g)
    BY <1>3 DEF Announced, MyFile
  <2>. QED  BY <1>3, <2>1 DEF FileKept
<1>4. ASSUME NEW s \in {"open", "closed"}, Return(t, s), MyFile(t) \in Files,
             s = "open" => thr[t].step \in WriteSteps \cup {"openWait"}
      PROVE  FileKept(g)
  <2>1. /\ thr'[t].file = NULL /\ thr'[t].step = "idle"
        /\ \A u \in Threads \ {t} : thr'[u] = thr[u]
    BY <1>1, <1>4 DEF Return, IdleThread
  <2>2. CASE g # MyFile(t)
    <3>1. file'[g] = file[g]
      BY <1>1, <1>4, <2>2 DEF Return
    <3>. QED  BY <1>1, <1>4, <2>1, <2>2, <3>1, OtherFilesKept
  <2>3. CASE g = MyFile(t) /\ s = "closed"
    BY <1>1, <1>4, <2>3 DEF Return, ClosedFile, FileKept
  <2>4. CASE g = MyFile(t) /\ s = "open"
    <3>1. Announced(g)
      BY <1>1, <1>4, <2>4 DEF CallsShape, CallsInv, CallInv, Announced
    <3>2. file[g].stage # "closed"
      BY <1>1, <3>1, AnnouncedInUse
    <3>3. file'[g].id = file[g].id /\ file'[g].dev = file[g].dev
      BY <1>1, <1>4, <2>4 DEF Return, File
    <3>. QED  BY <3>1, <3>2, <3>3 DEF FileKept
  <2>. QED  BY <2>2, <2>3, <2>4
<1>5. ASSUME NEW f \in Files, NEW x \in File, NEW s \in ThreadSteps,
             file' = [file EXCEPT ![f] = x],
             thr' = [thr EXCEPT ![t] = [@ EXCEPT !.step = s]]
               \/ thr' = [thr EXCEPT ![t] = [IdleThread EXCEPT !.step = s, !.file = f]],
             thr'[t].file = f, s \notin {"openFind", "openWait"}, x.stage # "open",
             \A u \in Threads \ {t} : MyFile(u) # f,
             \/ file[f].stage # "closed" /\ x.dev = file[f].dev
             \/ Registered(x.dev) /\ dev' = dev
      PROVE  FileKept(g)
  <2>1. /\ thr'[t].file = f /\ thr'[t].step = s
        /\ \A u \in Threads \ {t} : thr'[u] = thr[u]
    <3>. DEFINE c == [thr[t] EXCEPT !.step = s]
                d == [IdleThread EXCEPT !.step = s, !.file = f]
    <3>1. c.step = s
      BY <1>1 DEF Call
    <3>2. d.step = s
      BY DEF IdleThread
    <3>3. thr' = [thr EXCEPT ![t] = c] \/ thr' = [thr EXCEPT ![t] = d]
      BY <1>5
    <3>. HIDE DEF c, d
    <3>4. ASSUME NEW x1, thr' = [thr EXCEPT ![t] = x1]
          PROVE  thr'[t] = x1 /\ \A u \in Threads \ {t} : thr'[u] = thr[u]
      BY <1>1, <3>4
    <3>. QED  BY <1>5, <3>1, <3>2, <3>3, <3>4, Zenon
  <2>2. file'[f] = x /\ \A h \in Files \ {f} : file'[h] = file[h]
    BY <1>1, <1>5
  <2>3. CASE g # f
    BY <1>1, <2>1, <2>2, <2>3, OtherFilesKept
  <2>4. CASE g = f
    <3>1. ~Announced(f)'
      BY <1>5, <2>1, <2>2 DEF Announced, MyFile
    <3>. QED  BY <1>5, <2>2, <2>4, <3>1 DEF FileKept, Registered
  <2>. QED  BY <2>3, <2>4
<1>6. CallInv(t) /\ FileInv
  BY <1>1 DEF CallsShape, CallsInv
<1>7. CASE AddToot(t)
  <2>1. PICK i \in TootIds : file' = [file EXCEPT ![MyFile(t)].id = i]
    BY <1>7 DEF AddToot
  <2>2. /\ MyFile(t) \in Files /\ file[MyFile(t)].stage = "opening"
        /\ \A u \in Threads \ {t} : MyFile(u) # MyFile(t)
    BY <1>6, <1>7, NoValueIsNull DEF AddToot, CallInv, FileInv, At, OpenSteps
  <2>. DEFINE x == [file[MyFile(t)] EXCEPT !.id = i]
  <2>3. x \in File /\ x.stage = "opening" /\ x.dev = file[MyFile(t)].dev
    BY <1>1, <2>2 DEF File
  <2>4. file' = [file EXCEPT ![MyFile(t)] = x]
    BY <2>1
  <2>5. thr' = [thr EXCEPT ![t] = [@ EXCEPT !.step = "newToot"]] /\ "newToot" \in ThreadSteps
    BY <1>7 DEF AddToot, StepTo, ThreadSteps
  <2>6. thr'[t].file = MyFile(t)
    BY <1>1, <2>5 DEF Call, MyFile
  <2>. HIDE DEF x
  <2>. QED  BY <1>5, <2>2, <2>3, <2>4, <2>5, <2>6
<1>8. ASSUME NEW f \in Files, NEW d \in DeviceIds, OpenDevice(t, f, d) PROVE FileKept(g)
  <2>. DEFINE x == [stage |-> "opening", id |-> NULL, dev |-> d]
  <2>1. x \in File /\ x.stage = "opening" /\ x.dev = d /\ Registered(d)
    BY <1>8 DEF File, FileStages, OpenDevice, Ready
  <2>2. file' = [file EXCEPT ![f] = x] /\ dev' = dev
    BY <1>8 DEF OpenDevice, deviceVars, devVars
  <2>3. /\ thr' = [thr EXCEPT ![t] = [IdleThread EXCEPT !.step = "addToot", !.file = f]]
        /\ "addToot" \in ThreadSteps
    BY <1>8 DEF OpenDevice, ThreadSteps
  <2>4. thr'[t].file = f
    BY <1>1, <2>3 DEF IdleThread
  <2>5. \A u \in Threads \ {t} : MyFile(u) # f
    BY <1>1, <1>8, ClosedUnused DEF OpenDevice
  <2>. HIDE DEF x
  <2>. QED  BY <1>5, <2>1, <2>2, <2>3, <2>4, <2>5
<1>9. ASSUME NEW f \in Files, CloseTootFails(t, f) PROVE FileKept(g)
  <2>. DEFINE x == [file[f] EXCEPT !.stage = "closing"]
  <2>1. x \in File /\ x.stage = "closing" /\ x.dev = file[f].dev /\ file[f].stage # "closed"
    BY <1>1, <1>9 DEF File, FileStages, CloseTootFails, StartsClose
  <2>2. file' = [file EXCEPT ![f] = x]
    BY <1>9 DEF CloseTootFails, ClosingAt, Stage
  <2>3. /\ thr' = [thr EXCEPT ![t] = [IdleThread EXCEPT !.step = "removeToot", !.file = f]]
        /\ "removeToot" \in ThreadSteps
    BY <1>9 DEF CloseTootFails, ClosingAt, ThreadSteps
  <2>4. thr'[t].file = f
    BY <1>1, <2>3 DEF IdleThread
  <2>5. \A u \in Threads \ {t} : MyFile(u) # f
    BY <1>9 DEF CloseTootFails, StartsClose
  <2>. HIDE DEF x
  <2>. QED  BY <1>5, <2>1, <2>2, <2>3, <2>4, <2>5
<1>10. ASSUME NEW f \in Files, CloseTootLost(t, f) PROVE FileKept(g)
  <2>1. thr' = thr /\ file' = [file EXCEPT ![f] = ClosedFile]
    BY <1>10 DEF CloseTootLost
  <2>. QED  BY <1>1, <2>1 DEF FileKept, Announced, MyFile, ClosedFile
<1>11. CASE \E f \in Files : WriteToot(t, f)
  <2>1. /\ file' = file /\ \A u \in Threads \ {t} : thr'[u] = thr[u]
        /\ thr'[t].step = "addElement"
    BY <1>1, <1>11 DEF WriteToot, IdleThread
  <2>. QED  BY <1>3, <2>1
<1>12. CASE OpenReturns(t) \/ AddTootFails(t) \/ AddElementFails(t) \/ AddTextFails(t)
            \/ AddTextNoToot(t) \/ WriteFindFails(t) \/ WriteGivesUp(t) \/ WriteReturns(t)
            \/ RemovedToot(t) \/ NothingToRemove(t)
  <2>1. MyFile(t) \in Files
    BY <1>6, <1>12
       DEF CallInv, At, OpenReturns, AddTootFails, AddElementFails, AddTextFails, AddTextNoToot,
           WriteFindFails, WriteGivesUp, WriteReturns, RemovedToot, NothingToRemove
  <2>2. \/ Return(t, "closed")
        \/ Return(t, "open") /\ thr[t].step \in WriteSteps \cup {"openWait"}
    BY <1>12
       DEF At, OpenReturns, AddTootFails, AddElementFails, AddTextFails, AddTextNoToot,
           WriteFindFails, WriteGivesUp, WriteReturns, RemovedToot, NothingToRemove, WriteSteps
  <2>. QED  BY <1>4, <2>1, <2>2
<1>13. CASE NewTootFails(t) \/ OpenFind(t) \/ OpenFindFails(t) \/ OpenGivesUp(t) \/ AddElement(t)
            \/ WriteFind(t) \/ CloseFind(t) \/ CloseFindFails(t) \/ CloseReturns(t)
  <2>1. /\ file' = file /\ \A u \in Threads \ {t} : thr'[u] = thr[u]
        /\ thr'[t].step \in {"openFind", "openWait"} =>
                 thr[t].step \in {"openFind", "openWait"} /\ thr'[t].file = thr[t].file
    BY <1>1, <1>13
       DEF NewTootFails, OpenFind, OpenFindFails, OpenGivesUp, AddElement, WriteFind, CloseFind,
           CloseFindFails, CloseReturns, StepTo, At, Call
  <2>. QED  BY <1>3, <2>1
<1>14. CASE RemoveToot(t)
  BY <1>2, <1>14 DEF RemoveToot
<1>. QED
  BY <1>7, <1>8, <1>9, <1>10, <1>11, <1>12, <1>13, <1>14
     DEF CallStep, OtherCallStep, UserStep, SendsRequest

(* A step that sends no request keeps what the agents were told. *)
LEMMA QuietKeepsTold ==
  ASSUME ConversationInv, [Next]_vars, Hear, ~SendsRequest
  PROVE  TalkInv'
<1>1. UNCHANGED <<told, last>>
  BY OthersAskNothing DEF Hear, ConversationInv, TootsInv
<1>2. ASSUME ~torn' PROVE \A g \in Files : Told(g)'
  <2>1. ~torn /\ \A g \in Files : Told(g)
    <3>1. torn' = torn \/ torn' = TRUE
      BY TornForGood DEF ConversationInv, TootsInv
    <3>2. ~torn
      BY <1>2, <3>1, Zenon
    <3>. QED  BY <3>2 DEF ConversationInv, TalkInv
  <2>2. ASSUME NEW g \in Files PROVE FileKept(g)
    <3>1. CASE UNCHANGED <<file, thr>>
      BY <3>1 DEF FileKept, Announced, MyFile
    <3>2. ASSUME NEW t \in Threads, CallStep(t) \/ UserStep(t) PROVE FileKept(g)
      BY <3>2, ThreadKeepsFiles DEF ConversationInv, TootsInv
    <3>. QED
      BY <3>1, <3>2
         DEF Next, DeviceStep, HandlerStep, AnswerStep, MarkDeviceUnready, ForgetEmptyDevice,
             RemoveDeviceToot, RemovedDeviceToot, AnswerFind, AnswerTooLate, AnswerSet,
             AnswerToot, AnswerText, AnswerRefused, vars, tootVars
  <2>3. ASSUME NEW g \in Files PROVE Told(g)'
    <3>1. CASE Registered(file[g].dev)' /\ ~Announced(g)'
      BY <3>1 DEF Told
    <3>2. CASE /\ file[g].stage # "closed" /\ file'[g].dev = file[g].dev
               /\ Announced(g)' => Announced(g) /\ file'[g].id = file[g].id
      <4>1. dev'[file[g].dev] # NULL /\ dev'[file[g].dev].pid = dev[file[g].dev].pid
        BY <2>1, <3>2, DevicesStay DEF Told, ConversationInv
      <4>. QED  BY <1>1, <2>1, <3>2, <4>1 DEF Told, Registered
    <3>. QED  BY <2>2, <3>1, <3>2 DEF FileKept, Told
  <2>. QED  BY <2>3
<1>. QED  BY <1>1, <1>2 DEF TalkInv, ConversationInv

(* create_toot: the toot is announced to the process of its device. *)
LEMMA NewTootKeepsTold ==
  ASSUME ConversationInv, NEW t \in Threads, NewToot(t), Hear
  PROVE  /\ TalkInv'
         /\ \E p \in Agents, i \in TootIds : Protocol!Announce(p, i)
<1>. DEFINE i == MyToot(t)
            p == PidOf(MyToot(t))
            m == NewTootMsg(MyToot(t), file[MyFile(t)].dev)
<1>1. /\ ShapeInv /\ CallsShape /\ CallInv(t) /\ NetTypeOK
      /\ told \in [Agents -> SUBSET TootIds]
  BY DEF ConversationInv, TootsInv, TalkInv, ShapeInv, CallsShape, CallsType, CallsInv, TypeOK,
         DevTypeOK
<1>2. TootReady(i) /\ At(t, "newToot") /\ SendOk(p, m)
  BY DEF NewToot
<1>3. i \in TootIds /\ p \in Agents
  BY <1>1, <1>2, ReadyToot
<1>4. MyFile(t) \in Files /\ file[MyFile(t)].stage = "opening" /\ file[MyFile(t)].dev \in DeviceIds
  BY <1>1, <1>2 DEF CallInv, At, OpenSteps, CallsShape, CallsInv, FileInv
<1>5. m \in Message /\ m.type = "NEW_TOOT" /\ m.toot = i
  BY <1>3, <1>4 DEF NewTootMsg, Message, Request
<1>6. told' = [told EXCEPT ![p] = HeldAfter(@, m)] /\ last' = [agent |-> p, type |-> m.type, toot |-> m.toot]
  BY <1>1, <1>2, <1>3, <1>5, RequestIsHeard DEF Requests
<1>7. told' = [told EXCEPT ![p] = @ \cup {i}]
  BY <1>5, <1>6 DEF HeldAfter
<1>8. Protocol!Announce(p, i)
  BY <1>5, <1>6, <1>7 DEF Protocol!Announce, Protocol!Says
<1>9. ASSUME ~torn', NEW g \in Files PROVE Told(g)'
  <2>1. ~torn /\ dev' = dev /\ file' = file
    BY <1>9 DEF NewToot, devVars
  <2>2. /\ \A u \in Threads \ {t} : thr'[u] = thr[u]
        /\ thr'[t].file = MyFile(t)
    BY <1>1 DEF NewToot, StepTo, ShapeInv, TypeOK, Call, MyFile
  <2>3. Told(g)
    BY <2>1 DEF ConversationInv, TalkInv
  <2>4. CASE g = MyFile(t)
    <3>1. Holds(g, i)
      BY <1>4, <2>4 DEF Holds, MyToot
    <3>2. DeviceOf(i) = file[g].dev
      BY <1>3, <2>1, <3>1 DEF ConversationInv, TootsInv, OwnInv, FileOwnsToot, DeviceOf
    <3>3. i \in told'[p]
      BY <1>1, <1>3, <1>7
    <3>. QED  BY <1>4, <2>1, <2>3, <2>4, <3>2, <3>3 DEF Told, Registered, PidOf, MyToot
  <2>5. CASE g # MyFile(t)
    <3>1. Announced(g)' => Announced(g)
      BY <2>1, <2>2, <2>5 DEF Announced, MyFile
    <3>2. \A q : told[q] \subseteq told'[q] \/ q \notin Agents
      BY <1>1, <1>3, <1>7
    <3>3. file[g].stage # "closed" => dev[file[g].dev].pid \in Agents
      BY <1>1, <2>3 DEF Told, Registered, ShapeInv, TypeOK, DevTypeOK, Device, CallsInv, FileInv
    <3>. QED  BY <2>1, <2>3, <3>1, <3>2, <3>3 DEF Told, Registered
  <2>. QED  BY <2>4, <2>5
<1>10. told' \in [Agents -> SUBSET TootIds]
  BY <1>1, <1>3, <1>7
<1>. QED  BY <1>3, <1>8, <1>9, <1>10 DEF TalkInv

(* add_toot_element: the agent holds the toot that the text is for. *)
LEMMA AddTextKeepsTold ==
  ASSUME ConversationInv, NEW t \in Threads, AddText(t), Hear
  PROVE  /\ TalkInv'
         /\ torn \/ \E p \in Agents, i \in TootIds : Protocol!AddText(p, i)
<1>. DEFINE i == MyToot(t)
            p == PidOf(MyToot(t))
            m == AddTextMsg(MyToot(t), DeviceOf(MyToot(t)), thr[t].elem)
<1>1. /\ ShapeInv /\ CallsShape /\ CallInv(t) /\ NetTypeOK
      /\ told \in [Agents -> SUBSET TootIds]
  BY DEF ConversationInv, TootsInv, TalkInv, ShapeInv, CallsShape, CallsType, CallsInv, TypeOK,
         DevTypeOK
<1>2. TootReady(i) /\ At(t, "addText") /\ SendOk(p, m)
  BY DEF AddText
<1>3. i \in TootIds /\ p \in Agents /\ DeviceOf(i) \in DeviceIds
  BY <1>1, <1>2, ReadyToot
<1>4. MyFile(t) \in Files /\ file[MyFile(t)].stage = "open" /\ thr[t].elem \in ElementIds
  BY <1>1, <1>2 DEF CallInv, At, WriteSteps, ElemSteps
<1>5. m \in Message /\ m.type = "ADD_TOOT_TEXT" /\ m.toot = i
  BY <1>3, <1>4 DEF AddTextMsg, Message, Request
<1>6. told' = [told EXCEPT ![p] = HeldAfter(@, m)] /\ last' = [agent |-> p, type |-> m.type, toot |-> m.toot]
  BY <1>1, <1>2, <1>3, <1>5, RequestIsHeard DEF Requests
<1>7. told' = told
  BY <1>1, <1>5, <1>6 DEF HeldAfter
<1>8. ASSUME ~torn PROVE Protocol!AddText(p, i)
  <2>1. Told(MyFile(t)) /\ Announced(MyFile(t))
    BY <1>4, <1>8 DEF ConversationInv, TalkInv, Announced
  <2>2. DeviceOf(i) = file[MyFile(t)].dev
    BY <1>3, <1>4, <1>8 DEF ConversationInv, TootsInv, OwnInv, FileOwnsToot, DeviceOf, Holds, MyToot
  <2>3. i \in told[p]
    BY <1>4, <2>1, <2>2 DEF Told, PidOf, MyToot
  <2>. QED  BY <1>5, <1>6, <1>7, <2>3 DEF Protocol!AddText, Protocol!Says
<1>9. ASSUME ~torn', NEW g \in Files PROVE Told(g)'
  <2>1. ~torn /\ dev' = dev /\ file' = file
    BY <1>9 DEF AddText, devVars
  <2>2. /\ \A u \in Threads \ {t} : thr'[u] = thr[u]
        /\ thr'[t].step = "writeFind"
    BY <1>1 DEF AddText, StepTo, ShapeInv, TypeOK, Call
  <2>3. Announced(g)' => Announced(g)
    BY <2>1, <2>2 DEF Announced, MyFile
  <2>. QED  BY <1>7, <2>1, <2>3 DEF Told, Registered, ConversationInv, TalkInv
<1>. QED  BY <1>1, <1>3, <1>7, <1>8, <1>9 DEF TalkInv

(* send_toot: the agent holds the toot, and no other open file has its id. *)
LEMMA CloseTootKeepsTold ==
  ASSUME ConversationInv, NEW t \in Threads, NEW f \in Files, CloseToot(t, f), Hear
  PROVE  /\ TalkInv'
         /\ torn \/ \E p \in Agents, i \in TootIds : Protocol!Send(p, i)
<1>. DEFINE i == file[f].id
            p == PidOf(file[f].id)
<1>1. /\ ShapeInv /\ CallsShape /\ NetTypeOK
      /\ told \in [Agents -> SUBSET TootIds]
  BY DEF ConversationInv, TootsInv, TalkInv, ShapeInv, CallsShape, CallsType, CallsInv, TypeOK,
         DevTypeOK
<1>2. PICK g \in TootIds : TootReady(g) /\ SendOk(p, SendTootMsg(i, DeviceOf(g)))
  BY DEF CloseToot
<1>. DEFINE m == SendTootMsg(i, DeviceOf(g))
<1>3. i \in TootIds /\ p \in Agents /\ DeviceOf(g) \in DeviceIds
  BY <1>1, <1>2, ReadyToot DEF CloseToot
<1>4. m \in Message /\ m.type = "SEND_TOOT" /\ m.toot = i
  BY <1>3 DEF SendTootMsg, Message, Request
<1>5. told' = [told EXCEPT ![p] = HeldAfter(@, m)] /\ last' = [agent |-> p, type |-> m.type, toot |-> m.toot]
  BY <1>1, <1>2, <1>3, <1>4, RequestIsHeard DEF Requests
<1>6. told' = [told EXCEPT ![p] = @ \ {i}]
  BY <1>4, <1>5 DEF HeldAfter
<1>7. file[f].stage = "open" /\ \A u \in Threads : MyFile(u) # f
  BY DEF CloseToot, StartsClose
<1>8. ASSUME ~torn PROVE Protocol!Send(p, i)
  <2>1. Told(f) /\ Announced(f)
    BY <1>7, <1>8 DEF ConversationInv, TalkInv, Announced
  <2>2. DeviceOf(i) = file[f].dev
    BY <1>3, <1>7, <1>8 DEF ConversationInv, TootsInv, OwnInv, FileOwnsToot, DeviceOf, Holds
  <2>3. i \in told[p]
    BY <1>7, <2>1, <2>2 DEF Told, PidOf
  <2>. QED  BY <1>4, <1>5, <1>6, <2>3 DEF Protocol!Send, Protocol!Says
<1>9. ASSUME ~torn', NEW h \in Files PROVE Told(h)'
  <2>1. ~torn /\ dev' = dev
    BY <1>9 DEF CloseToot, devVars
  <2>2. /\ \A u \in Threads \ {t} : thr'[u] = thr[u]
        /\ thr'[t].file = f /\ thr'[t].step = "closeFind"
    BY <1>1 DEF CloseToot, ClosingAt, ShapeInv, TypeOK, IdleThread
  <2>3. /\ file'[f].stage = "closing" /\ file'[f].dev = file[f].dev
        /\ \A x \in Files \ {f} : file'[x] = file[x]
    BY <1>1 DEF CloseToot, ClosingAt, Stage, ShapeInv, TypeOK, File
  <2>4. Told(h)
    BY <2>1 DEF ConversationInv, TalkInv
  <2>5. CASE h = f
    <3>1. ~Announced(f)'
      BY <1>7, <2>2, <2>3 DEF Announced, MyFile
    <3>. QED  BY <1>7, <2>1, <2>3, <2>4, <2>5, <3>1 DEF Told, Registered
  <2>6. CASE h # f
    <3>1. Announced(h)' => Announced(h)
      BY <2>2, <2>3, <2>6 DEF Announced, MyFile
    <3>2. file[h].stage # "closed" => file[h].id # i
      BY <1>3, <1>7, <2>1, <2>6 DEF ConversationInv, TootsInv, OwnInv, FileOwnsToot, Holds
    <3>3. file[h].stage # "closed" => dev[file[h].dev].pid \in Agents
      BY <1>1, <2>4 DEF Told, Registered, ShapeInv, TypeOK, DevTypeOK, Device, CallsInv, FileInv
    <3>4. \A q \in Agents : told[q] \ {i} \subseteq told'[q]
      BY <1>1, <1>3, <1>6
    <3>. QED  BY <2>1, <2>3, <2>4, <2>6, <3>1, <3>2, <3>3, <3>4 DEF Told, Registered
  <2>. QED  BY <2>5, <2>6
<1>10. told' \in [Agents -> SUBSET TootIds]
  BY <1>1, <1>3, <1>6
<1>. QED  BY <1>3, <1>8, <1>9, <1>10 DEF TalkInv

-----------------------------------------------------------------------------
(* The theorems. *)

(* The history variables restrict nothing: what holds of the module holds  *)
(* of its conversations.                                                   *)
LEMMA TalksAsToots == TalkSpec => Spec
<1>1. TalkInit => Init
  BY DEF TalkInit
<1>2. [TalkNext]_talkVars => [Next]_vars
  BY DEF TalkNext, talkVars
<1>. QED  BY <1>1, <1>2, PTL DEF TalkSpec, Spec

(* What the agents have been told agrees with the files in use. *)
THEOREM ConversationInvariant == TalkSpec => []ConversationInv
<1>1. TalkInit => TalkInv
  BY DEF TalkInit, TalkInv, Init, Told, ClosedFile
<1>2. ConversationInv /\ [TalkNext]_talkVars => TalkInv'
  <2>. SUFFICES ASSUME ConversationInv, [TalkNext]_talkVars PROVE TalkInv'
    OBVIOUS
  <2>1. CASE TalkNext
    BY <2>1, QuietKeepsTold, NewTootKeepsTold, AddTextKeepsTold, CloseTootKeepsTold
       DEF TalkNext, SendsRequest
  <2>2. CASE UNCHANGED talkVars
    BY <2>2 DEF talkVars, vars, deviceVars, devVars, tootVars, ConversationInv, TalkInv, Told,
                Announced, Registered, MyFile
  <2>. QED  BY <2>1, <2>2
<1>3. ConversationInv <=> TootsInv /\ TalkInv
  BY DEF ConversationInv
<1>. QED  BY <1>1, <1>2, <1>3, TalksAsToots, TootsInvariant, PTL DEF TalkSpec

(* The module keeps the promise of TootProtocol. *)
THEOREM ProtocolKept == TalkSpec => KeepsProtocol
<1>1. TalkInit => Protocol!Init
  BY DEF TalkInit, Init, Protocol!Init
<1>2. ConversationInv /\ [TalkNext]_talkVars => [Protocol!Next]_(Protocol!protocolVars)
  <2>. SUFFICES ASSUME ConversationInv, [TalkNext]_talkVars
                PROVE  Protocol!Next \/ UNCHANGED <<told, last, torn>>
    BY DEF Protocol!protocolVars
  <2>1. CASE UNCHANGED talkVars
    BY <2>1 DEF talkVars, vars, tootVars
  <2>2. CASE TalkNext
    <3>1. ShapeInv /\ Next /\ Hear /\ (torn' = torn \/ torn' = TRUE)
      BY <2>2, TornForGood DEF TalkNext, ConversationInv, TootsInv
    <3>2. CASE ~SendsRequest
      <4>1. UNCHANGED <<told, last>>
        BY <3>1, <3>2, OthersAskNothing DEF Hear
      <4>. QED  BY <3>1, <4>1, Zenon DEF Protocol!Next
    <3>3. CASE SendsRequest
      <4>1. torn' = torn
        BY <3>3 DEF SendsRequest, NewToot, AddText, CloseToot
      <4>2. \/ torn
            \/ \E p \in Agents, i \in TootIds :
                  Protocol!Announce(p, i) \/ Protocol!AddText(p, i) \/ Protocol!Send(p, i)
        BY <3>1, <3>3, NewTootKeepsTold, AddTextKeepsTold, CloseTootKeepsTold DEF SendsRequest
      <4>. QED  BY <4>1, <4>2, Zenon DEF Protocol!Next
    <3>. QED  BY <3>2, <3>3
  <2>. QED  BY <2>1, <2>2
<1>. QED
  BY <1>1, <1>2, ConversationInvariant, PTL DEF TalkSpec, KeepsProtocol, Protocol!Spec
=============================================================================

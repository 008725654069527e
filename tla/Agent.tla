------------------------------- MODULE Agent -------------------------------
(***************************************************************************)
(* The goroutines of one agent (daemon/cmd/daemon/agent/agent.go and       *)
(* daemon/internal/driver/device.go) from the moment its device exists:    *)
(*   main    waits for the interrupt, then for the group, then destroys    *)
(*           the device, which reads the answer from the same socket;      *)
(*   spawn   `go eg.Go(...)`, which starts the loop at a time of its own;  *)
(*   loop    RunMessageLoop's select: cancelled, a tick, or a message;     *)
(*   reader  RunMessageLoop's inner goroutine: ReciveMessage for ever,     *)
(*           handing each message over an unbuffered channel.              *)
(* The kernel module is the environment; its handlers run inside sendto.   *)
(***************************************************************************)
EXTENDS Naturals, Sequences, FiniteSets

CONSTANTS
    MaxRequests,  \* bound: requests the driver sends
    RcvBuf,       \* bound: messages the socket's receive buffer holds
    SendFaults,   \* whether sendto may fail
    NULL          \* no message: what ReciveMessage returns with an error

ASSUME AgentAssumption == MaxRequests \in Nat /\ RcvBuf \in Nat \ {0} /\ SendFaults \in BOOLEAN

VARIABLES
    main,     \* where StartAgent is
    loop,     \* "unstarted", "select", "handle" or "ended"
    cur,      \* the message the loop handles
    rd,       \* rd[g]: where goroutine g is in ReciveMessage
    got,      \* got[g]: the message g has taken there
    inbox,    \* the socket's receive queue
    pending,  \* Connection.pendingMessages
    overrun,  \* the kernel could not queue a message: sk_err is ENOBUFS
    normal,   \* Device.isNormal
    done,     \* the context is cancelled
    alive,    \* no goroutine has panicked
    asked,    \* requests the driver has sent
    answered, \* history: the requests answered, in order
    events    \* history: what happened besides requests and answers

vars == <<main, loop, cur, rd, got, inbox, pending, overrun, normal, done,
          alive, asked, answered, events>>

(* Messages of the kernel; requests are numbered in the order they come. *)
Request(n) == [type |-> "REQUEST", no |-> n]
Answer(type) == [type |-> type, no |-> 0]
Requests == {Request(n) : n \in 1 .. MaxRequests}
Messages == Requests \cup
    {Answer(type) : type \in {"GET_HEALTH_RESULT", "DESTROY_DEVICE_RESULT", "NLMSG_ERROR"}}

ASSUME NoMessageAssumption == NULL \notin Messages

Readers == {"main", "reader"}
MainSteps == {"starting", "waiting", "cancelling", "joining", "sending",
              "reading", "done"}
Other(g) == IF g = "main" THEN "reader" ELSE "main"
Note(x) == events' = events \cup {x}
At(g, step) == alive /\ main # "done" /\ rd[g] = step
Running == alive /\ main # "done"

-----------------------------------------------------------------------------
(* The kernel: what it queues, in whatever handler. *)

(* A full buffer loses the message and marks the socket (netlink_overrun). *)
Queue(m) ==
    IF Len(inbox) < RcvBuf THEN inbox' = Append(inbox, m) /\ UNCHANGED overrun
                           ELSE overrun' = TRUE /\ UNCHANGED inbox

DriverAsks ==
    /\ Running
    /\ asked < MaxRequests
    /\ asked' = asked + 1
    /\ Queue(Request(asked + 1))
    /\ UNCHANGED <<main, loop, cur, rd, got, pending, normal, done, alive, answered, events>>

-----------------------------------------------------------------------------
(* ReciveMessage, called by the reader and by DestroyDevice, without a     *)
(* lock around pendingMessages.                                            *)

(* The reader takes from the socket while DestroyDevice waits for its      *)
(* answer there.                                                           *)
Robbed(g) == IF g = "reader" /\ main = "reading" THEN {"robbed"} ELSE {}

Panic == alive' = FALSE /\ UNCHANGED <<rd, got, pending>>

Enter(g) ==
    /\ At(g, "enter")
    /\ rd' = [rd EXCEPT ![g] = IF pending = << >> THEN "receive" ELSE "load"]
    /\ UNCHANGED <<main, loop, cur, got, inbox, pending, overrun, normal, done,
                   alive, asked, answered, events>>

(* The message is appended to pendingMessages; while the other goroutine   *)
(* is appending too, one of the two may be lost.                           *)
Receive(g) ==
    /\ At(g, "receive") /\ ~overrun /\ inbox # << >>
    /\ inbox' = Tail(inbox)
    /\ \/ pending' = Append(pending, Head(inbox))
       \/ rd[Other(g)] = "load" /\ pending # << >>
            /\ pending' = [pending EXCEPT ![Len(pending)] = Head(inbox)]
    /\ rd' = [rd EXCEPT ![g] = "load"]
    /\ UNCHANGED <<main, loop, cur, got, overrun, normal, done, alive, asked,
                   answered, events>>

(* Receive returns the socket's pending error, once: no message. *)
ReceiveFails(g) ==
    /\ At(g, "receive") /\ overrun
    /\ overrun' = FALSE
    /\ got' = [got EXCEPT ![g] = NULL]
    /\ rd' = [rd EXCEPT ![g] = "return"]
    /\ events' = events \cup {"overrun"} \cup Robbed(g)
    /\ UNCHANGED <<main, loop, cur, inbox, pending, normal, done, alive, asked, answered>>

(* message := pendingMessages[0], which the other goroutine sets to nil    *)
(* before it shifts the slice; main looks into its message at once.        *)
Load(g) ==
    /\ At(g, "load")
    /\ \/ /\ pending # << >>
          /\ got' = [got EXCEPT ![g] = Head(pending)]
          /\ rd' = [rd EXCEPT ![g] = "shift"]
          /\ events' = events \cup Robbed(g)
          /\ UNCHANGED <<pending, alive>>
       \/ /\ pending # << >> /\ rd[Other(g)] = "shift" /\ g = "reader"
          /\ got' = [got EXCEPT ![g] = NULL]
          /\ rd' = [rd EXCEPT ![g] = "shift"]
          /\ Note("raced")
          /\ UNCHANGED <<pending, alive>>
       \/ /\ pending # << >> => (rd[Other(g)] = "shift" /\ g = "main")
          /\ Panic /\ Note("raced")
    /\ UNCHANGED <<main, loop, cur, inbox, overrun, normal, done, asked, answered>>

(* pendingMessages = pendingMessages[1:] *)
Shift(g) ==
    /\ At(g, "shift")
    /\ IF pending = << >> THEN Panic /\ Note("raced")
       ELSE /\ pending' = Tail(pending)
            /\ rd' = [rd EXCEPT ![g] = "return"]
            /\ UNCHANGED <<got, alive, events>>
    /\ UNCHANGED <<main, loop, cur, inbox, overrun, normal, done, asked, answered>>

Reading(g) == Enter(g) \/ Receive(g) \/ ReceiveFails(g) \/ Load(g) \/ Shift(g)

-----------------------------------------------------------------------------
(* RunMessageLoop. *)

(* `go eg.Go(...)`: eg.Go counts the loop in and starts it, and the loop   *)
(* starts its reader.                                                      *)
Spawn ==
    /\ Running /\ loop = "unstarted"
    /\ loop' = "select"
    /\ rd' = [rd EXCEPT !["reader"] = "enter"]
    /\ UNCHANGED <<main, cur, got, inbox, pending, overrun, normal, done, alive,
                   asked, answered, events>>

(* The loop returns.  eg.Go cancels the context at an error. *)
EndLoop(err) ==
    /\ loop' = "ended"
    /\ done' = (done \/ err)
    /\ cur' = NULL

LoopDone ==
    /\ Running /\ loop = "select" /\ done
    /\ EndLoop(FALSE)
    /\ UNCHANGED <<main, rd, got, inbox, pending, overrun, normal, alive, asked,
                   answered, events>>

(* Ten seconds without a message: SendGetDeviceHealth, and the kernel's    *)
(* get_health answers within it.                                           *)
Tick ==
    /\ Running /\ loop = "select" /\ normal
    /\ normal' = FALSE
    /\ Queue(Answer("GET_HEALTH_RESULT")) \/ Queue(Answer("NLMSG_ERROR"))
    /\ Note("health")
    /\ UNCHANGED <<main, loop, cur, rd, got, pending, done, alive, asked, answered>>

(* isNormal is still false: "device is not respond". *)
TickNotNormal ==
    /\ Running /\ loop = "select" /\ ~normal
    /\ EndLoop(TRUE)
    /\ UNCHANGED <<main, rd, got, inbox, pending, overrun, normal, alive, asked,
                   answered, events>>

(* Faulty: the reader reads one message. *)
TakeMessageOnce ==
    /\ Running /\ loop = "select" /\ At("reader", "return")
    /\ loop' = "handle"
    /\ cur' = got["reader"]
    /\ got' = [got EXCEPT !["reader"] = NULL]
    /\ rd' = [rd EXCEPT !["reader"] = "idle"]
    /\ UNCHANGED <<main, inbox, pending, overrun, normal, done, alive, asked,
                   answered, events>>

(* The reader hands its message over and reads on. *)
TakeMessage ==
    /\ Running /\ loop = "select" /\ At("reader", "return")
    /\ loop' = "handle"
    /\ cur' = got["reader"]
    /\ got' = [got EXCEPT !["reader"] = NULL]
    /\ rd' = [rd EXCEPT !["reader"] = "enter"]
    /\ UNCHANGED <<main, inbox, pending, overrun, normal, done, alive, asked,
                   answered, events>>

(* Faulty: the message is handled again after its answer was refused. *)
HandleRequestRetries ==
    /\ Running /\ loop = "handle" /\ cur # NULL /\ cur.type = "REQUEST"
    /\ Len(answered) < 2 * MaxRequests
    /\ answered' = Append(answered, cur.no)
    /\ \/ UNCHANGED <<inbox, overrun, events>> /\ loop' = "select" /\ cur' = NULL
       \/ Queue(Answer("NLMSG_ERROR")) /\ Note("refused") /\ UNCHANGED <<loop, cur>>
    /\ UNCHANGED <<main, rd, got, pending, normal, done, alive, asked>>

(* processNewtoot, processAddText, processSendText: the answer's handler   *)
(* runs in the kernel, which may refuse it with NLMSG_ERROR.               *)
HandleRequest ==
    /\ Running /\ loop = "handle" /\ cur # NULL /\ cur.type = "REQUEST"
    /\ answered' = Append(answered, cur.no)
    /\ \/ UNCHANGED <<inbox, overrun, events>>
       \/ Queue(Answer("NLMSG_ERROR")) /\ Note("refused")
    /\ loop' = "select" /\ cur' = NULL
    /\ UNCHANGED <<main, rd, got, pending, normal, done, alive, asked>>

(* "Unknown message": anything else, the answer to GET_HEALTH included. *)
HandleUnknown ==
    /\ Running /\ loop = "handle" /\ cur # NULL /\ cur.type # "REQUEST"
    /\ EndLoop(TRUE)
    /\ UNCHANGED <<main, rd, got, inbox, pending, overrun, normal, alive, asked,
                   answered, events>>

(* processMessages(nil) *)
HandleNil ==
    /\ Running /\ loop = "handle" /\ cur = NULL
    /\ alive' = FALSE
    /\ UNCHANGED <<main, loop, cur, rd, got, inbox, pending, overrun, normal,
                   done, asked, answered, events>>

(* Faulty: an answer that could not be sent is forgotten. *)
LoopSendFailsIgnored ==
    /\ Running /\ SendFaults /\ loop = "handle" /\ cur # NULL
    /\ loop' = "select" /\ cur' = NULL
    /\ UNCHANGED <<main, rd, got, inbox, pending, overrun, normal, done, alive,
                   asked, answered, events>>

(* sendto itself fails: the loop returns the error. *)
LoopSendFails ==
    /\ Running /\ SendFaults
    /\ \/ loop = "handle" /\ cur # NULL /\ cur.type = "REQUEST" /\ UNCHANGED normal
       \/ loop = "select" /\ normal /\ normal' = FALSE
    /\ EndLoop(TRUE)
    /\ Note("nosend")
    /\ UNCHANGED <<main, rd, got, inbox, pending, overrun, alive, asked, answered>>

LoopStep ==
    \/ LoopDone \/ Tick \/ TickNotNormal \/ TakeMessage
    \/ HandleRequest \/ HandleUnknown \/ HandleNil \/ LoopSendFails

-----------------------------------------------------------------------------
(* StartAgent. *)

MainTo(from, to) == Running /\ main = from /\ main' = to

(* Faulty: main does not wait for the interrupt. *)
WaitNot ==
    /\ MainTo("starting", "cancelling")
    /\ UNCHANGED <<loop, cur, rd, got, inbox, pending, overrun, normal, done,
                   alive, asked, answered, events>>

(* main reaches <-quit. *)
Wait ==
    /\ MainTo("starting", "waiting")
    /\ UNCHANGED <<loop, cur, rd, got, inbox, pending, overrun, normal, done,
                   alive, asked, answered, events>>

(* os/signal sends without blocking and quit has no buffer: an interrupt   *)
(* is lost unless main is waiting for it.                                  *)
Interrupt ==
    /\ Running
    /\ main' = IF main = "waiting" THEN "cancelling" ELSE main
    /\ Note("interrupt")
    /\ UNCHANGED <<loop, cur, rd, got, inbox, pending, overrun, normal, done,
                   alive, asked, answered>>

(* Faulty: the context is not cancelled. *)
CancelForgotten ==
    /\ MainTo("cancelling", "joining")
    /\ UNCHANGED <<loop, cur, rd, got, inbox, pending, overrun, normal, done,
                   alive, asked, answered, events>>

Cancel ==
    /\ MainTo("cancelling", "joining")
    /\ done' = TRUE
    /\ UNCHANGED <<loop, cur, rd, got, inbox, pending, overrun, normal, alive,
                   asked, answered, events>>

(* eg.Wait returns when no loop is counted in, also before it started. *)
Join ==
    /\ MainTo("joining", "sending")
    /\ loop \in {"unstarted", "ended"}
    /\ UNCHANGED <<loop, cur, rd, got, inbox, pending, overrun, normal, done,
                   alive, asked, answered, events>>

(* DestroyDevice: the kernel queues its answer within the request, or, if  *)
(* that fails, an NLMSG_ERROR; then ReciveMessage.                         *)
SendDestroy ==
    /\ MainTo("sending", "reading")
    /\ Queue(Answer("DESTROY_DEVICE_RESULT")) \/ Queue(Answer("NLMSG_ERROR"))
    /\ rd' = [rd EXCEPT !["main"] = "enter"]
    /\ UNCHANGED <<loop, cur, got, pending, normal, done, alive, asked, answered, events>>

SendDestroyFails ==
    /\ SendFaults
    /\ MainTo("sending", "done")
    /\ UNCHANGED <<loop, cur, rd, got, inbox, pending, overrun, normal, done,
                   alive, asked, answered, events>>

(* Whatever it read, StartAgent disconnects and the program ends. *)
Finish ==
    /\ At("main", "return")
    /\ MainTo("reading", "done")
    /\ UNCHANGED <<loop, cur, rd, got, inbox, pending, overrun, normal, done,
                   alive, asked, answered, events>>

MainStep == Cancel \/ Join \/ SendDestroy \/ SendDestroyFails \/ Finish

-----------------------------------------------------------------------------
Init ==
    /\ main = "starting" /\ loop = "unstarted" /\ cur = NULL
    /\ rd = [g \in Readers |-> "idle"] /\ got = [g \in Readers |-> NULL]
    /\ inbox = << >> /\ pending = << >> /\ overrun = FALSE
    /\ normal = TRUE /\ done = FALSE /\ alive = TRUE
    /\ asked = 0 /\ answered = << >> /\ events = {}

Next ==
    \/ DriverAsks \/ Spawn \/ LoopStep \/ Wait \/ Interrupt \/ MainStep
    \/ \E g \in Readers : Reading(g)

Spec == Init /\ [][Next]_vars

(* The Go scheduler runs every goroutine that can run.  A select picks any *)
(* ready case; nothing makes users interrupt or the driver ask.            *)
FairSpec ==
    /\ Spec
    /\ WF_vars(Spawn) /\ WF_vars(Wait) /\ WF_vars(MainStep)
    /\ WF_vars(LoopDone \/ TakeMessage \/ HandleRequest \/ HandleUnknown \/ HandleNil)
    /\ \A g \in Readers : WF_vars(Reading(g))
-----------------------------------------------------------------------------
(* Every variable has its type. *)
TypeOK ==
    /\ main \in MainSteps
    /\ loop \in {"unstarted", "select", "handle", "ended"}
    /\ cur \in Messages \cup {NULL}
    /\ rd \in [Readers -> {"idle", "enter", "receive", "load", "shift", "return"}]
    /\ got \in [Readers -> Messages \cup {NULL}]
    /\ inbox \in Seq(Messages) /\ Len(inbox) <= RcvBuf
    /\ pending \in Seq(Messages)
    /\ {overrun, normal, done, alive} \subseteq BOOLEAN
    /\ asked \in 0 .. MaxRequests /\ answered \in Seq(1 .. MaxRequests)
    /\ events \subseteq {"overrun", "raced", "health", "refused", "nosend",
                         "interrupt", "robbed"}

(* No request is answered twice or before an older one, also when the loop *)
(* starts late and shares the socket with DestroyDevice.                   *)
AnswersInOrder ==
    \A i, j \in DOMAIN answered : i < j => answered[i] < answered[j]

(* What ends a loop that nobody interrupted: a health question, an answer  *)
(* the module refused (a time-out ran out first), or a failed sendto.      *)
(* What kills the process: a full receive buffer, or DestroyDevice racing  *)
(* with the reader.  Requests alone never do.                              *)
EndsForAReason ==
    /\ loop = "ended" =>
         \/ main \notin {"starting", "waiting"}
         \/ events \cap {"health", "refused", "nosend"} # {}
    /\ ~alive => events \cap {"overrun", "raced"} # {}

(* DestroyDevice and the loop's reader use pendingMessages at once only    *)
(* after an interrupt, and the slice never holds more than the two of them *)
(* can put there.                                                          *)
OneReaderUntilInterrupted ==
    /\ "raced" \in events => "interrupt" \in events
    /\ "interrupt" \notin events => rd["main"] = "idle" /\ Len(pending) <= 1
    /\ Len(pending) <= 2

(* Nothing but a named reason ends the loop or the process, and until the  *)
(* interrupt the connection has one reader.                                *)
LoopInv == TypeOK /\ EndsForAReason /\ OneReaderUntilInterrupted

(* Every request on its way is answered, unless the loop ended, the        *)
(* process died, or it was interrupted.                                    *)
Serving == Running /\ loop # "ended" /\ main \in {"starting", "waiting"}

Queued == (IF cur = NULL THEN << >> ELSE <<cur>>)
             \o (IF rd["reader"] # "return" \/ got["reader"] = NULL THEN << >>
                 ELSE <<got["reader"]>>)
             \o pending \o inbox

ServesRequests ==
    \A n \in 1 .. MaxRequests :
        (\E i \in DOMAIN Queued : Queued[i] = Request(n)) /\ Serving
          ~> (\E i \in DOMAIN answered : answered[i] = n) \/ ~Serving

(* An interrupted agent ends, unless the loop's reader, which nobody       *)
(* stops, took the answer that DestroyDevice waits for.                    *)
StopsUnlessRobbed ==
    main = "cancelling" ~> main = "done" \/ ~alive \/ "robbed" \in events

-----------------------------------------------------------------------------
(* The agent is what the driver side assumes of it. *)
Mode ==
    CASE ~Running -> "ended"
      [] Running /\ main \in {"sending", "reading"} -> "leaving"
      [] Running /\ main \notin {"sending", "reading"} /\ loop = "ended" -> "stopped"
      [] OTHER -> "up"

Service == INSTANCE AgentService WITH queue <- Queued, mode <- Mode

(* Four goroutines, an unbuffered channel and a slice of pending messages  *)
(* together behave like one queue whose requests are answered in order.    *)
KeepsService == Service!Spec

-----------------------------------------------------------------------------
(* Statements of the sources that the code does not keep. *)

(* device.go:174 has processHealth for the answer to the loop's own        *)
(* question: the loop does not end over that answer.                       *)
HealthAnswerAccepted ==
    [][loop = "handle" /\ cur # NULL /\ cur.type = "GET_HEALTH_RESULT"
         => loop' # "ended"]_vars

(* agent.go:48, "the signals to receive": an interrupt reaches main.       *)
InterruptHeard == "interrupt" \in events ~> main \notin {"starting", "waiting"}
=============================================================================

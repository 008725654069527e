------------------------------- MODULE Master -------------------------------
(* The master: a goroutine per user starts the agent of the user, passes    *)
(* what it prints to the log by the line, waits for its end, and starts it  *)
(* again, ten times at most. The pipes and Wait are those of os/exec.       *)
EXTENDS Integers, Sequences, SequencesExt

CONSTANTS
    Users,      \* users with a .cremona directory
    Streams,    \* stdout and stderr
    MaxRuns,    \* 10 in startAgent
    MaxOutput   \* bound: bytes an agent prints on a stream

MasterAssumption == MaxRuns \in Nat \ {0} /\ MaxOutput \in Nat

VARIABLES
    goroutine, \* where the user's goroutine is: "start", "wait", "over"
    loop,      \* i, its loop counter
    agent,     \* "none", "up", or how the process ended
    output,    \* what the process has printed, by stream
    copied,    \* how much of that the log writer was given
    buffer,    \* of the log writer
    lines,     \* history: the lines of this process the logger got
    tries,     \* history: how often the agent was started, or could not be
    returned   \* StartMaster has returned

masterVars == <<goroutine, loop, agent, output, copied, buffer, lines, tries, returned>>
process == <<agent, output, copied, buffer, lines>>

NewLine == 10
OutputBytes == {NewLine, 97}
Ends == {"zero", "failure", "signal"}
Ended(u) == agent[u] \in Ends

OnStreams(v) == [s \in Streams |-> v]

(* StartMaster: a goroutine for each user. *)
MasterInit ==
    /\ goroutine = [u \in Users |-> "start"] /\ loop = [u \in Users |-> 0]
    /\ agent = [u \in Users |-> "none"]
    /\ output = [u \in Users |-> OnStreams(<<>>)] /\ copied = [u \in Users |-> OnStreams(0)]
    /\ buffer = [u \in Users |-> OnStreams(<<>>)] /\ lines = [u \in Users |-> OnStreams(<<>>)]
    /\ tries = [u \in Users |-> 0] /\ returned = FALSE

(* The path of the program cannot be found. *)
NoExecutable(u) ==
    /\ goroutine[u] = "start" /\ tries[u] = 0
    /\ goroutine' = [goroutine EXCEPT ![u] = "over"]
    /\ UNCHANGED <<loop, process, tries, returned>>

(* cmd.Start with two new log writers. *)
StartAgent(u) ==
    /\ goroutine[u] = "start" /\ loop[u] < MaxRuns
    /\ goroutine' = [goroutine EXCEPT ![u] = "wait"] /\ agent' = [agent EXCEPT ![u] = "up"]
    /\ output' = [output EXCEPT ![u] = OnStreams(<<>>)]
    /\ copied' = [copied EXCEPT ![u] = OnStreams(0)]
    /\ buffer' = [buffer EXCEPT ![u] = OnStreams(<<>>)]
    /\ lines' = [lines EXCEPT ![u] = OnStreams(<<>>)]
    /\ tries' = [tries EXCEPT ![u] = @ + 1]
    /\ UNCHANGED <<loop, returned>>

StartFails(u) ==
    /\ goroutine[u] = "start" /\ loop[u] < MaxRuns
    /\ loop' = [loop EXCEPT ![u] = @ + 1] /\ tries' = [tries EXCEPT ![u] = @ + 1]
    /\ UNCHANGED <<goroutine, process, returned>>

(* The agent prints, and ends by itself or by a signal. *)
Prints(u) ==
    /\ agent[u] = "up"
    /\ \E s \in Streams, b \in OutputBytes :
          /\ Len(output[u][s]) < MaxOutput
          /\ output' = [output EXCEPT ![u][s] = Append(@, b)]
    /\ UNCHANGED <<goroutine, loop, agent, copied, buffer, lines, tries, returned>>

AgentEnds(u) ==
    /\ agent[u] = "up"
    /\ \E how \in Ends : agent' = [agent EXCEPT ![u] = how]
    /\ UNCHANGED <<goroutine, loop, output, copied, buffer, lines, tries, returned>>

-----------------------------------------------------------------------------
(* logWriter.Write, by the byte: a newline logs what the buffer holds.      *)
LogByte(w, b) ==
    IF b = NewLine
    THEN [buffer |-> <<>>, lines |-> Append(w.lines, Append(w.buffer, b))]
    ELSE [w EXCEPT !.buffer = Append(@, b)]

(* Faulty: the loop does not get past a newline that ends the bytes. *)
WriteStays(u, s, n) ==
    LET w == FoldLeft(LogByte, [buffer |-> buffer[u][s], lines |-> lines[u][s]],
                      SubSeq(output[u][s], copied[u][s] + 1, copied[u][s] + n))
    IN  /\ output[u][s][copied[u][s] + n] # NewLine
        /\ copied' = [copied EXCEPT ![u][s] = @ + n]
        /\ buffer' = [buffer EXCEPT ![u][s] = w.buffer]
        /\ lines' = [lines EXCEPT ![u][s] = w.lines]

LogWrite(u, s, n) ==
    LET w == FoldLeft(LogByte, [buffer |-> buffer[u][s], lines |-> lines[u][s]],
                      SubSeq(output[u][s], copied[u][s] + 1, copied[u][s] + n))
    IN  /\ copied' = [copied EXCEPT ![u][s] = @ + n]
        /\ buffer' = [buffer EXCEPT ![u][s] = w.buffer]
        /\ lines' = [lines EXCEPT ![u][s] = w.lines]

(* The copying goroutine of a stream reads any part of what is there.       *)
Copy(u) ==
    /\ \E s \in Streams : \E n \in 1..Len(output[u][s]) - copied[u][s] : LogWrite(u, s, n)
    /\ UNCHANGED <<goroutine, loop, agent, output, tries, returned>>

AllCopied(u) == \A s \in Streams : copied[u][s] = Len(output[u][s])

(* Faulty: the break leaves the loop. *)
AfterWaitLeaves(u) ==
    IF agent[u] = "signal" THEN loop' = [loop EXCEPT ![u] = MaxRuns] ELSE loop' = [loop EXCEPT ![u] = @ + 1]

(* The break after a signal leaves the select alone, so the loop goes on    *)
(* whatever the end was.                                                    *)
AfterWait(u) == loop' = [loop EXCEPT ![u] = @ + 1]

(* cmd.Wait returns when the process has ended and its streams are copied.  *)
WaitReturns(u) ==
    /\ goroutine[u] = "wait" /\ Ended(u) /\ AllCopied(u)
    /\ AfterWait(u)
    /\ goroutine' = [goroutine EXCEPT ![u] = "start"] /\ agent' = [agent EXCEPT ![u] = "none"]
    /\ UNCHANGED <<output, copied, buffer, lines, tries, returned>>

(* The end of the loop, and the deferred wg.Done. *)
GiveUp(u) ==
    /\ goroutine[u] = "start" /\ loop[u] = MaxRuns
    /\ goroutine' = [goroutine EXCEPT ![u] = "over"]
    /\ UNCHANGED <<loop, process, tries, returned>>

(* wg.Wait *)
Return ==
    /\ ~returned /\ \A u \in Users : goroutine[u] = "over"
    /\ returned' = TRUE
    /\ UNCHANGED <<goroutine, loop, process, tries>>

Goroutine(u) == NoExecutable(u) \/ StartAgent(u) \/ StartFails(u) \/ WaitReturns(u) \/ GiveUp(u)

MasterNext == Return \/ \E u \in Users : Goroutine(u) \/ Prints(u) \/ AgentEnds(u) \/ Copy(u)

(* The goroutines of the master run; nothing makes an agent end. *)
MasterSpec ==
    /\ MasterInit /\ [][MasterNext]_masterVars
    /\ WF_masterVars(Return) /\ \A u \in Users : WF_masterVars(Goroutine(u)) /\ WF_masterVars(Copy(u))
-----------------------------------------------------------------------------
IsLine(l) == l[Len(l)] = NewLine /\ \A k \in 1..Len(l) - 1 : l[k] # NewLine

(* However the output is cut into calls of Write, the logger gets its lines *)
(* one by one and in order; only a line without its end is held back.       *)
LogsWholeLines ==
    \A u \in Users, s \in Streams :
        /\ \A k \in DOMAIN lines[u][s] : IsLine(lines[u][s][k])
        /\ \A k \in DOMAIN buffer[u][s] : buffer[u][s][k] # NewLine
        /\ FlattenSeq(lines[u][s]) \o buffer[u][s] = SubSeq(output[u][s], 1, copied[u][s])

(* The master returns when every agent was tried MaxRuns times, however the *)
(* earlier ones ended, or could not be tried, and leaves no agent behind.   *)
ReturnsAfterAllTries ==
    returned => \A u \in Users : tries[u] \in {0, MaxRuns} /\ agent[u] = "none"

(* The log is whole, and no agent is given up early or left behind.         *)
MasterInv == LogsWholeLines /\ ReturnsAfterAllTries

(* Whatever an agent has printed, its end is noticed: if no agent runs for  *)
(* ever, the master returns.                                                *)
MasterReturns == (\A u \in Users : []<>(agent[u] # "up")) => <>returned
=============================================================================

----------------------------- MODULE PartsProofs -----------------------------
(* Proofs about parts that stand on their own: the master with its log,      *)
(* loading and unloading the module, the texts of toot_write, the channel    *)
(* with the messages it carries, and the driver client of the agents.        *)
EXTENDS Master, Lifecycle, Text, Connection, MsgPackProofs

-----------------------------------------------------------------------------
(* Master: for every set of users and of streams, every number of runs and   *)
(* every length of output.                                                   *)

(* The inductive invariant. A goroutine that is about to start the agent    *)
(* has none, and its loop counter is the number of tries; one that waits    *)
(* has one and counts it when the wait is over; one that is over tried as   *)
(* often as it may, or could not find the program at all.                   *)
CountsTries(u) ==
    /\ goroutine[u] = "start" => agent[u] = "none" /\ tries[u] = loop[u]
    /\ goroutine[u] = "wait"  => agent[u] # "none" /\ loop[u] < MaxRuns /\ tries[u] = loop[u] + 1
    /\ goroutine[u] = "over"  => agent[u] = "none" /\ tries[u] \in {0, MaxRuns}

LoopInv ==
    /\ goroutine \in [Users -> {"start", "wait", "over"}]
    /\ loop \in [Users -> 0..MaxRuns] /\ tries \in [Users -> 0..MaxRuns]
    /\ agent \in [Users -> {"none", "up"} \cup Ends]
    /\ \A u \in Users : CountsTries(u)
    /\ returned => \A u \in Users : goroutine[u] = "over"

(* A goroutine that takes a step keeps its own counts, and nobody else's    *)
(* are touched.                                                             *)
LEMMA GoroutineKeepsInv ==
  ASSUME MasterAssumption, LoopInv, NEW u \in Users, Goroutine(u)
  PROVE  LoopInv'
<1>. USE DEF MasterAssumption, LoopInv, CountsTries, process
<1>1. CASE NoExecutable(u)
  BY <1>1 DEF NoExecutable
<1>2. CASE StartAgent(u)
  BY <1>2 DEF StartAgent
<1>3. CASE StartFails(u)
  BY <1>3 DEF StartFails
<1>4. CASE WaitReturns(u)
  BY <1>4 DEF WaitReturns, AfterWait
<1>5. CASE GiveUp(u)
  BY <1>5 DEF GiveUp
<1>. QED  BY <1>1, <1>2, <1>3, <1>4, <1>5 DEF Goroutine

(* What an agent prints, its end and the copying of its output leave the    *)
(* counts alone: an agent that ends is still waited for.                    *)
LEMMA AgentKeepsInv ==
  ASSUME LoopInv, NEW u \in Users, Prints(u) \/ AgentEnds(u) \/ Copy(u)
  PROVE  LoopInv'
<1>. USE DEF LoopInv, CountsTries
<1>1. CASE Prints(u)
  BY <1>1 DEF Prints
<1>2. CASE AgentEnds(u)
  <2>1. PICK how \in Ends : agent' = [agent EXCEPT ![u] = how]
    BY <1>2 DEF AgentEnds
  <2>2. how # "none"
    BY DEF Ends
  <2>. QED  BY <1>2, <2>1, <2>2 DEF AgentEnds
<1>3. CASE Copy(u)
  BY <1>3 DEF Copy
<1>. QED  BY <1>1, <1>2, <1>3

(* LoopInv is inductive: StartMaster, the goroutines of the users, the      *)
(* agents and wg.Wait keep it.                                              *)
THEOREM MasterInvariant ==
  ASSUME MasterAssumption
  PROVE  MasterSpec => []LoopInv
<1>1. MasterInit => LoopInv
  BY DEF MasterInit, LoopInv, CountsTries, MasterAssumption
<1>2. LoopInv /\ [MasterNext]_masterVars => LoopInv'
  <2>. SUFFICES ASSUME LoopInv, [MasterNext]_masterVars PROVE LoopInv'
    OBVIOUS
  <2>1. CASE Return
    BY <2>1 DEF Return, LoopInv, CountsTries, process
  <2>2. CASE \E u \in Users : Goroutine(u) \/ Prints(u) \/ AgentEnds(u) \/ Copy(u)
    BY <2>2, GoroutineKeepsInv, AgentKeepsInv
  <2>3. CASE UNCHANGED masterVars
    BY <2>3 DEF masterVars, LoopInv, CountsTries
  <2>. QED  BY <2>1, <2>2, <2>3 DEF MasterNext
<1>. QED  BY <1>1, <1>2, PTL DEF MasterSpec

(* StartMaster does not return before every agent was tried MaxRuns times,  *)
(* whatever way each one ended (also by the signal after which the code     *)
(* says break), or its program could not be found; and it leaves none       *)
(* behind.                                                                  *)
THEOREM AllTriesBeforeReturn ==
  ASSUME MasterAssumption
  PROVE  MasterSpec => []ReturnsAfterAllTries
<1>1. LoopInv => ReturnsAfterAllTries
  BY DEF LoopInv, CountsTries, ReturnsAfterAllTries
<1>. QED  BY <1>1, MasterInvariant, PTL
-----------------------------------------------------------------------------
(* The log writer: what one byte does to it.                                 *)
LogStates == [buffer : Seq(OutputBytes), lines : Seq(Seq(OutputBytes))]

HoldsLines(w) ==
    /\ \A k \in DOMAIN w.lines : IsLine(w.lines[k])
    /\ \A k \in DOMAIN w.buffer : w.buffer[k] # NewLine

Logged(w) == FlattenSeq(w.lines) \o w.buffer

(* A byte joins the buffer, or ends a line that is logged.                   *)
LEMMA ByteLogged ==
  ASSUME NEW w \in LogStates, HoldsLines(w), NEW b \in OutputBytes
  PROVE  /\ LogByte(w, b) \in LogStates /\ HoldsLines(LogByte(w, b))
         /\ Logged(LogByte(w, b)) = Append(Logged(w), b)
<1>. DEFINE X == OutputBytes
            l == Append(w.buffer, b)
<1>1. w.buffer \in Seq(X) /\ w.lines \in Seq(Seq(X)) /\ <<b>> \in Seq(X) /\ <<>> \in Seq(X)
  BY DEF LogStates
<1>2. /\ l \in Seq(X) /\ Len(l) = Len(w.buffer) + 1 /\ l[Len(w.buffer) + 1] = b /\ Len(w.buffer) \in Nat
      /\ \A k \in 1..Len(w.buffer) : l[k] = w.buffer[k] /\ w.buffer[k] # NewLine
      /\ DOMAIN l = 1..Len(w.buffer) + 1 /\ l = w.buffer \o <<b>>
  BY <1>1, AppendProperties, AppendIsConcat DEF HoldsLines
<1>3. FlattenSeq(w.lines) \in Seq(X)
  BY <1>1, FlattenType
<1>4. Append(Logged(w), b) = FlattenSeq(w.lines) \o l
  <2>1. Logged(w) \in Seq(X)
    BY <1>1, <1>3, ConcatProperties DEF Logged
  <2>2. Append(Logged(w), b) = Logged(w) \o <<b>>
    BY <2>1, AppendIsConcat
  <2>3. (FlattenSeq(w.lines) \o w.buffer) \o <<b>> = FlattenSeq(w.lines) \o (w.buffer \o <<b>>)
    <3>1. PICK x, y, z : x = FlattenSeq(w.lines) /\ y = w.buffer /\ z = <<b>>
      OBVIOUS
    <3>2. x \in Seq(X) /\ y \in Seq(X) /\ z \in Seq(X)
      BY <1>1, <1>3, <3>1
    <3>3. (x \o y) \o z = x \o (y \o z)
      BY <3>2, ConcatAssociative
    <3>. QED  BY <3>1, <3>3
  <2>. QED  BY <1>2, <2>2, <2>3 DEF Logged
<1>. HIDE DEF l
<1>5. CASE b = NewLine
  <2>. DEFINE v == [buffer |-> <<>>, lines |-> Append(w.lines, l)]
  <2>1. LogByte(w, b) = v
    BY <1>5 DEF LogByte, l
  <2>2. v \in LogStates
    BY <1>1, <1>2 DEF LogStates
  <2>3. IsLine(l)
    BY <1>2, <1>5 DEF IsLine
  <2>4. HoldsLines(v)
    <3>1. ASSUME NEW k \in DOMAIN Append(w.lines, l)
          PROVE  IsLine(Append(w.lines, l)[k])
      <4>1. w.lines \in Seq(Seq(X)) /\ l \in Seq(X) /\ k \in 1..Len(w.lines) + 1
            /\ DOMAIN w.lines = 1..Len(w.lines)
        BY <1>1, <1>2, <3>1
      <4>2. CASE k \in 1..Len(w.lines)
        <5>1. Append(w.lines, l)[k] = w.lines[k]
          BY <4>1, <4>2, AppendProperties
        <5>. QED  BY <4>1, <4>2, <5>1 DEF HoldsLines
      <4>3. CASE k = Len(w.lines) + 1
        BY <2>3, <4>1, <4>3, AppendProperties
      <4>. QED  BY <4>1, <4>2, <4>3
    <3>2. DOMAIN <<>> = {}
      OBVIOUS
    <3>. QED  BY <3>1, <3>2 DEF HoldsLines
  <2>5. Logged(v) = FlattenSeq(w.lines) \o l
    <3>1. FlattenSeq(Append(w.lines, l)) = FlattenSeq(w.lines) \o l
      BY <1>1, <1>2, FlattenAppend
    <3>2. FlattenSeq(w.lines) \o l \in Seq(X)
      BY <1>2, <1>3, ConcatProperties
    <3>3. (FlattenSeq(w.lines) \o l) \o <<>> = FlattenSeq(w.lines) \o l
      BY <3>2, ConcatEmptySeq
    <3>. QED  BY <3>1, <3>3 DEF Logged
  <2>. QED  BY <1>4, <2>1, <2>2, <2>4, <2>5
<1>6. CASE b # NewLine
  <2>1. LogByte(w, b) = [w EXCEPT !.buffer = l]
    BY <1>6 DEF LogByte, l
  <2>2. [w EXCEPT !.buffer = l] \in LogStates
    BY <1>2 DEF LogStates
  <2>3. [w EXCEPT !.buffer = l].buffer = l /\ [w EXCEPT !.buffer = l].lines = w.lines
    BY DEF LogStates
  <2>4. \A k \in DOMAIN l : l[k] # NewLine
    BY <1>2, <1>6
  <2>. QED  BY <1>4, <2>1, <2>2, <2>3, <2>4 DEF HoldsLines, Logged
<1>. QED  BY <1>5, <1>6

(* FoldLeft takes the bytes one by one.                                      *)
LEMMA BytesAreFolded ==
  ASSUME NEW w \in LogStates, NEW q \in Seq(OutputBytes),
         \A v \in LogStates, b \in OutputBytes : LogByte(v, b) \in LogStates
  PROVE  \E r : /\ r \in [0..Len(q) -> LogStates] /\ r[0] = w
                /\ \A k \in 0..Len(q) - 1 : r[k + 1] = LogByte(r[k], q[k + 1])
                /\ FoldLeft(LogByte, w, q) = r[Len(q)]
<1>0. PICK n : n = Len(q)
  OBVIOUS
<1>. DEFINE D == SUBSET (1..n)
            step == [k \in 1..n |-> [v \in LogStates |-> LogByte(v, q[k])]]
            Is(f) == f = [s \in D |-> IF s = {} THEN w ELSE LogByte(f[s \ {Max(s)}], q[Max(s)])]
            iter == CHOOSE f : Is(f)
            r == [k \in 0..n |-> iter[1..k]]
<1>1. n \in Nat /\ DOMAIN q = 1..n /\ \A k \in 1..n : q[k] \in OutputBytes
  BY <1>0
<1>2. step \in [1..n -> [LogStates -> LogStates]]
  BY <1>1
<1>3. PICK g \in [D -> LogStates] : FoldsPlaces(g, n, w, step)
  <2>. HIDE DEF step
  <2>. QED  BY <1>1, <1>2, FoldExists
<1>4. Is(g)
  <2>1. ASSUME NEW s \in D
        PROVE  g[s] = IF s = {} THEN w ELSE LogByte(g[s \ {Max(s)}], q[Max(s)])
    <3>1. CASE s = {}
      BY <1>3, <3>1 DEF FoldsPlaces
    <3>2. CASE s # {}
      <4>1. Max(s) \in 1..n
        BY <1>1, <3>2, LastPlace
      <4>2. g[s \ {Max(s)}] \in LogStates
        OBVIOUS
      <4>3. g[s] = step[Max(s)][g[s \ {Max(s)}]]
        <5>. HIDE DEF step
        <5>. QED  BY <1>3, <3>2 DEF FoldsPlaces
      <4>. QED  BY <3>2, <4>1, <4>2, <4>3
    <3>. QED  BY <3>1, <3>2
  <2>. HIDE DEF D
  <2>. QED  BY <2>1
<1>5. Is(iter)
  <2>. HIDE DEF Is
  <2>. QED  BY <1>4
<1>6. \A s \in D : iter[s] = IF s = {} THEN w ELSE LogByte(iter[s \ {Max(s)}], q[Max(s)])
  <2>. HIDE DEF iter, D
  <2>. QED  BY <1>5
<1>7. FoldLeft(LogByte, w, q) = iter[1..n]
  BY <1>1 DEF FoldLeft, MapThenFoldSet
<1>. HIDE DEF iter, Is, step
<1>8. iter[1..0] = w
  <2>1. 1..0 = {} /\ 1..0 \in D
    OBVIOUS
  <2>. QED  BY <1>6, <2>1
<1>9. ASSUME NEW k \in 0..n - 1
      PROVE  iter[1..k + 1] = LogByte(iter[1..k], q[k + 1])
  <2>1. PICK s : s = 1..k + 1
    OBVIOUS
  <2>2. s \in D /\ s # {} /\ Max(s) = k + 1 /\ s \ {Max(s)} = 1..k
    BY <1>1, <2>1, FirstPlaces
  <2>3. iter[s] = LogByte(iter[s \ {Max(s)}], q[Max(s)])
    <3>. HIDE DEF D
    <3>. QED  BY <1>6, <2>2
  <2>. QED  BY <2>1, <2>2, <2>3
<1>10. \A k \in 0..n : iter[1..k] \in LogStates
  <2>. DEFINE T == {k \in 0..n : iter[1..k] \in LogStates}
  <2>1. 0 \in T
    BY <1>1, <1>8
  <2>2. ASSUME NEW k \in 0..n - 1, k \in T
        PROVE  k + 1 \in T
    <3>1. k + 1 \in 1..n /\ k + 1 \in 0..n
      BY <1>1
    <3>2. iter[1..k] \in LogStates /\ q[k + 1] \in OutputBytes
      BY <1>1, <2>2, <3>1
    <3>3. iter[1..k + 1] \in LogStates
      BY <1>9, <3>2
    <3>. QED  BY <3>1, <3>3
  <2>. HIDE DEF T
  <2>3. 0..n \subseteq T
    BY <1>1, <2>1, <2>2, InductionUpTo
  <2>. QED  BY <2>3 DEF T
<1>. HIDE DEF D
<1>11. r \in [0..n -> LogStates]
  BY <1>10
<1>12. r[0] = w /\ r[n] = iter[1..n]
  BY <1>1, <1>8
<1>13. \A k \in 0..n - 1 : r[k + 1] = LogByte(r[k], q[k + 1])
  <2>. TAKE k \in 0..n - 1
  <2>1. k \in 0..n /\ k + 1 \in 0..n
    BY <1>1
  <2>. QED  BY <1>9, <2>1
<1>. QED  BY <1>0, <1>7, <1>11, <1>12, <1>13

(* A byte behind what was put together comes behind its last part; named, to *)
(* be cited without its sequences.                                           *)
IsBehind(x, y, b) == Append(x \o y, b) = x \o Append(y, b)

LEMMA AppendBehind ==
  ASSUME NEW S, NEW x \in Seq(S), NEW y \in Seq(S), NEW b \in S
  PROVE  IsBehind(x, y, b)
<1>1. x \o y \in Seq(S) /\ <<b>> \in Seq(S)
  BY ConcatProperties
<1>2. Append(x \o y, b) = (x \o y) \o <<b>> /\ Append(y, b) = y \o <<b>>
  BY <1>1, AppendIsConcat
<1>. QED  BY <1>1, <1>2, ConcatAssociative DEF IsBehind

(* The bytes of one call are logged behind what was logged before.           *)
LEMMA BytesLogged ==
  ASSUME NEW w \in LogStates, HoldsLines(w), NEW q \in Seq(OutputBytes)
  PROVE  /\ FoldLeft(LogByte, w, q) \in LogStates
         /\ HoldsLines(FoldLeft(LogByte, w, q))
         /\ Logged(FoldLeft(LogByte, w, q)) = Logged(w) \o q
<1>. DEFINE X == OutputBytes
<1>0. PICK n : n = Len(q)
  OBVIOUS
<1>1. n \in Nat /\ Logged(w) \in Seq(X) /\ \A k \in 1..n : q[k] \in X
  <2>1. FlattenSeq(w.lines) \in Seq(X) /\ w.buffer \in Seq(X)
    BY FlattenType DEF LogStates
  <2>. QED  BY <1>0, <2>1, ConcatProperties DEF Logged
<1>2. ASSUME NEW v \in LogStates, NEW b \in X
      PROVE  LogByte(v, b) \in LogStates
  <2>1. v.buffer \in Seq(X) /\ v.lines \in Seq(Seq(X)) /\ Append(v.buffer, b) \in Seq(X)
    BY DEF LogStates
  <2>2. Append(v.lines, Append(v.buffer, b)) \in Seq(Seq(X)) /\ <<>> \in Seq(X)
    BY <2>1
  <2>3. [v EXCEPT !.buffer = Append(@, b)] \in LogStates
    BY <2>1 DEF LogStates
  <2>4. [buffer |-> <<>>, lines |-> Append(v.lines, Append(v.buffer, b))] \in LogStates
    BY <2>2 DEF LogStates
  <2>. QED  BY <2>3, <2>4 DEF LogByte
<1>3. PICK r : /\ r \in [0..n -> LogStates] /\ r[0] = w
               /\ \A k \in 0..n - 1 : r[k + 1] = LogByte(r[k], q[k + 1])
               /\ FoldLeft(LogByte, w, q) = r[n]
  <2>1. \E r : /\ r \in [0..Len(q) -> LogStates] /\ r[0] = w
               /\ \A k \in 0..Len(q) - 1 : r[k + 1] = LogByte(r[k], q[k + 1])
               /\ FoldLeft(LogByte, w, q) = r[Len(q)]
    BY <1>2, BytesAreFolded
  <2>. QED  BY <1>0, <2>1
<1>. DEFINE So(k) == HoldsLines(r[k]) /\ Logged(r[k]) = Logged(w) \o SubSeq(q, 1, k)
            T == {k \in 0..n : So(k)}
<1>4. 0 \in T
  <2>1. SubSeq(q, 1, 0) = <<>> /\ Logged(w) \o <<>> = Logged(w)
    BY <1>1, SubSeqEmpty, ConcatEmptySeq
  <2>. QED  BY <1>1, <1>3, <2>1
<1>5. ASSUME NEW k \in 0..n - 1, k \in T
      PROVE  k + 1 \in T
  <2>1. PICK b, s, j : b = q[k + 1] /\ s = SubSeq(q, 1, k) /\ j = k + 1
    OBVIOUS
  <2>2. j \in 1..n /\ b \in X /\ s \in Seq(X) /\ r[k] \in LogStates
    <3>1. j \in 1..n /\ k \in 0..n
      BY <1>1, <2>1
    <3>2. s \in Seq(X)
      BY <1>1, <2>1, SubSeqProperties
    <3>. QED  BY <1>1, <1>3, <2>1, <3>1, <3>2
  <2>3. r[j] = LogByte(r[k], b)
    BY <1>3, <2>1
  <2>4. HoldsLines(r[j]) /\ Logged(r[j]) = Append(Logged(r[k]), b)
    <3>1. HoldsLines(r[k])
      BY <1>5
    <3>. QED  BY <2>2, <2>3, <3>1, ByteLogged
  <2>5. Append(Logged(w) \o s, b) = Logged(w) \o Append(s, b)
    <3>1. IsBehind(Logged(w), s, b)
      BY <1>1, <2>2, AppendBehind
    <3>. QED  BY <3>1, Zenon DEF IsBehind
  <2>6. Append(s, b) = SubSeq(q, 1, j)
    <3>1. SubSeq(q, 1, j) = SubSeq(q, 1, j - 1) \o <<q[j]>>
      BY <1>0, <1>1, <2>2, SubSeqRecursiveSecond
    <3>2. j - 1 = k
      BY <2>1
    <3>3. Append(s, b) = s \o <<b>>
      BY <2>2, AppendIsConcat
    <3>. QED  BY <2>1, <3>1, <3>2, <3>3
  <2>7. Logged(r[k]) = Logged(w) \o s
    BY <1>5, <2>1
  <2>8. So(j)
    BY <2>4, <2>5, <2>6, <2>7
  <2>. QED  BY <1>1, <2>1, <2>2, <2>8
<1>. HIDE DEF T
<1>6. n \in T
  <2>1. 0..n \subseteq T
    BY <1>1, <1>4, <1>5, InductionUpTo
  <2>. QED  BY <1>1, <2>1
<1>7. So(n) /\ SubSeq(q, 1, n) = q /\ r[n] \in LogStates
  BY <1>0, <1>1, <1>3, <1>6, SubSeqFull DEF T
<1>. QED  BY <1>3, <1>7

-----------------------------------------------------------------------------
(* What the log writer of a stream holds and has logged is what it was given *)
(* of the output.                                                            *)
LogOf(u, s) == [buffer |-> buffer[u][s], lines |-> lines[u][s]]

LogsAsCopied(u, s) ==
    /\ copied[u][s] <= Len(output[u][s])
    /\ HoldsLines(LogOf(u, s))
    /\ Logged(LogOf(u, s)) = SubSeq(output[u][s], 1, copied[u][s])

LogTypeOK ==
    /\ output \in [Users -> [Streams -> Seq(OutputBytes)]]
    /\ copied \in [Users -> [Streams -> Nat]]
    /\ buffer \in [Users -> [Streams -> Seq(OutputBytes)]]
    /\ lines  \in [Users -> [Streams -> Seq(Seq(OutputBytes))]]

LogInv == LogTypeOK /\ \A u \in Users, s \in Streams : LogsAsCopied(u, s)

(* What is printed is put behind what the writer was given.                  *)
LEMMA PrintsKeepsLog ==
  ASSUME LogInv, NEW u \in Users, Prints(u)
  PROVE  LogInv'
<1>1. PICK s \in Streams, b \in OutputBytes : output' = [output EXCEPT ![u][s] = Append(@, b)]
  BY DEF Prints
<1>2. copied' = copied /\ buffer' = buffer /\ lines' = lines
  BY DEF Prints
<1>3. LogTypeOK'
  BY <1>1, <1>2 DEF LogInv, LogTypeOK
<1>4. ASSUME NEW v \in Users, NEW t \in Streams
      PROVE  LogsAsCopied(v, t)'
  <2>1. LogsAsCopied(v, t) /\ LogOf(v, t)' = LogOf(v, t) /\ copied'[v][t] = copied[v][t]
    BY <1>2 DEF LogInv, LogOf
  <2>2. PICK q, c : q = output[v][t] /\ c = copied[v][t]
    OBVIOUS
  <2>3. q \in Seq(OutputBytes) /\ c \in Nat /\ c <= Len(q)
    BY <2>1, <2>2 DEF LogInv, LogTypeOK, LogsAsCopied
  <2>4. output'[v][t] = q \/ output'[v][t] = Append(q, b)
    BY <1>1, <2>2 DEF LogInv, LogTypeOK
  <2>5. SubSeq(Append(q, b), 1, c) = SubSeq(q, 1, c) /\ c <= Len(Append(q, b))
    BY <2>3
  <2>6. c <= Len(output'[v][t]) /\ SubSeq(output'[v][t], 1, c) = SubSeq(q, 1, c)
    BY <2>3, <2>4, <2>5, Zenon
  <2>. QED  BY <2>1, <2>2, <2>6 DEF LogsAsCopied
<1>. QED  BY <1>3, <1>4 DEF LogInv

(* A call of Write logs what it is given.                                    *)
LEMMA CopyKeepsLog ==
  ASSUME LogInv, NEW u \in Users, Copy(u)
  PROVE  LogInv'
<1>1. PICK s \in Streams : \E n \in 1..Len(output[u][s]) - copied[u][s] : LogWrite(u, s, n)
  BY DEF Copy
<1>2. PICK n \in 1..Len(output[u][s]) - copied[u][s] : LogWrite(u, s, n)
  BY <1>1
<1>3. output' = output
  BY DEF Copy
<1>4. PICK q, c, d, p, w, z :
         /\ q = output[u][s] /\ c = copied[u][s] /\ d = c + n
         /\ p = SubSeq(q, c + 1, d) /\ w = LogOf(u, s) /\ z = FoldLeft(LogByte, w, p)
  OBVIOUS
<1>5. /\ q \in Seq(OutputBytes) /\ c \in Nat /\ n \in Nat /\ d \in Nat
      /\ c <= Len(q) /\ d <= Len(q) /\ c <= d
      /\ w \in LogStates /\ HoldsLines(w) /\ Logged(w) = SubSeq(q, 1, c)
  <2>1. /\ q \in Seq(OutputBytes) /\ c \in Nat /\ n \in 1..Len(q) - c
        /\ buffer[u][s] \in Seq(OutputBytes) /\ lines[u][s] \in Seq(Seq(OutputBytes))
    BY <1>4 DEF LogInv, LogTypeOK
  <2>2. /\ c <= Len(q) /\ HoldsLines(w) /\ Logged(w) = SubSeq(q, 1, c)
    BY <1>4 DEF LogInv, LogsAsCopied
  <2>3. w \in LogStates
    BY <1>4, <2>1 DEF LogStates, LogOf
  <2>4. n \in Nat /\ d \in Nat /\ c <= d /\ d <= Len(q)
    <3>1. d = c + n /\ Len(q) \in Nat
      BY <1>4, <2>1, LenProperties
    <3>. QED  BY <2>1, <3>1
  <2>. QED  BY <2>1, <2>2, <2>3, <2>4
<1>6. p \in Seq(OutputBytes)
  <2>1. \A k \in c + 1..d : q[k] \in OutputBytes
    BY <1>5
  <2>2. c + 1 \in Int /\ d \in Int
    BY <1>5
  <2>. QED  BY <1>4, <2>1, <2>2, SubSeqProperties
<1>7. z \in LogStates /\ HoldsLines(z) /\ Logged(z) = SubSeq(q, 1, c) \o p
  <2>1. /\ FoldLeft(LogByte, w, p) \in LogStates /\ HoldsLines(FoldLeft(LogByte, w, p))
        /\ Logged(FoldLeft(LogByte, w, p)) = Logged(w) \o p
    BY <1>5, <1>6, BytesLogged
  <2>2. z = FoldLeft(LogByte, w, p)
    BY <1>4
  <2>. QED  BY <1>5, <2>1, <2>2, Zenon
<1>8. SubSeq(q, 1, c) \o p = SubSeq(q, 1, d)
  <2>1. 1 \in 1..Len(q) + 1 /\ c \in 1 - 1..Len(q) /\ d \in c..Len(q)
    BY <1>5
  <2>. QED  BY <1>4, <1>5, <2>1, ConcatAdjacentSubSeq
<1>9. /\ copied' = [copied EXCEPT ![u][s] = d]
      /\ buffer' = [buffer EXCEPT ![u][s] = z.buffer]
      /\ lines'  = [lines EXCEPT ![u][s] = z.lines]
  <2>1. copied' = [copied EXCEPT ![u][s] = @ + n]
    BY <1>2 DEF LogWrite
  <2>2. copied' = [copied EXCEPT ![u][s] = d]
    BY <1>4, <2>1
  <2>3. z = FoldLeft(LogByte, [buffer |-> buffer[u][s], lines |-> lines[u][s]],
                     SubSeq(output[u][s], copied[u][s] + 1, copied[u][s] + n))
    BY <1>4 DEF LogOf
  <2>. QED  BY <1>2, <2>2, <2>3 DEF LogWrite
<1>10. LogTypeOK'
  <2>1. z.buffer \in Seq(OutputBytes) /\ z.lines \in Seq(Seq(OutputBytes))
    BY <1>7 DEF LogStates
  <2>. QED  BY <1>3, <1>5, <1>9, <2>1 DEF LogInv, LogTypeOK
<1>11. ASSUME NEW v \in Users, NEW t \in Streams
       PROVE  LogsAsCopied(v, t)'
  <2>1. CASE v = u /\ t = s
    <3>1. copied'[u][s] = d /\ buffer'[u][s] = z.buffer /\ lines'[u][s] = z.lines
      BY <1>9 DEF LogInv, LogTypeOK
    <3>2. LogOf(u, s)' = z
      BY <1>7, <3>1 DEF LogOf, LogStates
    <3>. QED  BY <1>3, <1>4, <1>5, <1>7, <1>8, <2>1, <3>1, <3>2 DEF LogsAsCopied
  <2>2. CASE ~(v = u /\ t = s)
    <3>1. copied'[v][t] = copied[v][t] /\ buffer'[v][t] = buffer[v][t] /\ lines'[v][t] = lines[v][t]
      BY <1>9, <2>2 DEF LogInv, LogTypeOK
    <3>. QED  BY <1>3, <3>1 DEF LogInv, LogsAsCopied, LogOf
  <2>. QED  BY <2>1, <2>2
<1>. QED  BY <1>10, <1>11 DEF LogInv

(* A new log writer holds and has logged nothing.                            *)
NewLog == [buffer |-> <<>>, lines |-> <<>>]

LEMMA NothingLogged ==
  HoldsLines(NewLog) /\ Logged(NewLog) = <<>> /\ SubSeq(<<>>, 1, 0) = <<>> /\ 0 <= Len(<<>>)
<1>1. <<>> \o <<>> = <<>> /\ Len(<<>>) = 0 /\ DOMAIN <<>> = {}
  OBVIOUS
<1>2. SubSeq(<<>>, 1, 0) = <<>>
  BY SubSeqEmpty
<1>. QED  BY <1>1, <1>2, FlattenEmpty DEF HoldsLines, Logged, NewLog

(* A new agent has new log writers.                                          *)
LEMMA StartKeepsLog ==
  ASSUME LogInv, NEW u \in Users, StartAgent(u)
  PROVE  LogInv'
<1>. USE DEF LogInv, LogTypeOK, StartAgent, OnStreams
<1>1. LogTypeOK'
  OBVIOUS
<1>2. ASSUME NEW v \in Users, NEW s \in Streams
      PROVE  LogsAsCopied(v, s)'
  <2>1. CASE v = u
    <3>1. output'[v][s] = <<>> /\ copied'[v][s] = 0 /\ LogOf(v, s)' = NewLog
      BY <2>1 DEF LogOf, NewLog
    <3>. QED  BY <3>1, NothingLogged DEF LogsAsCopied
  <2>2. CASE v # u
    BY <2>2 DEF LogsAsCopied, LogOf
  <2>. QED  BY <2>1, <2>2
<1>. QED  BY <1>1, <1>2

(* LogInv is inductive.                                                      *)
THEOREM LogInvariant == MasterSpec => []LogInv
<1>1. MasterInit => LogInv
  <2>. SUFFICES ASSUME MasterInit PROVE LogInv
    OBVIOUS
  <2>1. LogTypeOK
    BY DEF MasterInit, LogTypeOK, OnStreams
  <2>2. ASSUME NEW u \in Users, NEW s \in Streams PROVE LogsAsCopied(u, s)
    <3>1. output[u][s] = <<>> /\ copied[u][s] = 0 /\ LogOf(u, s) = NewLog
      BY DEF MasterInit, OnStreams, LogOf, NewLog
    <3>. QED  BY <3>1, NothingLogged DEF LogsAsCopied
  <2>. QED  BY <2>1, <2>2 DEF LogInv
<1>2. LogInv /\ [MasterNext]_masterVars => LogInv'
  <2>. SUFFICES ASSUME LogInv, [MasterNext]_masterVars PROVE LogInv'
    OBVIOUS
  <2>1. CASE \E u \in Users : Prints(u) \/ Copy(u) \/ StartAgent(u)
    BY <2>1, PrintsKeepsLog, CopyKeepsLog, StartKeepsLog
  <2>2. CASE UNCHANGED <<output, copied, buffer, lines>>
    BY <2>2 DEF LogInv, LogTypeOK, LogsAsCopied, LogOf
  <2>. QED
    BY <2>1, <2>2 DEF MasterNext, masterVars, Return, Goroutine, NoExecutable, StartFails,
                      WaitReturns, GiveUp, AgentEnds, process
<1>. QED  BY <1>1, <1>2, PTL DEF MasterSpec

(* However the output of an agent is cut into calls of Write, the logger     *)
(* gets its lines one by one and in order, and no agent is given up early or *)
(* left behind when StartMaster returns.                                     *)
THEOREM MasterIsSound ==
  ASSUME MasterAssumption
  PROVE  MasterSpec => []MasterInv
<1>1. LogInv => LogsWholeLines
  BY DEF LogInv, LogsAsCopied, LogsWholeLines, LogOf, HoldsLines, Logged
<1>. QED  BY <1>1, LogInvariant, AllTriesBeforeReturn, PTL DEF MasterInv
-----------------------------------------------------------------------------
(* Lifecycle: for every set of agents, programs and device ids.              *)

(* What the module holds at each place of cremona_init and cremona_exit.     *)
Holding(at) ==
    CASE at = "out"     -> {}
      [] at = "region"  -> {"store"}
      [] at = "class"   -> {"store", "region"}
      [] at = "object"  -> {"store", "region", "class"}
      [] at = "socket"  -> {"store", "region", "class", "object"}
      [] at = "release" -> {"object", "socket"}
      [] OTHER          -> {"store", "region", "class", "object", "socket"}

Stages == {"out", "region", "class", "object", "socket", "data", "register", "live",
           "detach", "release"}

(* The inductive invariant: the resources follow the place exactly until an  *)
(* oops, nobody can use the module before its socket is registered or while  *)
(* it is unloaded, and there are devices only while requests find the store. *)
LifecycleInv ==
    /\ LifecycleTypeOK
    /\ pc \in Stages
    /\ ~oops => held = Holding(pc)
    /\ oops => pc \in {"region", "data"}
    /\ pc \in {"out", "region", "class", "object", "socket", "detach", "release"} => sockets = {}
    /\ userData <=> pc \in {"register", "live", "detach", "release"}
    /\ pc \notin {"register", "live", "detach"} => ids = {}

(* Every step of loading the module keeps the invariant.                     *)
LEMMA LoadKeepsInv ==
  ASSUME LifecycleInv,
         AllocStore \/ AllocRegion \/ CreateClass \/ AllocCommunicator \/ CreateSocket
           \/ LoadFails \/ SetUserData \/ SetCommunicator
  PROVE  LifecycleInv'
<1>. USE DEF LifecycleInv, LifecycleTypeOK, Holding, Stages, Step, store, com, users
<1>1. CASE AllocStore
  BY <1>1 DEF AllocStore
<1>2. CASE AllocRegion
  BY <1>2 DEF AllocRegion, Acquire
<1>3. CASE CreateClass
  BY <1>3 DEF CreateClass, Acquire
<1>4. CASE AllocCommunicator
  BY <1>4 DEF AllocCommunicator, Acquire
<1>5. CASE CreateSocket
  BY <1>5 DEF CreateSocket, Acquire
<1>6. CASE LoadFails
  BY <1>6 DEF LoadFails, Releases
<1>7. CASE SetUserData
  BY <1>7 DEF SetUserData
<1>8. CASE SetCommunicator
  BY <1>8 DEF SetCommunicator
<1>. QED  BY <1>1, <1>2, <1>3, <1>4, <1>5, <1>6, <1>7, <1>8

(* Every step of unloading it keeps the invariant.                           *)
LEMMA UnloadKeepsInv ==
  ASSUME LifecycleInv, BeginExit \/ DestroyDevice \/ DestroyStore \/ FreeCommunicator
  PROVE  LifecycleInv'
<1>. USE DEF LifecycleInv, LifecycleTypeOK, Holding, Stages, Step, store, com, users
<1>1. CASE BeginExit
  BY <1>1 DEF BeginExit, Unused
<1>2. CASE DestroyDevice
  BY <1>2 DEF DestroyDevice
<1>3. CASE DestroyStore
  BY <1>3 DEF DestroyStore
<1>4. CASE FreeCommunicator
  BY <1>4 DEF FreeCommunicator
<1>. QED  BY <1>1, <1>2, <1>3, <1>4

(* What agents and programs do keeps it: a request that misses the store is  *)
(* made between the registration of the socket and of its user data.         *)
LEMMA UseKeepsInv ==
  ASSUME LifecycleInv,
         \/ \E a \in Agents : OpenSocket(a) \/ CloseSocket(a) \/ CreateDevice(a) \/ RequestOopses(a)
         \/ \E p \in Programs : OpenFile(p) \/ CloseFile(p)
  PROVE  LifecycleInv'
<1>. USE DEF LifecycleInv, LifecycleTypeOK, Holding, Stages, store, com, users
<1>1. CASE \E a \in Agents : OpenSocket(a)
  BY <1>1 DEF OpenSocket, Going
<1>2. CASE \E a \in Agents : CloseSocket(a)
  BY <1>2 DEF CloseSocket
<1>3. CASE \E a \in Agents : CreateDevice(a)
  BY <1>3 DEF CreateDevice, FindsStore, Send
<1>4. CASE \E a \in Agents : RequestOopses(a)
  <2>1. pc = "data"
    BY <1>4 DEF RequestOopses, FindsStore
  <2>. QED  BY <1>4, <2>1 DEF RequestOopses
<1>5. CASE \E p \in Programs : OpenFile(p)
  BY <1>5 DEF OpenFile
<1>6. CASE \E p \in Programs : CloseFile(p)
  BY <1>6 DEF CloseFile
<1>. QED  BY <1>1, <1>2, <1>3, <1>4, <1>5, <1>6

(* The invariant of the specification.                                       *)
THEOREM LifecycleInvariant == Spec => []LifecycleInv
<1>1. Init => LifecycleInv
  BY DEF Init, LifecycleInv, LifecycleTypeOK, Holding, Stages
<1>2. LifecycleInv /\ [Next]_vars => LifecycleInv'
  <2>. SUFFICES ASSUME LifecycleInv, [Next]_vars PROVE LifecycleInv'
    OBVIOUS
  <2>1. CASE Next
    BY <2>1, LoadKeepsInv, UnloadKeepsInv, UseKeepsInv DEF Next
  <2>2. CASE UNCHANGED vars
    BY <2>2 DEF vars, store, com, users, LifecycleInv, LifecycleTypeOK, Holding, Stages
  <2>. QED  BY <2>1, <2>2
<1>. QED  BY <1>1, <1>2, PTL DEF Spec

(* A load that fails and an unload leave nothing behind: every error path of *)
(* cremona_init undoes what was done before it, and cremona_exit the rest.   *)
LEMMA NothingLeft == LifecycleInv => OutHoldsNothing
  BY DEF LifecycleInv, LifecycleTypeOK, OutHoldsNothing, Holding, store

(* Freeing the store before the socket is safe: only while it is loaded can  *)
(* the module meet a NULL pointer.                                           *)
LEMMA OopsOnlyLoading == LifecycleInv => OopsesOnlyWhileLoading
  BY DEF LifecycleInv, OopsesOnlyWhileLoading

(* Loading and unloading leave nothing behind and let no request meet freed  *)
(* memory, whatever agents, programs and failures there are.                 *)
THEOREM LifecycleIsSound == Spec => []LifecycleSound
<1>1. LifecycleInv => LifecycleSound
  BY NothingLeft, OopsOnlyLoading DEF LifecycleInv, LifecycleSound
<1>. QED  BY <1>1, LifecycleInvariant, PTL

-----------------------------------------------------------------------------
(* The UTF-8 check: a turn of its loop against the table of characters.     *)
(* What a turn of the check asks of the bytes at i.                         *)
TurnAccepts(s, i, n) ==
    /\ n > 0 /\ i + n - 1 <= Len(s)
    /\ \A k \in 1..n - 1 : IsContinuation(s[i + k])
    /\ Acceptable(n, CodePoint(s, i, n))

LEMMA Remainders ==
  /\ \A b \in 128..191 : b % 64 = b - 128
  /\ \A b \in 192..223 : b % 32 = b - 192
  /\ \A b \in 224..239 : b % 16 = b - 224
  /\ \A b \in 240..247 : b % 8 = b - 240
<1>1. ASSUME NEW b \in 128..191 PROVE b % 64 = b - 128
  OBVIOUS
<1>2. ASSUME NEW b \in 192..223 PROVE b % 32 = b - 192
  OBVIOUS
<1>3. ASSUME NEW b \in 224..239 PROVE b % 16 = b - 224
  OBVIOUS
<1>4. ASSUME NEW b \in 240..247 PROVE b % 8 = b - 240
  OBVIOUS
<1>. QED  BY <1>1, <1>2, <1>3, <1>4

(* The code points of two, three and four bytes, and what the table says of   *)
(* the first two of them.                                                   *)
Code2(a, b) == 64 * (a % 32) + (b % 64)
Code3(a, b, c) == 4096 * (a % 16) + 64 * (b % 64) + (c % 64)
Code4(a, b, c, d) == 262144 * (a % 8) + 4096 * (b % 64) + 64 * (c % 64) + (d % 64)

Begins2(a) == a \in 194..223

Begins3(a, b) ==
    \/ a = 224 /\ b \in 160..191
    \/ a \in 225..236 \cup {238, 239}
    \/ a = 237 /\ b \in 128..159

Begins4(a, b) ==
    \/ a = 240 /\ b \in 144..191
    \/ a \in 241..243
    \/ a = 244 /\ b \in 128..143

LEMMA CodePointIs ==
  ASSUME NEW s, NEW i
  PROVE  /\ CodePoint(s, i, 2) = Code2(s[i], s[i + 1])
         /\ CodePoint(s, i, 3) = Code3(s[i], s[i + 1], s[i + 2])
         /\ CodePoint(s, i, 4) = Code4(s[i], s[i + 1], s[i + 2], s[i + 3])
  BY SMT DEF CodePoint, Code2, Code3, Code4

LEMMA TwoBytes ==
  ASSUME NEW a \in 192..223, NEW b \in 128..191
  PROVE  Acceptable(2, Code2(a, b)) <=> Begins2(a)
<1>1. a % 32 = a - 192 /\ b % 64 = b - 128
  BY Remainders
<1>2. PICK z : z = 64 * (a - 192) + (b - 128)
  BY SMT
<1>3. z >= 128 <=> Begins2(a)
  BY <1>2, SMT DEF Begins2
<1>4. Acceptable(2, z) <=> z >= 128
  BY SMT DEF Acceptable
<1>5. Code2(a, b) = z
  BY <1>1, <1>2, SMT DEF Code2
<1>. QED  BY <1>3, <1>4, <1>5, SMT

LEMMA ThreeBytes ==
  ASSUME NEW a \in 224..239, NEW b \in 128..191, NEW c \in 128..191
  PROVE  Acceptable(3, Code3(a, b, c)) <=> Begins3(a, b)
<1>1. a % 16 = a - 224 /\ b % 64 = b - 128 /\ c % 64 = c - 128
  BY Remainders
<1>2. PICK z : z = 4096 * (a - 224) + 64 * (b - 128) + (c - 128)
  BY SMT
<1>3. z >= 2048 <=> (a = 224 => b \in 160..191)
  BY <1>2, SMT
<1>4. z \in 55296..57343 <=> a = 237 /\ b \in 160..191
  BY <1>2, SMT
<1>5. Acceptable(3, z) <=> z >= 2048 /\ z \notin 55296..57343
  BY SMT DEF Acceptable
<1>6. Acceptable(3, z) <=> Begins3(a, b)
  BY <1>3, <1>4, <1>5, SMT DEF Begins3
<1>7. Code3(a, b, c) = z
  BY <1>1, <1>2, SMT DEF Code3
<1>. QED  BY <1>6, <1>7, SMT

LEMMA FourBytes ==
  ASSUME NEW a \in 240..247, NEW b \in 128..191, NEW c \in 128..191, NEW d \in 128..191
  PROVE  Acceptable(4, Code4(a, b, c, d)) <=> Begins4(a, b)
<1>1. a % 8 = a - 240 /\ b % 64 = b - 128 /\ c % 64 = c - 128 /\ d % 64 = d - 128
  BY Remainders
<1>2. PICK z : z = 262144 * (a - 240) + 4096 * (b - 128) + 64 * (c - 128) + (d - 128)
  BY SMT
<1>3. z >= 65536 <=> (a = 240 => b \in 144..191)
  BY <1>2, SMT
<1>4. z <= 1114111 <=> a <= 243 \/ (a = 244 /\ b \in 128..143)
  BY <1>2, SMT
<1>5. Acceptable(4, z) <=> z >= 65536 /\ z <= 1114111
  BY SMT DEF Acceptable
<1>6. Acceptable(4, z) <=> Begins4(a, b)
  BY <1>3, <1>4, <1>5, SMT DEF Begins4
<1>7. Code4(a, b, c, d) = z
  BY <1>1, <1>2, SMT DEF Code4
<1>. QED  BY <1>6, <1>7, SMT

LEMMA LengthOfIs ==
  ASSUME NEW a \in Byte
  PROVE  /\ LengthOf(a) = 1 <=> a \in 0..127
         /\ LengthOf(a) = 2 <=> a \in 192..223
         /\ LengthOf(a) = 3 <=> a \in 224..239
         /\ LengthOf(a) = 4 <=> a \in 240..247
         /\ LengthOf(a) \in 0..4
<1>1. a <= 127 <=> a \in 0..127
  BY DEF Byte
<1>2. /\ a <= 127 => a \notin 192..223 /\ a \notin 224..239 /\ a \notin 240..247
      /\ a \in 192..223 => a \notin 224..239 /\ a \notin 240..247
      /\ a \in 224..239 => a \notin 240..247
  BY DEF Byte
<1>. DEFINE s1 == a <= 127
            s2 == a \in 192..223
            s3 == a \in 224..239
            s4 == a \in 240..247
<1>3. LengthOf(a) = CASE s1 -> 1 [] s2 -> 2 [] s3 -> 3 [] s4 -> 4 [] OTHER -> 0
  BY DEF LengthOf
<1>4. (s1 => ~s2 /\ ~s3 /\ ~s4) /\ (s2 => ~s3 /\ ~s4) /\ (s3 => ~s4)
  BY <1>2
<1>. HIDE DEF s1, s2, s3, s4
<1>5. /\ s1 => LengthOf(a) = 1
      /\ s2 => LengthOf(a) = 2
      /\ s3 => LengthOf(a) = 3
      /\ s4 => LengthOf(a) = 4
      /\ ~s1 /\ ~s2 /\ ~s3 /\ ~s4 => LengthOf(a) = 0
  BY <1>3, <1>4, Zenon
<1>6. /\ LengthOf(a) = 1 <=> s1
      /\ LengthOf(a) = 2 <=> s2
      /\ LengthOf(a) = 3 <=> s3
      /\ LengthOf(a) = 4 <=> s4
      /\ LengthOf(a) \in 0..4
  BY <1>4, <1>5
<1>. QED  BY <1>1, <1>6 DEF s1, s2, s3, s4

LEMMA CharactersAre ==
  ASSUME NEW s \in Seq(Byte), NEW i \in 1..Len(s)
  PROVE  /\ Characters(s, i) \subseteq 1..4
         /\ 1 \in Characters(s, i) <=> s[i] \in 0..127
         /\ 2 \in Characters(s, i) <=> s[i] \in 194..223 /\ i + 1 <= Len(s) /\ s[i + 1] \in 128..191
         /\ 3 \in Characters(s, i) <=>
              /\ i + 1 <= Len(s) /\ i + 2 <= Len(s) /\ s[i + 2] \in 128..191
              /\ \/ s[i] = 224 /\ s[i + 1] \in 160..191
                 \/ s[i] \in 225..236 \cup {238, 239} /\ s[i + 1] \in 128..191
                 \/ s[i] = 237 /\ s[i + 1] \in 128..159
         /\ 4 \in Characters(s, i) <=>
              /\ i + 1 <= Len(s) /\ i + 2 <= Len(s) /\ s[i + 2] \in 128..191
              /\ i + 3 <= Len(s) /\ s[i + 3] \in 128..191
              /\ \/ s[i] = 240 /\ s[i + 1] \in 144..191
                 \/ s[i] \in 241..243 /\ s[i + 1] \in 128..191
                 \/ s[i] = 244 /\ s[i + 1] \in 128..143
<1>. DEFINE At(k, lo, hi) == i + k <= Len(s) /\ s[i + k] \in lo..hi
            one == s[i] \in 0..127
            second == At(1, 128, 191)
            two == s[i] \in 194..223 /\ second
            three == \/ s[i] = 224 /\ At(1, 160, 191) /\ At(2, 128, 191)
                     \/ s[i] \in 225..236 \cup {238, 239} /\ (At(1, 128, 191) /\ At(2, 128, 191))
                     \/ s[i] = 237 /\ At(1, 128, 159) /\ At(2, 128, 191)
            third == At(2, 128, 191)
            fourth == At(3, 128, 191)
            lead == \/ s[i] = 240 /\ At(1, 144, 191)
                    \/ s[i] \in 241..243 /\ At(1, 128, 191)
                    \/ s[i] = 244 /\ At(1, 128, 143)
<1>1. Characters(s, i) = {n \in 1..4 : \/ n = 1 /\ one
                                       \/ n = 2 /\ s[i] \in 194..223 /\ second
                                       \/ /\ n = 3
                                          /\ three
                                       \/ /\ n = 4 /\ third /\ fourth
                                          /\ lead}
  BY Zenon DEF Characters
<1>. DEFINE four == third /\ fourth /\ lead
<1>. HIDE DEF one, second, three, third, fourth, lead
<1>2. /\ Characters(s, i) \subseteq 1..4
      /\ 1 \in Characters(s, i) <=> one
      /\ 2 \in Characters(s, i) <=> two
      /\ 3 \in Characters(s, i) <=> three
      /\ 4 \in Characters(s, i) <=> four
  BY <1>1
<1>. HIDE DEF four
<1>3. three <=> /\ i + 1 <= Len(s) /\ i + 2 <= Len(s) /\ s[i + 2] \in 128..191
                /\ \/ s[i] = 224 /\ s[i + 1] \in 160..191
                   \/ s[i] \in 225..236 \cup {238, 239} /\ s[i + 1] \in 128..191
                   \/ s[i] = 237 /\ s[i + 1] \in 128..159
  BY Zenon DEF three
<1>4. four <=> /\ i + 1 <= Len(s) /\ i + 2 <= Len(s) /\ s[i + 2] \in 128..191
               /\ i + 3 <= Len(s) /\ s[i + 3] \in 128..191
               /\ \/ s[i] = 240 /\ s[i + 1] \in 144..191
                  \/ s[i] \in 241..243 /\ s[i + 1] \in 128..191
                  \/ s[i] = 244 /\ s[i + 1] \in 128..143
  BY Zenon DEF four, third, fourth, lead
<1>5. /\ 1 \in Characters(s, i) <=> s[i] \in 0..127
      /\ 2 \in Characters(s, i) <=> s[i] \in 194..223 /\ i + 1 <= Len(s) /\ s[i + 1] \in 128..191
  BY <1>2, Zenon DEF one, second
<1>6. 3 \in Characters(s, i) <=>
        /\ i + 1 <= Len(s) /\ i + 2 <= Len(s) /\ s[i + 2] \in 128..191
        /\ \/ s[i] = 224 /\ s[i + 1] \in 160..191
           \/ s[i] \in 225..236 \cup {238, 239} /\ s[i + 1] \in 128..191
           \/ s[i] = 237 /\ s[i + 1] \in 128..159
  BY <1>2, <1>3, Zenon
<1>7. 4 \in Characters(s, i) <=>
        /\ i + 1 <= Len(s) /\ i + 2 <= Len(s) /\ s[i + 2] \in 128..191
        /\ i + 3 <= Len(s) /\ s[i + 3] \in 128..191
        /\ \/ s[i] = 240 /\ s[i + 1] \in 144..191
           \/ s[i] \in 241..243 /\ s[i + 1] \in 128..191
           \/ s[i] = 244 /\ s[i + 1] \in 128..143
  BY <1>2, <1>4, Zenon
<1>. QED  BY <1>2, <1>5, <1>6, <1>7, Zenon

(* A byte announces at most four.                                            *)
LEMMA LengthIsSmall ==
  ASSUME NEW a \in Byte
  PROVE  LengthOf(a) \in 0..4
BY LengthOfIs

LEMMA TurnAcceptsIs ==
  ASSUME NEW s \in Seq(Byte), NEW i \in 1..Len(s)
  PROVE  /\ ~TurnAccepts(s, i, 0)
         /\ TurnAccepts(s, i, 1)
         /\ TurnAccepts(s, i, 2) <=> /\ i + 1 <= Len(s) /\ IsContinuation(s[i + 1])
                              /\ Acceptable(2, CodePoint(s, i, 2))
         /\ TurnAccepts(s, i, 3) <=> /\ i + 2 <= Len(s) /\ IsContinuation(s[i + 1]) /\ IsContinuation(s[i + 2])
                              /\ Acceptable(3, CodePoint(s, i, 3))
         /\ TurnAccepts(s, i, 4) <=> /\ i + 3 <= Len(s) /\ IsContinuation(s[i + 1]) /\ IsContinuation(s[i + 2])
                              /\ IsContinuation(s[i + 3])
                              /\ Acceptable(4, CodePoint(s, i, 4))
<1>1. /\ 1..1 - 1 = {} /\ 1..2 - 1 = {1} /\ 1..3 - 1 = {1, 2} /\ 1..4 - 1 = {1, 2, 3}
      /\ i + 1 - 1 = i /\ i + 2 - 1 = i + 1 /\ i + 3 - 1 = i + 2 /\ i + 4 - 1 = i + 3
  OBVIOUS
<1>2. Acceptable(1, CodePoint(s, i, 1))
  BY DEF Acceptable
<1>3. ~TurnAccepts(s, i, 0)
  BY DEF TurnAccepts
<1>4. TurnAccepts(s, i, 1)
  BY <1>2 DEF TurnAccepts
<1>. QED  BY <1>1, <1>3, <1>4 DEF TurnAccepts

(* The turn finds the character that begins at i in the table, and no other. *)
LEMMA TurnFindsCharacter ==
  ASSUME NEW s \in Seq(Byte), NEW i \in 1..Len(s)
  PROVE  \A n \in Nat : n \in Characters(s, i) <=> n = LengthOf(s[i]) /\ TurnAccepts(s, i, n)
<1>1. Len(s) \in Nat
  OBVIOUS
<1>2. s[i] \in Byte
  OBVIOUS
<1>. DEFINE Is(a) == /\ LengthOf(a) = 1 <=> a \in 0..127
                     /\ LengthOf(a) = 2 <=> a \in 192..223
                     /\ LengthOf(a) = 3 <=> a \in 224..239
                     /\ LengthOf(a) = 4 <=> a \in 240..247
                     /\ LengthOf(a) \in 0..4
<1>3. Is(s[i])
  <2>1. \A a \in Byte : Is(a)
    <3>. TAKE a \in Byte
    <3>. QED  BY LengthOfIs
  <2>. HIDE DEF Is
  <2>. QED  BY <1>2, <2>1, Zenon
<1>4. 1 \in Characters(s, i) <=> LengthOf(s[i]) = 1 /\ TurnAccepts(s, i, 1)
  <2>1. 1 \in Characters(s, i) <=> s[i] \in 0..127
    BY CharactersAre
  <2>2. TurnAccepts(s, i, 1)
    BY TurnAcceptsIs
  <2>. QED  BY <1>3, <2>1, <2>2, Zenon
<1>5. 2 \in Characters(s, i) <=> LengthOf(s[i]) = 2 /\ TurnAccepts(s, i, 2)
  <2>. DEFINE plain == s[i] \in 194..223
              lead == s[i] \in 192..223
              cont == s[i + 1] \in 128..191
              here == i + 1 <= Len(s)
  <2>1. 2 \in Characters(s, i) <=> plain /\ here /\ cont
    BY CharactersAre
  <2>2. TurnAccepts(s, i, 2) <=> here /\ cont /\ Acceptable(2, CodePoint(s, i, 2))
    BY TurnAcceptsIs DEF IsContinuation
  <2>3. plain => lead
    OBVIOUS
  <2>4. ASSUME lead, cont
        PROVE  Acceptable(2, CodePoint(s, i, 2)) <=> plain
    <3>1. Acceptable(2, Code2(s[i], s[i + 1])) <=> Begins2(s[i])
      BY <2>4, TwoBytes, Zenon
    <3>2. CodePoint(s, i, 2) = Code2(s[i], s[i + 1])
      BY CodePointIs
    <3>3. Begins2(s[i]) <=> plain
      BY DEF Begins2
    <3>. HIDE DEF plain, lead, cont
    <3>. QED  BY <3>1, <3>2, <3>3
  <2>5. LengthOf(s[i]) = 2 <=> lead
    BY <1>3
  <2>. HIDE DEF plain, lead, cont, here
  <2>. QED  BY <2>1, <2>2, <2>3, <2>4, <2>5, Zenon
<1>6. 3 \in Characters(s, i) <=> LengthOf(s[i]) = 3 /\ TurnAccepts(s, i, 3)
  <2>. DEFINE first == s[i] = 224 /\ s[i + 1] \in 160..191
              plain == s[i] \in 225..236 \cup {238, 239}
              last == s[i] = 237 /\ s[i + 1] \in 128..159
              lead == s[i] \in 224..239
              cont == s[i + 1] \in 128..191
              more == s[i + 2] \in 128..191
              here == i + 2 <= Len(s)
  <2>1. 3 \in Characters(s, i) <=> i + 1 <= Len(s) /\ here /\ more /\ (first \/ (plain /\ cont) \/ last)
    BY CharactersAre
  <2>2. TurnAccepts(s, i, 3) <=> here /\ cont /\ more /\ Acceptable(3, CodePoint(s, i, 3))
    BY TurnAcceptsIs DEF IsContinuation
  <2>3. /\ first => lead /\ cont
        /\ plain => lead
        /\ last => lead /\ cont
        /\ here => i + 1 <= Len(s)
    OBVIOUS
  <2>4. ASSUME lead, cont, more
        PROVE  Acceptable(3, CodePoint(s, i, 3)) <=> first \/ plain \/ last
    <3>1. Acceptable(3, Code3(s[i], s[i + 1], s[i + 2])) <=> Begins3(s[i], s[i + 1])
      BY <2>4, ThreeBytes, Zenon
    <3>2. CodePoint(s, i, 3) = Code3(s[i], s[i + 1], s[i + 2])
      BY CodePointIs
    <3>3. Begins3(s[i], s[i + 1]) <=> first \/ plain \/ last
      BY Zenon DEF Begins3
    <3>. HIDE DEF first, plain, last, lead, cont
    <3>. QED  BY <3>1, <3>2, <3>3
  <2>5. LengthOf(s[i]) = 3 <=> lead
    BY <1>3
  <2>. HIDE DEF first, plain, last, lead, cont, more, here
  <2>. QED  BY <2>1, <2>2, <2>3, <2>4, <2>5, Zenon
<1>7. 4 \in Characters(s, i) <=> LengthOf(s[i]) = 4 /\ TurnAccepts(s, i, 4)
  <2>. DEFINE first == s[i] = 240 /\ s[i + 1] \in 144..191
              plain == s[i] \in 241..243
              last == s[i] = 244 /\ s[i + 1] \in 128..143
              lead == s[i] \in 240..247
              cont == s[i + 1] \in 128..191
              more == s[i + 2] \in 128..191
              end == s[i + 3] \in 128..191
              here == i + 3 <= Len(s)
  <2>1. 4 \in Characters(s, i) <=> /\ i + 1 <= Len(s) /\ i + 2 <= Len(s) /\ more /\ here /\ end
                                   /\ first \/ (plain /\ cont) \/ last
    BY CharactersAre
  <2>2. TurnAccepts(s, i, 4) <=> here /\ cont /\ more /\ end /\ Acceptable(4, CodePoint(s, i, 4))
    BY TurnAcceptsIs DEF IsContinuation
  <2>3. /\ first => lead /\ cont
        /\ plain => lead
        /\ last => lead /\ cont
        /\ here => i + 1 <= Len(s) /\ i + 2 <= Len(s)
    OBVIOUS
  <2>4. ASSUME lead, cont, more, end
        PROVE  Acceptable(4, CodePoint(s, i, 4)) <=> first \/ plain \/ last
    <3>1. Acceptable(4, Code4(s[i], s[i + 1], s[i + 2], s[i + 3])) <=> Begins4(s[i], s[i + 1])
      BY <2>4, FourBytes, Zenon
    <3>2. CodePoint(s, i, 4) = Code4(s[i], s[i + 1], s[i + 2], s[i + 3])
      BY CodePointIs
    <3>3. Begins4(s[i], s[i + 1]) <=> first \/ plain \/ last
      BY Zenon DEF Begins4
    <3>. HIDE DEF first, plain, last, lead, cont
    <3>. QED  BY <3>1, <3>2, <3>3
  <2>5. LengthOf(s[i]) = 4 <=> lead
    BY <1>3
  <2>. HIDE DEF first, plain, last, lead, cont, more, end, here
  <2>. QED  BY <2>1, <2>2, <2>3, <2>4, <2>5, Zenon
<1>8. Characters(s, i) \subseteq 1..4
  BY CharactersAre
<1>9. ~TurnAccepts(s, i, 0)
  BY TurnAcceptsIs
<1>10. ASSUME NEW n \in Nat
       PROVE  n \in Characters(s, i) <=> n = LengthOf(s[i]) /\ TurnAccepts(s, i, n)
  <2>1. CASE n = 1
    BY <1>4, <2>1, Zenon
  <2>2. CASE n = 2
    BY <1>5, <2>2, Zenon
  <2>3. CASE n = 3
    BY <1>6, <2>3, Zenon
  <2>4. CASE n = 4
    BY <1>7, <2>4, Zenon
  <2>5. CASE n = 0
    <3>1. n \notin 1..4
      BY <2>5
    <3>. QED  BY <1>8, <1>9, <2>5, <3>1, Zenon
  <2>6. CASE n > 4
    <3>1. n \notin 1..4 /\ n \notin 0..4
      BY <2>6
    <3>. QED  BY <1>3, <1>8, <3>1, Zenon
  <2>. QED  BY <2>1, <2>2, <2>3, <2>4, <2>5, <2>6
<1>. QED  BY <1>10

-----------------------------------------------------------------------------
(* Three recursive functions: the loop of the check, the well-formed        *)
(* strings, and the places where characters begin.                          *)
(* What the three recursive functions say of every place of s.              *)
Checked(f, s, allowNull) ==
    \A i \in 1..Len(s) + 1 :
        f[i] <=> i > Len(s) \/ /\ s[i] = 0 => allowNull
                               /\ TurnAccepts(s, i, LengthOf(s[i]))
                               /\ f[i + LengthOf(s[i])]

Formed(f, s) ==
    \A i \in 1..Len(s) + 1 :
        f[i] <=> i > Len(s) \/ \E n \in Characters(s, i) : f[i + n]

Reached(f, s) ==
    \A i \in 1..Len(s) + 1 :
        f[i] <=> i = 1 \/ \E j \in 1..i - 1 : f[j] /\ (i - j) \in Characters(s, j)

(* A character begins at its place and ends in the string; no two begin at   *)
(* one place.                                                               *)
LEMMA CharacterFits ==
  ASSUME NEW s \in Seq(Byte), NEW i \in 1..Len(s), NEW n \in Characters(s, i)
  PROVE  /\ n \in 1..4 /\ n > 0 /\ i + n - 1 <= Len(s) /\ n \in Nat
         /\ n = LengthOf(s[i]) /\ TurnAccepts(s, i, n)
<1>1. n \in 1..4
  BY CharactersAre
<1>2. n \in Nat
  BY <1>1
<1>3. n = LengthOf(s[i]) /\ TurnAccepts(s, i, n)
  BY <1>2, TurnFindsCharacter
<1>4. n > 0 /\ i + n - 1 <= Len(s)
  BY <1>3 DEF TurnAccepts
<1>. QED  BY <1>1, <1>2, <1>3, <1>4

LEMMA CheckLoops ==
  ASSUME NEW s \in Seq(Byte), NEW allowNull \in BOOLEAN
  PROVE  \E f : Check(s, allowNull) = f[1] /\ Checked(f, s, allowNull)
<1>1. PICK l \in Nat : l = Len(s)
  OBVIOUS
<1>. DEFINE D == 1..Len(s) + 1
            Body(i, f) ==
                IF i > Len(s) THEN TRUE
                ELSE LET n == LengthOf(s[i])
                     IN  /\ s[i] = 0 => allowNull
                         /\ n > 0 /\ i + n - 1 <= Len(s)
                         /\ \A k \in 1..n - 1 : IsContinuation(s[i + k])
                         /\ Acceptable(n, CodePoint(s, i, n))
                         /\ f[i + n]
            Says(i, f) == i > Len(s) \/ /\ s[i] = 0 => allowNull
                                        /\ TurnAccepts(s, i, LengthOf(s[i]))
                                        /\ f[i + LengthOf(s[i])]
            step == [i \in D |-> [f \in [D -> BOOLEAN] |-> Says(i, f)]]
            Is(c) == c = [i \in D |-> Body(i, c)]
            ok == CHOOSE c : Is(c)
<1>2. Check(s, allowNull) = ok[1]
  BY Zenon DEF Check
<1>3. ASSUME NEW i \in D, NEW f
      PROVE  Body(i, f) <=> Says(i, f)
  BY DEF TurnAccepts
<1>4. step \in [D -> [[D -> BOOLEAN] -> BOOLEAN]]
  <2>. HIDE DEF D
  <2>. QED  OBVIOUS
<1>5. ASSUME NEW i \in D, NEW f \in [D -> BOOLEAN], NEW g \in [D -> BOOLEAN],
             \A j \in D : i < j => f[j] = g[j]
      PROVE  step[i][f] = step[i][g]
  <2>1. Says(i, f) <=> Says(i, g)
    <3>1. CASE i > Len(s)
      BY <3>1
    <3>2. CASE i <= Len(s)
      <4>1. PICK n \in Nat : n = LengthOf(s[i])
        <5>1. s[i] \in Byte
          BY <3>2
        <5>2. LengthOf(s[i]) \in 0..4
          BY <5>1, LengthOfIs, Zenon
        <5>. QED  BY <5>2
      <4>2. TurnAccepts(s, i, n) => f[i + n] = g[i + n]
        <5>1. TurnAccepts(s, i, n) => n > 0 /\ i + n - 1 <= Len(s)
          BY DEF TurnAccepts
        <5>2. n > 0 /\ i + n - 1 <= Len(s) => i + n \in D /\ i < i + n
          BY <1>1
        <5>. QED  BY <1>5, <5>1, <5>2
      <4>. QED  BY <3>2, <4>1, <4>2
    <3>. QED  BY <1>1, <3>1, <3>2
  <2>2. Says(i, f) \in BOOLEAN /\ Says(i, g) \in BOOLEAN
    BY DEF TurnAccepts
  <2>. HIDE DEF Says, D
  <2>3. Says(i, f) = Says(i, g)
    BY <2>1, <2>2
  <2>4. step[i][f] = Says(i, f) /\ step[i][g] = Says(i, g)
    OBVIOUS
  <2>. QED  BY <2>3, <2>4, Zenon
<1>6. \E c : Is(c)
  <2>1. PICK f \in [D -> BOOLEAN] : Recursive(f, D, step)
    <3>1. PICK n \in Nat : n = Len(s) + 1
      BY <1>1
    <3>. HIDE DEF step
    <3>2. step \in [1..n -> [[1..n -> BOOLEAN] -> BOOLEAN]]
      BY <1>4, <3>1
    <3>3. \A i \in 1..n : \A f, g \in [1..n -> BOOLEAN] :
             (\A j \in 1..n : i < j => f[j] = g[j]) => step[i][f] = step[i][g]
      BY <1>5, <3>1
    <3>4. BOOLEAN # {}
      OBVIOUS
    <3>5. \E f \in [1..n -> BOOLEAN] : Recursive(f, 1..n, step)
      BY <3>2, <3>3, <3>4, RecursionFromTheEnd
    <3>. QED  BY <3>1, <3>5
  <2>2. \A i \in D : step[i][f] = Body(i, f)
    <3>1. \A i \in D : step[i][f] = Says(i, f)
      <4>. HIDE DEF D, Says
      <4>. QED  OBVIOUS
    <3>2. \A i \in D : Body(i, f) \in BOOLEAN /\ Says(i, f) \in BOOLEAN
      BY DEF TurnAccepts
    <3>. HIDE DEF D, Says, Body
    <3>. QED  BY <1>3, <3>1, <3>2, Zenon
  <2>3. f = [i \in D |-> step[i][f]]
    BY <2>1 DEF Recursive
  <2>. HIDE DEF D, step, Body
  <2>4. Is(f)
    BY <2>2, <2>3, Zenon
  <2>. QED  BY <2>4
<1>7. Is(ok)
  <2>. HIDE DEF Is
  <2>. QED  BY <1>6, Zenon
<1>8. Checked(ok, s, allowNull)
  <2>. HIDE DEF ok
  <2>1. \A i \in D : ok[i] = Body(i, ok)
    <3>. HIDE DEF D, Body
    <3>. QED  BY <1>7
  <2>2. \A i \in D : ok[i] <=> Says(i, ok)
    <3>. HIDE DEF D, Body, Says
    <3>. QED  BY <1>3, <2>1
  <2>. QED  BY <2>2, Zenon DEF Checked
<1>. HIDE DEF ok
<1>. QED  BY <1>2, <1>8, Zenon

LEMMA WellFormedForms ==
  ASSUME NEW s \in Seq(Byte)
  PROVE  \E f : WellFormed(s) = f[1] /\ Formed(f, s)
<1>1. PICK l \in Nat : l = Len(s)
  OBVIOUS
<1>. DEFINE D == 1..Len(s) + 1
            Body(i, f) == IF i > Len(s) THEN TRUE ELSE \E n \in Characters(s, i) : f[i + n]
            Says(i, f) == i > Len(s) \/ \E n \in Characters(s, i) : f[i + n]
            step == [i \in D |-> [f \in [D -> BOOLEAN] |-> Says(i, f)]]
            Is(c) == c = [i \in D |-> Body(i, c)]
            from == CHOOSE c : Is(c)
<1>2. WellFormed(s) = from[1]
  BY Zenon DEF WellFormed
<1>3. ASSUME NEW i \in D, NEW f
      PROVE  Body(i, f) <=> Says(i, f)
  BY <1>1
<1>4. step \in [D -> [[D -> BOOLEAN] -> BOOLEAN]]
  <2>. HIDE DEF D
  <2>. QED  OBVIOUS
<1>5. ASSUME NEW i \in D, NEW f \in [D -> BOOLEAN], NEW g \in [D -> BOOLEAN],
             \A j \in D : i < j => f[j] = g[j]
      PROVE  step[i][f] = step[i][g]
  <2>1. Says(i, f) <=> Says(i, g)
    <3>1. CASE i > Len(s)
      BY <3>1
    <3>2. CASE i <= Len(s)
      <4>1. i \in 1..Len(s)
        BY <3>2
      <4>2. ASSUME NEW n \in Characters(s, i)
            PROVE  f[i + n] = g[i + n]
        <5>1. n > 0 /\ i + n - 1 <= Len(s) /\ n \in Nat
          BY <4>1, CharacterFits
        <5>2. i + n \in D /\ i < i + n
          BY <1>1, <5>1
        <5>. QED  BY <1>5, <5>2
      <4>. QED  BY <3>2, <4>2
    <3>. QED  BY <1>1, <3>1, <3>2
  <2>2. Says(i, f) \in BOOLEAN /\ Says(i, g) \in BOOLEAN
    OBVIOUS
  <2>. HIDE DEF Says, D
  <2>3. Says(i, f) = Says(i, g)
    BY <2>1, <2>2
  <2>4. step[i][f] = Says(i, f) /\ step[i][g] = Says(i, g)
    OBVIOUS
  <2>. QED  BY <2>3, <2>4, Zenon
<1>6. \E c : Is(c)
  <2>1. PICK f \in [D -> BOOLEAN] : Recursive(f, D, step)
    <3>1. PICK n \in Nat : n = Len(s) + 1
      BY <1>1
    <3>. HIDE DEF step
    <3>2. step \in [1..n -> [[1..n -> BOOLEAN] -> BOOLEAN]]
      BY <1>4, <3>1
    <3>3. \A i \in 1..n : \A f, g \in [1..n -> BOOLEAN] :
             (\A j \in 1..n : i < j => f[j] = g[j]) => step[i][f] = step[i][g]
      BY <1>5, <3>1
    <3>4. BOOLEAN # {}
      OBVIOUS
    <3>5. \E f \in [1..n -> BOOLEAN] : Recursive(f, 1..n, step)
      BY <3>2, <3>3, <3>4, RecursionFromTheEnd
    <3>. QED  BY <3>1, <3>5
  <2>2. \A i \in D : step[i][f] = Body(i, f)
    <3>1. \A i \in D : step[i][f] = Says(i, f)
      <4>. HIDE DEF D, Says
      <4>. QED  OBVIOUS
    <3>2. \A i \in D : Body(i, f) \in BOOLEAN /\ Says(i, f) \in BOOLEAN
      OBVIOUS
    <3>. HIDE DEF D, Says, Body
    <3>. QED  BY <1>3, <3>1, <3>2, Zenon
  <2>3. f = [i \in D |-> step[i][f]]
    BY <2>1 DEF Recursive
  <2>. HIDE DEF D, step, Body
  <2>4. Is(f)
    BY <2>2, <2>3, Zenon
  <2>. QED  BY <2>4
<1>7. Is(from)
  <2>. HIDE DEF Is
  <2>. QED  BY <1>6, Zenon
<1>8. Formed(from, s)
  <2>. HIDE DEF from
  <2>1. \A i \in D : from[i] = Body(i, from)
    <3>. HIDE DEF D, Body
    <3>. QED  BY <1>7
  <2>2. \A i \in D : from[i] <=> Says(i, from)
    <3>. HIDE DEF D, Body, Says
    <3>. QED  BY <1>3, <2>1
  <2>. QED  BY <2>2, Zenon DEF Formed
<1>. HIDE DEF from
<1>. QED  BY <1>2, <1>8, Zenon

LEMMA BoundariesReach ==
  ASSUME NEW s \in Seq(Byte)
  PROVE  \E f : Boundaries(s) = {i \in 1..Len(s) + 1 : f[i]} /\ Reached(f, s)
<1>1. PICK l \in Nat : l = Len(s)
  OBVIOUS
<1>. DEFINE D == 1..Len(s) + 1
            Body(i, f) == i = 1 \/ \E j \in 1..i - 1 : f[j] /\ (i - j) \in Characters(s, j)
            Says(i, f) == i = 1 \/ \E j \in 1..i - 1 : f[j] /\ (i - j) \in Characters(s, j)
            step == [i \in D |-> [f \in [D -> BOOLEAN] |-> Says(i, f)]]
            Is(c) == c = [i \in D |-> Body(i, c)]
            reached == CHOOSE c : Is(c)
<1>2. Boundaries(s) = {i \in 1..Len(s) + 1 : reached[i]}
  BY Zenon DEF Boundaries
<1>3. ASSUME NEW i \in D, NEW f
      PROVE  Body(i, f) <=> Says(i, f)
  BY <1>1
<1>4. step \in [D -> [[D -> BOOLEAN] -> BOOLEAN]]
  <2>. HIDE DEF D
  <2>. QED  OBVIOUS
<1>5. ASSUME NEW i \in D, NEW f \in [D -> BOOLEAN], NEW g \in [D -> BOOLEAN],
             \A j \in D : j < i => f[j] = g[j]
      PROVE  step[i][f] = step[i][g]
  <2>1. Says(i, f) <=> Says(i, g)
    <3>1. \A j \in 1..i - 1 : f[j] = g[j]
      <4>1. \A j \in 1..i - 1 : j \in D /\ j < i
        BY <1>1
      <4>. QED  BY <1>5, <4>1
    <3>. QED  BY <3>1
  <2>2. Says(i, f) \in BOOLEAN /\ Says(i, g) \in BOOLEAN
    OBVIOUS
  <2>. HIDE DEF Says, D
  <2>3. Says(i, f) = Says(i, g)
    BY <2>1, <2>2
  <2>4. step[i][f] = Says(i, f) /\ step[i][g] = Says(i, g)
    OBVIOUS
  <2>. QED  BY <2>3, <2>4, Zenon
<1>6. \E c : Is(c)
  <2>1. PICK f \in [D -> BOOLEAN] : Recursive(f, D, step)
    <3>1. PICK n \in Nat : n = Len(s) + 1
      BY <1>1
    <3>. HIDE DEF step
    <3>2. step \in [1..n -> [[1..n -> BOOLEAN] -> BOOLEAN]]
      BY <1>4, <3>1
    <3>3. \A i \in 1..n : \A f, g \in [1..n -> BOOLEAN] :
             (\A j \in 1..n : j < i => f[j] = g[j]) => step[i][f] = step[i][g]
      BY <1>5, <3>1
    <3>4. BOOLEAN # {}
      OBVIOUS
    <3>5. \E f \in [1..n -> BOOLEAN] : Recursive(f, 1..n, step)
      BY <3>2, <3>3, <3>4, RecursionFromTheStart
    <3>. QED  BY <3>1, <3>5
  <2>2. \A i \in D : step[i][f] = Body(i, f)
    <3>1. \A i \in D : step[i][f] = Says(i, f)
      <4>. HIDE DEF D, Says
      <4>. QED  OBVIOUS
    <3>2. \A i \in D : Body(i, f) \in BOOLEAN /\ Says(i, f) \in BOOLEAN
      OBVIOUS
    <3>. HIDE DEF D, Says, Body
    <3>. QED  BY <1>3, <3>1, <3>2, Zenon
  <2>3. f = [i \in D |-> step[i][f]]
    BY <2>1 DEF Recursive
  <2>. HIDE DEF D, step, Body
  <2>4. Is(f)
    BY <2>2, <2>3, Zenon
  <2>. QED  BY <2>4
<1>7. Is(reached)
  <2>. HIDE DEF Is
  <2>. QED  BY <1>6, Zenon
<1>8. Reached(reached, s)
  <2>. HIDE DEF reached
  <2>1. \A i \in D : reached[i] = Body(i, reached)
    <3>. HIDE DEF D, Body
    <3>. QED  BY <1>7
  <2>2. \A i \in D : reached[i] <=> Says(i, reached)
    <3>. HIDE DEF D, Body, Says
    <3>. QED  BY <1>3, <2>1
  <2>. QED  BY <2>2, Zenon DEF Reached
<1>. HIDE DEF reached
<1>. QED  BY <1>2, <1>8, Zenon

(* The check accepts exactly the well-formed strings, without a NUL unless   *)
(* one is allowed.                                                          *)
THEOREM CheckIsWellFormed ==
  ASSUME NEW s \in Seq(Byte), NEW allowNull \in BOOLEAN
  PROVE  Check(s, allowNull) <=> WellFormed(s) /\ (allowNull \/ NoNull(s))
<1>1. PICK l \in Nat : l = Len(s)
  OBVIOUS
<1>2. PICK f : Check(s, allowNull) = f[1] /\ Checked(f, s, allowNull)
  BY CheckLoops
<1>3. PICK g : WellFormed(s) = g[1] /\ Formed(g, s)
  BY WellFormedForms
<1>. DEFINE Clean(i) == \A j \in i..l : s[j] # 0
            P == {i \in 1..l + 1 : f[i] <=> g[i] /\ (allowNull \/ Clean(i))}
<1>4. l + 1 \in P
  <2>1. f[l + 1] /\ g[l + 1]
    <3>1. l + 1 \in 1..Len(s) + 1 /\ l + 1 > Len(s)
      BY <1>1
    <3>. QED  BY <1>2, <1>3, <3>1 DEF Checked, Formed
  <2>2. Clean(l + 1)
    OBVIOUS
  <2>. QED  BY <2>1, <2>2
<1>5. ASSUME NEW i \in 1..l, \A j \in i + 1..l + 1 : j \in P
      PROVE  i \in P
  <2>1. i \in 1..Len(s) /\ i \in 1..Len(s) + 1 /\ ~(i > Len(s)) /\ s[i] \in Byte /\ i \in 1..l + 1
    BY <1>1
  <2>2. PICK n \in Nat : n = LengthOf(s[i])
    <3>1. LengthOf(s[i]) \in 0..4
      BY <2>1, LengthIsSmall, Zenon
    <3>. QED  BY <3>1
  <2>3. f[i] <=> (s[i] = 0 => allowNull) /\ TurnAccepts(s, i, n) /\ f[i + n]
    BY <1>2, <2>1, <2>2 DEF Checked
  <2>4. g[i] <=> TurnAccepts(s, i, n) /\ g[i + n]
    <3>1. g[i] <=> \E m \in Characters(s, i) : g[i + m]
      BY <1>3, <2>1 DEF Formed
    <3>2. \A m \in Characters(s, i) : m = n /\ TurnAccepts(s, i, n)
      BY <2>1, <2>2, CharacterFits
    <3>3. TurnAccepts(s, i, n) => n \in Characters(s, i)
      BY <2>1, <2>2, TurnFindsCharacter
    <3>. QED  BY <3>1, <3>2, <3>3, Zenon
  <2>5. CASE ~TurnAccepts(s, i, n)
    BY <2>1, <2>3, <2>4, <2>5
  <2>6. CASE TurnAccepts(s, i, n)
    <3>1. n > 0 /\ i + n - 1 <= Len(s) /\ \A k \in 1..n - 1 : IsContinuation(s[i + k])
      BY <2>6 DEF TurnAccepts
    <3>2. i + n \in i + 1..l + 1
      BY <1>1, <3>1
    <3>3. f[i + n] <=> g[i + n] /\ (allowNull \/ Clean(i + n))
      BY <1>5, <3>2
    <3>4. Clean(i) <=> s[i] # 0 /\ Clean(i + n)
      <4>1. ASSUME s[i] # 0, Clean(i + n), NEW j \in i..l
            PROVE  s[j] # 0
        <5>1. CASE j = i
          BY <4>1, <5>1
        <5>2. CASE j \in i + n..l
          BY <4>1, <5>2
        <5>3. CASE j \in i + 1..i + n - 1
          <6>1. j - i \in 1..n - 1 /\ i + (j - i) = j
            BY <5>3
          <6>2. IsContinuation(s[j])
            BY <3>1, <6>1
            <6>3. s[j] \in 128..191
            BY <6>2 DEF IsContinuation
          <6>4. 0 \notin 128..191
            OBVIOUS
          <6>. QED  BY <6>3, <6>4, Zenon
        <5>. QED  BY <5>1, <5>2, <5>3
      <4>2. ASSUME Clean(i)
            PROVE  s[i] # 0 /\ Clean(i + n)
        BY <4>2, <3>2
      <4>. QED  BY <4>1, <4>2
    <3>. HIDE DEF Clean
    <3>5. f[i] <=> g[i] /\ (allowNull \/ Clean(i))
      BY <2>3, <2>4, <2>6, <3>3, <3>4
    <3>. QED  BY <2>1, <3>5
  <2>. QED  BY <2>5, <2>6
<1>6. 1 \in P
  <2>. HIDE DEF P
  <2>1. 1..l + 1 \subseteq P
    BY <1>4, <1>5, FromTheEnd
  <2>2. 1 \in 1..l + 1
    OBVIOUS
  <2>. QED  BY <2>1, <2>2
<1>7. f[1] <=> g[1] /\ (allowNull \/ Clean(1))
  BY <1>6
<1>8. Clean(1) <=> NoNull(s)
  BY <1>1 DEF NoNull
<1>. QED  BY <1>2, <1>3, <1>7, <1>8

(* s[i], ..., s[j - 1]                                                      *)
Piece(s, i, j) == SubSeq(s, i, j - 1)

LEMMA PieceIs ==
  ASSUME NEW s \in Seq(Byte), NEW i \in 1..Len(s) + 1, NEW j \in i..Len(s) + 1
  PROVE  /\ Piece(s, i, j) \in Seq(Byte) /\ Len(Piece(s, i, j)) = j - i
         /\ \A k \in 1..j - i : Piece(s, i, j)[k] = s[i + k - 1]
<1>1. PICK l \in Nat : l = Len(s)
  OBVIOUS
<1>2. PICK m \in Nat : m = j - 1
  BY <1>1
<1>3. /\ i \in 1..Len(s) + 1 /\ m \in i - 1..Len(s)
      /\ m - i + 1 = j - i
  BY <1>1, <1>2
<1>4. /\ SubSeq(s, i, m) \in Seq(Byte) /\ Len(SubSeq(s, i, m)) = m - i + 1
      /\ \A k \in 1..m - i + 1 : SubSeq(s, i, m)[k] = s[i + k - 1]
  BY <1>3, SubSeqProperties
<1>. QED  BY <1>2, <1>3, <1>4 DEF Piece

(* The characters of a piece are those of the string that end in it.        *)
LEMMA CharactersOfPiece ==
  ASSUME NEW s \in Seq(Byte), NEW i \in 1..Len(s) + 1, NEW j \in i..Len(s) + 1,
         NEW k \in 1..j - i
  PROVE  \A n \in Nat : n \in Characters(Piece(s, i, j), k)
             <=> n \in Characters(s, i + k - 1) /\ i + k - 1 + n <= j
<1>1. PICK l \in Nat : l = Len(s)
  OBVIOUS
<1>2. PICK p : p = Piece(s, i, j)
  OBVIOUS
<1>3. PICK q : q = i + k - 1
  OBVIOUS
<1>4. /\ p \in Seq(Byte) /\ Len(p) = j - i
      /\ \A m \in 1..j - i : p[m] = s[i + m - 1]
  BY <1>2, PieceIs
<1>5. q \in 1..l /\ k \in 1..Len(p) /\ q + 1 <= j
  BY <1>1, <1>3, <1>4
<1>6. p[k] = s[q]
  BY <1>3, <1>4
<1>7. /\ \A m \in Nat : k + m <= Len(p) <=> q + m < j
      /\ \A m \in Nat : q + m < j => q + m <= l /\ p[k + m] = s[q + m]
  <2>1. \A m \in Nat : k + m <= Len(p) <=> q + m < j
    BY <1>1, <1>3, <1>4
  <2>2. ASSUME NEW m \in Nat, q + m < j
        PROVE  q + m <= l /\ p[k + m] = s[q + m]
    <3>1. k + m \in 1..j - i /\ q + m = i + (k + m) - 1 /\ q + m <= l
      BY <1>1, <1>3, <2>2
    <3>. QED  BY <1>4, <3>1
  <2>. QED  BY <2>1, <2>2
<1>8. ASSUME NEW n \in Nat
      PROVE  n = LengthOf(p[k]) /\ TurnAccepts(p, k, n) <=> n = LengthOf(s[q]) /\ TurnAccepts(s, q, n) /\ q + n <= j
  <2>1. CASE n = 0
    BY <2>1 DEF TurnAccepts
  <2>2. CASE n > 0 /\ q + n <= j
    <3>1. \A m \in 0..n - 1 : m \in Nat /\ q + m < j
      BY <1>3, <2>2
    <3>2. \A m \in 0..n - 1 : k + m <= Len(p) /\ q + m <= l /\ p[k + m] = s[q + m]
      BY <1>7, <3>1
    <3>3. k + n - 1 <= Len(p) /\ q + n - 1 <= Len(s)
      <4>1. n - 1 \in 0..n - 1 /\ k + (n - 1) = k + n - 1 /\ q + (n - 1) = q + n - 1
        BY <2>2
      <4>. QED  BY <1>1, <3>2, <4>1
    <3>4. (\A m \in 1..n - 1 : IsContinuation(p[k + m])) <=> (\A m \in 1..n - 1 : IsContinuation(s[q + m]))
      <4>1. \A m \in 1..n - 1 : p[k + m] = s[q + m]
        BY <3>2
      <4>. QED  BY <4>1, Zenon
    <3>5. n = LengthOf(s[q]) => CodePoint(p, k, n) = CodePoint(s, q, n)
      <4>1. ASSUME n = LengthOf(s[q])
            PROVE  n \in 1..4
        <5>1. s[q] \in Byte
          BY <1>1, <1>5
        <5>2. n \in 0..4
          BY <4>1, <5>1, LengthOfIs, Zenon
        <5>. QED  BY <2>2, <5>2
      <4>2. CASE n = 1
        BY <1>6, <4>2 DEF CodePoint
      <4>3. CASE n = 2
        <5>1. p[k + 1] = s[q + 1]
          BY <3>2, <4>3
        <5>. QED  BY <1>6, <4>3, <5>1, CodePointIs, Zenon
      <4>4. CASE n = 3
        <5>1. p[k + 1] = s[q + 1] /\ p[k + 2] = s[q + 2]
          BY <3>2, <4>4
        <5>. QED  BY <1>6, <4>4, <5>1, CodePointIs, Zenon
      <4>5. CASE n = 4
        <5>1. p[k + 1] = s[q + 1] /\ p[k + 2] = s[q + 2] /\ p[k + 3] = s[q + 3]
          BY <3>2, <4>5
        <5>. QED  BY <1>6, <4>5, <5>1, CodePointIs, Zenon
      <4>6. n \in 1..4 => n = 1 \/ n = 2 \/ n = 3 \/ n = 4
        OBVIOUS
      <4>. QED  BY <4>1, <4>2, <4>3, <4>4, <4>5, <4>6, Zenon
    <3>. QED  BY <1>6, <2>2, <3>3, <3>4, <3>5, Zenon DEF TurnAccepts
  <2>3. CASE n > 0 /\ ~(q + n <= j)
    <3>1. ~(k + n - 1 <= Len(p))
      BY <1>3, <1>4, <2>3
    <3>. QED  BY <2>3, <3>1 DEF TurnAccepts
  <2>. QED  BY <1>3, <2>1, <2>2, <2>3
<1>9. \A n \in Nat : n \in Characters(p, k) <=> n = LengthOf(p[k]) /\ TurnAccepts(p, k, n)
  BY <1>4, <1>5, TurnFindsCharacter
<1>10. \A n \in Nat : n \in Characters(s, q) <=> n = LengthOf(s[q]) /\ TurnAccepts(s, q, n)
  BY <1>1, <1>5, TurnFindsCharacter
<1>11. \A n \in Nat : n \in Characters(p, k) <=> n \in Characters(s, q) /\ q + n <= j
  BY <1>8, <1>9, <1>10, Zenon
<1>. QED  BY <1>2, <1>3, <1>11

(* Between two places where characters begin, the first character ends.     *)
LEMMA NextCharacter ==
  ASSUME NEW s \in Seq(Byte), NEW f, Reached(f, s)
  PROVE  \A j \in 1..Len(s) + 1 : \A i \in 1..j - 1 :
            f[i] /\ f[j] => \E n \in Characters(s, i) : i + n <= j
<1>1. PICK l \in Nat : l = Len(s) + 1
  OBVIOUS
<1>. DEFINE EndsBy(i, j) == \E n \in Characters(s, i) : i + n <= j
            P == {j \in 1..l : \A i \in 1..j - 1 : f[i] /\ f[j] => EndsBy(i, j)}
<1>2. ASSUME NEW j \in 1..l, \A k \in 1..j - 1 : k \in P
      PROVE  j \in P
  <2>1. SUFFICES ASSUME NEW i \in 1..j - 1, f[i], f[j]
                 PROVE  EndsBy(i, j)
    OBVIOUS
  <2>2. PICK q \in 1..j - 1 : f[q] /\ (j - q) \in Characters(s, q)
    <3>1. j \in 1..Len(s) + 1 /\ j # 1
      BY <1>1
    <3>. QED  BY <2>1, <3>1 DEF Reached
  <2>3. q \in 1..Len(s) /\ i \in 1..Len(s)
    BY <1>1
  <2>4. CASE q = i
    <3>1. i + (j - q) <= j
      BY <2>4
    <3>. QED  BY <2>2, <2>4, <3>1
  <2>5. CASE i < q
    <3>1. q \in P /\ i \in 1..q - 1
      BY <1>2, <2>5
    <3>2. PICK n \in Characters(s, i) : i + n <= q
      BY <2>1, <2>2, <3>1
    <3>3. n \in Nat
      BY <2>3, CharacterFits
    <3>4. i + n <= j
      BY <3>2, <3>3
    <3>. QED  BY <3>4
  <2>6. CASE q < i
    <3>1. i \in P /\ q \in 1..i - 1
      BY <1>2, <2>6
    <3>2. PICK n \in Characters(s, q) : q + n <= i
      BY <2>1, <2>2, <3>1
    <3>3. n = LengthOf(s[q]) /\ j - q = LengthOf(s[q])
      BY <2>2, <2>3, CharacterFits
    <3>4. q + (j - q) <= i
      BY <3>2, <3>3
    <3>. QED  BY <3>4
  <2>. QED  BY <2>4, <2>5, <2>6
<1>. HIDE DEF P
<1>3. 1..l \subseteq P
  BY <1>2, FromTheStart
<1>. QED  BY <1>1, <1>3 DEF P

(* From a boundary on, a piece is well formed if and only if it ends at one. *)
LEMMA PiecesBetweenBoundaries ==
  ASSUME NEW s \in Seq(Byte), NEW i \in Boundaries(s), NEW j \in i..Len(s) + 1
  PROVE  i \in 1..Len(s) + 1 /\ (WellFormed(Piece(s, i, j)) <=> j \in Boundaries(s))
<1>1. PICK l \in Nat : l = Len(s)
  OBVIOUS
<1>2. PICK r : Boundaries(s) = {k \in 1..Len(s) + 1 : r[k]} /\ Reached(r, s)
  BY BoundariesReach
<1>3. i \in 1..Len(s) + 1 /\ r[i]
  BY <1>2
<1>4. PICK p : p = Piece(s, i, j)
  OBVIOUS
<1>5. p \in Seq(Byte) /\ Len(p) = j - i /\ j - i \in Nat
  <2>1. p \in Seq(Byte) /\ Len(p) = j - i
    BY <1>3, <1>4, PieceIs, Zenon
  <2>2. j - i \in Nat
    BY <1>1, <1>3
  <2>. QED  BY <2>1, <2>2
<1>6. PICK g : WellFormed(p) = g[1] /\ Formed(g, p)
  BY <1>5, WellFormedForms
<1>7. PICK m \in Nat : m = j - i
  BY <1>5
<1>. DEFINE P == {k \in 1..m + 1 : r[i + k - 1] => (g[k] <=> r[j])}
<1>8. m + 1 \in P
  <2>1. m + 1 \in 1..Len(p) + 1 /\ m + 1 > Len(p)
    BY <1>5, <1>7
  <2>2. g[m + 1]
    BY <1>6, <2>1 DEF Formed
  <2>3. i + (m + 1) - 1 = j
    BY <1>1, <1>3, <1>7
  <2>. QED  BY <2>2, <2>3
<1>9. ASSUME NEW k \in 1..m, \A h \in k + 1..m + 1 : h \in P
      PROVE  k \in P
  <2>1. SUFFICES ASSUME r[i + k - 1]
                 PROVE  g[k] <=> r[j]
    OBVIOUS
  <2>2. PICK q \in 1..Len(s) : q = i + k - 1
    BY <1>1, <1>3, <1>7
  <2>3. q < j /\ j \in 1..Len(s) + 1
    BY <1>1, <1>3, <1>7, <2>2
  <2>4. \A n \in Nat : n \in Characters(p, k) <=> n \in Characters(s, q) /\ q + n <= j
    BY <1>3, <1>4, <1>7, <2>2, CharactersOfPiece
  <2>5. ASSUME NEW n \in Characters(s, q), q + n <= j
        PROVE  /\ r[q + n] /\ k + n \in k + 1..m + 1
               /\ g[k + n] <=> r[j]
    <3>1. n \in 1..4 /\ n \in Nat
      BY CharacterFits
    <3>2. k + n \in k + 1..m + 1 /\ i + (k + n) - 1 = q + n /\ q + n \in 1..Len(s) + 1
          /\ q \in 1..(q + n) - 1 /\ (q + n) - q = n
      BY <1>1, <1>3, <1>7, <2>2, <2>3, <2>5, <3>1
    <3>3. r[q + n]
      <4>1. PICK e : e = q + n
        OBVIOUS
      <4>2. e \in 1..Len(s) + 1 /\ q \in 1..e - 1 /\ e - q = n
        BY <3>2, <4>1
      <4>3. r[q]
        BY <2>1, <2>2
      <4>4. \E h \in 1..e - 1 : r[h] /\ (e - h) \in Characters(s, h)
        BY <4>2, <4>3
      <4>5. r[e]
        BY <1>2, <4>2, <4>4 DEF Reached
      <4>. QED  BY <4>1, <4>5
    <3>4. k + n \in P
      BY <1>9, <3>2
    <3>. QED  BY <3>2, <3>3, <3>4
  <2>6. g[k] <=> \E n \in Characters(p, k) : g[k + n]
    <3>1. k \in 1..Len(p) + 1 /\ ~(k > Len(p))
      BY <1>5, <1>7
    <3>. QED  BY <1>6, <3>1 DEF Formed
  <2>7. ASSUME g[k] PROVE r[j]
    <3>1. PICK n \in Characters(p, k) : g[k + n]
      BY <2>6, <2>7
    <3>2. n \in Nat
      <4>1. k \in 1..Len(p)
        BY <1>5, <1>7
      <4>. QED  BY <1>5, <4>1, CharacterFits
    <3>3. n \in Characters(s, q) /\ q + n <= j
      BY <2>4, <3>2
    <3>. QED  BY <2>5, <3>1, <3>3
  <2>8. ASSUME r[j] PROVE g[k]
    <3>1. q \in 1..j - 1
      BY <2>2, <2>3
    <3>2. PICK n \in Characters(s, q) : q + n <= j
      BY <1>2, <2>1, <2>2, <2>3, <2>8, <3>1, NextCharacter
    <3>3. n \in Nat
      BY CharacterFits
    <3>4. n \in Characters(p, k)
      BY <2>4, <3>2, <3>3
    <3>5. g[k + n]
      BY <2>5, <2>8, <3>2
    <3>. QED  BY <2>6, <3>4, <3>5
  <2>. QED  BY <2>7, <2>8
<1>10. 1 \in P
  <2>. HIDE DEF P
  <2>1. 1..m + 1 \subseteq P
    BY <1>8, <1>9, FromTheEnd
  <2>2. 1 \in 1..m + 1
    OBVIOUS
  <2>. QED  BY <2>1, <2>2
<1>11. g[1] <=> r[j]
  <2>1. i + 1 - 1 = i
    BY <1>1, <1>3
  <2>. QED  BY <1>3, <1>10, <2>1
<1>12. j \in 1..Len(s) + 1
  BY <1>1, <1>3
<1>. QED  BY <1>2, <1>3, <1>4, <1>6, <1>11, <1>12

(* The first place is a boundary; the end is one of a well-formed string.   *)
LEMMA EndsAreBoundaries ==
  ASSUME NEW s \in Seq(Byte)
  PROVE  1 \in Boundaries(s) /\ (WellFormed(s) <=> Len(s) + 1 \in Boundaries(s))
<1>1. PICK l \in Nat : l = Len(s)
  OBVIOUS
<1>2. 1 \in Boundaries(s)
  <2>1. PICK r : Boundaries(s) = {k \in 1..Len(s) + 1 : r[k]} /\ Reached(r, s)
    BY BoundariesReach
  <2>2. 1 \in 1..Len(s) + 1
    BY <1>1
  <2>. QED  BY <2>1, <2>2 DEF Reached
<1>3. Len(s) + 1 \in 1..Len(s) + 1 /\ 1 \in 1..Len(s) + 1
  BY <1>1
<1>4. Piece(s, 1, Len(s) + 1) = s
  <2>1. PICK p : p = Piece(s, 1, Len(s) + 1)
    OBVIOUS
  <2>2. /\ p \in Seq(Byte) /\ Len(p) = (Len(s) + 1) - 1
        /\ \A k \in 1..(Len(s) + 1) - 1 : p[k] = s[1 + k - 1]
    <3>1. Len(s) + 1 \in 1..Len(s) + 1
      BY <1>1
    <3>. QED  BY <1>3, <2>1, <3>1, PieceIs, Zenon
  <2>3. Len(p) = Len(s) /\ \A k \in 1..Len(p) : p[k] = s[k]
    BY <1>1, <2>2
  <2>4. p = s
    BY <2>2, <2>3, SeqEqual
  <2>. QED  BY <2>1, <2>4
<1>. QED  BY <1>2, <1>3, <1>4, PiecesBetweenBoundaries

-----------------------------------------------------------------------------
(* Text                                                                     *)
(* The C string in a buffer that ends in a NUL.                             *)
LEMMA CStringIs ==
  ASSUME NEW X \in SUBSET Byte, NEW c \in Seq(X)
  PROVE  /\ CString(c \o <<0>>) \in Seq(X)
         /\ NoNull(c) => CString(c \o <<0>>) = c
<1>1. PICK l \in Nat : l = Len(c)
  OBVIOUS
<1>2. PICK s : s = c \o <<0>>
  OBVIOUS
<1>3. c \in Seq(Byte) /\ <<0>> \in Seq(Byte) /\ Len(<<0>>) = 1 /\ <<0>>[1] = 0
  <2>1. \A i \in 1..Len(c) : c[i] \in Byte
    OBVIOUS
  <2>2. c \in [1..Len(c) -> Byte] /\ Len(c) \in Nat
    BY <2>1
  <2>3. c \in Seq(Byte)
    BY <2>2
  <2>4. 0 \in Byte
    BY DEF Byte
  <2>. QED  BY <2>3, <2>4
<1>4. /\ s \in Seq(Byte) /\ Len(s) = l + 1 /\ s[l + 1] = 0
      /\ \A i \in 1..l : s[i] = c[i]
  <2>1. /\ s \in Seq(Byte) /\ Len(s) = Len(c) + Len(<<0>>)
        /\ \A i \in 1..Len(s) : s[i] = IF i <= Len(c) THEN c[i] ELSE <<0>>[i - Len(c)]
    BY <1>2, <1>3, ConcatProperties
  <2>2. Len(s) = l + 1
    BY <1>1, <1>3, <2>1
  <2>3. s[l + 1] = 0
    <3>1. l + 1 \in 1..Len(s) /\ ~(l + 1 <= Len(c)) /\ (l + 1) - Len(c) = 1
      BY <1>1, <2>2
    <3>2. s[l + 1] = <<0>>[(l + 1) - Len(c)]
      BY <2>1, <3>1
    <3>. QED  BY <1>3, <3>1, <3>2
  <2>4. \A i \in 1..l : s[i] = c[i]
    BY <1>1, <2>1, <2>2
  <2>. QED  BY <2>1, <2>2, <2>3, <2>4
<1>. DEFINE First(i) == s[i] = 0 /\ \A j \in 1..i - 1 : s[j] # 0
            P == {i \in 1..l + 1 : s[i] # 0}
            end == CHOOSE i \in 1..Len(s) : First(i)
<1>5. \E i \in 1..Len(s) : First(i)
  <2>1. SUFFICES ASSUME \A i \in 1..l + 1 : ~First(i)
                 PROVE  FALSE
    BY <1>4
  <2>2. \A i \in 1..l + 1 : (\A j \in 1..i - 1 : j \in P) => i \in P
    BY <2>1
  <2>3. l + 1 \in Nat /\ l + 1 \in 1..l + 1
    OBVIOUS
  <2>4. 1..l + 1 \subseteq P
    <3>. HIDE DEF P
    <3>. QED  BY <2>2, <2>3, FromTheStart
  <2>. QED  BY <1>4, <2>3, <2>4
<1>6. end \in 1..Len(s) /\ First(end)
  <2>. HIDE DEF First
  <2>. QED  BY <1>5, Zenon
<1>7. CString(s) = SubSeq(s, 1, end - 1)
  BY Zenon DEF CString
<1>8. PICK e \in 1..l + 1 : e = end
  BY <1>4, <1>6
<1>. HIDE DEF end
<1>9. \A j \in 1..e - 1 : s[j] # 0 /\ s[j] = c[j] /\ s[j] \in X
  <2>1. \A j \in 1..e - 1 : j \in 1..l
    OBVIOUS
  <2>2. \A j \in 1..l : c[j] \in X
    BY <1>1
  <2>. QED  BY <1>4, <1>6, <1>8, <2>1, <2>2
<1>10. PICK m \in 0..l : m = e - 1
  OBVIOUS
<1>11. /\ SubSeq(s, 1, m) \in Seq(X) /\ Len(SubSeq(s, 1, m)) = m
       /\ \A j \in 1..m : SubSeq(s, 1, m)[j] = c[j]
  <2>1. \A j \in 1..m : s[j] \in X
    BY <1>9, <1>10
  <2>2. m \in Int /\ 1 \in Int
    OBVIOUS
  <2>3. /\ SubSeq(s, 1, m) \in Seq(X)
        /\ Len(SubSeq(s, 1, m)) = IF 1 <= m THEN m - 1 + 1 ELSE 0
        /\ \A j \in 1..m - 1 + 1 : SubSeq(s, 1, m)[j] = s[1 + j - 1]
    BY <2>1, <2>2, SubSeqProperties
  <2>4. m - 1 + 1 = m /\ (IF 1 <= m THEN m - 1 + 1 ELSE 0) = m /\ \A j \in 1..m : 1 + j - 1 = j
    OBVIOUS
  <2>5. \A j \in 1..m : SubSeq(s, 1, m)[j] = s[j]
    BY <2>3, <2>4
  <2>. QED  BY <1>9, <1>10, <2>3, <2>4, <2>5
<1>12. CString(s) = SubSeq(s, 1, m)
  BY <1>7, <1>8, <1>10
<1>13. ASSUME NoNull(c) PROVE SubSeq(s, 1, m) = c
  <2>1. e = l + 1
    <3>1. e \in 1..l => c[e] = 0 /\ e \in 1..Len(c)
      BY <1>1, <1>4, <1>6, <1>8
    <3>2. e \notin 1..l
      BY <1>13, <3>1 DEF NoNull
    <3>. QED  BY <3>2
  <2>2. m = l
    BY <1>10, <2>1
  <2>3. PICK p : p = SubSeq(s, 1, m)
    OBVIOUS
  <2>4. p \in Seq(X) /\ Len(p) = Len(c) /\ \A j \in 1..Len(p) : p[j] = c[j]
    BY <1>1, <1>11, <2>2, <2>3
  <2>5. p = c
    BY <2>4, SeqEqual
  <2>. QED  BY <2>3, <2>5
<1>. QED  BY <1>2, <1>11, <1>12, <1>13

(* What the calls accepted ends where a character ends.                     *)
CutAtCharacter == NoNull(text) => pos + 1 \in Boundaries(text)

(* Every call accepts a byte at least.                                      *)
Counted == Len(text) <= MaxLength /\ Len(accepted) <= pos

TextInd == TextInv /\ CutAtCharacter /\ Counted

(* The bytes of a call: a piece of the text that goes on where the last     *)
(* call stopped.                                                            *)
LEMMA ChunkIs ==
  ASSUME TextAssumption, TextTypeOK, pos < Len(text)
  PROVE  \E q \in pos + 1..Len(text) :
            /\ Chunk = Piece(text, pos + 1, q + 1) /\ Len(Chunk) = q - pos
            /\ Chunk \in Seq(Alphabet)
            /\ SubSeq(text, 1, q) = SubSeq(text, 1, pos) \o Chunk
            /\ q = Len(text) \/ q = pos + Cut
<1>1. PICK l \in Nat : l = Len(text)
  BY DEF TextTypeOK
<1>2. PICK p \in 0..l : p = pos
  BY <1>1 DEF TextTypeOK
<1>3. Cut \in Nat \ {0} /\ Alphabet \subseteq Byte
  BY DEF TextAssumption
<1>4. PICK q \in p + 1..l : /\ q = IF l - p < Cut THEN l ELSE p + Cut
                            /\ q = l \/ q = p + Cut
  BY <1>1, <1>2, <1>3
<1>5. Chunk = SubSeq(text, p + 1, q)
  BY <1>1, <1>2, <1>4 DEF Chunk
<1>6. Chunk = Piece(text, p + 1, q + 1)
  <2>1. (q + 1) - 1 = q
    OBVIOUS
  <2>. QED  BY <1>5, <2>1 DEF Piece
<1>7. text \in Seq(Alphabet) /\ \A k \in 1..l : text[k] \in Alphabet
  BY <1>1 DEF TextTypeOK
<1>8. /\ SubSeq(text, p + 1, q) \in Seq(Alphabet) /\ Len(SubSeq(text, p + 1, q)) = q - p
      /\ \A k \in 1..q - p : SubSeq(text, p + 1, q)[k] = text[p + k]
  <2>1. p + 1 \in Int /\ q \in Int /\ \A k \in p + 1..q : text[k] \in Alphabet
    BY <1>7
  <2>2. PICK a \in Int : a = p + 1
    OBVIOUS
  <2>3. /\ SubSeq(text, a, q) \in Seq(Alphabet)
        /\ Len(SubSeq(text, a, q)) = IF a <= q THEN q - a + 1 ELSE 0
        /\ \A k \in 1..q - a + 1 : SubSeq(text, a, q)[k] = text[a + k - 1]
    BY <2>1, <2>2, SubSeqProperties
  <2>4. /\ (IF a <= q THEN q - a + 1 ELSE 0) = q - p /\ q - a + 1 = q - p
        /\ \A k \in 1..q - p : a + k - 1 = p + k
    BY <2>2
  <2>5. \A k \in 1..q - p : SubSeq(text, a, q)[k] = text[p + k]
    BY <2>3, <2>4
  <2>. QED  BY <2>2, <2>3, <2>4, <2>5
<1>9. \A m \in 0..l : /\ SubSeq(text, 1, m) \in Seq(Alphabet) /\ Len(SubSeq(text, 1, m)) = m
                      /\ \A k \in 1..m : SubSeq(text, 1, m)[k] = text[k]
  <2>. TAKE m \in 0..l
  <2>1. m \in Int /\ 1 \in Int /\ \A k \in 1..m : text[k] \in Alphabet
    BY <1>7
  <2>2. /\ SubSeq(text, 1, m) \in Seq(Alphabet)
        /\ Len(SubSeq(text, 1, m)) = IF 1 <= m THEN m - 1 + 1 ELSE 0
        /\ \A k \in 1..m - 1 + 1 : SubSeq(text, 1, m)[k] = text[1 + k - 1]
    BY <2>1, SubSeqProperties
  <2>3. m - 1 + 1 = m /\ (IF 1 <= m THEN m - 1 + 1 ELSE 0) = m /\ \A k \in 1..m : 1 + k - 1 = k
    OBVIOUS
  <2>4. \A k \in 1..m : SubSeq(text, 1, m)[k] = text[k]
    BY <2>2, <2>3
  <2>. QED  BY <2>2, <2>3, <2>4
<1>10. SubSeq(text, 1, q) = SubSeq(text, 1, p) \o Chunk
  <2>1. PICK a : a = SubSeq(text, 1, p)
    OBVIOUS
  <2>2. PICK b : b = Chunk
    OBVIOUS
  <2>3. PICK c : c = SubSeq(text, 1, q)
    OBVIOUS
  <2>4. a \in Seq(Alphabet) /\ Len(a) = p /\ \A k \in 1..p : a[k] = text[k]
    BY <1>9, <2>1
  <2>5. b \in Seq(Alphabet) /\ Len(b) = q - p /\ \A k \in 1..q - p : b[k] = text[p + k]
    BY <1>5, <1>8, <2>2
  <2>6. c \in Seq(Alphabet) /\ Len(c) = q /\ \A k \in 1..q : c[k] = text[k]
    <3>1. q \in 0..l
      OBVIOUS
    <3>. QED  BY <1>9, <2>3, <3>1
  <2>7. PICK d : d = a \o b
    OBVIOUS
  <2>8. /\ d \in Seq(Alphabet) /\ Len(d) = Len(a) + Len(b)
        /\ \A k \in 1..Len(d) : d[k] = IF k <= Len(a) THEN a[k] ELSE b[k - Len(a)]
    <3>1. /\ a \o b \in Seq(Alphabet) /\ Len(a \o b) = Len(a) + Len(b)
          /\ \A k \in 1..Len(a) + Len(b) : (a \o b)[k] = IF k <= Len(a) THEN a[k] ELSE b[k - Len(a)]
      BY <2>4, <2>5, ConcatProperties
    <3>. QED  BY <2>7, <3>1
  <2>9. Len(c) = Len(d)
    BY <2>4, <2>5, <2>6, <2>8
  <2>10. ASSUME NEW k \in 1..Len(c) PROVE c[k] = d[k]
    <3>1. k \in 1..q /\ c[k] = text[k]
      BY <2>6
    <3>2. CASE k <= p
      BY <2>4, <2>8, <2>9, <3>1, <3>2
    <3>3. CASE k > p
      <4>1. k - p \in 1..q - p /\ p + (k - p) = k /\ ~(k <= Len(a)) /\ k - Len(a) = k - p
        BY <2>4, <3>1, <3>3
      <4>2. d[k] = b[k - p]
        BY <2>8, <2>9, <4>1
      <4>. QED  BY <2>5, <3>1, <4>1, <4>2
    <3>. QED  BY <3>1, <3>2, <3>3
  <2>11. c = d
    BY <2>6, <2>8, <2>9, <2>10, SeqEqual
  <2>. QED  BY <2>1, <2>2, <2>3, <2>7, <2>11
<1>. QED  BY <1>1, <1>2, <1>4, <1>5, <1>6, <1>8, <1>10

LEMMA NoNullParts ==
  ASSUME NEW X, NEW a \in Seq(X), NEW b \in Seq(X)
  PROVE  NoNull(a \o b) => NoNull(a) /\ NoNull(b)
<1>1. PICK m \in Nat : m = Len(a)
  OBVIOUS
<1>2. PICK n \in Nat : n = Len(b)
  OBVIOUS
<1>3. PICK d : d = a \o b
  OBVIOUS
<1>4. /\ Len(d) = m + n
      /\ \A k \in 1..m + n : d[k] = IF k <= m THEN a[k] ELSE b[k - m]
  <2>1. /\ Len(a \o b) = Len(a) + Len(b)
        /\ \A k \in 1..Len(a) + Len(b) : (a \o b)[k] = IF k <= Len(a) THEN a[k] ELSE b[k - Len(a)]
    BY ConcatProperties
  <2>. QED  BY <1>1, <1>2, <1>3, <2>1
<1>5. ASSUME NoNull(d) PROVE NoNull(a) /\ NoNull(b)
  <2>1. \A k \in 1..m + n : d[k] # 0
    BY <1>4, <1>5 DEF NoNull
  <2>2. ASSUME NEW k \in 1..m PROVE a[k] # 0
    <3>1. k \in 1..m + n /\ k <= m
      OBVIOUS
    <3>. QED  BY <1>4, <2>1, <3>1
  <2>3. ASSUME NEW k \in 1..n PROVE b[k] # 0
    <3>1. m + k \in 1..m + n /\ ~(m + k <= m) /\ (m + k) - m = k
      OBVIOUS
    <3>. QED  BY <1>4, <2>1, <3>1
  <2>. QED  BY <1>1, <1>2, <2>2, <2>3 DEF NoNull
<1>. QED  BY <1>3, <1>5

(* What a call does with its bytes, by what they are.                       *)
LEMMA StoredIs ==
  ASSUME TextAssumption, TextTypeOK, pos < Len(text)
  PROVE  /\ Stored \in Seq(Alphabet) /\ Stored \in Seq(Byte)
         /\ CheckNoNull(Stored) <=> WellFormed(Stored) /\ NoNull(Stored)
         /\ NoNull(Chunk) => Stored = Chunk
         /\ NoNull(text) => NoNull(Chunk)
<1>1. PICK l \in Nat : l = Len(text)
  BY DEF TextTypeOK
<1>2. text \in Seq(Byte) /\ pos \in 0..l /\ Alphabet \in SUBSET Byte
  <2>1. text \in Seq(Alphabet) /\ Alphabet \subseteq Byte /\ pos \in 0..l
    BY <1>1 DEF TextTypeOK, TextAssumption
  <2>2. \A k \in 1..Len(text) : text[k] \in Byte
    BY <2>1
  <2>3. text \in [1..Len(text) -> Byte] /\ Len(text) \in Nat
    BY <2>1, <2>2
  <2>4. text \in Seq(Byte)
    BY <2>3
  <2>. QED  BY <2>1, <2>4
<1>3. PICK q \in pos + 1..Len(text) : Chunk = Piece(text, pos + 1, q + 1) /\ Chunk \in Seq(Alphabet)
  BY ChunkIs
<1>4. PICK t : t = Stored
  OBVIOUS
<1>5. t \in Seq(Alphabet) /\ (NoNull(Chunk) => t = Chunk)
  BY <1>2, <1>3, <1>4, CStringIs DEF Stored
<1>6. t \in Seq(Byte)
  <2>1. \A k \in 1..Len(t) : t[k] \in Byte
    BY <1>2, <1>5
  <2>2. t \in [1..Len(t) -> Byte] /\ Len(t) \in Nat
    BY <1>5, <2>1
  <2>. QED  BY <2>2
<1>7. CheckNoNull(t) <=> WellFormed(t) /\ NoNull(t)
  <2>1. FALSE \in BOOLEAN
    OBVIOUS
  <2>2. Check(t, FALSE) <=> WellFormed(t) /\ (FALSE \/ NoNull(t))
    BY <1>6, <2>1, CheckIsWellFormed
  <2>. QED  BY <2>2, Zenon DEF CheckNoNull
<1>8. ASSUME NoNull(text) PROVE NoNull(Chunk)
  <2>1. PICK a : a = pos + 1
    OBVIOUS
  <2>2. PICK b : b = q + 1
    OBVIOUS
  <2>3. a \in 1..Len(text) + 1 /\ b \in a..Len(text) + 1
    BY <1>1, <1>2, <2>1, <2>2
  <2>4. /\ Len(Piece(text, a, b)) = b - a
        /\ \A k \in 1..b - a : Piece(text, a, b)[k] = text[a + k - 1]
    BY <1>2, <2>3, PieceIs
  <2>5. \A k \in 1..b - a : a + k - 1 \in 1..Len(text)
    BY <1>1, <1>2, <2>1, <2>2
  <2>6. \A k \in 1..Len(Piece(text, a, b)) : Piece(text, a, b)[k] # 0
    BY <1>8, <2>4, <2>5 DEF NoNull
  <2>. QED  BY <1>3, <2>1, <2>2, <2>6, Zenon DEF NoNull
<1>. QED  BY <1>4, <1>5, <1>6, <1>7, <1>8

LEMMA TextBegins ==
  ASSUME TextAssumption, TextInit
  PROVE  TextInd
<1>1. PICK n \in 1..MaxLength : text \in [1..n -> Alphabet]
  BY DEF TextInit, AllTexts
<1>2. n \in Nat /\ MaxLength \in Nat
  BY DEF TextAssumption
<1>3. text \in Seq(Alphabet) /\ Len(text) = n
  BY <1>1, <1>2
<1>4. pos = 0 /\ accepted = <<>> /\ result = "none"
  BY DEF TextInit
<1>5. TextTypeOK /\ SentWellFormed /\ RefusedForAReason /\ Counted
  BY <1>1, <1>2, <1>3, <1>4 DEF TextTypeOK, SentWellFormed, RefusedForAReason, Counted
<1>6. AcceptedIsSent
  <2>1. SubSeq(text, 1, pos) = <<>>
    <3>1. 1 \in Int /\ 0 \in Int /\ 0 < 1
      OBVIOUS
    <3>. QED  BY <1>4, <3>1, SubSeqEmpty
  <2>2. FlattenSeq(accepted) = <<>>
    BY <1>4, FlattenEmpty, Zenon
  <2>. QED  BY <2>1, <2>2, Zenon DEF AcceptedIsSent
<1>7. CutAtCharacter
  <2>1. \A k \in 1..Len(text) : text[k] \in Byte
    BY <1>3 DEF TextAssumption
  <2>2. text \in [1..n -> Byte]
    BY <1>1, <1>3, <2>1
  <2>3. text \in Seq(Byte)
    BY <1>2, <2>2
  <2>4. 1 \in Boundaries(text)
    BY <2>3, EndsAreBoundaries
  <2>5. pos + 1 = 1
    BY <1>4
  <2>. QED  BY <2>4, <2>5, Zenon DEF CutAtCharacter
<1>. QED  BY <1>5, <1>6, <1>7 DEF TextInd, TextInv

LEMMA TextStep ==
  ASSUME TextAssumption, TextInd, TextNext
  PROVE  TextInd'
<1>0. /\ TextTypeOK /\ SentWellFormed /\ AcceptedIsSent /\ RefusedForAReason
      /\ CutAtCharacter /\ Counted
  BY DEF TextInd, TextInv
<1>1. PICK l \in Nat : l = Len(text)
  BY <1>0 DEF TextTypeOK
<1>2. pos < Len(text) /\ text' = text
  BY DEF TextNext, TootWrite, WriteRefused
<1>3. text \in Seq(Byte) /\ pos \in 0..l /\ MaxLength \in Nat /\ text \in Seq(Alphabet)
  <2>1. text \in Seq(Alphabet) /\ Alphabet \subseteq Byte /\ pos \in 0..l /\ MaxLength \in Nat
    BY <1>0, <1>1 DEF TextTypeOK, TextAssumption
  <2>2. \A k \in 1..Len(text) : text[k] \in Byte
    BY <2>1
  <2>3. text \in [1..Len(text) -> Byte] /\ Len(text) \in Nat
    BY <2>1, <2>2
  <2>4. text \in Seq(Byte)
    BY <2>3
  <2>. QED  BY <2>1, <2>4
<1>4. PICK q \in pos + 1..Len(text) :
         /\ Chunk = Piece(text, pos + 1, q + 1) /\ Len(Chunk) = q - pos
         /\ Chunk \in Seq(Alphabet)
         /\ SubSeq(text, 1, q) = SubSeq(text, 1, pos) \o Chunk
         /\ q = Len(text) \/ q = pos + Cut
  BY <1>0, <1>2, ChunkIs
<1>5. /\ Stored \in Seq(Alphabet) /\ Stored \in Seq(Byte)
      /\ CheckNoNull(Stored) <=> WellFormed(Stored) /\ NoNull(Stored)
      /\ NoNull(Chunk) => Stored = Chunk
      /\ NoNull(text) => NoNull(Chunk)
  BY <1>0, <1>2, StoredIs
<1>6. NoNull(text) => (WellFormed(Chunk) <=> q + 1 \in Boundaries(text))
  <2>1. pos + 1 \in 1..Len(text) + 1 /\ q + 1 \in pos + 1..Len(text) + 1
    BY <1>1, <1>3
  <2>. QED  BY <1>0, <1>3, <1>4, <2>1, PiecesBetweenBoundaries, Zenon DEF CutAtCharacter
<1>7. CASE TootWrite
  <2>1. PICK t : t = Stored
    OBVIOUS
  <2>2. /\ accepted' = Append(accepted, t) /\ pos' = q /\ result' = "short"
        /\ WellFormed(t) /\ NoNull(t)
    <3>1. pos + (q - pos) = q
      BY <1>1, <1>3
    <3>. QED  BY <1>4, <1>5, <1>7, <2>1, <3>1 DEF TootWrite
  <2>3. /\ accepted \in Seq(Seq(Alphabet)) /\ t \in Seq(Alphabet)
        /\ Len(accepted) <= pos /\ Len(text) <= MaxLength
    BY <1>0, <1>5, <2>1 DEF TextTypeOK, Counted
  <2>4. /\ accepted' \in Seq(Seq(Alphabet)) /\ Len(accepted') = Len(accepted) + 1
        /\ accepted'[Len(accepted) + 1] = t
        /\ \A k \in 1..Len(accepted) : accepted'[k] = accepted[k]
    BY <2>2, <2>3, AppendProperties
  <2>5. Len(accepted') <= pos' /\ pos' \in 0..Len(text) /\ Len(accepted') <= MaxLength
    BY <1>1, <1>3, <2>2, <2>3, <2>4
  <2>6. TextTypeOK' /\ Counted' /\ RefusedForAReason'
    BY <1>2, <1>3, <2>2, <2>3, <2>4, <2>5 DEF TextTypeOK, Counted, RefusedForAReason
  <2>7. SentWellFormed'
    <3>1. ASSUME NEW k \in 1..Len(accepted')
          PROVE  WellFormed(accepted'[k]) /\ NoNull(accepted'[k])
      <4>1. CASE k = Len(accepted) + 1
        BY <2>2, <2>4, <4>1
      <4>2. CASE k \in 1..Len(accepted)
        BY <1>0, <2>4, <4>2 DEF SentWellFormed
      <4>. QED  BY <2>3, <2>4, <4>1, <4>2
    <3>. QED  BY <3>1 DEF SentWellFormed
  <2>8. AcceptedIsSent'
    <3>1. ASSUME NoNull(SubSeq(text, 1, q))
          PROVE  FlattenSeq(Append(accepted, t)) = SubSeq(text, 1, q)
      <4>1. SubSeq(text, 1, pos) \in Seq(Alphabet)
        <5>1. \A k \in 1..pos : text[k] \in Alphabet
          BY <1>1, <1>3
        <5>2. 1 \in Int /\ pos \in Int
          BY <1>3
        <5>. QED  BY <5>1, <5>2, SubSeqProperties
      <4>2. NoNull(SubSeq(text, 1, pos)) /\ NoNull(Chunk)
        BY <1>4, <3>1, <4>1, NoNullParts
      <4>3. FlattenSeq(accepted) = SubSeq(text, 1, pos) /\ t = Chunk
        BY <1>0, <1>5, <2>1, <4>2, Zenon DEF AcceptedIsSent
      <4>4. FlattenSeq(Append(accepted, t)) = FlattenSeq(accepted) \o t
        BY <2>3, FlattenAppend
      <4>. QED  BY <1>4, <4>3, <4>4, Zenon
    <3>. QED  BY <1>2, <2>2, <3>1, Zenon DEF AcceptedIsSent
  <2>9. CutAtCharacter'
    <3>1. NoNull(text) => q + 1 \in Boundaries(text)
      BY <1>5, <1>6, <2>1, <2>2, Zenon
    <3>. QED  BY <1>2, <2>2, <3>1, Zenon DEF CutAtCharacter
  <2>. QED  BY <2>6, <2>7, <2>8, <2>9 DEF TextInd, TextInv
<1>8. CASE WriteRefused
  <2>1. result' = "refused" /\ pos' = pos /\ accepted' = accepted /\ ~CheckNoNull(Stored)
    BY <1>8 DEF WriteRefused
  <2>2. /\ TextTypeOK' /\ SentWellFormed' /\ AcceptedIsSent' /\ CutAtCharacter' /\ Counted'
    <3>1. TextTypeOK'
      BY <1>0, <1>2, <2>1 DEF TextTypeOK
    <3>2. SentWellFormed'
      BY <1>0, <2>1 DEF SentWellFormed
    <3>3. AcceptedIsSent' /\ CutAtCharacter' /\ Counted'
      BY <1>0, <1>2, <2>1, Zenon DEF AcceptedIsSent, CutAtCharacter, Counted
    <3>. QED  BY <3>1, <3>2, <3>3
  <2>3. ASSUME NoNull(text), WellFormed(text), pos + Cut + 1 \in Boundaries(text)
        PROVE  FALSE
    <3>1. ~WellFormed(Chunk)
      BY <1>5, <2>1, <2>3, Zenon
    <3>2. q + 1 \notin Boundaries(text)
      BY <1>6, <2>3, <3>1
    <3>3. Len(text) + 1 \in Boundaries(text)
      BY <1>3, <2>3, EndsAreBoundaries
    <3>. QED  BY <1>4, <2>3, <3>2, <3>3, Zenon
  <2>4. RefusedForAReason'
    BY <1>2, <2>1, <2>3, Zenon DEF RefusedForAReason
  <2>. QED  BY <2>2, <2>4 DEF TextInd, TextInv
<1>. QED  BY <1>7, <1>8 DEF TextNext

(* What toot_write accepts reaches the agent as text, and what it refuses    *)
(* is none or was cut: for every text and every size of its buffer.         *)
THEOREM TextIsSound ==
  ASSUME TextAssumption
  PROVE  TextSpec => []TextInv
<1>1. TextInit => TextInd
  BY TextBegins
<1>2. TextInd /\ [TextNext]_textVars => TextInd'
  <2>1. ASSUME TextInd, UNCHANGED textVars PROVE TextInd'
    BY <2>1 DEF textVars, TextInd, TextInv, TextTypeOK, SentWellFormed, AcceptedIsSent,
                RefusedForAReason, CutAtCharacter, Counted
  <2>. QED  BY <2>1, TextStep
<1>3. TextInd => TextInv
  BY DEF TextInd
<1>. QED  BY <1>1, <1>2, <1>3, PTL DEF TextSpec

-----------------------------------------------------------------------------
(* Wire: the channel of the kernel and one agent, and every message on it. *)

(* What a reader makes of a first byte is a tag.                             *)
IsTag(t) == \E type, v : t = Tag(type, v)

LEMMA ReadIsTag ==
  ASSUME NEW b \in Byte, NEW w, Refusal(b) = "ok"
  PROVE  IsTag(ReadTag(b, w))
<1>. USE DEF IsTag
<1>1. \A l : IsTag(UInt(l)) /\ IsTag(SInt(l)) /\ IsTag(Bin(l)) /\ IsTag(Str(l)) /\ IsTag(Array(l)) /\ IsTag(Map(l))
  BY Zenon DEF UInt, SInt, Bin, Str, Array, Map
<1>2. IsTag(Nil) /\ \A x : IsTag(Bool(x))
  BY Zenon DEF Nil, Bool
<1>. HIDE DEF IsTag
<1>3. CASE b \in 0..127 \cup 224..255 \cup 128..143 \cup 144..159 \cup 160..191 \cup {192, 194, 195}
  <2>1. \/ ReadTag(b, w) \in {UInt(<<b>>), SInt(<<b>>), Map(<<b % 16>>), Array(<<b % 16>>), Str(<<b % 32>>), Nil}
        \/ ReadTag(b, w) = Bool(b % 2 = 1)
    BY <1>3, ReadsBytes, SMT
  <2>. QED  BY <1>1, <1>2, <2>1
<1>4. CASE b \in 204..211 \cup 196..198 \cup 217..219
  BY <1>1, <1>4, ReadsWords
<1>5. CASE b \in 220..223
  BY <1>1, <1>5, ReadsWords
<1>. QED  BY <1>3, <1>4, <1>5, FirstBytes

(* A tag that is alike another is this one, unless an int that is not        *)
(* negative and a uint are meant.                                            *)
LEMMA AlikeIsSame ==
  ASSUME NEW p, IsTag(p), NEW t \in AllTags, Alike(p, t),
         t.type = "int" => Negative(t.v), t.type = "uint" => p.type = "uint"
  PROVE  p = t
<1>1. PICK px, pv : p = Tag(px, pv)
  BY DEF IsTag
<1>2. PICK tx, tv : t = Tag(tx, tv)
  BY DEF AllTags, Nil, Bool, Tag
<1>3. p.type = px /\ p.v = pv /\ t.type = tx /\ t.v = tv
  BY <1>1, <1>2 DEF Tag
<1>4. Comparable(t).type = tx /\ Comparable(t).v = tv
  BY <1>2, <1>3 DEF Comparable
<1>5. Comparable(p).type = tx /\ Comparable(p).v = tv
  BY <1>4 DEF Alike
<1>6. Comparable(p).v = pv
  BY <1>1, <1>3 DEF Comparable, Tag
<1>7. px = tx
  BY <1>3, <1>5 DEF Comparable, Tag
<1>. QED  BY <1>1, <1>2, <1>5, <1>6, <1>7

(* A uint begins with a byte of its own.                                     *)
LEMMA UIntBegins ==
  ASSUME NEW w \in WordOf(8)
  PROVE  EncodeUInt(w)[1] \in 0..127 \cup 204..207
<1>1. CASE IsAtMost(w, 127)
  <2>1. Low(w, 1) = <<w[8]>> /\ w[8] \in Byte /\ Len(w) = 8
    BY LowByte, 8 \in Nat \ {0}
  <2>2. w[8] \in 0..127
    BY <1>1, <2>1 DEF IsAtMost, Byte
  <2>. QED  BY <1>1, <2>1, <2>2 DEF EncodeUInt
<1>2. CASE ~IsAtMost(w, 127)
  <2>1. Width(w) \in Widths
    BY WidthFits, 8 \in Widths DEF Widths
  <2>2. EncodeUInt(w) = StoreWord(204, w, Width(w))
    BY <1>2 DEF EncodeUInt, StoreUInt
  <2>3. PICK k \in 0..3 : StoreWord(204, w, Width(w)) = <<204 + k>> \o Low(w, Width(w))
    <3>1. \A first : \E k \in 0..3 : StoreWord(first, w, Width(w)) = <<first + k>> \o Low(w, Width(w))
      BY <2>1, WidthCode, Zenon
    <3>. QED  BY <3>1, Zenon
  <2>4. Width(w) \in 0..8 /\ 8 \in Nat
    BY <2>1 DEF Widths
  <2>5. Low(w, Width(w)) \in Seq(Byte)
    BY <2>4, LowBytes
  <2>6. (<<204 + k>> \o Low(w, Width(w)))[1] = 204 + k
    BY <2>5
  <2>7. 204 + k \in 204..207
    OBVIOUS
  <2>8. EncodeUInt(w)[1] = 204 + k
    BY <2>2, <2>3, <2>6, Zenon
  <2>. QED  BY <2>7, <2>8
<1>. QED  BY <1>1, <1>2

(* mpack_parse_tag gives the very tag that was written, but for the ints     *)
(* that are not negative, which come back as uints.                          *)
LEMMA ParsesExactly ==
  ASSUME NEW t \in AllTags, t.type = "int" => Negative(t.v), NEW rest \in Seq(Byte)
  PROVE  /\ ParseTag(Encode(t) \o rest) = t
         /\ TagSize((Encode(t) \o rest)[1]) = Len(Encode(t))
         /\ Encode(t) \in Seq(Byte) /\ Len(Encode(t)) > 0
<1>. DEFINE e == Encode(t)
            q == e \o rest
            p == ParseTag(q)
<1>1. Alike(p, t) /\ TagSize(q[1]) = Len(e) /\ Refusal(q[1]) = "ok" /\ e \in Seq(Byte) /\ Len(e) > 0
  BY EncodeSpells, ParsesSpelling
<1>2. q[1] = e[1] /\ e[1] \in Byte
  BY <1>1
<1>3. p = ReadTag(e[1], SubSeq(q, 2, TagSize(q[1])))
  BY <1>2 DEF ParseTag
<1>. HIDE DEF e, q
<1>4. IsTag(p)
  BY <1>1, <1>2, <1>3, ReadIsTag
<1>5. ASSUME t.type = "uint" PROVE p.type = "uint"
  <2>1. t.v \in WordOf(8) /\ e = EncodeUInt(t.v)
    BY <1>5 DEF e, AllTags, Nil, Bool, Tag, Encode
  <2>2. e[1] \in 0..127 \cup 204..207
    BY <2>1, UIntBegins
  <2>3. \A l : UInt(l).type = "uint"
    BY DEF UInt, Tag
  <2>4. PICK w : w = SubSeq(q, 2, TagSize(q[1]))
    OBVIOUS
  <2>5. PICK b \in Byte : b = e[1]
    BY <1>2
  <2>6. ReadTag(b, w) = UInt(<<b>>) \/ ReadTag(b, w) = UInt(w)
    <3>1. (b \in 0..127 => ReadTag(b, w) = UInt(<<b>>)) /\ (b \in 204..207 => ReadTag(b, w) = UInt(w))
      BY ReadsWords, ReadsBytes, Zenon
    <3>2. b \in 0..127 \/ b \in 204..207
      BY <2>2, <2>5, Zenon
    <3>. QED  BY <3>1, <3>2, Zenon
  <2>. QED  BY <1>3, <2>3, <2>4, <2>5, <2>6
<1>6. p = t
  BY <1>1, <1>4, <1>5, AlikeIsSame
<1>. QED  BY <1>1, <1>6 DEF e, q

(* A field as it can be written and read back: its text is as long as its    *)
(* tag says.                                                                *)
Fields ==
    {f \in [tag : AllTags, text : Seq(Byte)] :
        /\ f.tag.type = "int" => Negative(f.tag.v)
        /\ Len(f.text) = Holds(f.tag)}

FieldBytes(f) == Encode(f.tag) \o f.text

(* At i the message q has the field f, and the next one begins at next.      *)
HasField(q, i, f, next) == Whole(q, i) /\ Behind(q, i) = next /\ FieldAt(q, i) = f

(* The end of a message.                                                    *)
LEMMA Ending ==
  ASSUME NEW a \in Seq(Byte), NEW b \in Seq(Byte), NEW q, q = a \o b
  PROVE  q \in Seq(Byte) /\ Len(q) = Len(a) + Len(b) /\ SubSeq(q, Len(a) + 1, Len(q)) = b
<1>1. q \in Seq(Byte) /\ Len(q) = Len(a) + Len(b)
  BY ConcatProperties
<1>2. <<>> \in Seq(Byte) /\ b \o <<>> = b
  BY ConcatEmptySeq
<1>3. SubSeq(a \o (b \o <<>>), Len(a) + 1, Len(a) + Len(b)) = b
  BY <1>2, Middle
<1>. QED  BY <1>1, <1>2, <1>3

(* Where a field was put into the message, it is read again.                 *)
LEMMA FieldIsRead ==
  ASSUME NEW f \in Fields, NEW a \in Seq(Byte), NEW rest \in Seq(Byte),
         NEW q, q = a \o (FieldBytes(f) \o rest), NEW i, i = Len(a) + 1
  PROVE  HasField(q, i, f, Len(a \o FieldBytes(f)) + 1)
<1>1. PICK t \in AllTags, d \in Seq(Byte) : t = f.tag /\ d = f.text
  BY DEF Fields
<1>2. (t.type = "int" => Negative(t.v)) /\ Len(d) = Holds(t) /\ f = Field(t, d)
  BY <1>1 DEF Fields, Field
<1>3. PICK e : e = Encode(t)
  OBVIOUS
<1>4. e \in Seq(Byte) /\ Len(e) > 0 /\ FieldBytes(f) = e \o d
  BY <1>1, <1>2, <1>3, EncodesBytes, ParsesExactly, EmptySeq DEF FieldBytes
<1>5. PICK s : s = d \o rest
  OBVIOUS
<1>6. s \in Seq(Byte) /\ Len(s) = Len(d) + Len(rest)
  BY <1>5, ConcatProperties
<1>7. PICK tail : tail = e \o s
  OBVIOUS
<1>8. tail \in Seq(Byte) /\ Len(tail) = Len(e) + Len(s) /\ FieldBytes(f) \o rest = tail
  <2>1. (e \o d) \o rest = e \o (d \o rest)
    BY <1>4, Associates
  <2>. QED  BY <1>4, <1>5, <1>6, <1>7, <2>1, ConcatProperties
<1>9. q = a \o tail /\ q \in Seq(Byte) /\ Len(q) = Len(a) + Len(tail) /\ SubSeq(q, i, Len(q)) = tail
  <2>1. q = a \o tail
    BY <1>8, Zenon
  <2>2. tail \in Seq(Byte)
    BY <1>8, Zenon
  <2>3. q \in Seq(Byte) /\ Len(q) = Len(a) + Len(tail)
    BY <2>1, <2>2, ConcatProperties
  <2>4. SubSeq(q, Len(a) + 1, Len(q)) = tail
    BY <2>1, <2>2, Ending
  <2>. QED  BY <2>1, <2>3, <2>4, Zenon
<1>10. ParseTag(tail) = t /\ TagSize(tail[1]) = Len(e)
  BY <1>2, <1>3, <1>6, <1>7, ParsesExactly
<1>11. PICK n \in Nat, k \in Nat, m \in Nat : n = Len(e) /\ k = Len(d) /\ n > 0 /\ m = Len(a) /\ i = m + 1
  BY <1>4
<1>12. q[i] = tail[1]
  BY <1>4, <1>6, <1>8, <1>9, <1>11
<1>13. TagSize(q[i]) = n /\ TagAt(q, i) = t /\ Holds(TagAt(q, i)) = k
  BY <1>2, <1>9, <1>10, <1>11, <1>12, Zenon DEF TagAt
<1>14. Behind(q, i) = i + n + k
  BY <1>13, Zenon DEF Behind
<1>15. Len(a \o FieldBytes(f)) = m + n + k
  BY <1>4, <1>11, ConcatProperties
<1>16. Whole(q, i)
  <2>1. Len(q) \in Nat /\ i <= Len(q) /\ i + n <= Len(q) + 1 /\ i + n + k <= Len(q) + 1
    BY <1>6, <1>8, <1>9, <1>11
  <2>. QED  BY <1>13, <1>14, <2>1, Zenon DEF Whole
<1>17. SubSeq(q, i + n, (i + n + k) - 1) = d
  <2>1. PICK b : b = a \o e
    OBVIOUS
  <2>2. b \in Seq(Byte) /\ Len(b) = Len(a) + Len(e)
    BY <1>4, <2>1, ConcatProperties
  <2>3. q = b \o (d \o rest)
    <3>1. (a \o e) \o s = a \o (e \o s)
      BY <1>4, <1>6, Associates
    <3>. QED  BY <1>5, <1>7, <1>9, <2>1, <3>1, Zenon
  <2>4. i + n = Len(b) + 1 /\ (i + n + k) - 1 = Len(b) + Len(d)
    BY <1>11, <2>2
  <2>5. SubSeq(b \o (d \o rest), Len(b) + 1, Len(b) + Len(d)) = d
    BY <2>2, Middle
  <2>. QED  BY <2>3, <2>4, <2>5, Zenon
<1>18. FieldAt(q, i) = Field(t, d)
  BY <1>13, <1>14, <1>17, Zenon DEF FieldAt
<1>19. Behind(q, i) = Len(a \o FieldBytes(f)) + 1
  BY <1>11, <1>14, <1>15
<1>. QED  BY <1>2, <1>16, <1>18, <1>19, Zenon DEF HasField

-----------------------------------------------------------------------------
(* A message is the head of its array with the fields behind it; u has the   *)
(* beginnings of it.                                                        *)
Begun(u, fields) ==
    /\ u[0] = EncodeArray(Word(Len(fields), 4))
    /\ \A j \in 1..Len(fields) : u[j] = u[j - 1] \o FieldBytes(fields[j])

LEMMA FieldHasBytes ==
  ASSUME NEW f \in Fields
  PROVE  FieldBytes(f) \in Seq(Byte)
<1>1. f.tag \in AllTags /\ f.text \in Seq(Byte)
  BY DEF Fields
<1>. QED  BY <1>1, EncodesBytes, ConcatProperties DEF FieldBytes

LEMMA ArrayHead ==
  ASSUME NEW n \in Nat
  PROVE  /\ Array(Word(n, 4)) \in AllTags /\ Encode(Array(Word(n, 4))) = EncodeArray(Word(n, 4))
         /\ EncodeArray(Word(n, 4)) \in Seq(Byte) /\ Array(Word(n, 4)).v = Word(n, 4)
<1>. DEFINE w == Word(n, 4)
<1>1. w \in WordOf(4) /\ Unsigned(w, 4) = w
  BY LengthIsWord
<1>. HIDE DEF w
<1>2. Array(w) = Tag("array", w)
  BY <1>1 DEF Array
<1>3. Array(w).type = "array" /\ Array(w).v = w /\ Array(w) \in AllTags
  <2>1. Array(w) = [type |-> "array", v |-> w]
    BY <1>2 DEF Tag
  <2>2. Array(w) \in [type : {"str", "bin", "array", "map"}, v : WordOf(4)]
    BY <1>1, <2>1
  <2>3. Array(w) \in AllTags
    BY <2>2, Zenon DEF AllTags
  <2>. QED  BY <2>1, <2>3
<1>4. Encode(Array(w)) = EncodeArray(w)
  BY <1>3, Zenon DEF Encode
<1>. QED  BY <1>3, <1>4, EncodesBytes DEF w

LEMMA EncodedIs ==
  ASSUME NEW fields \in Seq(Fields), NEW kind
  PROVE  \E u \in [0..Len(fields) -> Seq(Byte)] :
            Begun(u, fields) /\ Encoded(Message(kind, fields)) = u[Len(fields)]
<1>1. PICK n \in Nat : n = Len(fields)
  OBVIOUS
<1>. DEFINE head == EncodeArray(Word(n, 4))
            step == [j \in 1..n |-> [s \in Seq(Byte) |-> s \o FieldBytes(fields[j])]]
            Is(g) == g = [j \in 0..n |-> IF j = 0 THEN head
                                         ELSE g[j - 1] \o Encode(fields[j].tag) \o fields[j].text]
            upTo == CHOOSE g : Is(g)
<1>2. \A j \in 1..n : fields[j] \in Fields /\ FieldBytes(fields[j]) \in Seq(Byte)
  BY <1>1, FieldHasBytes
<1>3. head \in Seq(Byte)
  BY ArrayHead
<1>4. step \in [1..n -> [Seq(Byte) -> Seq(Byte)]]
  BY <1>2
<1>. HIDE DEF head
<1>5. PICK u \in [0..n -> Seq(Byte)] : Follows(u, n, head, step)
  <2>. HIDE DEF step
  <2>. QED  BY <1>3, <1>4, RecursiveFunction
<1>6. u[0] = head /\ \A j \in 1..n : u[j] = u[j - 1] \o FieldBytes(fields[j])
  <2>1. u[0] = head /\ \A j \in 0..n - 1 : u[j + 1] = step[j + 1][u[j]]
    BY <1>5 DEF Follows
  <2>2. ASSUME NEW j \in 1..n PROVE u[j] = u[j - 1] \o FieldBytes(fields[j])
    <3>1. PICK k \in 0..n - 1 : k = j - 1 /\ k + 1 = j
      OBVIOUS
    <3>2. u[k] \in Seq(Byte) /\ k + 1 \in 1..n
      BY <3>1
    <3>. QED  BY <2>1, <3>1, <3>2
  <2>. QED  BY <2>1, <2>2
<1>7. \A j \in 1..n, s \in Seq(Byte) :
         s \o Encode(fields[j].tag) \o fields[j].text = s \o FieldBytes(fields[j])
  <2>. SUFFICES ASSUME NEW j \in 1..n, NEW s \in Seq(Byte)
                PROVE  (s \o Encode(fields[j].tag)) \o fields[j].text = s \o FieldBytes(fields[j])
    OBVIOUS
  <2>1. fields[j].tag \in AllTags /\ fields[j].text \in Seq(Byte)
    BY <1>2 DEF Fields
  <2>2. Encode(fields[j].tag) \in Seq(Byte)
    BY <2>1, EncodesBytes
  <2>. QED  BY <2>1, <2>2, Associates DEF FieldBytes
<1>8. Is(u)
  <2>1. ASSUME NEW j \in 0..n
        PROVE  u[j] = IF j = 0 THEN head ELSE u[j - 1] \o Encode(fields[j].tag) \o fields[j].text
    <3>1. CASE j = 0
      BY <1>6, <3>1
    <3>2. CASE j # 0
      <4>1. j \in 1..n /\ u[j - 1] \in Seq(Byte)
        BY <3>2
      <4>2. u[j] = u[j - 1] \o FieldBytes(fields[j])
        BY <1>6, <4>1
      <4>3. u[j - 1] \o Encode(fields[j].tag) \o fields[j].text = u[j - 1] \o FieldBytes(fields[j])
        BY <1>7, <4>1
      <4>. QED  BY <3>2, <4>2, <4>3
    <3>. QED  BY <3>1, <3>2
  <2>. QED  BY <2>1
<1>9. Is(upTo)
  <2>. HIDE DEF Is
  <2>. QED  BY <1>8
<1>10. Encoded(Message(kind, fields)) = upTo[n]
  BY <1>1 DEF Encoded, Message, head
<1>. HIDE DEF upTo
<1>11. \A j \in 0..n : upTo[j] = IF j = 0 THEN head ELSE upTo[j - 1] \o Encode(fields[j].tag) \o fields[j].text
  BY <1>9
<1>12. \A j \in 0..n : upTo[j] = u[j]
  <2>. DEFINE T == {j \in 0..n : upTo[j] = u[j]}
  <2>1. 0 \in T
    BY <1>6, <1>11
  <2>2. ASSUME NEW j \in 0..n - 1, j \in T PROVE j + 1 \in T
    <3>1. PICK k \in 1..n : k = j + 1 /\ k - 1 = j /\ k # 0 /\ k \in 0..n
      OBVIOUS
    <3>2. upTo[k] = upTo[k - 1] \o Encode(fields[k].tag) \o fields[k].text
      BY <1>11, <3>1, Zenon
    <3>3. upTo[k - 1] = u[k - 1] /\ u[k - 1] \in Seq(Byte)
      BY <2>2, <3>1
    <3>4. upTo[k] = u[k]
      BY <1>6, <1>7, <3>2, <3>3
    <3>. QED  BY <3>1, <3>4
  <2>. HIDE DEF T
  <2>3. 0..n \subseteq T
    BY <2>1, <2>2, InductionUpTo
  <2>. QED  BY <2>3 DEF T
<1>13. Encoded(Message(kind, fields)) = u[n]
  BY <1>10, <1>12
<1>. QED  BY <1>1, <1>6, <1>13 DEF Begun, head

(* What was written of a message stays in front of it.                       *)
LEMMA BegunInFront ==
  ASSUME NEW fields \in Seq(Fields), NEW u \in [0..Len(fields) -> Seq(Byte)], Begun(u, fields)
  PROVE  \A k \in 0..Len(fields) : \E rest \in Seq(Byte) : u[Len(fields)] = u[k] \o rest
<1>1. PICK n \in Nat : n = Len(fields)
  OBVIOUS
<1>. DEFINE T == {m \in 0..n : \A k \in 0..m : \E rest \in Seq(Byte) : u[m] = u[k] \o rest}
<1>2. u \in [0..n -> Seq(Byte)] /\ \A j \in 1..n : u[j] = u[j - 1] \o FieldBytes(fields[j])
  BY <1>1 DEF Begun
<1>9. \A j \in 1..n : fields[j] \in Fields /\ FieldBytes(fields[j]) \in Seq(Byte)
  BY <1>1, FieldHasBytes
<1>3. \A k \in 0..n : u[k] = u[k] \o <<>> /\ <<>> \in Seq(Byte)
  BY <1>2, ConcatEmptySeq
<1>4. 0 \in T
  <2>2. 0 \in 0..n /\ \A k \in 0..0 : k = 0
    OBVIOUS
  <2>1. \E rest \in Seq(Byte) : u[0] = u[0] \o rest
    BY <1>3, <2>2, Zenon
  <2>. QED  BY <2>1, <2>2
<1>5. ASSUME NEW m \in 0..n - 1, m \in T PROVE m + 1 \in T
  <2>1. PICK j \in 1..n : j = m + 1 /\ j - 1 = m /\ j \in 0..n
    OBVIOUS
  <2>2. u[j] = u[m] \o FieldBytes(fields[j]) /\ FieldBytes(fields[j]) \in Seq(Byte)
    BY <1>2, <1>9, <2>1
  <2>3. ASSUME NEW k \in 0..j PROVE \E rest \in Seq(Byte) : u[j] = u[k] \o rest
    <3>1. CASE k = j
      BY <1>3, <2>1, <3>1
    <3>2. CASE k # j
      <4>1. k \in 0..m /\ u[k] \in Seq(Byte)
        BY <1>2, <2>1, <3>2
      <4>2. PICK rest \in Seq(Byte) : u[m] = u[k] \o rest
        BY <1>5, <4>1
      <4>3. u[j] = u[k] \o (rest \o FieldBytes(fields[j]))
        <5>1. (u[k] \o rest) \o FieldBytes(fields[j]) = u[k] \o (rest \o FieldBytes(fields[j]))
          BY <2>2, <4>1, Associates
        <5>. QED  BY <2>2, <4>2, <5>1, Zenon
      <4>4. rest \o FieldBytes(fields[j]) \in Seq(Byte)
        BY <2>2, ConcatProperties
      <4>. QED  BY <4>3, <4>4
    <3>. QED  BY <3>1, <3>2
  <2>. QED  BY <2>1, <2>3
<1>. HIDE DEF T
<1>6. 0..n \subseteq T
  BY <1>4, <1>5, InductionUpTo
<1>7. n \in T
  BY <1>6
<1>. QED  BY <1>1, <1>7 DEF T

(* The places of the fields are those from which each next is found.         *)
Chained(q, n, p) ==
    /\ p = [i \in 1..n |-> p[i]] /\ p[1] = 1 + TagSize(q[1])
    /\ \A i \in 2..n : Whole(q, p[i - 1]) /\ p[i] = Behind(q, p[i - 1])

LEMMA PlacesAre ==
  ASSUME NEW q, NEW n \in Nat \ {0}, NEW p, Chained(q, n, p)
  PROVE  p = Places(q, n)
<1>0. /\ p = [i \in 1..n |-> p[i]] /\ p[1] = 1 + TagSize(q[1])
      /\ \A i \in 2..n : Whole(q, p[i - 1]) /\ p[i] = Behind(q, p[i - 1])
  BY Zenon DEF Chained
<1>. DEFINE Is(g) == g = [i \in 1..n |-> IF i = 1 THEN 1 + TagSize(q[1])
                                          ELSE IF Whole(q, g[i - 1]) THEN Behind(q, g[i - 1])
                                          ELSE Len(q) + 1]
            at == CHOOSE g : Is(g)
<1>1. Is(p)
  <2>1. ASSUME NEW i \in 1..n
        PROVE  p[i] = IF i = 1 THEN 1 + TagSize(q[1])
                      ELSE IF Whole(q, p[i - 1]) THEN Behind(q, p[i - 1]) ELSE Len(q) + 1
    <3>1. CASE i = 1
      BY <1>0, <3>1
    <3>2. CASE i # 1
      <4>1. i \in 2..n
        BY <3>2
      <4>. QED  BY <1>0, <3>2, <4>1
    <3>. QED  BY <3>1, <3>2
  <2>2. PICK b : b = [i \in 1..n |-> IF i = 1 THEN 1 + TagSize(q[1])
                      ELSE IF Whole(q, p[i - 1]) THEN Behind(q, p[i - 1]) ELSE Len(q) + 1]
    OBVIOUS
  <2>3. [i \in 1..n |-> p[i]] = b
    BY <2>1, <2>2
  <2>. QED  BY <1>0, <2>2, <2>3
<1>2. Is(at)
  <2>. HIDE DEF Is
  <2>. QED  BY <1>1
<1>3. Places(q, n) = at
  BY DEF Places
<1>. HIDE DEF at
<1>4. DOMAIN at = 1..n /\ at = [i \in 1..n |-> at[i]]
  BY <1>2
<1>5. \A i \in 1..n : at[i] = IF i = 1 THEN 1 + TagSize(q[1])
                              ELSE IF Whole(q, at[i - 1]) THEN Behind(q, at[i - 1]) ELSE Len(q) + 1
  BY <1>2
<1>. DEFINE P == {i \in 1..n : at[i] = p[i]}
<1>6. ASSUME NEW i \in 1..n, \A j \in 1..i - 1 : j \in P PROVE i \in P
  <2>1. CASE i = 1
    BY <1>0, <1>5, <2>1
  <2>2. CASE i # 1
    <3>1. PICK j \in 1..i - 1 : j = i - 1
      BY <2>2
    <3>2. at[i - 1] = p[i - 1] /\ i \in 2..n
      <4>1. at[j] = p[j]
        BY <1>6, Zenon
      <4>. QED  BY <2>2, <3>1, <4>1
    <3>3. at[i] = Behind(q, p[i - 1])
      BY <1>0, <1>5, <2>2, <3>2
    <3>. QED  BY <1>0, <3>2, <3>3
  <2>. QED  BY <2>1, <2>2
<1>. HIDE DEF P
<1>7. 1..n \subseteq P
  BY <1>6, FromTheStart
<1>8. \A i \in 1..n : at[i] = p[i]
  BY <1>7 DEF P
<1>9. [i \in 1..n |-> at[i]] = [i \in 1..n |-> p[i]]
  BY <1>8
<1>. QED  BY <1>0, <1>3, <1>4, <1>9

(* The bytes q begin with an array of these fields, each in its place.       *)
ReadsBack(fields, q) ==
    /\ q # <<>> /\ TagAt(q, 1).type = "array" /\ Number(TagAt(q, 1).v) = Len(fields)
    /\ DOMAIN Places(q, Len(fields)) = DOMAIN fields
    /\ \A i \in DOMAIN fields : /\ Whole(q, Places(q, Len(fields))[i])
                                /\ FieldAt(q, Places(q, Len(fields))[i]) = fields[i]

(* Whatever lies behind it, a message is read as it was written: an array of *)
(* that many fields, each in its place.                                      *)
LEMMA MessageIsRead ==
  ASSUME NEW kind, NEW fields \in Seq(Fields), Len(fields) > 0, CanCount(Len(fields)),
         NEW tail \in Seq(Byte), NEW q, q = Encoded(Message(kind, fields)) \o tail
  PROVE  ReadsBack(fields, q)
<1>1. PICK n \in Nat \ {0} : n = Len(fields)
  OBVIOUS
<1>2. PICK u \in [0..n -> Seq(Byte)] : Begun(u, fields) /\ Encoded(Message(kind, fields)) = u[n]
  BY <1>1, EncodedIs
<1>3. \A k \in 0..n : \E rest \in Seq(Byte) : u[n] = u[k] \o rest
  BY <1>1, <1>2, BegunInFront
<1>4. \A k \in 0..n : \E rest \in Seq(Byte) : q = u[k] \o rest
  <2>. SUFFICES ASSUME NEW k \in 0..n PROVE \E rest \in Seq(Byte) : q = u[k] \o rest
    OBVIOUS
  <2>1. PICK rest \in Seq(Byte) : u[n] = u[k] \o rest
    BY <1>3
  <2>2. u[k] \in Seq(Byte) /\ (u[k] \o rest) \o tail = u[k] \o (rest \o tail)
    <3>1. u[k] \in Seq(Byte)
      OBVIOUS
    <3>. QED  BY <3>1, Associates, Zenon
  <2>3. rest \o tail \in Seq(Byte)
    BY ConcatProperties
  <2>. QED  BY <1>2, <2>1, <2>2, <2>3
<1>5. /\ q \in Seq(Byte) /\ Len(q) > 0 /\ TagAt(q, 1) = Array(Word(n, 4))
      /\ TagSize(q[1]) = Len(u[0]) /\ u[0] \in Seq(Byte)
  <2>1. PICK t : t = Array(Word(n, 4))
    OBVIOUS
  <2>2. t \in AllTags /\ t.type # "int" /\ u[0] = Encode(t)
    <3>1. t \in AllTags /\ Encode(t) = EncodeArray(Word(n, 4))
      BY <2>1, ArrayHead
    <3>2. t.type = "array"
      BY <2>1 DEF Array, Tag
    <3>. QED  BY <1>1, <1>2, <3>1, <3>2 DEF Begun
  <2>3. PICK rest \in Seq(Byte) : q = u[0] \o rest
    BY <1>4, 0 \in 0..n
  <2>4. ParseTag(q) = t /\ TagSize(q[1]) = Len(u[0]) /\ u[0] \in Seq(Byte) /\ Len(u[0]) > 0
    BY <2>2, <2>3, ParsesExactly
  <2>5. q \in Seq(Byte) /\ Len(q) > 0
    BY <2>3, <2>4
  <2>6. SubSeq(q, 1, Len(q)) = q
    BY <2>5, SubSeqFull
  <2>. QED  BY <2>1, <2>4, <2>5, <2>6 DEF TagAt
<1>6. TagAt(q, 1).type = "array" /\ Number(TagAt(q, 1).v) = n
  <2>1. Array(Word(n, 4)).v = Word(n, 4) /\ Array(Word(n, 4)).type = "array"
    BY ArrayHead DEF Array, Tag
  <2>2. Number(Word(n, 4)) = n
    BY <1>1, NumberOfLength
  <2>. QED  BY <1>5, <2>1, <2>2
<1>12. /\ \A i \in 1..n : fields[i] \in Fields /\ FieldBytes(fields[i]) \in Seq(Byte)
       /\ \A i \in 1..n : u[i] = u[i - 1] \o FieldBytes(fields[i])
  <2>1. \A i \in 1..n : fields[i] \in Fields
    BY <1>1
  <2>2. \A i \in 1..n : u[i] = u[i - 1] \o FieldBytes(fields[i])
    BY <1>1, <1>2 DEF Begun
  <2>. QED  BY <2>1, <2>2, FieldHasBytes
<1>. DEFINE p == [i \in 1..n |-> Len(u[i - 1]) + 1]
<1>7. ASSUME NEW i \in 1..n
      PROVE  Whole(q, p[i]) /\ Behind(q, p[i]) = Len(u[i]) + 1 /\ FieldAt(q, p[i]) = fields[i]
  <2>1. i - 1 \in 0..n /\ i \in 0..n
    OBVIOUS
  <2>2. PICK rest \in Seq(Byte) : q = u[i] \o rest
    BY <1>4, <2>1
  <2>3. u[i] = u[i - 1] \o FieldBytes(fields[i]) /\ fields[i] \in Fields
    BY <1>12
  <2>4. PICK a \in Seq(Byte) : a = u[i - 1]
    BY <2>1
  <2>5. q = a \o (FieldBytes(fields[i]) \o rest)
    <3>1. (a \o FieldBytes(fields[i])) \o rest = a \o (FieldBytes(fields[i]) \o rest)
      BY <1>12, Associates
    <3>. QED  BY <2>2, <2>3, <2>4, <3>1, Zenon
  <2>6. PICK k : k = p[i] /\ k = Len(a) + 1
    BY <2>4
  <2>. HIDE DEF p
  <2>7. Whole(q, k) /\ Behind(q, k) = Len(a \o FieldBytes(fields[i])) + 1 /\ FieldAt(q, k) = fields[i]
    <3>1. PICK f \in Fields : f = fields[i]
      BY <2>3
    <3>2. q = a \o (FieldBytes(f) \o rest) /\ k = Len(a) + 1
      BY <2>5, <2>6, <3>1
    <3>3. HasField(q, k, f, Len(a \o FieldBytes(f)) + 1)
      BY <3>2, FieldIsRead
    <3>. QED  BY <3>1, <3>3, Zenon DEF HasField
  <2>. QED  BY <2>3, <2>4, <2>6, <2>7
<1>8. p[1] = 1 + TagSize(q[1])
  <2>1. p[1] = Len(u[0]) + 1 /\ Len(u[0]) \in Nat
    BY <1>5
  <2>. QED  BY <1>5, <2>1
<1>9. \A i \in 2..n : Whole(q, p[i - 1]) /\ p[i] = Behind(q, p[i - 1])
  <2>. SUFFICES ASSUME NEW i \in 2..n PROVE Whole(q, p[i - 1]) /\ p[i] = Behind(q, p[i - 1])
    OBVIOUS
  <2>1. PICK j \in 1..n : j = i - 1
    OBVIOUS
  <2>2. p[i] = Len(u[j]) + 1
    BY <2>1
  <2>. HIDE DEF p
  <2>. QED  BY <1>7, <2>1, <2>2
<1>10. p = [i \in 1..n |-> p[i]]
  OBVIOUS
<1>. HIDE DEF p
<1>11. Places(q, n) = p
  <2>1. Chained(q, n, p)
    BY <1>8, <1>9, <1>10 DEF Chained
  <2>. QED  BY <2>1, PlacesAre
<1>13. DOMAIN p = 1..n
  BY <1>10
<1>14. q # <<>> /\ DOMAIN fields = 1..n
  BY <1>1, <1>5
<1>15. \A i \in 1..n : Whole(q, p[i]) /\ FieldAt(q, p[i]) = fields[i]
  BY <1>7
<1>. QED  BY <1>1, <1>6, <1>11, <1>13, <1>14, <1>15, Zenon DEF ReadsBack

-----------------------------------------------------------------------------
(* The fields that messages are made of.                                     *)
LEMMA MakesField ==
  ASSUME NEW type, NEW v, NEW s \in Seq(Byte), Tag(type, v) \in AllTags,
         type = "int" => Negative(v), Len(s) = Holds(Tag(type, v))
  PROVE  Field(Tag(type, v), s) \in Fields
<1>1. PICK t \in AllTags : t = Tag(type, v)
  OBVIOUS
<1>2. t.type = "int" => Negative(t.v)
  BY <1>1 DEF Tag
<1>3. PICK f : f = Field(t, s)
  OBVIOUS
<1>4. f.tag = t /\ f.text = s /\ f \in [tag : AllTags, text : Seq(Byte)]
  BY <1>3 DEF Field
<1>. QED  BY <1>1, <1>2, <1>3, <1>4 DEF Fields

LEMMA IntegerTag ==
  ASSUME NEW type \in {"int", "uint"}, NEW w \in WordOf(8)
  PROVE  Tag(type, w) \in AllTags
<1>1. Tag(type, w) \in [type : {"int", "uint"}, v : WordOf(8)]
  BY DEF Tag
<1>. QED  BY <1>1, Zenon DEF AllTags

(* A word of four bytes.                                                    *)
LEMMA U32Is ==
  ASSUME NEW w \in Seq(Byte), Len(w) = 4
  PROVE  /\ U32(w) \in Fields /\ U32(w).text = <<>> /\ U32(w).tag.type = "uint"
         /\ U32(w).tag.v \in WordOf(8) /\ Fits(U32(w).tag.v, 4)
         /\ Fits(w, 1) => Fits(U32(w).tag.v, 1)
<1>1. PICK v \in WordOf(8) : v = Unsigned(w, 8)
  BY UnsignedBytes, 8 \in Nat
<1>2. (\A i \in 1..4 : v[i] = 0) /\ (\A i \in 1..4 : v[4 + i] = w[i])
  <2>1. 8 - Len(w) = 4 /\ 8 \in Nat /\ Len(w) <= 8
    OBVIOUS
  <2>2. (\A i \in 1..8 - Len(w) : v[i] = 0) /\ \A i \in 1..Len(w) : v[8 - Len(w) + i] = w[i]
    BY <1>1, <2>1, UnsignedBytes
  <2>. QED  BY <2>1, <2>2
<1>3. Len(v) = 8
  BY DEF WordOf, Byte
<1>4. Fits(v, 4)
  BY <1>2, <1>3 DEF Fits
<1>5. ASSUME Fits(w, 1) PROVE Fits(v, 1)
  <2>1. \A i \in 1..3 : w[i] = 0
    BY <1>5 DEF Fits
  <2>2. ASSUME NEW i \in 1..7 PROVE v[i] = 0
    <3>1. CASE i \in 1..4
      BY <1>2, <3>1
    <3>2. CASE i \in 5..7
      <4>1. PICK k \in 1..3 : k = i - 4 /\ i = 4 + k
        BY <3>2
      <4>. QED  BY <1>2, <2>1, <4>1
    <3>. QED  BY <3>1, <3>2
  <2>. QED  BY <1>3, <2>2 DEF Fits
<1>6. PICK t : t = Tag("uint", v)
  OBVIOUS
<1>7. t.type = "uint" /\ t.v = v /\ t = UInt(w)
  BY <1>1, <1>6 DEF Tag, UInt
<1>8. Field(t, <<>>) \in Fields
  <2>1. Holds(t) = 0
    BY <1>7 DEF Holds
  <2>2. t \in AllTags
    BY <1>6, IntegerTag
  <2>3. <<>> \in Seq(Byte) /\ Len(<<>>) = 0
    OBVIOUS
  <2>. QED  BY <1>6, <2>1, <2>2, <2>3, MakesField
<1>9. PICK f : f = Field(t, <<>>)
  OBVIOUS
<1>10. f.tag = t /\ f.text = <<>> /\ f = U32(w)
  BY <1>7, <1>9 DEF Field, U32
<1>. QED  BY <1>4, <1>5, <1>7, <1>8, <1>9, <1>10

(* An int of Go.                                                            *)
LEMMA GoIntIs ==
  ASSUME NEW w \in Seq(Byte), Len(w) = 8
  PROVE  /\ GoInt(w) \in Fields /\ GoInt(w).text = <<>> /\ w \in WordOf(8)
         /\ GoInt(w).tag.v = w /\ GoInt(w).tag.type = IF Negative(w) THEN "int" ELSE "uint"
<1>1. w \in WordOf(8)
  BY SeqIsWord
<1>2. Unsigned(w, 8) = w /\ Signed(w, 8) = w
  <2>1. /\ [i \in 1..8 - Len(w) |-> 0] = <<>>
        /\ [i \in 1..8 - Len(w) |-> IF Negative(w) THEN 255 ELSE 0] = <<>>
    OBVIOUS
  <2>2. <<>> \o w = w
    BY ConcatEmptySeq
  <2>. QED  BY <2>1, <2>2, Zenon DEF Unsigned, Signed
<1>3. PICK type \in {"int", "uint"} : type = IF Negative(w) THEN "int" ELSE "uint"
  OBVIOUS
<1>4. PICK t : t = Tag(type, w)
  OBVIOUS
<1>5. t.type = type /\ t.v = w
  BY <1>4 DEF Tag
<1>6. PICK f : f = Field(t, <<>>)
  OBVIOUS
<1>7. f = GoInt(w)
  BY <1>2, <1>3, <1>4, <1>6 DEF GoInt, SInt, UInt
<1>8. f.tag = t /\ f.text = <<>>
  BY <1>6 DEF Field
<1>9. f \in Fields
  <2>1. Holds(t) = 0
    BY <1>5 DEF Holds
  <2>2. t \in AllTags
    BY <1>1, <1>4, IntegerTag
  <2>3. <<>> \in Seq(Byte) /\ Len(<<>>) = 0
    OBVIOUS
  <2>. QED  BY <1>3, <1>4, <1>6, <2>1, <2>2, <2>3, MakesField
<1>. QED  BY <1>1, <1>3, <1>5, <1>7, <1>8, <1>9

LEMMA FlagIs ==
  ASSUME NEW b \in BOOLEAN
  PROVE  Flag(b) \in Fields /\ Flag(b).text = <<>> /\ Flag(b).tag = Bool(b) /\ Bool(b).type = "bool"
<1>1. PICK v : v = <<IF b THEN 1 ELSE 0>>
  OBVIOUS
<1>2. PICK t : t = Tag("bool", v)
  OBVIOUS
<1>3. t.type = "bool" /\ t = Bool(b)
  BY <1>1, <1>2 DEF Tag, Bool
<1>4. t \in AllTags
  BY <1>3 DEF AllTags
<1>5. Holds(t) = 0 /\ <<>> \in Seq(Byte) /\ Len(<<>>) = 0
  BY <1>3 DEF Holds
<1>6. PICK f : f = Field(t, <<>>)
  OBVIOUS
<1>7. f \in Fields
  BY <1>2, <1>4, <1>5, <1>6, MakesField
<1>8. f.tag = t /\ f.text = <<>> /\ f = Flag(b)
  BY <1>3, <1>6 DEF Field, Flag
<1>. QED  BY <1>3, <1>7, <1>8

LEMMA TextFieldIs ==
  ASSUME NEW s \in Seq(Byte), CanCount(Len(s))
  PROVE  /\ Text(s) \in Fields /\ Text(s).text = s /\ Text(s).tag.type = "str"
         /\ Encode(Text(s).tag) = EncodeStr(Word(Len(s), 4))
<1>1. PICK w \in WordOf(4) : w = Word(Len(s), 4) /\ Unsigned(w, 4) = w
  BY LengthIsWord
<1>2. PICK t : t = Tag("str", w)
  OBVIOUS
<1>3. t.type = "str" /\ t.v = w /\ t = Str(w)
  BY <1>1, <1>2 DEF Tag, Str
<1>4. t \in AllTags /\ Encode(t) = EncodeStr(w)
  BY <1>1, <1>3, Heads
<1>5. Len(s) = Holds(t)
  BY <1>1, <1>3, NumberOfLength DEF Holds
<1>6. PICK f : f = Field(t, s)
  OBVIOUS
<1>7. f \in Fields
  BY <1>2, <1>4, <1>5, <1>6, MakesField
<1>8. f.tag = t /\ f.text = s /\ f = Text(s)
  BY <1>1, <1>3, <1>6 DEF Field, Text
<1>. QED  BY <1>1, <1>3, <1>4, <1>7, <1>8

-----------------------------------------------------------------------------
(* How long what is written is.                                             *)
LEMMA StoredLength ==
  ASSUME NEW first, NEW m \in Nat, NEW w \in WordOf(m), NEW n \in Widths, n <= m
  PROVE  Len(StoreWord(first, w, n)) = 1 + n
<1>1. PICK k \in 0..3 : StoreWord(first, w, n) = <<first + k>> \o Low(w, n)
  BY WidthCode
<1>2. n \in 0..m /\ n \in Nat
  BY DEF Widths
<1>3. PICK l \in Seq(Byte) : l = Low(w, n) /\ Len(l) = n
  BY <1>2, LowBytes
<1>4. PICK x : x = first + k
  OBVIOUS
<1>5. Len(<<x>> \o l) = 1 + Len(l)
  OBVIOUS
<1>. QED  BY <1>1, <1>3, <1>4, <1>5

LEMMA UIntLength ==
  ASSUME NEW w \in WordOf(8), NEW n \in {1, 2, 4, 8}, Fits(w, n)
  PROVE  Len(EncodeUInt(w)) \in 1..n + 1
<1>1. CASE IsAtMost(w, 127)
  <2>1. EncodeUInt(w) = <<w[8]>>
    BY <1>1, LowByte, 8 \in Nat \ {0} DEF EncodeUInt
  <2>. QED  BY <2>1
<1>2. CASE ~IsAtMost(w, 127)
  <2>1. Width(w) \in Widths /\ Width(w) <= 8 /\ Width(w) <= n
    BY WidthFits, 8 \in Widths DEF Widths
  <2>2. EncodeUInt(w) = StoreWord(204, w, Width(w))
    BY <1>2 DEF EncodeUInt, StoreUInt
  <2>3. Len(StoreWord(204, w, Width(w))) = 1 + Width(w)
    BY <2>1, StoredLength, 8 \in Nat
  <2>. QED  BY <2>1, <2>2, <2>3 DEF Widths
<1>. QED  BY <1>1, <1>2

LEMMA StrLength ==
  ASSUME NEW c \in WordOf(4)
  PROVE  Len(EncodeStr(c)) \in 1..5
<1>1. CASE IsAtMost(c, 31)
  BY <1>1 DEF EncodeStr
<1>2. CASE ~IsAtMost(c, 31)
  <2>1. Width(c) \in Widths /\ Width(c) <= 4
    BY WidthFits, 4 \in Widths DEF Widths
  <2>2. EncodeStr(c) = StoreWord(217, c, Width(c))
    BY <1>2 DEF EncodeStr, StoreStr
  <2>3. Len(StoreWord(217, c, Width(c))) = 1 + Width(c)
    BY <2>1, StoredLength, 4 \in Nat
  <2>4. 1 + Width(c) \in 1..5
    BY <2>1 DEF Widths
  <2>. QED  BY <2>2, <2>3, <2>4
<1>. QED  BY <1>1, <1>2

LEMMA HeadLength ==
  ASSUME NEW n \in 0..15
  PROVE  Len(EncodeArray(Word(n, 4))) = 1 /\ CanCount(n)
<1>1. n \div 65536 = 0
  OBVIOUS
<1>2. CanCount(n)
  BY <1>1 DEF CanCount
<1>3. PICK w \in WordOf(4) : w = Word(n, 4)
  BY LengthIsWord
<1>4. n = 256 * (256 * (256 * w[1] + w[2]) + w[3]) + w[4]
  BY <1>2, <1>3, NumberOfLength, NumberOfWord
<1>5. w[1] \in 0..255 /\ w[2] \in 0..255 /\ w[3] \in 0..255 /\ w[4] \in 0..255
  BY DEF WordOf
<1>6. w[1] = 0 /\ w[2] = 0 /\ w[3] = 0 /\ w[4] = n
  <2>1. PICK a \in 0..255, b \in 0..255, c \in 0..255, d \in 0..255 :
           a = w[1] /\ b = w[2] /\ c = w[3] /\ d = w[4]
    BY <1>5
  <2>2. n = 256 * (256 * (256 * a + b) + c) + d
    BY <1>4, <2>1
  <2>3. a = 0 /\ b = 0 /\ c = 0 /\ d = n
    BY <2>2
  <2>. QED  BY <2>1, <2>3
<1>7. Len(w) = 4
  BY DEF WordOf, Byte
<1>8. IsAtMost(w, 15)
  <2>1. \A i \in 1..3 : w[i] = 0
    BY <1>6
  <2>. QED  BY <1>6, <1>7, <2>1 DEF IsAtMost, Fits
<1>9. EncodeArray(w) = <<144 + w[4]>>
  BY <1>8 DEF EncodeArray
<1>. QED  BY <1>2, <1>3, <1>9

(* How long a field is.                                                     *)
LEMMA FieldLength ==
  ASSUME NEW f \in Fields
  PROVE  /\ Len(FieldBytes(f)) = Len(Encode(f.tag)) + Len(f.text)
         /\ f.text = <<>> => Len(FieldBytes(f)) = Len(Encode(f.tag))
<1>1. f.tag \in AllTags /\ f.text \in Seq(Byte)
  BY DEF Fields
<1>2. Encode(f.tag) \in Seq(Byte)
  BY <1>1, EncodesBytes
<1>3. Len(FieldBytes(f)) = Len(Encode(f.tag)) + Len(f.text)
  BY <1>1, <1>2, ConcatProperties DEF FieldBytes
<1>4. ASSUME f.text = <<>> PROVE Len(FieldBytes(f)) = Len(Encode(f.tag))
  BY <1>2, <1>4, ConcatEmptySeq DEF FieldBytes
<1>. QED  BY <1>3, <1>4

LEMMA U32Length ==
  ASSUME NEW w \in Seq(Byte), Len(w) = 4
  PROVE  /\ Len(FieldBytes(U32(w))) \in 1..5
         /\ Fits(w, 1) => Len(FieldBytes(U32(w))) \in 1..2
<1>1. PICK f \in Fields : f = U32(w)
  BY U32Is
<1>2. PICK v \in WordOf(8) : v = f.tag.v
  BY <1>1, U32Is
<1>3. f.text = <<>> /\ f.tag.type = "uint" /\ Fits(v, 4) /\ (Fits(w, 1) => Fits(v, 1))
  BY <1>1, <1>2, U32Is
<1>4. Encode(f.tag) = EncodeUInt(v)
  BY <1>2, <1>3, Zenon DEF Encode
<1>5. Len(FieldBytes(f)) = Len(EncodeUInt(v))
  <2>1. Len(FieldBytes(f)) = Len(Encode(f.tag))
    BY <1>3, FieldLength
  <2>. QED  BY <1>4, <2>1
<1>6. Len(EncodeUInt(v)) \in 1..4 + 1
  BY <1>3, UIntLength
<1>7. Fits(w, 1) => Len(EncodeUInt(v)) \in 1..1 + 1
  BY <1>3, UIntLength
<1>. QED  BY <1>1, <1>5, <1>6, <1>7

LEMMA FlagLength ==
  ASSUME NEW b \in BOOLEAN
  PROVE  Len(FieldBytes(Flag(b))) = 1
<1>1. PICK f \in Fields : f = Flag(b)
  BY FlagIs
<1>2. f.text = <<>> /\ f.tag.type = "bool"
  BY <1>1, FlagIs
<1>3. Encode(f.tag) = <<194 + f.tag.v[1]>>
  BY <1>2, Zenon DEF Encode
<1>4. PICK x : x = 194 + f.tag.v[1]
  OBVIOUS
<1>5. Len(Encode(f.tag)) = 1
  BY <1>3, <1>4
<1>6. Len(FieldBytes(f)) = Len(Encode(f.tag))
  BY <1>2, FieldLength
<1>. QED  BY <1>1, <1>5, <1>6

LEMMA TextLength ==
  ASSUME NEW s \in Seq(Byte), CanCount(Len(s))
  PROVE  Len(FieldBytes(Text(s))) \in 0..5 + Len(s)
<1>1. PICK f \in Fields : f = Text(s)
  BY TextFieldIs
<1>2. PICK w \in WordOf(4) : w = Word(Len(s), 4)
  BY LengthIsWord
<1>3. f.text = s /\ Encode(f.tag) = EncodeStr(w)
  BY <1>1, <1>2, TextFieldIs
<1>4. Len(EncodeStr(w)) \in 1..5
  BY StrLength
<1>5. Len(FieldBytes(f)) = Len(EncodeStr(w)) + Len(s)
  BY <1>3, FieldLength
<1>6. PICK a \in 1..5, b \in Nat : a = Len(EncodeStr(w)) /\ b = Len(s)
  BY <1>4
<1>7. a + b \in 0..5 + b
  OBVIOUS
<1>8. Len(FieldBytes(f)) \in 0..5 + Len(s)
  BY <1>5, <1>6, <1>7, Zenon
<1>. QED  BY <1>1, <1>8, Zenon

(* How long a message is, but for the byte of its head.                     *)
Measures(l, kind, fields) ==
    /\ l \in [0..Len(fields) -> Nat] /\ l[0] = 1
    /\ Len(Encoded(Message(kind, fields))) = l[Len(fields)]
    /\ \A j \in 1..Len(fields) : l[j] = l[j - 1] + Len(FieldBytes(fields[j]))

LEMMA EncodedLength ==
  ASSUME NEW kind, NEW fields \in Seq(Fields), Len(fields) \in 1..5
  PROVE  \E l : Measures(l, kind, fields)
<1>1. PICK n \in 1..5 : n = Len(fields)
  OBVIOUS
<1>2. PICK u \in [0..n -> Seq(Byte)] : Begun(u, fields) /\ Encoded(Message(kind, fields)) = u[n]
  BY <1>1, EncodedIs
<1>. DEFINE l == [j \in 0..n |-> Len(u[j])]
<1>3. l \in [0..n -> Nat] /\ l[n] = Len(u[n]) /\ l[0] = Len(u[0])
  OBVIOUS
<1>4. Len(u[0]) = 1
  <2>1. u[0] = EncodeArray(Word(n, 4))
    BY <1>1, <1>2 DEF Begun
  <2>2. n \in 0..15
    OBVIOUS
  <2>. QED  BY <2>1, <2>2, HeadLength
<1>5. ASSUME NEW j \in 1..n PROVE l[j] = l[j - 1] + Len(FieldBytes(fields[j]))
  <2>1. u[j] = u[j - 1] \o FieldBytes(fields[j])
    BY <1>1, <1>2 DEF Begun
  <2>2. fields[j] \in Fields
    BY <1>1
  <2>3. FieldBytes(fields[j]) \in Seq(Byte)
    BY <2>2, FieldHasBytes
  <2>4. j - 1 \in 0..n /\ j \in 0..n
    OBVIOUS
  <2>5. PICK a \in Seq(Byte), b \in Seq(Byte) : a = u[j - 1] /\ b = FieldBytes(fields[j])
    BY <2>3, <2>4
  <2>6. Len(u[j]) = Len(a) + Len(b)
    BY <2>1, <2>5, ConcatProperties
  <2>. QED  BY <2>4, <2>5, <2>6
<1>. HIDE DEF l
<1>6. Measures(l, kind, fields)
  BY <1>1, <1>2, <1>3, <1>4, <1>5 DEF Measures
<1>. QED  BY <1>6

-----------------------------------------------------------------------------
(* A message of one of these kinds, with fields that can be read back.       *)
IsMessage(m, kinds) ==
    /\ m = Message(m.kind, m.fields) /\ m.kind \in kinds
    /\ m.fields \in Seq(Fields) /\ Len(m.fields) \in 1..5

LEMMA MessageMade ==
  ASSUME NEW kinds, NEW kind \in kinds, NEW fields \in Seq(Fields), Len(fields) \in 1..5
  PROVE  /\ IsMessage(Message(kind, fields), kinds)
         /\ Message(kind, fields).kind = kind /\ Message(kind, fields).fields = fields
BY DEF Message, IsMessage

(* Tuples of fields.                                                        *)
LEMMA OneField ==
  ASSUME NEW f \in Fields
  PROVE  \E x \in Seq(Fields) :
            /\ x = <<f>> /\ Len(x) = 1 /\ DOMAIN x = 1..1
            /\ x[1] = f
<1>1. PICK x : x = <<f>>
  OBVIOUS
<1>2. x \in Seq(Fields) /\ Len(x) = 1 /\ DOMAIN x = 1..1
  BY <1>1
<1>3. x[1] = f
  BY <1>1
<1>. QED  BY <1>1, <1>2, <1>3

LEMMA TwoFields ==
  ASSUME NEW f \in Fields, NEW g \in Fields
  PROVE  \E x \in Seq(Fields) :
            /\ x = <<f, g>> /\ Len(x) = 2 /\ DOMAIN x = 1..2
            /\ x[1] = f /\ x[2] = g
<1>1. PICK x : x = <<f, g>>
  OBVIOUS
<1>2. x \in Seq(Fields) /\ Len(x) = 2 /\ DOMAIN x = 1..2
  BY <1>1
<1>3. x[1] = f /\ x[2] = g
  BY <1>1
<1>. QED  BY <1>1, <1>2, <1>3

LEMMA ThreeFields ==
  ASSUME NEW f \in Fields, NEW g \in Fields, NEW h \in Fields
  PROVE  \E x \in Seq(Fields) :
            /\ x = <<f, g, h>> /\ Len(x) = 3 /\ DOMAIN x = 1..3
            /\ x[1] = f /\ x[2] = g /\ x[3] = h
<1>1. PICK x : x = <<f, g, h>>
  OBVIOUS
<1>2. x \in Seq(Fields) /\ Len(x) = 3 /\ DOMAIN x = 1..3
  BY <1>1
<1>3. x[1] = f /\ x[2] = g /\ x[3] = h
  BY <1>1
<1>. QED  BY <1>1, <1>2, <1>3

LEMMA FourFields ==
  ASSUME NEW f \in Fields, NEW g \in Fields, NEW h \in Fields, NEW i \in Fields
  PROVE  \E x \in Seq(Fields) :
            /\ x = <<f, g, h, i>> /\ Len(x) = 4 /\ DOMAIN x = 1..4
            /\ x[1] = f /\ x[2] = g /\ x[3] = h /\ x[4] = i
<1>1. PICK x : x = <<f, g, h, i>>
  OBVIOUS
<1>2. x \in Seq(Fields) /\ Len(x) = 4 /\ DOMAIN x = 1..4
  BY <1>1
<1>3. x[1] = f /\ x[2] = g /\ x[3] = h /\ x[4] = i
  BY <1>1
<1>. QED  BY <1>1, <1>2, <1>3

(* The lengths of the messages there are.                                   *)
LEMMA OneFieldLength ==
  ASSUME NEW kind, NEW f \in Fields
  PROVE  Len(Encoded(Message(kind, <<f>>))) = 1 + Len(FieldBytes(f))
<1>1. PICK fields \in Seq(Fields) :
         /\ fields = <<f>> /\ Len(fields) = 1
         /\ fields[1] = f
  BY OneField
<1>5. Len(fields) \in 1..5
  BY <1>1
<1>6. PICK l : Measures(l, kind, fields)
  BY <1>5, EncodedLength
<1>2. /\ l \in [0..1 -> Nat] /\ l[0] = 1 /\ Len(Encoded(Message(kind, fields))) = l[1]
      /\ \A j \in 1..1 : l[j] = l[j - 1] + Len(FieldBytes(fields[j]))
  BY <1>1, <1>6 DEF Measures
<1>3. l[1] = l[1 - 1] + Len(FieldBytes(fields[1]))
  BY <1>2
<1>4. 1 - 1 = 0 /\ fields[1] = f
  BY <1>1
<1>. QED  BY <1>1, <1>2, <1>3, <1>4

LEMMA TwoFieldsLength ==
  ASSUME NEW kind, NEW f \in Fields, NEW g \in Fields
  PROVE  Len(Encoded(Message(kind, <<f, g>>))) = 1 + Len(FieldBytes(f)) + Len(FieldBytes(g))
<1>1. PICK fields \in Seq(Fields) :
         /\ fields = <<f, g>> /\ Len(fields) = 2
         /\ fields[1] = f /\ fields[2] = g
  BY TwoFields
<1>5. Len(fields) \in 1..5
  BY <1>1
<1>6. PICK l : Measures(l, kind, fields)
  BY <1>5, EncodedLength
<1>2. /\ l \in [0..2 -> Nat] /\ l[0] = 1 /\ Len(Encoded(Message(kind, fields))) = l[2]
      /\ \A j \in 1..2 : l[j] = l[j - 1] + Len(FieldBytes(fields[j]))
  BY <1>1, <1>6 DEF Measures
<1>3. l[1] = l[1 - 1] + Len(FieldBytes(fields[1])) /\ l[2] = l[2 - 1] + Len(FieldBytes(fields[2]))
  BY <1>2
<1>4. 1 - 1 = 0 /\ 2 - 1 = 1 /\ fields[1] = f /\ fields[2] = g
  BY <1>1
<1>. QED  BY <1>1, <1>2, <1>3, <1>4

LEMMA FiveFieldsLength ==
  ASSUME NEW kind, NEW f \in Fields, NEW g \in Fields, NEW h \in Fields, NEW i \in Fields, NEW k \in Fields
  PROVE  Len(Encoded(Message(kind, <<f, g, h, i, k>>))) =
            1 + Len(FieldBytes(f)) + Len(FieldBytes(g)) + Len(FieldBytes(h))
              + Len(FieldBytes(i)) + Len(FieldBytes(k))
<1>7. PICK fields : fields = <<f, g, h, i, k>>
  OBVIOUS
<1>8. fields \in Seq(Fields) /\ Len(fields) = 5
  BY <1>7
<1>1. /\ fields = <<f, g, h, i, k>> /\ fields \in Seq(Fields) /\ Len(fields) = 5
      /\ fields[1] = f /\ fields[2] = g /\ fields[3] = h /\ fields[4] = i /\ fields[5] = k
  BY <1>7, <1>8
<1>5. Len(fields) \in 1..5
  BY <1>1
<1>6. PICK l : Measures(l, kind, fields)
  BY <1>1, <1>5, EncodedLength
<1>2. /\ l \in [0..5 -> Nat] /\ l[0] = 1 /\ Len(Encoded(Message(kind, fields))) = l[5]
      /\ \A j \in 1..5 : l[j] = l[j - 1] + Len(FieldBytes(fields[j]))
  BY <1>1, <1>6 DEF Measures
<1>3. /\ l[1] = l[1 - 1] + Len(FieldBytes(fields[1])) /\ l[2] = l[2 - 1] + Len(FieldBytes(fields[2]))
      /\ l[3] = l[3 - 1] + Len(FieldBytes(fields[3])) /\ l[4] = l[4 - 1] + Len(FieldBytes(fields[4]))
      /\ l[5] = l[5 - 1] + Len(FieldBytes(fields[5]))
  BY <1>2
<1>4. /\ 1 - 1 = 0 /\ 2 - 1 = 1 /\ 3 - 1 = 2 /\ 4 - 1 = 3 /\ 5 - 1 = 4
      /\ fields[1] = f /\ fields[2] = g /\ fields[3] = h /\ fields[4] = i /\ fields[5] = k
  BY <1>1
<1>9. /\ l[1] = 1 + Len(FieldBytes(f)) /\ l[2] = l[1] + Len(FieldBytes(g)) /\ l[3] = l[2] + Len(FieldBytes(h))
      /\ l[4] = l[3] + Len(FieldBytes(i)) /\ l[5] = l[4] + Len(FieldBytes(k))
  BY <1>1, <1>2, <1>3, <1>4, Zenon
<1>. QED  BY <1>1, <1>2, <1>9, Zenon

-----------------------------------------------------------------------------
(* What WireAssumption says of one value.                                   *)
LEMMA ValuesOfMessages ==
  ASSUME WireAssumption
  PROVE  /\ \A d \in DeviceWords : d \in Seq(Byte) /\ Len(d) = 4 /\ Fits(d, 1)
         /\ \A t \in IdWords : t \in Seq(Byte) /\ Len(t) = 4
         /\ \A r \in NumberWords : r \in Seq(Byte) /\ Len(r) = 8
         /\ \A b \in Flags : b \in BOOLEAN
         /\ \A s \in Contents : s \in Seq(Byte) /\ Len(s) <= 99 /\ NoNull(s) /\ CanCount(Len(s))
         /\ \A s \in Names : s \in Seq(Byte) /\ CanCount(Len(s))
         /\ \A s \in Tails : s \in Seq(Byte)
<1>1. \A n \in 0..99 : CanCount(n)
  <2>. TAKE n \in 0..99
  <2>1. n \div 65536 = 0
    OBVIOUS
  <2>. QED  BY <2>1 DEF CanCount
<1>2. \A s \in Contents : s \in Seq(Byte) /\ Len(s) <= 99 /\ NoNull(s)
  BY DEF WireAssumption
<1>3. \A s \in Contents : CanCount(Len(s))
  <2>. TAKE s \in Contents
  <2>1. Len(s) \in 0..99
    <3>1. s \in Seq(Byte) /\ Len(s) <= 99
      BY <1>2
    <3>2. PICK n \in Nat : n = Len(s)
      BY <3>1, LenProperties
    <3>3. n <= 99
      BY <3>1, <3>2, Zenon
    <3>4. n \in 0..99
      BY <3>3
    <3>. QED  BY <3>2, <3>4, Zenon
  <2>. QED  BY <1>1, <2>1
<1>4. /\ \A d \in DeviceWords : d \in Seq(Byte) /\ Len(d) = 4 /\ Fits(d, 1)
      /\ \A t \in IdWords : t \in Seq(Byte) /\ Len(t) = 4
      /\ \A r \in NumberWords : r \in Seq(Byte) /\ Len(r) = 8
  BY DEF WireAssumption
<1>5. /\ \A b \in Flags : b \in BOOLEAN
      /\ \A s \in Names : s \in Seq(Byte) /\ CanCount(Len(s))
      /\ \A s \in Tails : s \in Seq(Byte)
  BY DEF WireAssumption
<1>. QED  BY <1>2, <1>3, <1>4, <1>5

(* What an agent is sent: it has room in the buffer of its handler, and its  *)
(* texts are C strings.                                                     *)
IsKernelMessage(m) ==
    /\ IsMessage(m, KernelKinds) /\ InRoom(m)
    /\ \A i \in DOMAIN m.fields : NoNull(m.fields[i].text)
    /\ m.kind = "destroy_device_result" => \A i \in DOMAIN m.fields : m.fields[i].text = <<>>

HealthResults == {Message("get_health_result", <<U32(d), Flag(b)>>) : d \in DeviceWords, b \in Flags}

DeviceResults ==
    {Message(k, <<U32(d)>>) :
        k \in {"create_device_result", "destroy_device_result"}, d \in DeviceWords}

TootRequests ==
    {Message(k, <<U32(t), U32(d)>>) :
        k \in {"new_toot", "send_toot"}, t \in IdWords, d \in DeviceWords}

ElementRequests ==
    {Message("add_toot_element", <<U32(t), U32(d), U32(e), U32(i), Text(s)>>) :
        t \in IdWords, d \in DeviceWords, e \in IdWords, i \in IdWords, s \in Contents}

LEMMA KernelMessagesAre ==
  KernelMessages = ((HealthResults \cup DeviceResults) \cup TootRequests) \cup ElementRequests
BY DEF KernelMessages, HealthResults, DeviceResults, TootRequests, ElementRequests

LEMMA EmptyText == NoNull(<<>>) /\ <<>> \in Seq(Byte) /\ Len(<<>>) = 0
BY DEF NoNull

LEMMA KernelMessageIs ==
  ASSUME WireAssumption, NEW m \in KernelMessages
  PROVE  IsKernelMessage(m)
<1>1. CASE m \in HealthResults
  <2>1. PICK d \in DeviceWords, b \in Flags : m = Message("get_health_result", <<U32(d), Flag(b)>>)
    BY <1>1 DEF HealthResults
  <2>2. d \in Seq(Byte) /\ Len(d) = 4 /\ Fits(d, 1) /\ b \in BOOLEAN
    BY ValuesOfMessages
  <2>3. PICK f \in Fields, g \in Fields : f = U32(d) /\ g = Flag(b) /\ f.text = <<>> /\ g.text = <<>>
    BY <2>2, U32Is, FlagIs
  <2>4. PICK fields \in Seq(Fields) :
           /\ fields = <<f, g>> /\ Len(fields) = 2 /\ DOMAIN fields = 1..2
           /\ fields[1] = f /\ fields[2] = g
    BY TwoFields
  <2>5. m = Message("get_health_result", fields) /\ Len(fields) = 2 /\ \A i \in DOMAIN fields : fields[i].text = <<>>
    BY <2>1, <2>3, <2>4
  <2>6. IsMessage(m, KernelKinds) /\ m.kind = "get_health_result" /\ m.fields = fields
    <3>1. "get_health_result" \in KernelKinds /\ Len(fields) \in 1..5
      BY <2>5 DEF KernelKinds
    <3>. QED  BY <2>5, <3>1, MessageMade
  <2>7. Len(FieldBytes(f)) \in 1..2 /\ Len(FieldBytes(g)) = 1
    BY <2>2, <2>3, U32Length, FlagLength
  <2>8. Len(Encoded(m)) = 1 + Len(FieldBytes(f)) + Len(FieldBytes(g))
    <3>1. m = Message("get_health_result", <<f, g>>)
      BY <2>1, <2>3, Zenon
    <3>. QED  BY <3>1, TwoFieldsLength, Zenon
  <2>9. Room("get_health_result") = 10
    BY DEF Room
  <2>10. InRoom(m)
    <3>1. Len(Encoded(m)) <= 10
      <4>1. PICK k \in 1..5, l \in 1..2 : k = Len(FieldBytes(f)) /\ l = Len(FieldBytes(g))
        BY <2>7
      <4>2. Len(Encoded(m)) = (1 + k) + l
        BY <2>8, <4>1, Zenon
      <4>3. (1 + k) + l <= 10
        OBVIOUS
      <4>. QED  BY <4>2, <4>3, Zenon
    <3>. QED  BY <2>6, <2>9, <3>1 DEF InRoom
  <2>. QED  BY <2>5, <2>6, <2>10, EmptyText DEF IsKernelMessage
<1>2. CASE m \in DeviceResults
  <2>1. PICK k \in {"create_device_result", "destroy_device_result"}, d \in DeviceWords :
              m = Message(k, <<U32(d)>>)
    BY <1>2 DEF DeviceResults
  <2>2. d \in Seq(Byte) /\ Len(d) = 4 /\ Fits(d, 1)
    BY ValuesOfMessages
  <2>3. PICK f \in Fields : f = U32(d) /\ f.text = <<>>
    BY <2>2, U32Is
  <2>4. PICK fields \in Seq(Fields) :
           fields = <<f>> /\ Len(fields) = 1 /\ DOMAIN fields = 1..1 /\ fields[1] = f
    BY OneField
  <2>5. m = Message(k, fields) /\ Len(fields) = 1 /\ \A i \in DOMAIN fields : fields[i].text = <<>>
    BY <2>1, <2>3, <2>4
  <2>6. IsMessage(m, KernelKinds) /\ m.kind = k /\ m.fields = fields
    <3>1. k \in KernelKinds /\ Len(fields) \in 1..5
      BY <2>5 DEF KernelKinds
    <3>. QED  BY <2>5, <3>1, MessageMade
  <2>7. Len(FieldBytes(f)) \in 1..2
    BY <2>2, <2>3, U32Length
  <2>8. Len(Encoded(m)) = 1 + Len(FieldBytes(f))
    BY <2>4, <2>5, OneFieldLength
  <2>9. Room(k) = 10
    BY DEF Room
  <2>10. InRoom(m)
    <3>1. Len(Encoded(m)) <= 10
      <4>1. PICK a \in 1..2 : a = Len(FieldBytes(f))
        BY <2>7
      <4>2. Len(Encoded(m)) = 1 + a
        BY <2>8, <4>1, Zenon
      <4>3. 1 + a <= 10
        OBVIOUS
      <4>. QED  BY <4>2, <4>3, Zenon
    <3>. QED  BY <2>6, <2>9, <3>1 DEF InRoom
  <2>. QED  BY <2>5, <2>6, <2>10, EmptyText DEF IsKernelMessage
<1>3. CASE m \in TootRequests
  <2>1. PICK k \in {"new_toot", "send_toot"}, t \in IdWords, d \in DeviceWords :
              m = Message(k, <<U32(t), U32(d)>>)
    BY <1>3 DEF TootRequests
  <2>2. /\ d \in Seq(Byte) /\ Len(d) = 4 /\ Fits(d, 1)
        /\ t \in Seq(Byte) /\ Len(t) = 4
    BY ValuesOfMessages
  <2>3. PICK f \in Fields, g \in Fields : f = U32(t) /\ g = U32(d) /\ f.text = <<>> /\ g.text = <<>>
    BY <2>2, U32Is
  <2>4. PICK fields \in Seq(Fields) :
           /\ fields = <<f, g>> /\ Len(fields) = 2 /\ DOMAIN fields = 1..2
           /\ fields[1] = f /\ fields[2] = g
    BY TwoFields
  <2>5. m = Message(k, fields) /\ Len(fields) = 2 /\ \A i \in DOMAIN fields : fields[i].text = <<>>
    BY <2>1, <2>3, <2>4
  <2>6. IsMessage(m, KernelKinds) /\ m.kind = k /\ m.fields = fields
    <3>1. k \in KernelKinds /\ Len(fields) \in 1..5
      BY <2>5 DEF KernelKinds
    <3>. QED  BY <2>5, <3>1, MessageMade
  <2>7. Len(FieldBytes(f)) \in 1..5 /\ Len(FieldBytes(g)) \in 1..2
    BY <2>2, <2>3, U32Length
  <2>8. Len(Encoded(m)) = 1 + Len(FieldBytes(f)) + Len(FieldBytes(g))
    BY <2>4, <2>5, TwoFieldsLength
  <2>9. Room(k) = 10
    BY DEF Room
  <2>10. InRoom(m)
    <3>1. Len(Encoded(m)) <= 10
      <4>1. PICK a \in 1..5, b \in 1..2 : a = Len(FieldBytes(f)) /\ b = Len(FieldBytes(g))
        BY <2>7
      <4>2. Len(Encoded(m)) = (1 + a) + b
        BY <2>8, <4>1, Zenon
      <4>3. (1 + a) + b <= 10
        OBVIOUS
      <4>. QED  BY <4>2, <4>3, Zenon
    <3>. QED  BY <2>6, <2>9, <3>1 DEF InRoom
  <2>. QED  BY <2>5, <2>6, <2>10, EmptyText DEF IsKernelMessage
<1>4. CASE m \in ElementRequests
  <2>1. PICK t \in IdWords, d \in DeviceWords, e \in IdWords, i \in IdWords, s \in Contents :
              m = Message("add_toot_element", <<U32(t), U32(d), U32(e), U32(i), Text(s)>>)
    BY <1>4 DEF ElementRequests
  <2>2. /\ t \in Seq(Byte) /\ Len(t) = 4 /\ d \in Seq(Byte) /\ Len(d) = 4
        /\ e \in Seq(Byte) /\ Len(e) = 4 /\ i \in Seq(Byte) /\ Len(i) = 4
        /\ s \in Seq(Byte) /\ Len(s) <= 99 /\ NoNull(s) /\ CanCount(Len(s))
    BY ValuesOfMessages
  <2>3. PICK f1 \in Fields, f2 \in Fields, f3 \in Fields, f4 \in Fields, f5 \in Fields :
           /\ f1 = U32(t) /\ f2 = U32(d) /\ f3 = U32(e) /\ f4 = U32(i) /\ f5 = Text(s)
           /\ f1.text = <<>> /\ f2.text = <<>> /\ f3.text = <<>> /\ f4.text = <<>> /\ f5.text = s
    <3>1. U32(t) \in Fields /\ U32(d) \in Fields /\ U32(e) \in Fields /\ U32(i) \in Fields
      BY <2>2, U32Is
    <3>2. U32(t).text = <<>> /\ U32(d).text = <<>> /\ U32(e).text = <<>> /\ U32(i).text = <<>>
      BY <2>2, U32Is
    <3>3. Text(s) \in Fields /\ Text(s).text = s
      BY <2>2, TextFieldIs
    <3>. QED  BY <3>1, <3>2, <3>3
  <2>20. PICK fields : fields = <<f1, f2, f3, f4, f5>>
    OBVIOUS
  <2>21. fields \in Seq(Fields) /\ Len(fields) = 5 /\ DOMAIN fields = 1..5
    BY <2>20
  <2>4. /\ fields = <<f1, f2, f3, f4, f5>> /\ fields \in Seq(Fields) /\ Len(fields) = 5 /\ DOMAIN fields = 1..5
        /\ fields[1] = f1 /\ fields[2] = f2 /\ fields[3] = f3 /\ fields[4] = f4 /\ fields[5] = f5
    BY <2>20, <2>21
  <2>5. m = Message("add_toot_element", fields) /\ Len(fields) = 5
    BY <2>1, <2>3, <2>4
  <2>6. IsMessage(m, KernelKinds) /\ m.kind = "add_toot_element" /\ m.fields = fields
    <3>1. "add_toot_element" \in KernelKinds /\ Len(fields) \in 1..5
      BY <2>5 DEF KernelKinds
    <3>. QED  BY <2>4, <2>5, <3>1, MessageMade
  <2>7. /\ Len(FieldBytes(f1)) \in 1..5 /\ Len(FieldBytes(f2)) \in 1..5
        /\ Len(FieldBytes(f3)) \in 1..5 /\ Len(FieldBytes(f4)) \in 1..5
    BY <2>2, <2>3, U32Length
  <2>8. Len(FieldBytes(f5)) \in 0..5 + Len(s)
    BY <2>2, <2>3, TextLength
  <2>9. Len(FieldBytes(f5)) \in 0..104
    <3>1. PICK n \in Nat : n = Len(s)
      BY <2>2, LenProperties
    <3>2. n <= 99
      BY <2>2, <3>1
    <3>3. \A k \in 0..5 + n : k \in 0..104
      BY <3>2
    <3>4. Len(FieldBytes(f5)) \in 0..5 + n
      BY <2>8, <3>1, Zenon
    <3>. QED  BY <3>3, <3>4, Zenon
  <2>10. Len(Encoded(m)) = 1 + Len(FieldBytes(f1)) + Len(FieldBytes(f2)) + Len(FieldBytes(f3))
                             + Len(FieldBytes(f4)) + Len(FieldBytes(f5))
    BY <2>4, <2>5, FiveFieldsLength
  <2>11. Room("add_toot_element") = 200
    BY DEF Room
  <2>12. InRoom(m)
    <3>1. Len(Encoded(m)) <= 200
      <4>1. PICK a \in 1..5, b \in 1..5, c \in 1..5, x \in 1..5, y \in 0..104 :
               /\ a = Len(FieldBytes(f1)) /\ b = Len(FieldBytes(f2)) /\ c = Len(FieldBytes(f3))
               /\ x = Len(FieldBytes(f4)) /\ y = Len(FieldBytes(f5))
        BY <2>7, <2>9
      <4>2. PICK z : z = 1 + a + b + c + x + y
        OBVIOUS
      <4>3. Len(Encoded(m)) = z
        BY <2>10, <4>1, <4>2, Zenon
      <4>. DEFINE Fitting(len) == len <= 200
      <4>4. Fitting(z)
        BY <4>2
      <4>. HIDE DEF Fitting
      <4>5. Fitting(Len(Encoded(m)))
        BY <4>3, <4>4, Zenon
      <4>. QED  BY <4>5 DEF Fitting
    <3>. QED  BY <2>6, <2>11, <3>1 DEF InRoom
  <2>13. \A k \in DOMAIN fields : NoNull(fields[k].text)
    <3>1. \A k \in DOMAIN fields : k \in {1, 2, 3, 4, 5}
      BY <2>4
    <3>2. /\ fields[1].text = <<>> /\ fields[2].text = <<>> /\ fields[3].text = <<>>
          /\ fields[4].text = <<>> /\ fields[5].text = s
      BY <2>3, <2>4
    <3>. QED  BY <2>2, <3>1, <3>2, EmptyText
  <2>. QED  BY <2>6, <2>12, <2>13 DEF IsKernelMessage
<1>. QED  BY <1>1, <1>2, <1>3, <1>4, KernelMessagesAre

-----------------------------------------------------------------------------
(* What the kernel takes of the fields of an agent.                         *)
LEMMA TakesIs ==
  ASSUME NEW f
  PROVE  /\ Takes("u32", f) = TakesU32(f.tag) /\ Takes("i32", f) = TakesI32(f.tag)
         /\ Takes("name", f) = TakesName(f)
BY Zenon DEF Takes

LEMMA U32Taken ==
  ASSUME NEW w \in Seq(Byte), Len(w) = 4
  PROVE  Takes("u32", U32(w))
<1>1. PICK f : f = U32(w) /\ f.tag.type = "uint" /\ Fits(f.tag.v, 4)
  BY U32Is
<1>2. TakesU32(f.tag)
  BY <1>1 DEF TakesU32, NotNegative
<1>. QED  BY <1>1, <1>2, TakesIs

LEMMA NameTaken ==
  ASSUME NEW s \in Seq(Byte), CanCount(Len(s))
  PROVE  /\ Takes("name", Text(s))
              <=> Len(s) < 50 /\ WellFormed(s) /\ \A j \in DOMAIN s : s[j] # 0
<1>1. PICK f : f = Text(s) /\ f.tag.type = "str" /\ f.text = s
  BY TextFieldIs
<1>2. CheckNoNull(s) <=> WellFormed(s) /\ NoNull(s)
  <2>1. FALSE \in BOOLEAN
    OBVIOUS
  <2>2. Check(s, FALSE) <=> WellFormed(s) /\ (FALSE \/ NoNull(s))
    BY <2>1, CheckIsWellFormed
  <2>. QED  BY <2>2, Zenon DEF CheckNoNull
<1>3. NoNull(s) <=> \A j \in DOMAIN s : s[j] # 0
  BY DEF NoNull
<1>4. NameFits(s) <=> Len(s) < 50
  <2>1. PICK n \in Nat : n = Len(s)
    OBVIOUS
  <2>2. n <= 50 - 1 <=> n < 50
    OBVIOUS
  <2>. QED  BY <2>1, <2>2, Zenon DEF NameFits, NameRoom
<1>5. Takes("name", f) = TakesName(f)
  BY TakesIs
<1>6. TakesName(f) <=> NameFits(s) /\ CheckNoNull(s)
  BY <1>1, Zenon DEF TakesName
<1>. QED  BY <1>1, <1>2, <1>3, <1>4, <1>5, <1>6, Zenon

(* A word whose high bytes repeat the sign of its n low ones is spelled by    *)
(* these, and no other word is.                                             *)
LEMMA SignFills ==
  ASSUME NEW m \in Nat, NEW w \in WordOf(m), NEW n \in 1..m, NEW x \in Byte,
         x = IF w[m - n + 1] >= 128 THEN 255 ELSE 0
  PROVE  w = Signed(Low(w, n), m) <=> \A i \in 1..m - n : w[i] = x
<1>1. Len(w) = m /\ Low(w, n) \in Seq(Byte) /\ Len(Low(w, n)) = n /\ Low(w, n)[1] = w[m - n + 1]
  BY LowBytes
<1>2. Negative(Low(w, n)) <=> w[m - n + 1] >= 128
  BY <1>1, Zenon DEF Negative
<1>. DEFINE z == [i \in 1..m - n |-> x]
<1>3. Signed(Low(w, n), m) = z \o Low(w, n)
  BY <1>1, <1>2 DEF Signed
<1>4. z \in [1..m - n -> Byte] /\ \A i \in 1..m - n : z[i] = x
  OBVIOUS
<1>5. z \in Seq(Byte) /\ Len(z) = m - n
  OBVIOUS
<1>. HIDE DEF z
<1>6. ASSUME \A i \in 1..m - n : w[i] = x PROVE w = z \o Low(w, n)
  <2>1. n \in 0..m /\ Filling(z, w, m - n)
    BY <1>4, <1>6 DEF Filling
  <2>. QED  BY <2>1, FilledLow
<1>7. ASSUME w = z \o Low(w, n), NEW i \in 1..m - n PROVE w[i] = x
  <2>1. PICK l \in Seq(Byte) : l = Low(w, n)
    BY <1>1
  <2>2. i \in 1..Len(z) + Len(l) /\ i <= Len(z)
    BY <1>5
  <2>3. (z \o l)[i] = z[i]
    BY <1>5, <2>2, ConcatProperties
  <2>. QED  BY <1>4, <1>7, <2>1, <2>3
<1>. QED  BY <1>3, <1>6, <1>7

(* The words of an int of 32 bits.                                          *)
LEMMA FitsResultIs ==
  ASSUME NEW r \in WordOf(8)
  PROVE  FitsResult(r) <=> \A i \in 1..4 : r[i] = IF r[5] >= 128 THEN 255 ELSE 0
<1>1. PICK m \in Nat, n \in Nat : n \in 1..m /\ m = 8 /\ n = 4
  <2>1. 8 \in Nat /\ 4 \in 1..8
    OBVIOUS
  <2>. QED  BY <2>1
<1>2. m - n = 4 /\ m - n + 1 = 5
  BY <1>1
<1>3. PICK x \in Byte : x = IF r[m - n + 1] >= 128 THEN 255 ELSE 0
  BY DEF Byte
<1>4. r = Signed(Low(r, n), m) <=> \A i \in 1..m - n : r[i] = x
  BY <1>1, <1>3, SignFills
<1>5. FitsResult(r) <=> r = Signed(Low(r, n), m)
  BY <1>1, Zenon DEF FitsResult
<1>6. x = IF r[5] >= 128 THEN 255 ELSE 0
  BY <1>2, <1>3, Zenon
<1>7. (\A i \in 1..m - n : r[i] = x) <=> \A i \in 1..4 : r[i] = x
  BY <1>2, Zenon
<1>. QED  BY <1>4, <1>5, <1>6, <1>7, Zenon

LEMMA IntTaken ==
  ASSUME NEW r \in Seq(Byte), Len(r) = 8
  PROVE  Takes("i32", GoInt(r)) <=> FitsResult(r)
<1>1. PICK t : t = GoInt(r).tag /\ t.v = r /\ t.type = IF Negative(r) THEN "int" ELSE "uint"
  BY GoIntIs
<1>2. r \in WordOf(8)
  BY GoIntIs
<1>3. Takes("i32", GoInt(r)) = TakesI32(t)
  BY <1>1, TakesIs
<1>4. FitsResult(r) <=> \A i \in 1..4 : r[i] = IF r[5] >= 128 THEN 255 ELSE 0
  BY <1>2, FitsResultIs
<1>5. PICK a \in Nat, c \in Nat : a = r[1] /\ c = r[5] /\ a <= 255
  <2>1. r[1] \in 0..255 /\ r[5] \in 0..255
    BY <1>2 DEF WordOf
  <2>2. \A b \in 0..255 : b \in Nat /\ b <= 255
    OBVIOUS
  <2>. QED  BY <2>1, <2>2, Zenon
<1>6. Fits(r, 4) <=> \A i \in 1..4 : r[i] = 0
  BY DEF Fits
<1>7. FitsNegative(r, 4) <=> (\A i \in 1..4 : r[i] = 255) /\ r[5] >= 128
  BY DEF FitsNegative
<1>8. CASE Negative(r)
  <2>1. r[1] >= 128 /\ t.type = "int"
    BY <1>1, <1>8 DEF Negative
  <2>2. TakesI32(t) <=> FitsNegative(r, 4)
    BY <1>1, <1>8, <2>1 DEF TakesI32, NotNegative
  <2>3. FitsResult(r) <=> FitsNegative(r, 4)
    BY <1>4, <1>5, <1>7, <2>1
  <2>. QED  BY <1>3, <2>2, <2>3
<1>9. CASE ~Negative(r)
  <2>1. r[1] < 128 /\ t.type = "uint"
    <3>1. r[1] < 128
      BY <1>5, <1>9 DEF Negative
    <3>. QED  BY <1>1, <1>9, <3>1
  <2>2. TakesI32(t) <=> Fits(r, 4) /\ r[5] < 128
    BY <1>1, <1>9, <2>1 DEF TakesI32, NotNegative
  <2>3. FitsResult(r) <=> Fits(r, 4) /\ r[5] < 128
    <3>2. c >= 128 \/ c < 128
      OBVIOUS
    <3>3. FitsResult(r) => a = IF c >= 128 THEN 255 ELSE 0
      BY <1>4, <1>5, 1 \in 1..4
    <3>4. a # 255
      BY <1>5, <2>1
    <3>5. FitsResult(r) => c < 128
      BY <3>2, <3>3, <3>4
    <3>6. c < 128 => (FitsResult(r) <=> \A i \in 1..4 : r[i] = 0)
      BY <1>4, <1>5
    <3>. QED  BY <1>5, <1>6, <3>5, <3>6
  <2>. QED  BY <1>3, <2>2, <2>3
<1>. QED  BY <1>8, <1>9

-----------------------------------------------------------------------------
(* What the kernel is sent: it has a shape the deserializer knows, and the   *)
(* fields the deserializer takes are those that have a place.                *)
Taken(m) == \A i \in DOMAIN m.fields : Takes(Shape(m.kind)[i], m.fields[i])

AllHavePlace(m) == \A i \in DOMAIN m.fields : HasPlace(m, i)

IsAgentMessage(m) ==
    /\ IsMessage(m, AgentKinds) /\ Len(Shape(m.kind)) = Len(m.fields)
    /\ DOMAIN Shape(m.kind) = DOMAIN m.fields
    /\ Taken(m) <=> AllHavePlace(m)

LEMMA ShapesAre ==
  /\ Shape("get_health") = <<"u32">> /\ Shape("destroy_device") = <<"u32">>
  /\ Shape("create_device") = <<"name", "u32">>
  /\ Shape("new_toot_result") = <<"u32", "u32", "i32">> /\ Shape("send_toot_result") = <<"u32", "u32", "i32">>
  /\ Shape("add_toot_element_result") = <<"u32", "u32", "u32", "i32">>
<1>1. Shape("get_health") = <<"u32">> /\ Shape("destroy_device") = <<"u32">>
  BY Zenon DEF Shape
<1>2. Shape("create_device") = <<"name", "u32">>
  BY Zenon DEF Shape
<1>3. Shape("new_toot_result") = <<"u32", "u32", "i32">> /\ Shape("send_toot_result") = <<"u32", "u32", "i32">>
  BY Zenon DEF Shape
<1>4. Shape("add_toot_element_result") = <<"u32", "u32", "u32", "i32">>
  BY Zenon DEF Shape
<1>. QED  BY <1>1, <1>2, <1>3, <1>4

(* The fields of each sort.                                                 *)
LEMMA U32HasPlace ==
  ASSUME NEW m, NEW i, NEW w \in Seq(Byte), Len(w) = 4, m.fields[i] = U32(w),
         m.kind \in ResultKinds => i # Len(m.fields)
  PROVE  HasPlace(m, i) /\ Takes("u32", m.fields[i])
<1>1. m.fields[i].tag.type # "str"
  <2>1. U32(w).tag.type = "uint"
    BY U32Is
  <2>. QED  BY <2>1
<1>. QED  BY <1>1, U32Taken DEF HasPlace

LEMMA NameHasPlace ==
  ASSUME NEW m, NEW i, NEW s \in Seq(Byte), CanCount(Len(s)), m.fields[i] = Text(s),
         m.kind \notin ResultKinds
  PROVE  HasPlace(m, i) <=> Takes("name", m.fields[i])
<1>1. m.fields[i].tag.type = "str" /\ m.fields[i].text = s
  <2>1. Text(s).tag.type = "str" /\ Text(s).text = s
    BY TextFieldIs
  <2>. QED  BY <2>1
<1>2. HasPlace(m, i) <=> IsName(s)
  BY <1>1, Zenon DEF HasPlace
<1>3. IsName(s) <=> Takes("name", Text(s))
  BY NameTaken, Zenon DEF IsName
<1>. QED  BY <1>2, <1>3

LEMMA IntHasPlace ==
  ASSUME NEW m, NEW i, NEW r \in Seq(Byte), Len(r) = 8, m.fields[i] = GoInt(r),
         m.kind \in ResultKinds, i = Len(m.fields)
  PROVE  HasPlace(m, i) <=> Takes("i32", m.fields[i])
<1>1. m.fields[i].tag.type # "str" /\ m.fields[i].tag.v = r
  <2>1. GoInt(r).tag.type = (IF Negative(r) THEN "int" ELSE "uint") /\ GoInt(r).tag.v = r
    BY GoIntIs
  <2>. QED  BY <2>1
<1>2. HasPlace(m, i) <=> FitsResult(r)
  BY <1>1, Zenon DEF HasPlace
<1>3. Takes("i32", GoInt(r)) <=> FitsResult(r)
  BY IntTaken
<1>. QED  BY <1>2, <1>3

DeviceRequests == {Message(k, <<U32(d)>>) : k \in {"get_health", "destroy_device"}, d \in DeviceWords}

Creations == {Message("create_device", <<Text(s), U32(u)>>) : s \in Names, u \in IdWords}

TootResults ==
    {Message(k, <<U32(t), U32(d), GoInt(r)>>) :
        k \in {"new_toot_result", "send_toot_result"},
        t \in IdWords, d \in DeviceWords, r \in NumberWords}

ElementResults ==
    {Message("add_toot_element_result", <<U32(t), U32(d), U32(e), GoInt(r)>>) :
        t \in IdWords, d \in DeviceWords, e \in IdWords, r \in NumberWords}

LEMMA AgentMessagesAre ==
  AgentMessages = ((DeviceRequests \cup Creations) \cup TootResults) \cup ElementResults
BY DEF AgentMessages, DeviceRequests, Creations, TootResults, ElementResults

LEMMA DeviceRequestIs ==
  ASSUME WireAssumption, NEW m \in DeviceRequests
  PROVE  IsAgentMessage(m)
<1>1. PICK k \in {"get_health", "destroy_device"}, d \in DeviceWords : m = Message(k, <<U32(d)>>)
  BY DEF DeviceRequests
<1>2. d \in Seq(Byte) /\ Len(d) = 4
  BY ValuesOfMessages
<1>3. PICK f \in Fields : f = U32(d)
  BY <1>2, U32Is
<1>4. PICK fields \in Seq(Fields) :
         fields = <<f>> /\ Len(fields) = 1 /\ DOMAIN fields = 1..1 /\ fields[1] = f
  BY OneField
<1>5. k \in AgentKinds /\ k \notin ResultKinds /\ Len(fields) \in 1..5 /\ m = Message(k, fields)
  BY <1>1, <1>3, <1>4 DEF AgentKinds, ResultKinds
<1>6. IsMessage(m, AgentKinds) /\ m.kind = k /\ m.fields = fields
  BY <1>5, MessageMade
<1>7. PICK shape : shape = Shape(k) /\ Len(shape) = 1 /\ DOMAIN shape = 1..1 /\ shape[1] = "u32"
  BY ShapesAre
<1>8. HasPlace(m, 1) /\ Takes("u32", fields[1])
  BY <1>2, <1>3, <1>4, <1>5, <1>6, U32HasPlace
<1>9. \A i \in 1..1 : i = 1
  OBVIOUS
<1>10. AllHavePlace(m)
  BY <1>4, <1>6, <1>8, <1>9, Zenon DEF AllHavePlace
<1>11. Taken(m)
  BY <1>4, <1>6, <1>7, <1>8, <1>9, Zenon DEF Taken
<1>. QED  BY <1>4, <1>6, <1>7, <1>10, <1>11, Zenon DEF IsAgentMessage

LEMMA CreationIs ==
  ASSUME WireAssumption, NEW m \in Creations
  PROVE  IsAgentMessage(m)
<1>1. PICK s \in Names, u \in IdWords : m = Message("create_device", <<Text(s), U32(u)>>)
  BY DEF Creations
<1>2. u \in Seq(Byte) /\ Len(u) = 4 /\ s \in Seq(Byte) /\ CanCount(Len(s))
  BY ValuesOfMessages
<1>3. PICK f \in Fields, g \in Fields : f = Text(s) /\ g = U32(u)
  BY <1>2, U32Is, TextFieldIs
<1>4. PICK fields \in Seq(Fields) :
         /\ fields = <<f, g>> /\ Len(fields) = 2 /\ DOMAIN fields = 1..2
         /\ fields[1] = f /\ fields[2] = g
  BY TwoFields
<1>5. /\ "create_device" \in AgentKinds /\ "create_device" \notin ResultKinds
      /\ Len(fields) \in 1..5 /\ m = Message("create_device", fields)
  BY <1>1, <1>3, <1>4 DEF AgentKinds, ResultKinds
<1>6. IsMessage(m, AgentKinds) /\ m.kind = "create_device" /\ m.fields = fields
  BY <1>5, MessageMade
<1>7. PICK shape : /\ shape = Shape("create_device") /\ Len(shape) = 2 /\ DOMAIN shape = 1..2
                   /\ shape[1] = "name" /\ shape[2] = "u32"
  BY ShapesAre
<1>8. HasPlace(m, 1) <=> Takes("name", fields[1])
  BY <1>2, <1>3, <1>4, <1>5, <1>6, NameHasPlace
<1>9. HasPlace(m, 2) /\ Takes("u32", fields[2])
  BY <1>2, <1>3, <1>4, <1>5, <1>6, U32HasPlace
<1>10. \A i \in 1..2 : i = 1 \/ i = 2
  OBVIOUS
<1>11. 1 \in 1..2 /\ 2 \in 1..2
  OBVIOUS
<1>12. AllHavePlace(m) <=> HasPlace(m, 1) /\ HasPlace(m, 2)
  BY <1>4, <1>6, <1>10, <1>11, Zenon DEF AllHavePlace
<1>13. Taken(m) <=> Takes("name", fields[1]) /\ Takes("u32", fields[2])
  BY <1>4, <1>6, <1>7, <1>10, <1>11, Zenon DEF Taken
<1>. QED  BY <1>4, <1>6, <1>7, <1>8, <1>9, <1>12, <1>13, Zenon DEF IsAgentMessage

(* What three places hold.                                                   *)
LEMMA Triple ==
  ASSUME NEW x, NEW y, NEW z, NEW s, s = <<x, y, z>>
  PROVE  Len(s) = 3 /\ DOMAIN s = 1..3 /\ s[1] = x /\ s[2] = y /\ s[3] = z
OBVIOUS

LEMMA TootResultIs ==
  ASSUME WireAssumption, NEW m \in TootResults
  PROVE  IsAgentMessage(m)
<1>1. PICK k \in {"new_toot_result", "send_toot_result"}, t \in IdWords, d \in DeviceWords, r \in NumberWords :
         m = Message(k, <<U32(t), U32(d), GoInt(r)>>)
  BY DEF TootResults
<1>2. /\ t \in Seq(Byte) /\ Len(t) = 4 /\ d \in Seq(Byte) /\ Len(d) = 4
      /\ r \in Seq(Byte) /\ Len(r) = 8
  BY ValuesOfMessages
<1>3. PICK f \in Fields, g \in Fields, h \in Fields : f = U32(t) /\ g = U32(d) /\ h = GoInt(r)
  <2>1. U32(t) \in Fields /\ U32(d) \in Fields
    BY <1>2, U32Is
  <2>2. GoInt(r) \in Fields
    BY <1>2, GoIntIs
  <2>. QED  BY <2>1, <2>2
<1>4. PICK fields \in Seq(Fields) :
         /\ fields = <<f, g, h>> /\ Len(fields) = 3 /\ DOMAIN fields = 1..3
         /\ fields[1] = f /\ fields[2] = g /\ fields[3] = h
  BY ThreeFields
<1>5. k \in AgentKinds /\ k \in ResultKinds /\ Len(fields) \in 1..5 /\ m = Message(k, fields)
  BY <1>1, <1>3, <1>4 DEF AgentKinds, ResultKinds
<1>6. IsMessage(m, AgentKinds) /\ m.kind = k /\ m.fields = fields
  BY <1>5, MessageMade
<1>7. PICK shape : /\ shape = Shape(k) /\ Len(shape) = 3 /\ DOMAIN shape = 1..3
                   /\ shape[1] = "u32" /\ shape[2] = "u32" /\ shape[3] = "i32"
  <2>1. Shape(k) = <<"u32", "u32", "i32">>
    BY ShapesAre
  <2>. QED  BY <2>1, Triple
<1>8. 1 # Len(fields) /\ 2 # Len(fields) /\ 3 = Len(fields)
  BY <1>4
<1>9. HasPlace(m, 1) /\ Takes("u32", fields[1])
  BY <1>2, <1>3, <1>4, <1>6, <1>8, U32HasPlace
<1>10. HasPlace(m, 2) /\ Takes("u32", fields[2])
  BY <1>2, <1>3, <1>4, <1>6, <1>8, U32HasPlace
<1>11. HasPlace(m, 3) <=> Takes("i32", fields[3])
  BY <1>2, <1>3, <1>4, <1>5, <1>6, <1>8, IntHasPlace
<1>12. \A i \in 1..3 : i = 1 \/ i = 2 \/ i = 3
  OBVIOUS
<1>13. 1 \in 1..3 /\ 2 \in 1..3 /\ 3 \in 1..3
  OBVIOUS
<1>14. AllHavePlace(m) <=> HasPlace(m, 1) /\ HasPlace(m, 2) /\ HasPlace(m, 3)
  BY <1>4, <1>6, <1>12, <1>13, Zenon DEF AllHavePlace
<1>15. Taken(m) <=> Takes("u32", fields[1]) /\ Takes("u32", fields[2]) /\ Takes("i32", fields[3])
  BY <1>4, <1>6, <1>7, <1>12, <1>13, Zenon DEF Taken
<1>. QED  BY <1>4, <1>6, <1>7, <1>9, <1>10, <1>11, <1>14, <1>15, Zenon DEF IsAgentMessage

LEMMA ElementResultIs ==
  ASSUME WireAssumption, NEW m \in ElementResults
  PROVE  IsAgentMessage(m)
<1>1. PICK t \in IdWords, d \in DeviceWords, e \in IdWords, r \in NumberWords :
         m = Message("add_toot_element_result", <<U32(t), U32(d), U32(e), GoInt(r)>>)
  BY DEF ElementResults
<1>2. /\ t \in Seq(Byte) /\ Len(t) = 4 /\ d \in Seq(Byte) /\ Len(d) = 4
      /\ e \in Seq(Byte) /\ Len(e) = 4 /\ r \in Seq(Byte) /\ Len(r) = 8
  BY ValuesOfMessages
<1>3. PICK f \in Fields, g \in Fields, h \in Fields, i \in Fields :
         f = U32(t) /\ g = U32(d) /\ h = U32(e) /\ i = GoInt(r)
  <2>1. U32(t) \in Fields /\ U32(d) \in Fields /\ U32(e) \in Fields
    BY <1>2, U32Is
  <2>2. GoInt(r) \in Fields
    BY <1>2, GoIntIs
  <2>. QED  BY <2>1, <2>2
<1>4. PICK fields \in Seq(Fields) :
         /\ fields = <<f, g, h, i>> /\ Len(fields) = 4 /\ DOMAIN fields = 1..4
         /\ fields[1] = f /\ fields[2] = g /\ fields[3] = h /\ fields[4] = i
  BY FourFields
<1>. DEFINE k == "add_toot_element_result"
<1>5. k \in AgentKinds /\ k \in ResultKinds /\ Len(fields) \in 1..5 /\ m = Message(k, fields)
  BY <1>1, <1>3, <1>4 DEF AgentKinds, ResultKinds
<1>6. IsMessage(m, AgentKinds) /\ m.kind = k /\ m.fields = fields
  BY <1>5, MessageMade
<1>7. PICK shape : /\ shape = Shape(k) /\ Len(shape) = 4 /\ DOMAIN shape = 1..4
                   /\ shape[1] = "u32" /\ shape[2] = "u32" /\ shape[3] = "u32" /\ shape[4] = "i32"
  <2>1. Shape(k) = <<"u32", "u32", "u32", "i32">>
    BY ShapesAre
  <2>. QED  BY <2>1
<1>8. 1 # Len(fields) /\ 2 # Len(fields) /\ 3 # Len(fields) /\ 4 = Len(fields)
  BY <1>4
<1>9. HasPlace(m, 1) /\ Takes("u32", fields[1])
  BY <1>2, <1>3, <1>4, <1>6, <1>8, U32HasPlace
<1>10. HasPlace(m, 2) /\ Takes("u32", fields[2])
  BY <1>2, <1>3, <1>4, <1>6, <1>8, U32HasPlace
<1>11. HasPlace(m, 3) /\ Takes("u32", fields[3])
  BY <1>2, <1>3, <1>4, <1>6, <1>8, U32HasPlace
<1>12. HasPlace(m, 4) <=> Takes("i32", fields[4])
  BY <1>2, <1>3, <1>4, <1>5, <1>6, <1>8, IntHasPlace
<1>13. \A j \in 1..4 : j = 1 \/ j = 2 \/ j = 3 \/ j = 4
  OBVIOUS
<1>14. 1 \in 1..4 /\ 2 \in 1..4 /\ 3 \in 1..4 /\ 4 \in 1..4
  OBVIOUS
<1>. HIDE DEF k
<1>15. AllHavePlace(m) <=> HasPlace(m, 1) /\ HasPlace(m, 2) /\ HasPlace(m, 3) /\ HasPlace(m, 4)
  BY <1>4, <1>6, <1>13, <1>14, Zenon DEF AllHavePlace
<1>16. Taken(m) <=> /\ Takes("u32", fields[1]) /\ Takes("u32", fields[2])
                    /\ Takes("u32", fields[3]) /\ Takes("i32", fields[4])
  BY <1>4, <1>6, <1>7, <1>13, <1>14, Zenon DEF Taken
<1>. QED  BY <1>4, <1>6, <1>7, <1>9, <1>10, <1>11, <1>12, <1>15, <1>16, Zenon DEF IsAgentMessage

LEMMA AgentMessageIs ==
  ASSUME WireAssumption, NEW m \in AgentMessages
  PROVE  IsAgentMessage(m)
BY AgentMessagesAre, DeviceRequestIs, CreationIs, TootResultIs, ElementResultIs

-----------------------------------------------------------------------------
(* The types of the messages tell their kinds apart.                         *)
LEMMA TypesAre ==
  /\ TypeOf("get_health") = 2 /\ TypeOf("get_health_result") = 3
  /\ TypeOf("create_device") = 4 /\ TypeOf("create_device_result") = 5
  /\ TypeOf("destroy_device") = 6 /\ TypeOf("destroy_device_result") = 7
  /\ TypeOf("new_toot") = 8 /\ TypeOf("new_toot_result") = 9
  /\ TypeOf("add_toot_element") = 10 /\ TypeOf("add_toot_element_result") = 11
  /\ TypeOf("send_toot") = 12 /\ TypeOf("send_toot_result") = 13
<1>1. TypeOf("get_health") = 2
  BY Zenon DEF TypeOf
<1>2. TypeOf("get_health_result") = 3
  BY Zenon DEF TypeOf
<1>3. TypeOf("create_device") = 4
  BY Zenon DEF TypeOf
<1>4. TypeOf("create_device_result") = 5
  BY Zenon DEF TypeOf
<1>5. TypeOf("destroy_device") = 6
  BY Zenon DEF TypeOf
<1>6. TypeOf("destroy_device_result") = 7
  BY Zenon DEF TypeOf
<1>7. TypeOf("new_toot") = 8
  BY Zenon DEF TypeOf
<1>8. TypeOf("new_toot_result") = 9
  BY Zenon DEF TypeOf
<1>9. TypeOf("add_toot_element") = 10
  BY Zenon DEF TypeOf
<1>10. TypeOf("add_toot_element_result") = 11
  BY Zenon DEF TypeOf
<1>11. TypeOf("send_toot") = 12
  BY Zenon DEF TypeOf
<1>12. TypeOf("send_toot_result") = 13
  BY Zenon DEF TypeOf
<1>. QED  BY <1>1, <1>2, <1>3, <1>4, <1>5, <1>6, <1>7, <1>8, <1>9, <1>10, <1>11, <1>12

LEMMA KindIsOf ==
  ASSUME NEW k \in KernelKinds \cup AgentKinds
  PROVE  KindOf(TypeOf(k)) = k
<1>1. \A j \in KernelKinds \cup AgentKinds : TypeOf(j) = TypeOf(k) => j = k
  BY TypesAre DEF KernelKinds, AgentKinds
<1>2. PICK type : type = TypeOf(k)
  OBVIOUS
<1>3. KindOf(type) \in KernelKinds \cup AgentKinds /\ TypeOf(KindOf(type)) = type
  BY <1>2, Zenon DEF KindOf
<1>. QED  BY <1>1, <1>2, <1>3

LEMMA TypesOfSides ==
  /\ 0 \notin {TypeOf(k) : k \in KernelKinds} /\ 0 \notin {TypeOf(k) : k \in AgentKinds}
  /\ \A k \in KernelKinds : TypeOf(k) \notin {TypeOf(j) : j \in AgentKinds}
  /\ \A k \in AgentKinds : TypeOf(k) \notin {TypeOf(j) : j \in KernelKinds}
<1>1. \A k \in KernelKinds, j \in AgentKinds : TypeOf(k) # TypeOf(j)
  BY TypesAre DEF KernelKinds, AgentKinds
<1>2. \A k \in KernelKinds : TypeOf(k) # 0
  BY TypesAre DEF KernelKinds
<1>3. \A k \in AgentKinds : TypeOf(k) # 0
  BY TypesAre DEF AgentKinds
<1>. QED  BY <1>1, <1>2, <1>3

LEMMA KindsDiffer ==
  /\ \A k \in KernelKinds : k \notin AgentKinds /\ k \notin {"nothing", "refused"}
  /\ \A k \in AgentKinds : k \notin KernelKinds /\ k \notin {"nothing", "refused"}
BY DEF KernelKinds, AgentKinds

-----------------------------------------------------------------------------
LEMMA MessageReadsBack ==
  ASSUME NEW kinds, NEW m, IsMessage(m, kinds), NEW tail \in Seq(Byte)
  PROVE  ReadsBack(m.fields, Encoded(m) \o tail)
<1>0. PICK kind : kind = m.kind
  OBVIOUS
<1>1. PICK fields \in Seq(Fields) : kind = m.kind /\ fields = m.fields
  BY <1>0 DEF IsMessage
<1>2. m = Message(kind, fields) /\ Len(fields) \in 1..5 /\ DOMAIN fields = 1..Len(fields)
  BY <1>1 DEF IsMessage
<1>3. PICK q : q = Encoded(m) \o tail
  OBVIOUS
<1>4. Len(fields) > 0 /\ CanCount(Len(fields))
  <2>1. PICK n \in 1..5 : n = Len(fields)
    BY <1>2
  <2>2. n \in 0..15 /\ n > 0
    OBVIOUS
  <2>3. CanCount(n)
    BY <2>2, HeadLength
  <2>. QED  BY <2>1, <2>2, <2>3, Zenon
<1>5. q = Encoded(Message(kind, fields)) \o tail
  BY <1>2, <1>3
<1>6. ReadsBack(fields, q)
  BY <1>4, <1>5, MessageIsRead
<1>. QED  BY <1>1, <1>3, <1>6, Zenon

LEMMA EncodedBytes ==
  ASSUME NEW kinds, NEW m, IsMessage(m, kinds)
  PROVE  Encoded(m) \in Seq(Byte)
<1>0. PICK kind : kind = m.kind
  OBVIOUS
<1>1. PICK fields \in Seq(Fields) : kind = m.kind /\ fields = m.fields
  BY <1>0 DEF IsMessage
<1>2. m = Message(kind, fields)
  BY <1>1 DEF IsMessage
<1>3. PICK u \in [0..Len(fields) -> Seq(Byte)] :
         Begun(u, fields) /\ Encoded(Message(kind, fields)) = u[Len(fields)]
  BY EncodedIs
<1>. QED  BY <1>2, <1>3

LEMMA AgentReads ==
  ASSUME NEW kinds, NEW m, IsMessage(m, kinds)
  PROVE  ReadByAgent(m.kind, Encoded(m)) = m
<1>1. <<>> \in Seq(Byte)
  OBVIOUS
<1>2. PICK q : q = Encoded(m) \o <<>>
  OBVIOUS
<1>3. ReadsBack(m.fields, q)
  BY <1>1, <1>2, MessageReadsBack
<1>4. q = Encoded(m)
  <2>1. Encoded(m) \in Seq(Byte)
    BY EncodedBytes
  <2>. QED  BY <1>2, <2>1, ConcatEmptySeq
<1>5. PICK n, at : n = Number(TagAt(q, 1).v) /\ at = Places(q, n)
  OBVIOUS
<1>6. n = Len(m.fields) /\ DOMAIN at = DOMAIN m.fields /\ q # <<>>
      /\ \A i \in DOMAIN m.fields : FieldAt(q, at[i]) = m.fields[i]
  BY <1>3, <1>5, Zenon DEF ReadsBack
<1>7. ReadByAgent(m.kind, q) = Message(m.kind, [i \in DOMAIN at |-> FieldAt(q, at[i])])
  BY <1>5, <1>6, Zenon DEF ReadByAgent
<1>8. [i \in DOMAIN at |-> FieldAt(q, at[i])] = m.fields
  <2>1. m.fields = [i \in DOMAIN m.fields |-> m.fields[i]]
    BY DEF IsMessage
  <2>. QED  BY <1>6, <2>1
<1>9. m = Message(m.kind, m.fields)
  BY DEF IsMessage
<1>. QED  BY <1>4, <1>7, <1>8, <1>9, Zenon

LEMMA KernelReads ==
  ASSUME NEW m, IsAgentMessage(m), NEW tail \in Seq(Byte)
  PROVE  ReadByKernel(m.kind, Encoded(m) \o tail) = IF AllHavePlace(m) THEN m ELSE Refused
<1>1. PICK q : q = Encoded(m) \o tail
  OBVIOUS
<1>2. IsMessage(m, AgentKinds)
  BY DEF IsAgentMessage
<1>3. ReadsBack(m.fields, q)
  BY <1>1, <1>2, MessageReadsBack
<1>4. PICK n, at : n = Number(TagAt(q, 1).v) /\ at = Places(q, n)
  OBVIOUS
<1>5. n = Len(m.fields) /\ TagAt(q, 1).type = "array"
      /\ \A i \in DOMAIN m.fields : Whole(q, at[i]) /\ FieldAt(q, at[i]) = m.fields[i]
  BY <1>3, <1>4, Zenon DEF ReadsBack
<1>6. PICK shape : shape = Shape(m.kind) /\ Len(shape) = n /\ DOMAIN shape = DOMAIN m.fields
  BY <1>5 DEF IsAgentMessage
<1>7. m.fields \in Seq(Fields) /\ DOMAIN m.fields = 1..n /\ n \in Nat /\ Len(shape) <= n
  BY <1>2, <1>5, <1>6 DEF IsMessage
<1>8. PICK fields : fields = [i \in DOMAIN shape |-> FieldAt(q, at[i])]
  OBVIOUS
<1>9. fields = m.fields
  <2>1. m.fields = [i \in DOMAIN m.fields |-> m.fields[i]]
    BY <1>7
  <2>. QED  BY <1>5, <1>6, <1>8, <2>1
<1>10. \A i \in 1..n : Whole(q, at[i])
  BY <1>5, <1>7, Zenon
<1>11. ReadByKernel(m.kind, q) =
          IF \A i \in DOMAIN shape : Takes(shape[i], fields[i]) THEN Message(m.kind, fields) ELSE Refused
  BY <1>4, <1>5, <1>6, <1>7, <1>8, <1>10, Zenon DEF ReadByKernel
<1>12. (\A i \in DOMAIN shape : Takes(shape[i], fields[i])) <=> Taken(m)
  BY <1>6, <1>9, Zenon DEF Taken
<1>13. Taken(m) <=> AllHavePlace(m)
  BY DEF IsAgentMessage
<1>14. Message(m.kind, fields) = m
  BY <1>2, <1>9 DEF IsMessage
<1>. QED  BY <1>1, <1>11, <1>12, <1>13, <1>14, Zenon

-----------------------------------------------------------------------------
(* The inductive invariant of the channel: nothing is under way, or a        *)
(* message of one side is on its way, or it has arrived or was refused.      *)
OnItsWay(bytes) == wire = [type |-> TypeOf(sent.kind), bytes |-> bytes] /\ got = Nothing

AtRest(m) == wire = Idle /\ got = m

KernelWay == sent \in KernelMessages /\ Serializes(sent) /\ OnItsWay(Serialized(sent))
KernelEnd == sent \in KernelMessages /\ AtRest(IF Serializes(sent) THEN sent ELSE Refused)
AgentWay == sent \in AgentMessages /\ OnItsWay(Encoded(sent))
AgentEnd == sent \in AgentMessages /\ AtRest(IF AllHavePlace(sent) THEN sent ELSE Refused)

WireInd == (sent = Nothing /\ AtRest(Nothing)) \/ KernelWay \/ KernelEnd \/ AgentWay \/ AgentEnd

LEMMA EmptyIsWellFormed == WellFormed(<<>>)
<1>0. PICK s : s = <<>>
  OBVIOUS
<1>1. s \in Seq(Byte) /\ Len(s) = 0
  BY <1>0
<1>2. PICK f : WellFormed(s) = f[1] /\ Formed(f, s)
  BY <1>1, WellFormedForms
<1>3. 1 \in 1..Len(s) + 1 /\ 1 > Len(s)
  BY <1>1
<1>4. f[1]
  BY <1>2, <1>3, Zenon DEF Formed
<1>. QED  BY <1>0, <1>2, <1>4

LEMMA CheckedText ==
  ASSUME NEW s \in Seq(Byte), NoNull(s)
  PROVE  CheckNoNull(s) <=> WellFormed(s)
<1>1. FALSE \in BOOLEAN
  OBVIOUS
<1>2. Check(s, FALSE) <=> WellFormed(s) /\ (FALSE \/ NoNull(s))
  BY <1>1, CheckIsWellFormed
<1>. QED  BY <1>2, Zenon DEF CheckNoNull

(* A message of the kernel is written unless a text is no UTF-8.             *)
AllWellFormed(m) == \A i \in DOMAIN m.fields : WellFormed(m.fields[i].text)

LEMMA SerializesText ==
  ASSUME NEW m, IsKernelMessage(m)
  PROVE  /\ Serializes(m) <=> AllWellFormed(m)
         /\ Serialized(m) = Encoded(m)
<1>1. InRoom(m) /\ IsMessage(m, KernelKinds) /\ \A i \in DOMAIN m.fields : NoNull(m.fields[i].text)
  BY DEF IsKernelMessage
<1>2. \A i \in DOMAIN m.fields : m.fields[i].text \in Seq(Byte)
  <2>1. PICK fields \in Seq(Fields) : fields = m.fields
    BY <1>1 DEF IsMessage
  <2>2. \A f \in Fields : f.text \in Seq(Byte)
    BY DEF Fields
  <2>3. \A i \in DOMAIN fields : fields[i] \in Fields
    OBVIOUS
  <2>. QED  BY <2>1, <2>2, <2>3
<1>3. TextsAreUtf8(m) <=> AllWellFormed(m)
  BY <1>1, <1>2, CheckedText DEF TextsAreUtf8, AllWellFormed
<1>4. m.kind = "destroy_device_result" => AllWellFormed(m)
  BY EmptyIsWellFormed DEF IsKernelMessage, AllWellFormed
<1>. QED  BY <1>1, <1>3, <1>4, Zenon DEF Serializes, Serialized

LEMMA SentDiffers ==
  /\ \A m : m.kind \in KernelKinds \cup AgentKinds => m # Nothing
  /\ Nothing.kind \notin KernelKinds \cup AgentKinds
  /\ Refused # Nothing
<1>1. Nothing.kind = "nothing" /\ Refused.kind = "refused"
  BY DEF Nothing, Refused, Message
<1>. QED  BY <1>1, KindsDiffer

LEMMA WireIndArrives ==
  ASSUME WireAssumption, WireInd
  PROVE  MessagesArrive
<1>1. CASE got = Nothing
  BY <1>1, Zenon DEF MessagesArrive, KernelMessageArrives, AgentMessageArrives
<1>2. CASE KernelEnd
  <2>1. IsKernelMessage(sent) /\ sent.kind \in KernelKinds /\ sent.kind \notin AgentKinds
    BY <1>2, KernelMessageIs, KindsDiffer DEF KernelEnd, IsKernelMessage, IsMessage
  <2>2. got = IF AllWellFormed(sent) THEN sent ELSE Refused
    BY <1>2, <2>1, SerializesText, Zenon DEF KernelEnd, AtRest
  <2>. QED  BY <2>1, <2>2, Zenon DEF MessagesArrive, KernelMessageArrives, AgentMessageArrives, AllWellFormed
<1>3. CASE AgentEnd
  <2>1. sent.kind \notin KernelKinds
    BY <1>3, AgentMessageIs, KindsDiffer DEF AgentEnd, IsAgentMessage, IsMessage
  <2>2. got = IF AllHavePlace(sent) THEN sent ELSE Refused
    BY <1>3, Zenon DEF AgentEnd, AtRest
  <2>. QED  BY <2>1, <2>2, Zenon DEF MessagesArrive, KernelMessageArrives, AgentMessageArrives, AllHavePlace
<1>4. got = Nothing \/ KernelEnd \/ AgentEnd
  BY Zenon DEF WireInd, KernelWay, AgentWay, OnItsWay, AtRest
<1>. QED  BY <1>1, <1>2, <1>3, <1>4

-----------------------------------------------------------------------------
LEMMA KernelSendsKeeps ==
  ASSUME WireAssumption, WireInd, KernelSends
  PROVE  WireInd'
<1>1. PICK m \in KernelMessages :
         /\ sent' = m
         /\ IF Serializes(m)
            THEN wire' = [type |-> TypeOf(m.kind), bytes |-> Serialized(m)] /\ got' = Nothing
            ELSE wire' = Idle /\ got' = Refused
  BY Zenon DEF KernelSends
<1>2. CASE Serializes(m)
  BY <1>1, <1>2, Zenon DEF WireInd, KernelWay, OnItsWay
<1>3. CASE ~Serializes(m)
  BY <1>1, <1>3, Zenon DEF WireInd, KernelEnd, AtRest
<1>. QED  BY <1>2, <1>3

LEMMA AgentSendsKeeps ==
  ASSUME WireAssumption, WireInd, AgentSends
  PROVE  WireInd'
<1>1. PICK m \in AgentMessages :
         sent' = m /\ wire' = [type |-> TypeOf(m.kind), bytes |-> Encoded(m)]
  BY Zenon DEF AgentSends
<1>2. sent = Nothing /\ got' = got
  BY Zenon DEF AgentSends
<1>3. got = Nothing
  <2>1. Nothing \notin KernelMessages
    BY KernelMessageIs, SentDiffers DEF IsKernelMessage, IsMessage
  <2>2. Nothing \notin AgentMessages
    BY AgentMessageIs, SentDiffers DEF IsAgentMessage, IsMessage
  <2>. QED  BY <1>2, <2>1, <2>2, Zenon DEF WireInd, AtRest, KernelWay, KernelEnd, AgentWay, AgentEnd
<1>. QED  BY <1>1, <1>2, <1>3, Zenon DEF WireInd, AgentWay, OnItsWay

(* Which messages can be received.                                           *)
LEMMA WhatArrives ==
  ASSUME WireAssumption, WireInd
  PROVE  /\ wire.type \in {TypeOf(k) : k \in KernelKinds} => KernelWay
         /\ wire.type \in {TypeOf(k) : k \in AgentKinds} => AgentWay
<1>1. CASE wire = Idle
  <2>1. wire.type = 0
    BY <1>1 DEF Idle
  <2>. QED  BY <2>1, TypesOfSides
<1>2. CASE KernelWay
  <2>1. sent.kind \in KernelKinds
    BY <1>2, KernelMessageIs DEF KernelWay, IsKernelMessage, IsMessage
  <2>2. wire.type = TypeOf(sent.kind)
    BY <1>2 DEF KernelWay, OnItsWay
  <2>. QED  BY <1>2, <2>1, <2>2, TypesOfSides
<1>3. CASE AgentWay
  <2>1. sent.kind \in AgentKinds
    BY <1>3, AgentMessageIs DEF AgentWay, IsAgentMessage, IsMessage
  <2>2. wire.type = TypeOf(sent.kind)
    BY <1>3 DEF AgentWay, OnItsWay
  <2>. QED  BY <1>3, <2>1, <2>2, TypesOfSides
<1>4. wire = Idle \/ KernelWay \/ AgentWay
  BY Zenon DEF WireInd, KernelEnd, AgentEnd, AtRest
<1>. QED  BY <1>1, <1>2, <1>3, <1>4

LEMMA AgentReceivesKeeps ==
  ASSUME WireAssumption, WireInd, AgentReceives
  PROVE  WireInd'
<1>1. /\ wire.type \in {TypeOf(k) : k \in KernelKinds} /\ wire' = Idle /\ sent' = sent
      /\ got' = ReadByAgent(KindOf(wire.type), wire.bytes)
  BY Zenon DEF AgentReceives
<1>2. KernelWay
  BY <1>1, WhatArrives
<1>3. sent \in KernelMessages /\ Serializes(sent) /\ IsKernelMessage(sent)
  BY <1>2, KernelMessageIs DEF KernelWay
<1>4. IsMessage(sent, KernelKinds) /\ sent.kind \in KernelKinds \cup AgentKinds
  BY <1>3 DEF IsKernelMessage, IsMessage
<1>5. wire.type = TypeOf(sent.kind) /\ wire.bytes = Serialized(sent)
  BY <1>2 DEF KernelWay, OnItsWay
<1>6. got' = ReadByAgent(sent.kind, Encoded(sent))
  BY <1>1, <1>3, <1>4, <1>5, KindIsOf, SerializesText
<1>7. got' = sent
  BY <1>4, <1>6, AgentReads
<1>. QED  BY <1>1, <1>3, <1>7, Zenon DEF WireInd, KernelEnd, AtRest

LEMMA KernelReceivesKeeps ==
  ASSUME WireAssumption, WireInd, KernelReceives
  PROVE  WireInd'
<1>1. /\ wire.type \in {TypeOf(k) : k \in AgentKinds} /\ wire' = Idle /\ sent' = sent
      /\ \E tail \in Tails : got' = ReadByKernel(KindOf(wire.type), Seen(wire.bytes, tail))
  BY Zenon DEF KernelReceives
<1>2. AgentWay
  BY <1>1, WhatArrives
<1>3. PICK tail \in Tails : got' = ReadByKernel(KindOf(wire.type), Seen(wire.bytes, tail))
  BY <1>1
<1>4. sent \in AgentMessages /\ IsAgentMessage(sent) /\ tail \in Seq(Byte)
  BY <1>2, AgentMessageIs, ValuesOfMessages DEF AgentWay
<1>5. sent.kind \in KernelKinds \cup AgentKinds
  BY <1>4 DEF IsAgentMessage, IsMessage
<1>6. wire.type = TypeOf(sent.kind) /\ wire.bytes = Encoded(sent)
  BY <1>2 DEF AgentWay, OnItsWay
<1>7. got' = ReadByKernel(sent.kind, Encoded(sent) \o tail)
  BY <1>3, <1>5, <1>6, KindIsOf DEF Seen
<1>8. got' = IF AllHavePlace(sent) THEN sent ELSE Refused
  BY <1>4, <1>7, KernelReads, Zenon
<1>. QED  BY <1>1, <1>4, <1>8, Zenon DEF WireInd, AgentEnd, AtRest

LEMMA DoneKeeps ==
  ASSUME WireInd, Done
  PROVE  WireInd'
<1>1. got # Nothing /\ sent' = Nothing /\ got' = Nothing /\ wire' = wire
  BY Zenon DEF Done
<1>2. wire = Idle
  BY <1>1, Zenon DEF WireInd, KernelWay, KernelEnd, AgentWay, AgentEnd, OnItsWay, AtRest
<1>. QED  BY <1>1, <1>2, Zenon DEF WireInd, AtRest

(* Nothing is on the channel but a message of one side, whole and on its     *)
(* way, or what the other side made of it.                                   *)
THEOREM WireInvariant ==
  ASSUME WireAssumption
  PROVE  WireSpec => []WireInd
<1>1. WireInit => WireInd
  BY Zenon DEF WireInit, WireInd, AtRest
<1>2. WireInd /\ [WireNext]_wireVars => WireInd'
  <2>. SUFFICES ASSUME WireInd, [WireNext]_wireVars PROVE WireInd'
    OBVIOUS
  <2>1. CASE UNCHANGED wireVars
    BY <2>1, Zenon DEF wireVars, WireInd, KernelWay, KernelEnd, AgentWay, AgentEnd, OnItsWay, AtRest
  <2>2. CASE WireNext
    BY <2>2, KernelSendsKeeps, AgentReceivesKeeps, AgentSendsKeeps, KernelReceivesKeeps, DoneKeeps, Zenon
       DEF WireNext
  <2>. QED  BY <2>1, <2>2
<1>. QED  BY <1>1, <1>2, PTL DEF WireSpec

(* Every message arrives as it was written, or is refused for the reason     *)
(* MessagesArrive names: what serializers, netlink and deserializers of both *)
(* sides do to it, for every value of its fields and whatever lies behind it *)
(* in the kernel's memory.                                                   *)
THEOREM WireIsSound ==
  ASSUME WireAssumption
  PROVE  WireSpec => []MessagesArrive
<1>1. WireInd => MessagesArrive
  BY WireIndArrives
<1>. QED  BY <1>1, WireInvariant, PTL

-----------------------------------------------------------------------------
(* Connection: for every set of part types and every number of parts.       *)

(* InOrder goes from number to number.                                       *)
Enumerates(f, S, n) ==
    /\ f \in [0..n -> Seq(1..n)] /\ f[0] = <<>>
    /\ \A i \in 1..n : f[i] = IF i \in S THEN Append(f[i - 1], i) ELSE f[i - 1]

LEMMA InOrderEnumerates ==
  ASSUME NEW S, NEW n \in Nat
  PROVE  \E f : Enumerates(f, S, n) /\ InOrder(S, n) = f[n]
<1>. DEFINE Is(f) == f = [i \in 0..n |-> IF i = 0 THEN <<>>
                                        ELSE IF i \in S THEN Append(f[i - 1], i) ELSE f[i - 1]]
            step == [i \in 1..n |-> [q \in Seq(1..n) |-> IF i \in S THEN Append(q, i) ELSE q]]
            g == CHOOSE f : Is(f)
<1>1. step \in [1..n -> [Seq(1..n) -> Seq(1..n)]]
  <2>1. ASSUME NEW i \in 1..n, NEW q \in Seq(1..n)
        PROVE  (IF i \in S THEN Append(q, i) ELSE q) \in Seq(1..n)
    <3>1. Append(q, i) \in Seq(1..n)
      BY AppendProperties
    <3>. QED  BY <3>1
  <2>. QED  BY <2>1
<1>2. PICK f \in [0..n -> Seq(1..n)] : Follows(f, n, <<>>, step)
  <2>1. <<>> \in Seq(1..n)
    OBVIOUS
  <2>. HIDE DEF step
  <2>. QED  BY <1>1, <2>1, RecursiveFunction
<1>3. ASSUME NEW i \in 1..n
      PROVE  f[i] = IF i \in S THEN Append(f[i - 1], i) ELSE f[i - 1]
  <2>1. PICK j \in 0..n - 1 : i = j + 1 /\ i - 1 = j /\ j \in 0..n
    OBVIOUS
  <2>2. f[j + 1] = step[j + 1][f[j]]
    <3>. HIDE DEF step
    <3>. QED  BY <1>2, <2>1 DEF Follows
  <2>3. f[j] \in Seq(1..n)
    BY <2>1
  <2>4. f[i] = step[i][f[j]]
    BY <2>1, <2>2
  <2>. QED  BY <2>1, <2>3, <2>4
<1>4. f[0] = <<>>
  <2>. HIDE DEF step
  <2>. QED  BY <1>2 DEF Follows
<1>5. Is(f)
  <2>1. \A i \in 0..n : f[i] = IF i = 0 THEN <<>> ELSE IF i \in S THEN Append(f[i - 1], i) ELSE f[i - 1]
    <3>. TAKE i \in 0..n
    <3>1. CASE i = 0
      BY <1>4, <3>1
    <3>2. CASE i # 0
      <4>1. i \in 1..n
        BY <3>2
      <4>. QED  BY <1>3, <3>2, <4>1
    <3>. QED  BY <3>1, <3>2
  <2>. QED  BY <2>1
<1>6. Is(g)
  <2>. HIDE DEF Is
  <2>. QED  BY <1>5
<1>7. InOrder(S, n) = g[n]
  BY DEF InOrder
<1>8. g = [i \in 0..n |-> g[i]]
  BY <1>6
<1>9. \A i \in 0..n : g[i] = IF i = 0 THEN <<>> ELSE IF i \in S THEN Append(g[i - 1], i) ELSE g[i - 1]
  <2>. HIDE DEF g
  <2>. QED  BY <1>6
<1>. HIDE DEF g, Is, step
<1>. DEFINE T == {i \in Nat : i <= n => g[i] = f[i]}
<1>10. 0 \in T
  <2>1. 0 \in 0..n
    OBVIOUS
  <2>2. g[0] = <<>>
    BY <1>9, <2>1
  <2>. QED  BY <1>4, <2>2
<1>11. ASSUME NEW i \in Nat, i \in T PROVE i + 1 \in T
  <2>1. SUFFICES ASSUME i + 1 <= n PROVE g[i + 1] = f[i + 1]
    OBVIOUS
  <2>2. PICK j \in 1..n : j = i + 1 /\ j - 1 = i /\ j \in 0..n /\ j # 0
    BY <2>1
  <2>3. g[i] = f[i]
    BY <1>11, <2>1
  <2>. QED  BY <1>3, <1>9, <2>2, <2>3
<1>12. Nat \subseteq T
  <2>. HIDE DEF T
  <2>. QED  BY <1>10, <1>11, Induction
<1>13. g[n] = f[n]
  BY <1>12
<1>. QED  BY <1>2, <1>3, <1>4, <1>7, <1>13 DEF Enumerates

(* Two enumerations of what is the same up to k agree up to k.               *)
LEMMA EnumeratesAlike ==
  ASSUME NEW S, NEW U, NEW n \in Nat, NEW m \in Nat, NEW k \in Nat, k <= n, k <= m,
         \A i \in 1..k : i \in S <=> i \in U,
         NEW f, NEW g, Enumerates(f, S, n), Enumerates(g, U, m)
  PROVE  f[k] = g[k]
<1>. DEFINE T == {i \in Nat : i <= k => f[i] = g[i]}
<1>1. 0 \in T
  BY DEF Enumerates
<1>2. ASSUME NEW i \in Nat, i \in T PROVE i + 1 \in T
  <2>1. SUFFICES ASSUME i + 1 <= k PROVE f[i + 1] = g[i + 1]
    OBVIOUS
  <2>2. PICK j : j = i + 1 /\ j \in 1..n /\ j \in 1..m /\ j \in 1..k /\ j - 1 = i
    BY <2>1
  <2>3. f[i] = g[i]
    BY <1>2, <2>1
  <2>4. f[j] = IF j \in S THEN Append(f[j - 1], j) ELSE f[j - 1]
    BY <2>2 DEF Enumerates
  <2>5. g[j] = IF j \in U THEN Append(g[j - 1], j) ELSE g[j - 1]
    BY <2>2 DEF Enumerates
  <2>. QED  BY <2>2, <2>3, <2>4, <2>5
<1>3. Nat \subseteq T
  <2>. HIDE DEF T
  <2>. QED  BY <1>1, <1>2, Induction
<1>. QED  BY <1>3

LEMMA InOrderSame ==
  ASSUME NEW S, NEW U, NEW n \in Nat, \A i \in 1..n : i \in S <=> i \in U
  PROVE  InOrder(S, n) = InOrder(U, n)
<1>1. PICK f : Enumerates(f, S, n) /\ InOrder(S, n) = f[n]
  BY InOrderEnumerates
<1>2. PICK g : Enumerates(g, U, n) /\ InOrder(U, n) = g[n]
  BY InOrderEnumerates
<1>. QED  BY <1>1, <1>2, EnumeratesAlike

LEMMA InOrderNext ==
  ASSUME NEW S, NEW n \in Nat
  PROVE  InOrder(S, n + 1) = IF n + 1 \in S THEN Append(InOrder(S, n), n + 1) ELSE InOrder(S, n)
<1>1. PICK f : Enumerates(f, S, n) /\ InOrder(S, n) = f[n]
  BY InOrderEnumerates
<1>2. PICK g : Enumerates(g, S, n + 1) /\ InOrder(S, n + 1) = g[n + 1]
  BY InOrderEnumerates
<1>3. f[n] = g[n]
  BY <1>1, <1>2, EnumeratesAlike
<1>4. n + 1 \in 1..n + 1 /\ n + 1 - 1 = n
  OBVIOUS
<1>5. g[n + 1] = IF n + 1 \in S THEN Append(g[n], n + 1) ELSE g[n]
  BY <1>2, <1>4 DEF Enumerates
<1>. QED  BY <1>1, <1>2, <1>3, <1>5

LEMMA InOrderWith ==
  ASSUME NEW S, NEW U, NEW n \in Nat, NEW i, i = n + 1, i \in S, \A j \in 1..n : j \in S <=> j \in U
  PROVE  InOrder(S, i) = Append(InOrder(U, n), i)
<1>1. InOrder(S, n) = InOrder(U, n)
  BY InOrderSame
<1>. QED  BY <1>1, InOrderNext

LEMMA InOrderWithout ==
  ASSUME NEW S, NEW U, NEW n \in Nat, NEW i, i = n + 1, i \notin S, \A j \in 1..n : j \in S <=> j \in U
  PROVE  InOrder(S, i) = InOrder(U, n)
<1>1. InOrder(S, n) = InOrder(U, n)
  BY InOrderSame
<1>. QED  BY <1>1, InOrderNext

LEMMA InOrderNothing == ASSUME NEW S PROVE InOrder(S, 0) = <<>>
<1>1. PICK f : Enumerates(f, S, 0) /\ InOrder(S, 0) = f[0]
  BY InOrderEnumerates
<1>. QED  BY <1>1 DEF Enumerates

(* What InOrder gives: the numbers of S, increasing.                         *)
Ordered(q, S, n) ==
    /\ q \in Seq(1..n)
    /\ \A m \in 1..Len(q) : q[m] \in S
    /\ \A l, m \in 1..Len(q) : l < m => q[l] < q[m]
    /\ \A x \in 1..n : x \in S => \E m \in 1..Len(q) : q[m] = x

LEMMA InOrderIsOrdered ==
  ASSUME NEW S, NEW n \in Nat
  PROVE  Ordered(InOrder(S, n), S, n)
<1>. DEFINE T == {k \in Nat : Ordered(InOrder(S, k), S, k)}
<1>1. 0 \in T
  <2>1. <<>> \in Seq(1..0) /\ Len(<<>>) = 0
    OBVIOUS
  <2>2. Ordered(<<>>, S, 0)
    BY <2>1 DEF Ordered
  <2>. QED  BY <2>2, InOrderNothing
<1>2. ASSUME NEW k \in Nat, k \in T PROVE k + 1 \in T
  <2>1. PICK q, r, j : q = InOrder(S, k) /\ r = InOrder(S, k + 1) /\ j = k + 1 /\ j \in Nat
    OBVIOUS
  <2>2. q \in Seq(1..j) /\ (\A m \in 1..Len(q) : q[m] \in 1..k) /\ Ordered(q, S, k)
    BY <1>2, <2>1 DEF Ordered
  <2>3. r = IF j \in S THEN Append(q, j) ELSE q
    BY <2>1, InOrderNext
  <2>4. Ordered(r, S, j)
    <3>1. CASE j \notin S
      <4>1. \A x \in 1..j : x \in S => x \in 1..k
        BY <2>1, <3>1
      <4>. QED  BY <2>2, <2>3, <3>1, <4>1 DEF Ordered
    <3>2. CASE j \in S
      <4>1. PICK l \in Nat : l = Len(q)
        BY <2>2
      <4>2. r \in Seq(1..j) /\ Len(r) = l + 1 /\ r[l + 1] = j /\ \A m \in 1..l : r[m] = q[m]
        <5>1. r = Append(q, j) /\ j \in 1..j
          BY <2>1, <2>3, <3>2
        <5>. QED  BY <2>2, <4>1, <5>1, AppendProperties
      <4>3. \A m \in 1..l + 1 : r[m] \in S
        <5>. TAKE m \in 1..l + 1
        <5>1. m \in 1..l \/ m = l + 1
          OBVIOUS
        <5>. QED  BY <2>2, <3>2, <4>1, <4>2, <5>1 DEF Ordered
      <4>4. ASSUME NEW a \in 1..l + 1, NEW m \in 1..l + 1, a < m PROVE r[a] < r[m]
        <5>1. a \in 1..l
          BY <4>4
        <5>2. CASE m \in 1..l
          BY <2>2, <4>1, <4>2, <4>4, <5>1, <5>2 DEF Ordered
        <5>3. CASE m = l + 1
          <6>1. q[a] \in 1..k
            BY <2>2, <4>1, <5>1
          <6>. QED  BY <2>1, <4>2, <5>1, <5>3, <6>1
        <5>. QED  BY <5>2, <5>3
      <4>5. ASSUME NEW x \in 1..j, x \in S PROVE \E m \in 1..l + 1 : r[m] = x
        <5>1. CASE x = j
          <6>1. l + 1 \in 1..l + 1
            OBVIOUS
          <6>. QED  BY <4>2, <5>1, <6>1
        <5>2. CASE x # j
          <6>1. x \in 1..k
            BY <2>1, <5>2
          <6>2. PICK m \in 1..l : q[m] = x
            BY <2>2, <4>1, <4>5, <6>1 DEF Ordered
          <6>3. m \in 1..l + 1
            OBVIOUS
          <6>. QED  BY <4>2, <6>2, <6>3
        <5>. QED  BY <5>1, <5>2
      <4>. QED  BY <4>2, <4>3, <4>4, <4>5 DEF Ordered
    <3>. QED  BY <3>1, <3>2
  <2>. QED  BY <2>1, <2>4
<1>3. Nat \subseteq T
  <2>. HIDE DEF T
  <2>. QED  BY <1>1, <1>2, Induction
<1>. QED  BY <1>3

-----------------------------------------------------------------------------
(* What the log is: an end of a sequence stands behind one of its parts.     *)
TypesOfParts == PartTypes \cup {MultiDone}

LogOK ==
    /\ log \in Seq([type : TypesOfParts, multi : BOOLEAN])
    /\ \A i \in 1..Len(log) : log[i].type = MultiDone => GoesOn(i - 1)

LEMMA MessagesAre ==
  ASSUME NEW n \in Nat
  PROVE  \E q : /\ q = InOrder(Beginnings(n), n) /\ Ordered(q, Beginnings(n), n)
                /\ Len(q) \in Nat
                /\ MessagesIn(n) = [m \in 1..Len(q) |->
                                      [type |-> log[q[m]].type, data |-> InOrder(Extent(q[m], n), n)]]
<1>1. PICK q : q = InOrder(Beginnings(n), n)
  OBVIOUS
<1>2. Ordered(q, Beginnings(n), n)
  BY <1>1, InOrderIsOrdered
<1>3. q \in Seq(1..n) /\ Len(q) \in Nat /\ DOMAIN q = 1..Len(q)
  BY <1>2 DEF Ordered
<1>4. MessagesIn(n) = [m \in DOMAIN q |-> [type |-> log[q[m]].type, data |-> InOrder(Extent(q[m], n), n)]]
  BY <1>1, Zenon DEF MessagesIn
<1>. QED  BY <1>1, <1>2, <1>3, <1>4

LEMMA AppendIs ==
  ASSUME NEW X, NEW e \in Seq(X), NEW z \in X
  PROVE  Append(e, z) = [m \in 1..Len(e) + 1 |-> IF m = Len(e) + 1 THEN z ELSE e[m]]
<1>1. PICK l \in Nat : l = Len(e)
  BY LenProperties
<1>2. PICK a : a = Append(e, z) /\ a \in Seq(X)
  BY AppendProperties
<1>3. Len(a) = l + 1 /\ a[l + 1] = z /\ \A m \in 1..l : a[m] = e[m]
  BY <1>1, <1>2, AppendProperties
<1>4. a = [m \in 1..l + 1 |-> a[m]]
  <2>1. a \in [1..Len(a) -> X]
    BY <1>2, LenProperties
  <2>2. a \in [1..l + 1 -> X]
    BY <1>3, <2>1, Zenon
  <2>. QED  BY <2>2
<1>5. \A m \in 1..l + 1 : a[m] = IF m = l + 1 THEN z ELSE e[m]
  BY <1>3
<1>. QED  BY <1>1, <1>2, <1>4, <1>5

(* A part that ends a sequence is in no message.                             *)
LEMMA EndAddsNothing ==
  ASSUME NEW n \in Nat, LogOK, n + 1 <= Len(log), log[n + 1].type = MultiDone
  PROVE  MessagesIn(n + 1) = MessagesIn(n)
<1>1. PICK i : i = n + 1 /\ i \in Nat
  OBVIOUS
<1>2. i \notin Beginnings(i) /\ \A j \in 1..n : j \in Beginnings(i) <=> j \in Beginnings(n)
  BY <1>1 DEF Beginnings, Begins
<1>3. InOrder(Beginnings(i), i) = InOrder(Beginnings(n), n)
  BY <1>1, <1>2, InOrderWithout
<1>4. PICK q : /\ q = InOrder(Beginnings(n), n) /\ Ordered(q, Beginnings(n), n) /\ Len(q) \in Nat
               /\ MessagesIn(n) = [m \in 1..Len(q) |->
                                     [type |-> log[q[m]].type, data |-> InOrder(Extent(q[m], n), n)]]
  BY MessagesAre
<1>5. PICK r : /\ r = InOrder(Beginnings(i), i)
               /\ MessagesIn(i) = [m \in 1..Len(r) |->
                                     [type |-> log[r[m]].type, data |-> InOrder(Extent(r[m], i), i)]]
  BY <1>1, MessagesAre
<1>6. ASSUME NEW m \in 1..Len(q)
      PROVE  InOrder(Extent(q[m], i), i) = InOrder(Extent(q[m], n), n)
  <2>1. i \notin Extent(q[m], i) /\ \A j \in 1..n : j \in Extent(q[m], i) <=> j \in Extent(q[m], n)
    <3>1. q[m] \in 1..n
      BY <1>4 DEF Ordered
    <3>2. PICK b \in 1..n : b = q[m]
      BY <3>1
    <3>. QED  BY <1>1, <3>2 DEF Extent
  <2>. QED  BY <1>1, <2>1, InOrderWithout
<1>7. r = q
  BY <1>3, <1>4, <1>5
<1>. QED  BY <1>1, <1>4, <1>5, <1>6, <1>7

(* A part with which a message begins is a message behind the others.        *)
LEMMA BeginningAdds ==
  ASSUME NEW n \in Nat, LogOK, n + 1 <= Len(log), Begins(n + 1)
  PROVE  MessagesIn(n + 1) = Append(MessagesIn(n), [type |-> log[n + 1].type, data |-> <<n + 1>>])
<1>1. PICK i : i = n + 1 /\ i \in Nat
  OBVIOUS
<1>2. i \in Beginnings(i) /\ \A j \in 1..n : j \in Beginnings(i) <=> j \in Beginnings(n)
  BY <1>1 DEF Beginnings
<1>3. InOrder(Beginnings(i), i) = Append(InOrder(Beginnings(n), n), i)
  BY <1>1, <1>2, InOrderWith
<1>4. PICK q : /\ q = InOrder(Beginnings(n), n) /\ Ordered(q, Beginnings(n), n) /\ Len(q) \in Nat
               /\ MessagesIn(n) = [m \in 1..Len(q) |->
                                     [type |-> log[q[m]].type, data |-> InOrder(Extent(q[m], n), n)]]
  BY MessagesAre
<1>5. PICK r : /\ r = InOrder(Beginnings(i), i) /\ Len(r) \in Nat
               /\ MessagesIn(i) = [m \in 1..Len(r) |->
                                     [type |-> log[r[m]].type, data |-> InOrder(Extent(r[m], i), i)]]
  BY <1>1, MessagesAre
<1>6. PICK l \in Nat : l = Len(q)
  BY <1>4
<1>7. Len(r) = l + 1 /\ r[l + 1] = i /\ \A m \in 1..l : r[m] = q[m] /\ q[m] \in 1..n
  <2>1. q \in Seq(1..i) /\ i \in 1..i /\ r = Append(q, i) /\ \A m \in 1..l : q[m] \in 1..n
    <3>1. q \in Seq(1..n) /\ 1..n \subseteq 1..i
      BY <1>1, <1>4 DEF Ordered
    <3>. QED  BY <1>1, <1>3, <1>4, <1>5, <1>6, <3>1
  <2>. QED  BY <1>6, <2>1, AppendProperties
<1>8. ASSUME NEW m \in 1..l
      PROVE  InOrder(Extent(q[m], i), i) = InOrder(Extent(q[m], n), n)
  <2>1. PICK b \in 1..n : b = q[m]
    BY <1>7
  <2>2. i \notin Extent(b, i)
    <3>1. i \in b + 1..i
      BY <1>1
    <3>. QED  BY <1>1, <3>1 DEF Extent
  <2>3. \A j \in 1..n : j \in Extent(b, i) <=> j \in Extent(b, n)
    BY <1>1 DEF Extent
  <2>. QED  BY <1>1, <2>1, <2>2, <2>3, InOrderWithout
<1>9. InOrder(Extent(i, i), i) = <<i>>
  <2>1. i \in Extent(i, i) /\ \A j \in 1..n : j \notin Extent(i, i)
    BY <1>1 DEF Extent, Begins
  <2>2. \A j \in 1..n : j \in Extent(i, i) <=> j \in {}
    BY <2>1
  <2>3. InOrder(Extent(i, i), n) = InOrder({}, n)
    BY <2>2, InOrderSame
  <2>4. InOrder({}, n) = <<>>
    <3>1. PICK e : e = InOrder({}, n) /\ Ordered(e, {}, n)
      BY InOrderIsOrdered
    <3>2. e \in Seq(1..n) /\ Len(e) = 0
      BY <3>1 DEF Ordered
    <3>. QED  BY <3>1, <3>2, EmptySeq
  <2>5. InOrder(Extent(i, i), i) = Append(<<>>, i)
    BY <1>1, <2>1, <2>3, <2>4, InOrderNext
  <2>. QED  BY <2>5
<1>10. PICK e, z : e = MessagesIn(n) /\ z = [type |-> log[i].type, data |-> <<i>>]
  OBVIOUS
<1>11. Append(e, z) = [m \in 1..l + 1 |-> IF m = l + 1 THEN z ELSE e[m]]
  <2>1. e \in Seq({e[m] : m \in 1..l} \cup {z}) /\ Len(e) = l
    <3>1. e = [m \in 1..l |-> e[m]]
      BY <1>4, <1>6, <1>10
    <3>. QED  BY <3>1
  <2>2. Append(e, z) = [m \in 1..Len(e) + 1 |-> IF m = Len(e) + 1 THEN z ELSE e[m]]
    <3>1. PICK X : e \in Seq(X) /\ z \in X
      BY <2>1
    <3>. QED  BY <2>1, <3>1, AppendIs
  <2>. QED  BY <2>1, <2>2
<1>12. MessagesIn(i) = [m \in 1..l + 1 |-> IF m = l + 1 THEN z ELSE e[m]]
  <2>1. \A m \in 1..l : e[m] = [type |-> log[q[m]].type, data |-> InOrder(Extent(q[m], n), n)]
    BY <1>4, <1>6, <1>10
  <2>2. ASSUME NEW m \in 1..l + 1
        PROVE  [type |-> log[r[m]].type, data |-> InOrder(Extent(r[m], i), i)] = IF m = l + 1 THEN z ELSE e[m]
    <3>1. CASE m = l + 1
      BY <1>7, <1>9, <1>10, <3>1
    <3>2. CASE m # l + 1
      <4>1. m \in 1..l
        BY <3>2
      <4>. QED  BY <1>7, <1>8, <2>1, <3>2, <4>1
    <3>. QED  BY <3>1, <3>2
  <2>. QED  BY <1>5, <1>7, <2>2
<1>. QED  BY <1>1, <1>10, <1>11, <1>12

(* Any other part becomes the last part of the last message.                 *)
GrowsLast(e, f, i) ==
    /\ Len(e) \in Nat \ {0} /\ DOMAIN e = 1..Len(e)
    /\ f = [m \in 1..Len(e) |->
             IF m = Len(e) THEN [type |-> e[m].type, data |-> Append(e[m].data, i)] ELSE e[m]]

LEMMA OtherPartExtends ==
  ASSUME NEW n \in Nat, LogOK, NEW i, i = n + 1, i <= Len(log), log[i].type # MultiDone, ~Begins(i),
         NEW e, e = MessagesIn(n)
  PROVE  GrowsLast(e, MessagesIn(i), i)
<1>1. i = n + 1 /\ i \in Nat
  OBVIOUS
<1>2. i \notin Beginnings(i) /\ \A j \in 1..n : j \in Beginnings(i) <=> j \in Beginnings(n)
  BY <1>1 DEF Beginnings
<1>3. InOrder(Beginnings(i), i) = InOrder(Beginnings(n), n)
  BY <1>1, <1>2, InOrderWithout
<1>4. PICK q : /\ q = InOrder(Beginnings(n), n) /\ Ordered(q, Beginnings(n), n) /\ Len(q) \in Nat
               /\ MessagesIn(n) = [m \in 1..Len(q) |->
                                     [type |-> log[q[m]].type, data |-> InOrder(Extent(q[m], n), n)]]
  BY MessagesAre
<1>5. PICK r : /\ r = InOrder(Beginnings(i), i)
               /\ MessagesIn(i) = [m \in 1..Len(r) |->
                                     [type |-> log[r[m]].type, data |-> InOrder(Extent(r[m], i), i)]]
  BY <1>1, MessagesAre
<1>6. PICK l \in Nat : l = Len(q)
  BY <1>4
<1>7. l # 0 /\ \A m \in 1..l : q[m] \in 1..n /\ Begins(q[m])
  <2>1. n >= 1
    <3>1. n # 0
      BY <1>1 DEF Begins
    <3>. QED  BY <3>1
  <2>2. 1 \in Beginnings(n)
    <3>1. 1 \in 1..n /\ 1 \in 1..Len(log)
      BY <2>1
    <3>2. log[1].type # MultiDone
      BY <3>1 DEF LogOK, GoesOn
    <3>. QED  BY <3>1, <3>2 DEF Beginnings, Begins
  <2>3. \E m \in 1..l : q[m] = 1
    BY <1>4, <1>6, <2>1, <2>2 DEF Ordered
  <2>4. \A m \in 1..l : q[m] \in 1..n
    BY <1>4, <1>6 DEF Ordered
  <2>5. \A m \in 1..l : q[m] \in Beginnings(n)
    BY <1>4, <1>6 DEF Ordered
  <2>. QED  BY <2>3, <2>4, <2>5 DEF Beginnings
<1>8. ASSUME NEW m \in 1..l, m # l
      PROVE  InOrder(Extent(q[m], i), i) = InOrder(Extent(q[m], n), n)
  <2>1. PICK b \in 1..n, c \in 1..n : b = q[m] /\ c = q[l] /\ b < c /\ Begins(c)
    <3>1. m < l /\ l \in 1..l
      BY <1>8
    <3>. QED  BY <1>4, <1>6, <1>7, <3>1 DEF Ordered
  <2>2. i \notin Extent(b, i)
    <3>1. c \in b + 1..i
      BY <1>1, <2>1
    <3>. QED  BY <2>1, <3>1 DEF Extent
  <2>3. \A j \in 1..n : j \in Extent(b, i) <=> j \in Extent(b, n)
    BY <1>1 DEF Extent
  <2>. QED  BY <1>1, <2>1, <2>2, <2>3, InOrderWithout
<1>9. InOrder(Extent(q[l], i), i) = Append(InOrder(Extent(q[l], n), n), i)
  <2>1. l \in 1..l
    BY <1>7
  <2>2. PICK b \in 1..n : b = q[l] /\ Begins(b)
    BY <1>7, <2>1
  <2>3. ASSUME NEW k \in b + 1..i, Begins(k) PROVE FALSE
    <3>1. k \in 1..n
      BY <1>1, <2>3
    <3>2. PICK m \in 1..l : q[m] = k
      BY <1>4, <1>6, <2>3, <3>1 DEF Ordered, Beginnings
    <3>3. m = l \/ q[m] < q[l]
      BY <1>4, <1>6, <2>1, <3>2 DEF Ordered
    <3>. QED  BY <2>2, <2>3, <3>2, <3>3
  <2>4. i \in Extent(b, i)
    BY <1>1, <2>3 DEF Extent
  <2>5. \A j \in 1..n : j \in Extent(b, i) <=> j \in Extent(b, n)
    BY <1>1 DEF Extent
  <2>. QED  BY <1>1, <2>2, <2>4, <2>5, InOrderWith
<1>10. e = MessagesIn(n)
  OBVIOUS
<1>11. \A m \in 1..l : e[m] = [type |-> log[q[m]].type, data |-> InOrder(Extent(q[m], n), n)]
  BY <1>4, <1>6, <1>10
<1>12. Len(e) = l /\ DOMAIN e = 1..l
  BY <1>4, <1>6, <1>10
<1>13. \A m \in 1..l : [type |-> log[q[m]].type, data |-> InOrder(Extent(q[m], i), i)]
          = IF m = l THEN [type |-> e[m].type, data |-> Append(e[m].data, i)] ELSE e[m]
  <2>. TAKE m \in 1..l
  <2>1. e[m].type = log[q[m]].type /\ e[m].data = InOrder(Extent(q[m], n), n)
    <3>1. PICK t, d : t = log[q[m]].type /\ d = InOrder(Extent(q[m], n), n)
      OBVIOUS
    <3>2. e[m] = [type |-> t, data |-> d]
      BY <1>11, <3>1
    <3>. QED  BY <3>1, <3>2
  <2>2. CASE m = l
    BY <1>9, <2>1, <2>2
  <2>3. CASE m # l
    BY <1>8, <1>11, <2>3
  <2>. QED  BY <2>2, <2>3
<1>14. MessagesIn(i) = [m \in 1..l |-> [type |-> log[q[m]].type, data |-> InOrder(Extent(q[m], i), i)]]
  BY <1>3, <1>4, <1>5, <1>6
<1>15. MessagesIn(i) = [m \in 1..l |->
          IF m = l THEN [type |-> e[m].type, data |-> Append(e[m].data, i)] ELSE e[m]]
  BY <1>13, <1>14
<1>. QED  BY <1>1, <1>7, <1>10, <1>12, <1>15 DEF GrowsLast

-----------------------------------------------------------------------------
(* The loop over the parts of a datagram.                                    *)
Messages == [type : TypesOfParts, data : Seq(Nat), done : BOOLEAN]

Connections == [pending : Seq(Messages), inMulti : BOOLEAN, panicked : BOOLEAN]

LEMMA TakeIsConnection ==
  ASSUME LogOK, NEW i \in 1..Len(log), NEW c \in Connections
  PROVE  Take(c, i) \in Connections
<1>1. log[i].type \in TypesOfParts /\ log[i].multi \in BOOLEAN /\ i \in Nat
  <2>1. log[i] \in [type : TypesOfParts, multi : BOOLEAN]
    <3>1. log \in Seq([type : TypesOfParts, multi : BOOLEAN])
      BY DEF LogOK
    <3>. QED  BY <3>1, ElementOfSeq
  <2>. QED  BY <2>1
<1>2. \A x \in BOOLEAN : Add(c, i, x) \in Connections
  <2>. TAKE x \in BOOLEAN
  <2>1. MultiMessage(log[i].type, <<i>>, ~x) \in Messages
    BY <1>1 DEF MultiMessage, Messages
  <2>2. Append(c.pending, MultiMessage(log[i].type, <<i>>, ~x)) \in Seq(Messages)
    BY <2>1 DEF Connections
  <2>. QED  BY <2>2 DEF Add, Connections
<1>3. ASSUME c.pending # <<>>
      PROVE  Finish(c) \in Connections /\ Extend(c, i) \in Connections
  <2>1. PICK p \in Seq(Messages), l \in Nat : p = c.pending /\ l = Len(p) /\ l \in 1..l
    <3>1. c.pending \in Seq(Messages) /\ Len(c.pending) # 0 /\ Len(c.pending) \in Nat
      BY <1>3, EmptySeq DEF Connections
    <3>. QED  BY <3>1
  <2>2. p[l] \in Messages /\ DOMAIN p = 1..l
    BY <2>1
  <2>3. [p[l] EXCEPT !.done = TRUE] \in Messages
    BY <2>2 DEF Messages
  <2>4. [p[l] EXCEPT !.data = Append(@, i)] \in Messages
    <3>1. PICK x \in Messages, d \in Seq(Nat) : x = p[l] /\ d = x.data
      BY <2>2 DEF Messages
    <3>2. Append(d, i) \in Seq(Nat)
      BY <1>1, AppendProperties
    <3>3. [x EXCEPT !.data = Append(d, i)] \in Messages
      BY <3>2 DEF Messages
    <3>. QED  BY <3>1, <3>3
  <2>5. \A x \in Messages : [p EXCEPT ![l] = x] \in Seq(Messages)
    BY <2>1, <2>2, ExceptSeq
  <2>6. Finish(c) = [c EXCEPT !.inMulti = FALSE, !.pending = [p EXCEPT ![l] = [p[l] EXCEPT !.done = TRUE]]]
    BY <2>1, <2>2 DEF Finish, Connections
  <2>7. Extend(c, i) = [c EXCEPT !.pending = [p EXCEPT ![l] = [p[l] EXCEPT !.data = Append(@, i)]]]
    BY <2>1, <2>2 DEF Extend, Connections
  <2>. QED  BY <2>3, <2>4, <2>5, <2>6, <2>7 DEF Connections
<1>. QED  BY <1>1, <1>2, <1>3 DEF Take, Continue, Connections

(* What the loop has made of the parts up to j: the messages in them, and    *)
(* whether the last one goes on.                                             *)
Knows(c, j) ==
    /\ c \in Connections /\ ~c.panicked /\ (c.inMulti <=> GoesOn(j))
    /\ GoesOn(j) => c.pending # <<>> /\ c.pending[Len(c.pending)].type = log[j].type
    /\ Shown(handed \o c.pending) = MessagesIn(j)

LEMMA ShownAppend ==
  ASSUME NEW h \in Seq(Messages), NEW p \in Seq(Messages), NEW m \in Messages
  PROVE  Shown(h \o Append(p, m)) = Append(Shown(h \o p), [type |-> m.type, data |-> m.data])
<1>1. PICK q \in Seq(Messages), l \in Nat : q = h \o p /\ l = Len(q) /\ DOMAIN q = 1..l
  <2>1. h \o p \in Seq(Messages)
    BY ConcatProperties
  <2>. QED  BY <2>1, LenProperties
<1>2. h \o Append(p, m) = Append(q, m)
  BY <1>1
<1>3. Append(q, m) = [x \in 1..l + 1 |-> IF x = l + 1 THEN m ELSE q[x]]
  <2>1. Append(q, m) = [x \in 1..Len(q) + 1 |-> IF x = Len(q) + 1 THEN m ELSE q[x]]
    BY AppendIs
  <2>. QED  BY <1>1, <2>1, Zenon
<1>4. Shown(Append(q, m)) = [x \in 1..l + 1 |-> IF x = l + 1 THEN [type |-> m.type, data |-> m.data]
                                              ELSE [type |-> q[x].type, data |-> q[x].data]]
  BY <1>3 DEF Shown
<1>5. PICK y, z : y = Shown(q) /\ z = [type |-> m.type, data |-> m.data]
  OBVIOUS
<1>6. y = [x \in 1..l |-> [type |-> q[x].type, data |-> q[x].data]]
  BY <1>1, <1>5 DEF Shown
<1>7. Len(y) = l /\ y \in Seq({y[x] : x \in 1..l} \cup {z})
  <2>1. y = [x \in 1..l |-> y[x]]
    BY <1>6
  <2>2. PICK X : X = {y[x] : x \in 1..l} \cup {z}
    OBVIOUS
  <2>3. \A x \in 1..l : y[x] \in X
    BY <2>2
  <2>4. y \in [1..l -> X]
    BY <2>1, <2>3
  <2>5. y \in Seq(X) /\ Len(y) = l
    BY <2>4
  <2>. QED  BY <2>2, <2>5
<1>8. Append(y, z) = [x \in 1..l + 1 |-> IF x = l + 1 THEN z ELSE y[x]]
  <2>1. PICK X : y \in Seq(X) /\ z \in X
    BY <1>7
  <2>2. Append(y, z) = [x \in 1..Len(y) + 1 |-> IF x = Len(y) + 1 THEN z ELSE y[x]]
    BY <2>1, AppendIs
  <2>. QED  BY <1>7, <2>2, Zenon
<1>9. Append(y, z) = Shown(Append(q, m))
  BY <1>4, <1>5, <1>6, <1>8
<1>. QED  BY <1>1, <1>2, <1>5, <1>9

(* Changing the last message.                                                *)
ChangesLast(h, p, m, q, e) ==
    /\ q \in Seq(Messages) /\ Len(q) = Len(p) /\ q # <<>> /\ q[Len(q)] = m
    /\ Len(e) \in Nat \ {0} /\ DOMAIN e = 1..Len(e)
    /\ e[Len(e)] = [type |-> p[Len(p)].type, data |-> p[Len(p)].data]
    /\ Shown(h \o q) = [x \in 1..Len(e) |->
                          IF x = Len(e) THEN [type |-> m.type, data |-> m.data] ELSE e[x]]

LEMMA ShownLast ==
  ASSUME NEW h \in Seq(Messages), NEW p \in Seq(Messages), p # <<>>, NEW m \in Messages,
         NEW q, q = [p EXCEPT ![Len(p)] = m], NEW e, e = Shown(h \o p)
  PROVE  ChangesLast(h, p, m, q, e)
<1>1. PICK k \in Nat, l \in Nat : k = Len(h) /\ l = Len(p) /\ l # 0 /\ DOMAIN p = 1..l /\ l \in 1..l
  <2>1. Len(h) \in Nat /\ Len(p) \in Nat /\ Len(p) # 0
    BY EmptySeq
  <2>. QED  BY <2>1
<1>2. q = [p EXCEPT ![l] = m]
  BY <1>1
<1>3. q \in Seq(Messages) /\ Len(q) = l /\ q[l] = m /\ \A x \in 1..l : x # l => q[x] = p[x]
  BY <1>1, <1>2, ExceptSeq
<1>4. q # <<>>
  BY <1>1, <1>3, EmptySeq
<1>5. PICK n \in Nat : n = k + l /\ n # 0
  BY <1>1
<1>6. PICK a \in Seq(Messages), b \in Seq(Messages) : a = h \o p /\ b = h \o q
  BY <1>3, ConcatProperties
<1>7. /\ Len(a) = n /\ Len(b) = n /\ DOMAIN a = 1..n /\ DOMAIN b = 1..n
      /\ \A x \in 1..n : a[x] = IF x <= k THEN h[x] ELSE p[x - k]
      /\ \A x \in 1..n : b[x] = IF x <= k THEN h[x] ELSE q[x - k]
  <2>1. \A s \in Seq(Messages) : Len(s) = l =>
           /\ Len(h \o s) = n /\ DOMAIN (h \o s) = 1..n
           /\ \A x \in 1..n : (h \o s)[x] = IF x <= k THEN h[x] ELSE s[x - k]
    <3>. TAKE s \in Seq(Messages)
    <3>. HAVE Len(s) = l
    <3>1. PICK w \in Seq(Messages) : w = h \o s
      BY ConcatProperties
    <3>2. Len(w) = Len(h) + Len(s) /\ DOMAIN w = 1..Len(w)
      BY <3>1, ConcatProperties, LenProperties
    <3>3. \A x \in 1..Len(h) + Len(s) : w[x] = IF x <= Len(h) THEN h[x] ELSE s[x - Len(h)]
      BY <3>1, ConcatProperties
    <3>. QED  BY <1>1, <1>5, <3>1, <3>2, <3>3, Zenon
  <2>. QED  BY <1>1, <1>3, <1>6, <2>1
<1>8. b[n] = m /\ a[n] = p[l]
  <2>1. n \in 1..n /\ ~(n <= k) /\ n - k = l
    BY <1>1, <1>5
  <2>. QED  BY <1>3, <1>7, <2>1
<1>9. ASSUME NEW x \in 1..n, x # n PROVE b[x] = a[x]
  <2>1. CASE x <= k
    BY <1>7, <2>1
  <2>2. CASE ~(x <= k)
    <3>1. PICK y \in 1..l : y = x - k /\ y # l
      BY <1>5, <1>9, <2>2
    <3>. QED  BY <1>3, <1>7, <2>2, <3>1
  <2>. QED  BY <2>1, <2>2
<1>10. e = Shown(a)
  BY <1>6
<1>11. e = [x \in 1..n |-> [type |-> a[x].type, data |-> a[x].data]]
  BY <1>7, <1>10 DEF Shown
<1>12. Shown(b) = [x \in 1..n |-> [type |-> b[x].type, data |-> b[x].data]]
  BY <1>7 DEF Shown
<1>13. Len(e) = n /\ DOMAIN e = 1..n /\ \A x \in 1..n : e[x] = [type |-> a[x].type, data |-> a[x].data]
  BY <1>11
<1>14. \A x \in 1..n : [type |-> b[x].type, data |-> b[x].data]
                        = IF x = n THEN [type |-> m.type, data |-> m.data] ELSE e[x]
  BY <1>8, <1>9, <1>13
<1>15. Shown(b) = [x \in 1..n |-> IF x = n THEN [type |-> m.type, data |-> m.data] ELSE e[x]]
  BY <1>12, <1>14
<1>16. n \in 1..n /\ e[n] = [type |-> p[l].type, data |-> p[l].data]
  BY <1>5, <1>8, <1>13
<1>. QED  BY <1>1, <1>2, <1>3, <1>4, <1>5, <1>6, <1>10, <1>13, <1>15, <1>16 DEF ChangesLast

(* One turn of the loop.                                                     *)
LEMMA TakeKnows ==
  ASSUME LogOK, handed \in Seq(Messages), NEW j \in Nat, NEW i, i = j + 1, i <= Len(log),
         NEW c, Knows(c, j)
  PROVE  Knows(Take(c, i), i) /\ Take(c, i).pending # <<>>
<1>1. /\ i \in 1..Len(log) /\ i \in Nat /\ i - 1 = j /\ i > 0
      /\ log[i].type \in TypesOfParts /\ log[i].multi \in BOOLEAN
  <2>1. log \in Seq([type : TypesOfParts, multi : BOOLEAN])
    BY DEF LogOK
  <2>2. i \in 1..Len(log)
    BY <2>1
  <2>3. log[i] \in [type : TypesOfParts, multi : BOOLEAN]
    BY <2>1, <2>2, ElementOfSeq
  <2>. QED  BY <2>2, <2>3
<1>2. c \in Connections /\ c.pending \in Seq(Messages) /\ ~c.panicked /\ Take(c, i) \in Connections
  BY <1>1, TakeIsConnection DEF Knows, Connections
<1>3. GoesOn(i) <=> log[i].multi /\ log[i].type # MultiDone
  BY <1>1 DEF GoesOn
<1>4. ASSUME NEW x \in BOOLEAN, Begins(i), x <=> GoesOn(i), Take(c, i) = Add(c, i, x)
      PROVE  Knows(Take(c, i), i) /\ Take(c, i).pending # <<>>
  <2>1. PICK m : m = MultiMessage(log[i].type, <<i>>, ~x)
    OBVIOUS
  <2>2. m \in Messages /\ m.type = log[i].type /\ m.data = <<i>>
    BY <1>1, <2>1 DEF MultiMessage, Messages
  <2>3. PICK v : v = Take(c, i) /\ v.pending = Append(c.pending, m) /\ v.inMulti = x /\ ~v.panicked
    BY <1>2, <1>4, <2>1 DEF Add, Connections
  <2>4. Shown(handed \o v.pending) = Append(Shown(handed \o c.pending), [type |-> log[i].type, data |-> <<i>>])
    BY <1>2, <2>2, <2>3, ShownAppend
  <2>5. Shown(handed \o v.pending) = MessagesIn(i)
    BY <1>1, <1>4, <2>4, BeginningAdds DEF Knows
  <2>6. v.pending # <<>> /\ v.pending[Len(v.pending)] = m
    BY <1>2, <2>2, <2>3, AppendProperties
  <2>. QED  BY <1>2, <1>4, <2>2, <2>3, <2>5, <2>6 DEF Knows
<1>5. CASE ~c.inMulti
  <2>1. ~GoesOn(j)
    BY <1>5 DEF Knows
  <2>2. log[i].type # MultiDone /\ Begins(i)
    BY <1>1, <2>1 DEF LogOK, Begins
  <2>3. Take(c, i) = Add(c, i, log[i].multi)
    BY <1>2, <1>5 DEF Take
  <2>. QED  BY <1>1, <1>3, <1>4, <2>2, <2>3
<1>6. CASE c.inMulti
  <2>1. GoesOn(j) /\ c.pending # <<>> /\ c.pending[Len(c.pending)].type = log[j].type /\ j > 0
    BY <1>6 DEF Knows, GoesOn
  <2>2. PICK p \in Seq(Messages) : p = c.pending /\ p # <<>> /\ p[Len(p)] \in Messages
    <3>1. c.pending \in Seq(Messages) /\ c.pending # <<>> /\ Len(c.pending) # 0 /\ Len(c.pending) \in Nat
      BY <1>2, <2>1, EmptySeq
    <3>2. Len(c.pending) \in 1..Len(c.pending)
      BY <3>1
    <3>. QED  BY <3>1, <3>2, ElementOfSeq
  <2>3. PICK e : e = Shown(handed \o p) /\ e = MessagesIn(j)
    BY <2>2 DEF Knows
  <2>4. CASE log[i].type = MultiDone
    <3>1. PICK m : m = [p[Len(p)] EXCEPT !.done = TRUE]
      OBVIOUS
    <3>2. m \in Messages /\ m.type = p[Len(p)].type /\ m.data = p[Len(p)].data
      BY <2>2, <3>1 DEF Messages
    <3>3. PICK q : q = [p EXCEPT ![Len(p)] = m]
      OBVIOUS
    <3>4. /\ q # <<>> /\ Len(e) \in Nat \ {0} /\ DOMAIN e = 1..Len(e)
          /\ e[Len(e)] = [type |-> p[Len(p)].type, data |-> p[Len(p)].data]
          /\ Shown(handed \o q) = [x \in 1..Len(e) |->
                                      IF x = Len(e) THEN [type |-> m.type, data |-> m.data] ELSE e[x]]
      <4>1. ChangesLast(handed, p, m, q, e)
        BY <2>2, <2>3, <3>2, <3>3, ShownLast
      <4>. QED  BY <4>1 DEF ChangesLast
    <3>5. Shown(handed \o q) = e
      <4>1. e = [x \in 1..Len(e) |-> e[x]]
        BY <2>3, <3>4 DEF Shown
      <4>. QED  BY <3>2, <3>4, <4>1
    <3>6. PICK v : v = Take(c, i) /\ v.pending = q /\ v.inMulti = FALSE /\ ~v.panicked
      <4>1. Take(c, i) = Finish(c)
        BY <1>2, <1>6, <2>1, <2>4 DEF Take, Continue
      <4>2. Finish(c).pending = q /\ Finish(c).inMulti = FALSE /\ Finish(c).panicked = c.panicked
        BY <1>2, <2>2, <3>1, <3>3 DEF Finish, Connections
      <4>. QED  BY <1>2, <4>1, <4>2
    <3>7. MessagesIn(i) = e
      BY <1>1, <2>3, <2>4, EndAddsNothing
    <3>. QED  BY <1>2, <1>3, <2>4, <3>4, <3>5, <3>6, <3>7 DEF Knows
  <2>5. CASE log[i].type # MultiDone /\ ~log[i].multi
    <3>1. Take(c, i) = Add(c, i, FALSE)
      BY <1>2, <1>6, <2>1, <2>5 DEF Take, Continue
    <3>2. Begins(i)
      BY <2>5 DEF Begins
    <3>. QED  BY <1>3, <1>4, <2>5, <3>1, <3>2
  <2>6. CASE log[i].type # MultiDone /\ log[i].multi /\ log[i].type # log[j].type
    <3>1. Take(c, i) = Add(c, i, TRUE)
      BY <1>2, <1>6, <2>1, <2>6 DEF Take, Continue
    <3>2. Begins(i)
      BY <1>1, <2>6 DEF Begins
    <3>. QED  BY <1>3, <1>4, <2>6, <3>1, <3>2
  <2>7. CASE log[i].type # MultiDone /\ log[i].multi /\ log[i].type = log[j].type
    <3>1. ~Begins(i)
      BY <1>1, <2>1, <2>7 DEF Begins
    <3>2. PICK d \in Seq(Nat), m \in Messages :
             /\ d = Append(p[Len(p)].data, i)
             /\ m = [p[Len(p)] EXCEPT !.data = Append(@, i)] /\ m.type = p[Len(p)].type /\ m.data = d
      <4>1. PICK z \in Messages : z = p[Len(p)]
        BY <2>2
      <4>2. PICK d : d = Append(z.data, i)
        OBVIOUS
      <4>3. d \in Seq(Nat)
        BY <1>1, <4>1, <4>2, AppendProperties DEF Messages
      <4>4. PICK m : m = [z EXCEPT !.data = d]
        OBVIOUS
      <4>5. m \in Messages /\ m.type = z.type /\ m.data = d
        BY <4>1, <4>3, <4>4 DEF Messages
      <4>. QED  BY <4>1, <4>2, <4>3, <4>4, <4>5
    <3>3. PICK q : q = [p EXCEPT ![Len(p)] = m]
      OBVIOUS
    <3>4. /\ q # <<>> /\ q[Len(q)] = m /\ Len(e) \in Nat \ {0}
          /\ e[Len(e)] = [type |-> p[Len(p)].type, data |-> p[Len(p)].data]
          /\ Shown(handed \o q) = [x \in 1..Len(e) |->
                                      IF x = Len(e) THEN [type |-> m.type, data |-> m.data] ELSE e[x]]
      <4>1. ChangesLast(handed, p, m, q, e)
        BY <2>2, <2>3, <3>3, ShownLast
      <4>. QED  BY <4>1 DEF ChangesLast
    <3>5. PICK v : v = Take(c, i) /\ v.pending = q /\ v.inMulti = TRUE /\ ~v.panicked
      <4>1. Take(c, i) = Extend(c, i)
        BY <1>2, <1>6, <2>1, <2>7 DEF Take, Continue
      <4>2. Extend(c, i).pending = q /\ Extend(c, i).inMulti = c.inMulti /\ Extend(c, i).panicked = c.panicked
        BY <1>2, <2>2, <3>2, <3>3 DEF Extend, Connections
      <4>. QED  BY <1>2, <1>6, <4>1, <4>2
    <3>6. MessagesIn(i) = [x \in 1..Len(e) |->
             IF x = Len(e) THEN [type |-> e[x].type, data |-> Append(e[x].data, i)] ELSE e[x]]
      <4>1. GrowsLast(e, MessagesIn(i), i)
        BY <1>1, <2>3, <2>7, <3>1, OtherPartExtends
      <4>. QED  BY <4>1 DEF GrowsLast
    <3>7. \A x \in 1..Len(e) :
             (IF x = Len(e) THEN [type |-> e[x].type, data |-> Append(e[x].data, i)] ELSE e[x])
             = (IF x = Len(e) THEN [type |-> m.type, data |-> m.data] ELSE e[x])
      <4>1. e[Len(e)].type = m.type /\ Append(e[Len(e)].data, i) = m.data
        BY <3>2, <3>4
      <4>. QED  BY <4>1
    <3>8. Shown(handed \o v.pending) = MessagesIn(i)
      <4>. DEFINE A(x) == IF x = Len(e) THEN [type |-> e[x].type, data |-> Append(e[x].data, i)]
                          ELSE e[x]
                  B(x) == IF x = Len(e) THEN [type |-> m.type, data |-> m.data] ELSE e[x]
      <4>1. MessagesIn(i) = [x \in 1..Len(e) |-> A(x)]
        BY <3>6, Zenon
      <4>2. Shown(handed \o q) = [x \in 1..Len(e) |-> B(x)]
        BY <3>4, Zenon
      <4>3. \A x \in 1..Len(e) : A(x) = B(x)
        BY <3>7, Zenon
      <4>4. v.pending = q
        BY <3>5, Zenon
      <4>. HIDE DEF A, B
      <4>5. [x \in 1..Len(e) |-> A(x)] = [x \in 1..Len(e) |-> B(x)]
        BY <4>3, Zenon
      <4>. QED  BY <4>1, <4>2, <4>4, <4>5, Zenon
    <3>9. v.pending[Len(v.pending)].type = log[i].type
      <4>1. v.pending[Len(v.pending)] = m
        BY <3>4, <3>5, Zenon
      <4>2. m.type = log[i].type
        BY <2>1, <2>2, <2>7, <3>2
      <4>. QED  BY <4>1, <4>2, Zenon
    <3>. QED  BY <1>2, <1>3, <2>7, <3>4, <3>5, <3>8, <3>9 DEF Knows
  <2>. QED  BY <1>1, <2>4, <2>5, <2>6, <2>7
<1>. QED  BY <1>2, <1>5, <1>6 DEF Connections

(* The loop goes from part to part.                                          *)
Runs(f, a, b, c) ==
    /\ f \in [a..b -> Connections] /\ f[a] = c
    /\ \A i \in a + 1..b : f[i] = Take(f[i - 1], i)

LEMMA TakenFromRuns ==
  ASSUME LogOK, NEW k, NEW a \in Nat, NEW b \in Nat, a = EndOf(k - 1), b = ends[k],
         a < b, b <= Len(log), NEW c \in Connections,
         c = [pending |-> pending, inMulti |-> inMulti, panicked |-> FALSE]
  PROVE  \E f : Runs(f, a, b, c) /\ TakenFrom(k) = f[b]
<1>. DEFINE Is(f) == f = [i \in a..b |-> IF i = a THEN c ELSE Take(f[i - 1], i)]
            n == b - a
            step == [i \in 1..n |-> [d \in Connections |-> Take(d, a + i)]]
            g == CHOOSE f : Is(f)
<1>1. n \in Nat
  OBVIOUS
<1>17. ASSUME NEW i \in a + 1..b
      PROVE  \E j \in 0..n - 1 : /\ j + 1 = i - a /\ j = (i - 1) - a /\ a + (j + 1) = i
                                 /\ i \in a..b /\ i - 1 \in a..b /\ j + 1 \in 1..n /\ j \in 0..n
  <2>1. PICK j \in Int : j = i - a - 1
    OBVIOUS
  <2>2. j + 1 = i - a /\ j = (i - 1) - a /\ a + (j + 1) = i /\ i \in a..b /\ i - 1 \in a..b
    BY <2>1
  <2>3. j \in 0..n - 1 /\ j + 1 \in 1..n /\ j \in 0..n
    BY <2>1
  <2>. QED  BY <2>2, <2>3
<1>2. step \in [1..n -> [Connections -> Connections]]
  <2>1. ASSUME NEW i \in 1..n, NEW d \in Connections PROVE Take(d, a + i) \in Connections
    <3>1. a + i \in 1..Len(log)
      BY DEF LogOK
    <3>. QED  BY <3>1, TakeIsConnection
  <2>. QED  BY <2>1
<1>3. PICK h \in [0..n -> Connections] : Follows(h, n, c, step)
  <2>. HIDE DEF step, n
  <2>. QED  BY <1>1, <1>2, RecursiveFunction
<1>. DEFINE f == [i \in a..b |-> h[i - a]]
<1>4. f \in [a..b -> Connections]
  <2>1. \A i \in a..b : i - a \in 0..n
    OBVIOUS
  <2>. QED  BY <2>1
<1>5. f[a] = c
  <2>1. a \in a..b /\ a - a = 0
    OBVIOUS
  <2>2. h[0] = c
    BY <1>3 DEF Follows
  <2>. QED  BY <2>1, <2>2
<1>6. ASSUME NEW i \in a + 1..b PROVE f[i] = Take(f[i - 1], i)
  <2>1. PICK j \in 0..n - 1 : /\ j + 1 = i - a /\ j = (i - 1) - a /\ a + (j + 1) = i
                             /\ i \in a..b /\ i - 1 \in a..b /\ j + 1 \in 1..n /\ j \in 0..n
    BY <1>17, Zenon
  <2>2. h[j + 1] = step[j + 1][h[j]]
    <3>. HIDE DEF step, n
    <3>. QED  BY <1>3, <2>1 DEF Follows
  <2>3. h[j] \in Connections
    BY <2>1
  <2>4. h[j + 1] = Take(h[j], i)
    BY <2>1, <2>2, <2>3
  <2>. QED  BY <2>1, <2>4
<1>. HIDE DEF f, step, n
<1>7. Is(f)
  <2>1. f = [i \in a..b |-> f[i]]
    BY <1>4
  <2>2. \A i \in a..b : f[i] = IF i = a THEN c ELSE Take(f[i - 1], i)
    <3>. TAKE i \in a..b
    <3>1. i = a \/ i \in a + 1..b
      OBVIOUS
    <3>2. i \in a + 1..b => i # a
      OBVIOUS
    <3>. QED  BY <1>5, <1>6, <3>1, <3>2
  <2>. QED  BY <2>1, <2>2
<1>8. Is(g)
  <2>. HIDE DEF Is
  <2>. QED  BY <1>7
<1>9. TakenFrom(k) = g[b]
  BY DEF TakenFrom
<1>10. \A i \in a..b : g[i] = IF i = a THEN c ELSE Take(g[i - 1], i)
  <2>. HIDE DEF g
  <2>. QED  BY <1>8
<1>. HIDE DEF g, Is
<1>. DEFINE T == {x \in Nat : a + x <= b => g[a + x] = f[a + x]}
<1>11. 0 \in T
  <2>1. a \in a..b /\ a + 0 = a
    OBVIOUS
  <2>. QED  BY <1>5, <1>10, <2>1
<1>12. ASSUME NEW x \in Nat, x \in T PROVE x + 1 \in T
  <2>1. SUFFICES ASSUME a + (x + 1) <= b PROVE g[a + (x + 1)] = f[a + (x + 1)]
    OBVIOUS
  <2>2. PICK i : i = a + (x + 1) /\ i \in a + 1..b /\ i \in a..b /\ i # a /\ i - 1 = a + x
    BY <2>1
  <2>3. g[i - 1] = f[i - 1]
    BY <1>12, <2>1, <2>2
  <2>. QED  BY <1>6, <1>10, <2>2, <2>3
<1>13. Nat \subseteq T
  <2>. HIDE DEF T
  <2>. QED  BY <1>11, <1>12, Induction
<1>14. g[b] = f[b]
  <2>1. b - a \in Nat /\ a + (b - a) = b
    OBVIOUS
  <2>. QED  BY <1>13, <2>1
<1>. QED  BY <1>4, <1>5, <1>6, <1>9, <1>14 DEF Runs

-----------------------------------------------------------------------------
(* The inductive invariant of the connection. Unless a datagram ended inside *)
(* a sequence, what was handed out and what is pending are the messages of   *)
(* the datagrams taken, and no sequence is open; after such a datagram the   *)
(* connection waits inside the sequence, and the next one ends the agent.    *)
EndsOK ==
    /\ ends \in Seq(Nat)
    /\ \A k \in 1..Len(ends) : EndOf(k - 1) < ends[k] /\ ends[k] <= Len(log)

QueuesOK ==
    /\ taken \in 0..Len(ends)
    /\ pending \in Seq(Messages) /\ handed \in Seq(Messages)
    /\ inMulti \in BOOLEAN /\ panicked \in BOOLEAN

AllTaken ==
    /\ ~panicked /\ ~inMulti /\ SequencesWhole(taken)
    /\ Shown(handed \o pending) = MessagesIn(EndOf(taken))

TakenInside == ~panicked /\ inMulti /\ taken > 0 /\ SequencesWhole(taken - 1) /\ GoesOn(EndOf(taken))

StoppedInside == panicked /\ ~SequencesWhole(taken - 1)

ConnectionInd == LogOK /\ EndsOK /\ QueuesOK /\ (AllTaken \/ TakenInside \/ StoppedInside)

LEMMA EndsAreInLog ==
  ASSUME EndsOK, LogOK, NEW k \in 0..Len(ends)
  PROVE  EndOf(k) \in 0..Len(log) /\ EndOf(k) \in Nat
<1>1. log \in Seq([type : TypesOfParts, multi : BOOLEAN]) /\ Len(log) \in Nat
  BY DEF LogOK
<1>2. CASE k = 0
  BY <1>1, <1>2 DEF EndOf
<1>3. CASE k # 0
  <2>1. k \in 1..Len(ends)
    BY <1>3 DEF EndsOK
  <2>2. ends[k] \in Nat /\ ends[k] <= Len(log)
    BY <2>1 DEF EndsOK
  <2>. QED  BY <1>1, <1>3, <2>2 DEF EndOf
<1>. QED  BY <1>2, <1>3

LEMMA ConnectionIndImplies == ConnectionInd => ConnectionInv
<1>. SUFFICES ASSUME ConnectionInd PROVE ConnectionInv
  OBVIOUS
<1>1. taken \in Nat
  <2>1. Len(ends) \in Nat
    BY DEF ConnectionInd, EndsOK
  <2>. QED  BY <2>1 DEF ConnectionInd, QueuesOK
<1>2. SequencesWhole(taken) => SequencesWhole(taken - 1)
  BY <1>1 DEF SequencesWhole
<1>3. TakenInside => ~SequencesWhole(taken)
  BY <1>1 DEF TakenInside, SequencesWhole
<1>. QED  BY <1>2, <1>3 DEF ConnectionInd, ConnectionInv, HandedInOrder, PanicsExactlyOnSplit,
                            AllTaken, TakenInside, StoppedInside

(* What is sent later does not change what is in the log.                    *)
LEMMA GrowingLog ==
  ASSUME LogOK, Len(log) <= Len(log'), \A i \in 1..Len(log) : log'[i] = log[i]
  PROVE  /\ \A i \in 0..Len(log) : GoesOn(i)' <=> GoesOn(i)
         /\ \A n \in 0..Len(log) : MessagesIn(n)' = MessagesIn(n)
<1>0. Len(log) \in Nat
  BY DEF LogOK
<1>1. \A i \in 0..Len(log) : GoesOn(i)' <=> GoesOn(i)
  BY <1>0 DEF GoesOn
<1>2. ASSUME NEW n \in 0..Len(log) PROVE MessagesIn(n)' = MessagesIn(n)
  <2>1. \A i \in 1..n : Begins(i)' <=> Begins(i)
    <3>. TAKE i \in 1..n
    <3>1. i \in 1..Len(log) /\ (i = 1 \/ i - 1 \in 1..Len(log)) /\ i - 1 \in 0..Len(log)
      BY <1>0
    <3>2. log'[i] = log[i] /\ (i = 1 \/ log'[i - 1] = log[i - 1]) /\ (GoesOn(i - 1)' <=> GoesOn(i - 1))
      BY <1>1, <3>1
    <3>. QED  BY <3>2 DEF Begins
  <2>2. Beginnings(n)' = Beginnings(n)
    BY <2>1 DEF Beginnings
  <2>3. \A b \in 1..n : Extent(b, n)' = Extent(b, n)
    <3>. TAKE b \in 1..n
    <3>1. \A j \in b..n : log'[j] = log[j] /\ \A k \in b + 1..j : k \in 1..n
      BY <1>0
    <3>2. \A j \in b..n : \A k \in b + 1..j : Begins(k)' <=> Begins(k)
      BY <2>1, <3>1
    <3>. QED  BY <3>1, <3>2 DEF Extent
  <2>4. PICK q : q = InOrder(Beginnings(n), n) /\ Ordered(q, Beginnings(n), n)
    <3>1. n \in Nat
      BY <1>0
    <3>. QED  BY <3>1, InOrderIsOrdered
  <2>5. \A m \in DOMAIN q : q[m] \in 1..n /\ q[m] \in 1..Len(log)
    BY <1>0, <2>4 DEF Ordered
  <2>6. \A m \in DOMAIN q : log'[q[m]] = log[q[m]] /\ Extent(q[m], n)' = Extent(q[m], n)
    BY <2>3, <2>5
  <2>7. MessagesIn(n) = [m \in DOMAIN q |-> [type |-> log[q[m]].type, data |-> InOrder(Extent(q[m], n), n)]]
    BY <2>4, Zenon DEF MessagesIn
  <2>8. MessagesIn(n)' = [m \in DOMAIN q |-> [type |-> log'[q[m]].type, data |-> InOrder(Extent(q[m], n)', n)]]
    BY <2>2, <2>4, Zenon DEF MessagesIn
  <2>. QED  BY <2>6, <2>7, <2>8
<1>. QED  BY <1>1, <1>2

LEMMA AddPartKeeps ==
  ASSUME ConnectionInd, AddPart
  PROVE  ConnectionInd'
<1>1. LogOK /\ EndsOK /\ QueuesOK
  BY DEF ConnectionInd
<1>2. UNCHANGED <<ends, taken, pending, inMulti, handed, panicked>>
  BY DEF AddPart
<1>3. PICK p \in [type : PartTypes, multi : BOOLEAN] \cup {Part(MultiDone, TRUE)} :
         (p.type = MultiDone => GoesOn(Len(log))) /\ log' = Append(log, p)
  BY DEF AddPart
<1>4. p \in [type : TypesOfParts, multi : BOOLEAN]
  <2>1. [type : PartTypes, multi : BOOLEAN] \subseteq [type : TypesOfParts, multi : BOOLEAN]
    BY DEF TypesOfParts
  <2>2. Part(MultiDone, TRUE) \in [type : TypesOfParts, multi : BOOLEAN]
    BY DEF Part, TypesOfParts
  <2>. QED  BY <2>1, <2>2
<1>5. PICK l \in Nat : l = Len(log) /\ log \in Seq([type : TypesOfParts, multi : BOOLEAN])
  BY <1>1 DEF LogOK
<1>6. /\ log' \in Seq([type : TypesOfParts, multi : BOOLEAN]) /\ Len(log') = l + 1
      /\ log'[l + 1] = p /\ \A i \in 1..l : log'[i] = log[i]
  BY <1>3, <1>4, <1>5, AppendProperties
<1>7. /\ \A i \in 0..l : GoesOn(i)' <=> GoesOn(i)
      /\ \A n \in 0..l : MessagesIn(n)' = MessagesIn(n)
  <2>1. Len(log) <= Len(log') /\ \A i \in 1..Len(log) : log'[i] = log[i]
    BY <1>5, <1>6
  <2>. QED  BY <1>1, <1>5, <2>1, GrowingLog
<1>8. LogOK'
  <2>1. ASSUME NEW i \in 1..l + 1, log'[i].type = MultiDone PROVE GoesOn(i - 1)'
    <3>1. CASE i = l + 1
      <4>1. i - 1 = l /\ l \in 0..l
        BY <3>1
      <4>. QED  BY <1>3, <1>5, <1>6, <1>7, <2>1, <3>1, <4>1
    <3>2. CASE i # l + 1
      <4>1. i \in 1..l /\ i - 1 \in 0..l
        BY <3>2
      <4>2. log[i].type = MultiDone
        BY <1>6, <2>1, <4>1
      <4>3. GoesOn(i - 1)
        BY <1>1, <1>5, <4>1, <4>2 DEF LogOK
      <4>. QED  BY <1>7, <4>1, <4>3
    <3>. QED  BY <3>1, <3>2
  <2>2. Len(log)' = l + 1 /\ (log \in Seq([type : TypesOfParts, multi : BOOLEAN]))'
    BY <1>6
  <2>. QED  BY <2>1, <2>2 DEF LogOK
<1>9. \A k : EndOf(k)' = EndOf(k)
  BY <1>2 DEF EndOf
<1>10. EndsOK'
  <2>1. \A k \in 1..Len(ends) : ends[k] \in Nat
    BY <1>1 DEF EndsOK
  <2>. QED  BY <1>1, <1>2, <1>5, <1>6, <1>9, <2>1 DEF EndsOK
<1>11. QueuesOK'
  BY <1>1, <1>2 DEF QueuesOK
<1>12. \A k \in 0..Len(ends) : EndOf(k) \in 0..l
  BY <1>1, <1>5, EndsAreInLog
<1>13. \A k \in 0..Len(ends) : GoesOn(EndOf(k))' <=> GoesOn(EndOf(k))
  <2>. TAKE k \in 0..Len(ends)
  <2>1. PICK x \in 0..l : x = EndOf(k)
    BY <1>12
  <2>2. GoesOn(EndOf(k))' <=> GoesOn(x)'
    BY <1>9, <2>1 DEF GoesOn
  <2>. QED  BY <1>7, <2>1, <2>2
<1>14. taken \in 0..Len(ends) /\ Len(ends) \in Nat
  BY <1>1 DEF QueuesOK, EndsOK
<1>15. /\ SequencesWhole(taken)' <=> SequencesWhole(taken)
       /\ SequencesWhole(taken - 1)' <=> SequencesWhole(taken - 1)
  <2>1. \A d \in 1..taken : GoesOn(EndOf(d))' <=> GoesOn(EndOf(d))
    BY <1>13, <1>14
  <2>2. \A d \in 1..taken - 1 : d \in 1..taken
    BY <1>14
  <2>. QED  BY <1>2, <2>1, <2>2 DEF SequencesWhole
<1>16. MessagesIn(EndOf(taken))' = MessagesIn(EndOf(taken))
  <2>1. PICK x \in 0..l : x = EndOf(taken) /\ x = EndOf(taken)'
    BY <1>2, <1>9, <1>12, <1>14 DEF EndOf
  <2>2. MessagesIn(EndOf(taken))' = MessagesIn(x)'
    BY <2>1 DEF MessagesIn, Beginnings, Extent
  <2>. QED  BY <1>7, <2>1, <2>2
<1>17. Shown(handed \o pending)' = Shown(handed \o pending)
  BY <1>2 DEF Shown
<1>18. GoesOn(EndOf(taken))' <=> GoesOn(EndOf(taken))
  BY <1>2, <1>13, <1>14
<1>19. (AllTaken \/ TakenInside \/ StoppedInside)'
  <2>1. CASE AllTaken
    BY <1>2, <1>15, <1>16, <1>17, <2>1 DEF AllTaken
  <2>2. CASE TakenInside
    BY <1>2, <1>15, <1>18, <2>2 DEF TakenInside
  <2>3. CASE StoppedInside
    BY <1>2, <1>15, <2>3 DEF StoppedInside
  <2>. QED  BY <2>1, <2>2, <2>3 DEF ConnectionInd
<1>. QED  BY <1>8, <1>10, <1>11, <1>19 DEF ConnectionInd

LEMMA SendDatagramKeeps ==
  ASSUME ConnectionInd, SendDatagram
  PROVE  ConnectionInd'
<1>1. LogOK /\ EndsOK /\ QueuesOK /\ Len(log) \in Nat
  BY DEF ConnectionInd, LogOK
<1>2. UNCHANGED <<log, taken, pending, inMulti, handed, panicked>>
  BY DEF SendDatagram
<1>3. PICK l \in Nat : l = Len(ends) /\ ends \in Seq(Nat)
  BY <1>1 DEF EndsOK
<1>4. /\ ends' \in Seq(Nat) /\ Len(ends') = l + 1 /\ ends'[l + 1] = Len(log)
      /\ \A k \in 1..l : ends'[k] = ends[k]
  BY <1>1, <1>3, AppendProperties DEF SendDatagram
<1>5. \A k \in 0..l : EndOf(k)' = EndOf(k)
  BY <1>4 DEF EndOf
<1>6. EndOf(l) < Len(log)
  BY <1>1, <1>3, EndsAreInLog DEF SendDatagram, Sent
<1>7. EndsOK'
  <2>1. ASSUME NEW k \in 1..l + 1 PROVE EndOf(k - 1)' < ends'[k] /\ ends'[k] <= Len(log)
    <3>1. CASE k = l + 1
      <4>1. k - 1 = l /\ l \in 0..l
        BY <3>1
      <4>2. EndOf(k - 1)' = EndOf(l)
        BY <1>5, <4>1
      <4>. QED  BY <1>1, <1>4, <1>6, <3>1, <4>2
    <3>2. CASE k # l + 1
      <4>1. k \in 1..l /\ k - 1 \in 0..l
        BY <3>2
      <4>. QED  BY <1>1, <1>3, <1>4, <1>5, <4>1 DEF EndsOK
    <3>. QED  BY <3>1, <3>2
  <2>. QED  BY <1>2, <1>4, <2>1 DEF EndsOK
<1>8. taken \in 0..l
  BY <1>1, <1>3 DEF QueuesOK
<1>9. QueuesOK'
  BY <1>1, <1>2, <1>4, <1>8 DEF QueuesOK
<1>10. LogOK'
  BY <1>1, <1>2 DEF LogOK, GoesOn
<1>11. \A k \in 0..l : GoesOn(EndOf(k))' <=> GoesOn(EndOf(k))
  BY <1>2, <1>5 DEF GoesOn
<1>12. /\ SequencesWhole(taken)' <=> SequencesWhole(taken)
       /\ SequencesWhole(taken - 1)' <=> SequencesWhole(taken - 1)
  <2>1. \A d \in 1..taken : GoesOn(EndOf(d))' <=> GoesOn(EndOf(d))
    BY <1>8, <1>11
  <2>2. \A d \in 1..taken - 1 : d \in 1..taken
    BY <1>8
  <2>. QED  BY <1>2, <2>1, <2>2 DEF SequencesWhole
<1>13. MessagesIn(EndOf(taken))' = MessagesIn(EndOf(taken))
  <2>1. EndOf(taken)' = EndOf(taken)
    BY <1>2, <1>5, <1>8
  <2>. QED  BY <1>2, <2>1 DEF MessagesIn, Beginnings, Begins, Extent, GoesOn
<1>14. Shown(handed \o pending)' = Shown(handed \o pending)
  BY <1>2 DEF Shown
<1>15. GoesOn(EndOf(taken))' <=> GoesOn(EndOf(taken))
  BY <1>2, <1>8, <1>11
<1>16. (AllTaken \/ TakenInside \/ StoppedInside)'
  <2>1. CASE AllTaken
    BY <1>2, <1>12, <1>13, <1>14, <2>1 DEF AllTaken
  <2>2. CASE TakenInside
    BY <1>2, <1>12, <1>15, <2>2 DEF TakenInside
  <2>3. CASE StoppedInside
    BY <1>2, <1>12, <2>3 DEF StoppedInside
  <2>. QED  BY <2>1, <2>2, <2>3 DEF ConnectionInd
<1>. QED  BY <1>7, <1>9, <1>10, <1>16 DEF ConnectionInd

(* Handing out the first pending message keeps the order.                    *)
LEMMA HandingKeepsOrder ==
  ASSUME NEW h \in Seq(Messages), NEW p \in Seq(Messages), p # <<>>
  PROVE  /\ Append(h, Head(p)) \in Seq(Messages) /\ Tail(p) \in Seq(Messages)
         /\ Append(h, Head(p)) \o Tail(p) = h \o p
<1>1. Head(p) \in Messages /\ Tail(p) \in Seq(Messages) /\ p = <<Head(p)>> \o Tail(p)
  BY HeadTailProperties
<1>2. PICK x \in Messages, t \in Seq(Messages) : x = Head(p) /\ t = Tail(p) /\ p = <<x>> \o t
  BY <1>1
<1>3. <<x>> \in Seq(Messages) /\ Append(h, x) = h \o <<x>> /\ Append(h, x) \in Seq(Messages)
  BY AppendProperties, AppendIsConcat
<1>4. (h \o <<x>>) \o t = h \o (<<x>> \o t)
  BY <1>3, ConcatAssociative
<1>. QED  BY <1>2, <1>3, <1>4

(* As long as nothing is sent, the messages up to a datagram are the same.   *)
LEMMA SameMessages ==
  ASSUME log' = log, NEW n, EndOf(taken)' = n
  PROVE  MessagesIn(EndOf(taken))' = MessagesIn(n)
<1>1. \A i : Begins(i)' = Begins(i)
  BY DEF Begins, GoesOn
<1>2. Beginnings(n)' = Beginnings(n) /\ \A i : Extent(i, n)' = Extent(i, n)
  BY <1>1 DEF Beginnings, Extent
<1>. QED  BY <1>1, <1>2 DEF MessagesIn, Beginnings, Begins, Extent, GoesOn

LEMMA HandPendingKeeps ==
  ASSUME ConnectionInd, HandPending
  PROVE  ConnectionInd'
<1>1. LogOK /\ EndsOK /\ QueuesOK
  BY DEF ConnectionInd
<1>2. /\ UNCHANGED <<log, ends, taken, inMulti, panicked>> /\ pending # <<>>
      /\ handed' = Append(handed, Head(pending)) /\ pending' = Tail(pending)
  BY DEF HandPending
<1>3. handed' \in Seq(Messages) /\ pending' \in Seq(Messages) /\ handed' \o pending' = handed \o pending
  <2>1. handed \in Seq(Messages) /\ pending \in Seq(Messages)
    BY <1>1 DEF QueuesOK
  <2>. QED  BY <1>2, <2>1, HandingKeepsOrder
<1>4. LogOK' /\ EndsOK' /\ QueuesOK'
  BY <1>1, <1>2, <1>3 DEF LogOK, GoesOn, EndsOK, EndOf, QueuesOK
<1>5. /\ SequencesWhole(taken)' <=> SequencesWhole(taken)
      /\ SequencesWhole(taken - 1)' <=> SequencesWhole(taken - 1)
      /\ GoesOn(EndOf(taken))' <=> GoesOn(EndOf(taken))
  BY <1>2 DEF SequencesWhole, GoesOn, EndOf
<1>6. MessagesIn(EndOf(taken))' = MessagesIn(EndOf(taken))
  BY <1>2 DEF MessagesIn, Beginnings, Begins, Extent, GoesOn, EndOf
<1>7. Shown(handed \o pending)' = Shown(handed \o pending)
  BY <1>3 DEF Shown
<1>8. (AllTaken \/ TakenInside \/ StoppedInside)'
  BY <1>2, <1>5, <1>6, <1>7 DEF ConnectionInd, AllTaken, TakenInside, StoppedInside
<1>. QED  BY <1>4, <1>8 DEF ConnectionInd

(* A datagram that begins where no sequence is open.                         *)
LEMMA ReceiveInOrder ==
  ASSUME ConnectionInd, AllTaken, Receive
  PROVE  ConnectionInd'
<1>1. LogOK /\ EndsOK /\ QueuesOK
  BY DEF ConnectionInd
<1>2. /\ ~panicked /\ pending = <<>> /\ taken < Len(ends) /\ taken' = taken + 1
      /\ log' = log /\ ends' = ends /\ inMulti' = TakenFrom(taken + 1).inMulti
      /\ panicked' = TakenFrom(taken + 1).panicked
      /\ IF TakenFrom(taken + 1).panicked
         THEN UNCHANGED <<pending, handed>>
         ELSE /\ pending' = Tail(TakenFrom(taken + 1).pending)
              /\ handed' = Append(handed, Head(TakenFrom(taken + 1).pending))
  BY DEF Receive
<1>3. PICK k : k = taken + 1 /\ k \in 1..Len(ends) /\ k - 1 = taken /\ taken \in 0..Len(ends) /\ taken \in Nat
                /\ Len(ends) \in Nat /\ k \in 0..Len(ends)
  <2>1. Len(ends) \in Nat /\ taken \in 0..Len(ends)
    BY <1>1 DEF EndsOK, QueuesOK
  <2>. QED  BY <1>2, <2>1
<1>4. PICK a \in Nat, b \in Nat : a = EndOf(k - 1) /\ b = ends[k] /\ a < b /\ b <= Len(log) /\ b = EndOf(k)
  <2>1. EndOf(k - 1) \in Nat
    BY <1>1, <1>3, EndsAreInLog
  <2>2. ends[k] \in Nat /\ EndOf(k - 1) < ends[k] /\ ends[k] <= Len(log) /\ EndOf(k) = ends[k]
    BY <1>1, <1>3 DEF EndsOK, EndOf
  <2>. QED  BY <2>1, <2>2
<1>5. PICK c \in Connections : c = [pending |-> pending, inMulti |-> inMulti, panicked |-> FALSE]
  BY <1>1 DEF QueuesOK, Connections
<1>6. PICK f : Runs(f, a, b, c) /\ TakenFrom(k) = f[b]
  BY <1>1, <1>4, <1>5, TakenFromRuns
<1>7. handed \in Seq(Messages) /\ Len(log) \in Nat
  BY <1>1 DEF QueuesOK, LogOK
<1>8. Knows(f[a], a)
  <2>1. f[a] = c /\ c.pending = <<>> /\ ~c.inMulti /\ ~c.panicked
    BY <1>2, <1>5, <1>6 DEF Runs, AllTaken
  <2>2. ~GoesOn(a)
    <3>1. CASE taken = 0
      BY <1>3, <1>4, <3>1 DEF EndOf, GoesOn
    <3>2. CASE taken # 0
      <4>1. taken \in 1..taken
        BY <1>3, <3>2
      <4>. QED  BY <1>3, <1>4, <4>1 DEF AllTaken, SequencesWhole
    <3>. QED  BY <3>1, <3>2
  <2>3. Shown(handed \o c.pending) = MessagesIn(a)
    BY <1>2, <1>3, <1>4, <2>1 DEF AllTaken
  <2>. QED  BY <2>1, <2>2, <2>3 DEF Knows
<1>. DEFINE T == {x \in Nat : a + x <= b => Knows(f[a + x], a + x) /\ (x > 0 => f[a + x].pending # <<>>)}
<1>9. 0 \in T
  BY <1>8
<1>10. ASSUME NEW x \in Nat, x \in T PROVE x + 1 \in T
  <2>1. SUFFICES ASSUME a + (x + 1) <= b
                 PROVE  Knows(f[a + (x + 1)], a + (x + 1)) /\ f[a + (x + 1)].pending # <<>>
    OBVIOUS
  <2>2. PICK i, j \in Nat : i = a + (x + 1) /\ j = a + x /\ i = j + 1 /\ i - 1 = j /\ i \in a + 1..b /\ i <= Len(log)
    <3>1. PICK j \in Nat : j = a + x
      OBVIOUS
    <3>. QED  BY <1>4, <1>7, <2>1, <3>1
  <2>3. Knows(f[j], j)
    BY <1>10, <2>1, <2>2
  <2>4. f[i] = Take(f[j], i)
    BY <1>6, <2>2 DEF Runs
  <2>5. Knows(Take(f[j], i), i) /\ Take(f[j], i).pending # <<>>
    BY <1>1, <1>7, <2>2, <2>3, TakeKnows
  <2>. QED  BY <2>2, <2>4, <2>5
<1>11. Nat \subseteq T
  <2>. HIDE DEF T
  <2>. QED  BY <1>9, <1>10, Induction
<1>12. PICK d : d = TakenFrom(k) /\ Knows(d, b) /\ d.pending # <<>>
  <2>1. b - a \in Nat /\ a + (b - a) = b /\ b - a > 0
    BY <1>4
  <2>. QED  BY <1>6, <1>11, <2>1
<1>13. ~d.panicked /\ d.panicked \in BOOLEAN /\ d.pending \in Seq(Messages) /\ d.inMulti \in BOOLEAN
  BY <1>12 DEF Knows, Connections
<1>14. /\ handed' \in Seq(Messages) /\ pending' \in Seq(Messages)
       /\ handed' \o pending' = handed \o d.pending
       /\ inMulti' = d.inMulti /\ panicked' = d.panicked
  <2>1. /\ Append(handed, Head(d.pending)) \in Seq(Messages) /\ Tail(d.pending) \in Seq(Messages)
        /\ Append(handed, Head(d.pending)) \o Tail(d.pending) = handed \o d.pending
    BY <1>7, <1>12, <1>13, HandingKeepsOrder, Zenon
  <2>2. d = TakenFrom(taken + 1)
    BY <1>3, <1>12, Zenon
  <2>3. /\ pending' = Tail(d.pending) /\ handed' = Append(handed, Head(d.pending))
        /\ inMulti' = d.inMulti /\ panicked' = d.panicked
    BY <1>2, <1>13, <2>2, Zenon
  <2>. QED  BY <2>1, <2>3, Zenon
<1>15. LogOK' /\ EndsOK' /\ QueuesOK'
  <2>1. taken' = k /\ k \in 0..Len(ends)
    BY <1>2, <1>3
  <2>2. LogOK'
    BY <1>1, <1>2 DEF LogOK, GoesOn
  <2>3. EndsOK'
    BY <1>1, <1>2 DEF EndsOK, EndOf
  <2>4. QueuesOK'
    <3>1. taken' \in 0..Len(ends') /\ inMulti' \in BOOLEAN /\ panicked' \in BOOLEAN
      <4>1. ends' = ends
        BY <1>2
      <4>2. taken' \in 0..Len(ends')
        BY <2>1, <4>1, Zenon
      <4>3. panicked' \in BOOLEAN
        BY <1>13, <1>14, Zenon
      <4>. QED  BY <1>13, <1>14, <4>2, <4>3, Zenon
    <3>. QED  BY <1>14, <3>1 DEF QueuesOK
  <2>. QED  BY <2>2, <2>3, <2>4
<1>16. taken' = k /\ taken' - 1 = taken /\ EndOf(taken)' = b /\ taken' > 0
  BY <1>2, <1>3, <1>4 DEF EndOf
<1>17. GoesOn(b)' <=> GoesOn(b)
  BY <1>2 DEF GoesOn
<1>18. SequencesWhole(taken)
  BY DEF AllTaken
<1>19. CASE GoesOn(b)
  <2>1. TakenInside'
    <3>1. SequencesWhole(taken - 1)'
      <4>1. \A e \in 1..taken : ~GoesOn(EndOf(e))
        BY <1>18 DEF SequencesWhole
      <4>2. \A e \in 1..taken : ~GoesOn(EndOf(e))'
        BY <1>2, <4>1 DEF GoesOn, EndOf
      <4>. QED  BY <1>16, <4>2 DEF SequencesWhole
    <3>2. GoesOn(EndOf(taken))'
      BY <1>2, <1>16, <1>19 DEF GoesOn
    <3>. QED  BY <1>12, <1>13, <1>14, <1>16, <1>19, <3>1, <3>2 DEF TakenInside, Knows
  <2>. QED  BY <1>15, <2>1 DEF ConnectionInd
<1>20. CASE ~GoesOn(b)
  <2>1. AllTaken'
    <3>1. SequencesWhole(taken)'
      <4>1. \A e \in 1..taken : ~GoesOn(EndOf(e))
        BY <1>18 DEF SequencesWhole
      <4>2. \A e \in 1..k : ~GoesOn(EndOf(e))
        <5>. TAKE e \in 1..k
        <5>1. e \in 1..taken \/ e = k
          BY <1>3
        <5>. QED  BY <1>4, <1>20, <4>1, <5>1
      <4>3. \A e \in 1..k : ~GoesOn(EndOf(e))'
        BY <1>2, <4>2 DEF GoesOn, EndOf
      <4>. QED  BY <1>16, <4>3 DEF SequencesWhole
    <3>2. MessagesIn(EndOf(taken))' = MessagesIn(b)
      BY <1>2, <1>16, SameMessages
    <3>3. Shown(handed \o pending)' = Shown(handed \o d.pending)
      BY <1>14 DEF Shown
    <3>. QED  BY <1>12, <1>13, <1>14, <1>20, <3>1, <3>2, <3>3 DEF AllTaken, Knows
  <2>. QED  BY <1>15, <2>1 DEF ConnectionInd
<1>. QED  BY <1>19, <1>20

(* A datagram that goes on with a sequence: its message has been handed out. *)
LEMMA ReceiveInside ==
  ASSUME ConnectionInd, TakenInside, Receive
  PROVE  ConnectionInd'
<1>1. LogOK /\ EndsOK /\ QueuesOK
  BY DEF ConnectionInd
<1>2. /\ pending = <<>> /\ taken < Len(ends) /\ taken' = taken + 1
      /\ log' = log /\ ends' = ends /\ inMulti' = TakenFrom(taken + 1).inMulti
      /\ panicked' = TakenFrom(taken + 1).panicked
      /\ TakenFrom(taken + 1).panicked => UNCHANGED <<pending, handed>>
  BY DEF Receive
<1>3. PICK k : k = taken + 1 /\ k \in 1..Len(ends) /\ k - 1 = taken /\ taken \in 0..Len(ends) /\ taken \in Nat
                /\ Len(ends) \in Nat /\ k \in 0..Len(ends)
  <2>1. Len(ends) \in Nat /\ taken \in 0..Len(ends)
    BY <1>1 DEF EndsOK, QueuesOK
  <2>. QED  BY <1>2, <2>1
<1>4. PICK a \in Nat, b \in Nat : a = EndOf(k - 1) /\ b = ends[k] /\ a < b /\ b <= Len(log)
  <2>1. EndOf(k - 1) \in Nat
    BY <1>1, <1>3, EndsAreInLog
  <2>2. ends[k] \in Nat /\ EndOf(k - 1) < ends[k] /\ ends[k] <= Len(log)
    BY <1>1, <1>3 DEF EndsOK
  <2>. QED  BY <2>1, <2>2
<1>5. PICK c \in Connections : c = [pending |-> pending, inMulti |-> inMulti, panicked |-> FALSE]
  BY <1>1 DEF QueuesOK, Connections
<1>6. PICK f : Runs(f, a, b, c) /\ TakenFrom(k) = f[b]
  BY <1>1, <1>4, <1>5, TakenFromRuns
<1>. DEFINE T == {x \in Nat : a + (x + 1) <= b => f[a + (x + 1)] \in Connections /\ f[a + (x + 1)].panicked}
<1>7. 0 \in T
  <2>1. PICK i \in Nat : i = a + (0 + 1) /\ i \in a + 1..b /\ i - 1 = a /\ i \in a..b
    BY <1>4
  <2>2. f[i] = Take(c, i) /\ f[i] \in Connections
    BY <1>6, <2>1 DEF Runs
  <2>3. Take(c, i).panicked
    <3>1. c.pending = <<>> /\ c.inMulti /\ ~c.panicked
      BY <1>2, <1>5 DEF TakenInside
    <3>. QED  BY <3>1 DEF Take, Continue, Connections
  <2>. QED  BY <2>1, <2>2, <2>3
<1>8. ASSUME NEW x \in Nat, x \in T PROVE x + 1 \in T
  <2>1. SUFFICES ASSUME a + ((x + 1) + 1) <= b
                 PROVE  f[a + ((x + 1) + 1)] \in Connections /\ f[a + ((x + 1) + 1)].panicked
    OBVIOUS
  <2>2. PICK i \in Nat, j \in Nat : i = a + ((x + 1) + 1) /\ j = a + (x + 1) /\ i - 1 = j /\ i \in a + 1..b
                                   /\ i \in a..b /\ j <= b
    BY <2>1
  <2>3. f[j].panicked
    BY <1>8, <2>2
  <2>4. f[i] = Take(f[j], i) /\ f[i] \in Connections
    BY <1>6, <2>2 DEF Runs
  <2>. QED  BY <2>2, <2>3, <2>4 DEF Take
<1>9. Nat \subseteq T
  <2>. HIDE DEF T
  <2>. QED  BY <1>7, <1>8, Induction
<1>10. PICK d \in Connections : d = TakenFrom(k) /\ d.panicked
  <2>1. (b - a) - 1 \in Nat /\ a + (((b - a) - 1) + 1) = b
    BY <1>4
  <2>. QED  BY <1>6, <1>9, <2>1
<1>11. panicked' /\ inMulti' \in BOOLEAN /\ panicked' \in BOOLEAN /\ pending' = pending /\ handed' = handed
  BY <1>2, <1>3, <1>10 DEF Connections
<1>12. LogOK' /\ EndsOK' /\ QueuesOK'
  <2>1. taken' = k /\ k \in 0..Len(ends)
    BY <1>2, <1>3
  <2>. QED  BY <1>1, <1>2, <1>11, <2>1 DEF LogOK, GoesOn, EndsOK, EndOf, QueuesOK
<1>13. ~SequencesWhole(taken - 1)'
  <2>1. taken' - 1 = taken /\ taken \in 1..taken
    BY <1>2, <1>3 DEF TakenInside
  <2>2. GoesOn(EndOf(taken))
    BY DEF TakenInside
  <2>3. \A e : GoesOn(EndOf(e))' <=> GoesOn(EndOf(e))
    BY <1>2 DEF GoesOn, EndOf
  <2>4. ~ \A e \in 1..taken : ~GoesOn(EndOf(e))'
    <3>1. \A e \in 1..taken : (~GoesOn(EndOf(e))') <=> ~GoesOn(EndOf(e))
      BY <1>2 DEF GoesOn, EndOf
    <3>. QED  BY <2>1, <2>2, <3>1
  <2>. QED  BY <2>1, <2>4 DEF SequencesWhole
<1>. QED  BY <1>11, <1>12, <1>13 DEF ConnectionInd, StoppedInside

(* What the agent took from its socket is what the kernel sent, datagram by  *)
(* datagram; what it handed out and still holds back are the messages that   *)
(* are in it, in their order; and it stopped only when a datagram had ended  *)
(* inside a sequence.                                                        *)
THEOREM ConnectionInvariant == ConnectionSpec => []ConnectionInd
<1>1. ConnectionInit => ConnectionInd
  <2>. SUFFICES ASSUME ConnectionInit PROVE ConnectionInd
    OBVIOUS
  <2>1. /\ log = <<>> /\ ends = <<>> /\ taken = 0 /\ pending = <<>> /\ handed = <<>>
        /\ inMulti = FALSE /\ panicked = FALSE
    BY DEF ConnectionInit
  <2>2. LogOK /\ EndsOK /\ QueuesOK
    <3>1. \A S : <<>> \in Seq(S) /\ Len(<<>>) = 0
      OBVIOUS
    <3>2. LogOK
      BY <2>1, <3>1 DEF LogOK
    <3>3. EndsOK
      BY <2>1, <3>1 DEF EndsOK
    <3>4. QueuesOK
      <4>1. taken \in 0..Len(ends)
        BY <2>1, <3>1
      <4>. QED  BY <2>1, <3>1, <4>1 DEF QueuesOK
    <3>. QED  BY <3>2, <3>3, <3>4
  <2>3. Shown(handed \o pending) = <<>>
    <3>1. handed \o pending = <<>>
      BY <2>1
    <3>. QED  BY <3>1 DEF Shown
  <2>4. MessagesIn(EndOf(taken)) = <<>>
    <3>1. EndOf(taken) = 0 /\ InOrder(Beginnings(0), 0) = <<>>
      BY <2>1, InOrderNothing DEF EndOf
    <3>. QED  BY <3>1 DEF MessagesIn
  <2>5. SequencesWhole(taken)
    BY <2>1 DEF SequencesWhole
  <2>. QED  BY <2>1, <2>2, <2>3, <2>4, <2>5 DEF ConnectionInd, AllTaken
<1>2. ConnectionInd /\ [ConnectionNext]_connectionVars => ConnectionInd'
  <2>. SUFFICES ASSUME ConnectionInd, [ConnectionNext]_connectionVars PROVE ConnectionInd'
    OBVIOUS
  <2>1. CASE AddPart
    BY <2>1, AddPartKeeps
  <2>2. CASE SendDatagram
    BY <2>2, SendDatagramKeeps
  <2>3. CASE HandPending
    BY <2>3, HandPendingKeeps
  <2>4. CASE Receive
    <3>1. ~StoppedInside
      BY <2>4 DEF Receive, StoppedInside
    <3>. QED  BY <2>4, <3>1, ReceiveInOrder, ReceiveInside DEF ConnectionInd
  <2>5. CASE UNCHANGED connectionVars
    <3>1. /\ log' = log /\ ends' = ends /\ taken' = taken /\ pending' = pending /\ handed' = handed
          /\ inMulti' = inMulti /\ panicked' = panicked
      BY <2>5 DEF connectionVars
    <3>2. LogOK' <=> LogOK
      BY <3>1, Zenon DEF LogOK, GoesOn
    <3>3. (EndsOK' <=> EndsOK) /\ (QueuesOK' <=> QueuesOK)
      BY <3>1, Zenon DEF EndsOK, EndOf, QueuesOK
    <3>4. /\ SequencesWhole(taken)' <=> SequencesWhole(taken)
          /\ SequencesWhole(taken - 1)' <=> SequencesWhole(taken - 1)
          /\ GoesOn(EndOf(taken))' <=> GoesOn(EndOf(taken))
      BY <3>1 DEF SequencesWhole, GoesOn, EndOf
    <3>5. MessagesIn(EndOf(taken))' = MessagesIn(EndOf(taken))
      BY <3>1 DEF MessagesIn, Beginnings, Begins, Extent, GoesOn, EndOf
    <3>6. Shown(handed \o pending)' = Shown(handed \o pending)
      BY <3>1 DEF Shown
    <3>7. (AllTaken \/ TakenInside \/ StoppedInside)' <=> (AllTaken \/ TakenInside \/ StoppedInside)
      BY <3>1, <3>4, <3>5, <3>6 DEF AllTaken, TakenInside, StoppedInside
    <3>. QED  BY <3>2, <3>3, <3>7 DEF ConnectionInd
  <2>. QED  BY <2>1, <2>2, <2>3, <2>4, <2>5 DEF ConnectionNext
<1>. QED  BY <1>1, <1>2, PTL DEF ConnectionSpec

(* For any number of parts in any datagrams: ReciveMessage hands out every   *)
(* message that came, once, in order and with all its parts, as long as no   *)
(* datagram ends inside a sequence, and it panics exactly when one did and   *)
(* another is read.                                                          *)
THEOREM ConnectionIsSound == ConnectionSpec => []ConnectionInv
<1>. QED  BY ConnectionIndImplies, ConnectionInvariant, PTL
=============================================================================

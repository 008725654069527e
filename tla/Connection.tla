----------------------------- MODULE Connection -----------------------------
(* Connection.ReciveMessage of the agents: it takes a datagram from the     *)
(* netlink socket, puts the parts of multi-part messages together, and      *)
(* hands out one message per call. The kernel module sends one part per     *)
(* datagram; the function is written for all that netlink allows.           *)
EXTENDS Integers, Sequences

CONSTANTS
    PartTypes, \* types of the parts
    MultiDone, \* NLMSG_DONE
    MaxParts   \* bound: parts that are sent

ConnectionAssumption == MultiDone \notin PartTypes /\ MaxParts \in Nat

VARIABLES
    log,       \* all parts that were sent
    ends,      \* how much of log each datagram ends with
    taken,     \* number of datagrams Receive has returned
    pending,   \* conn.pendingMessages
    inMulti,   \* conn.inMulti
    handed,    \* history: the messages handed out
    panicked   \* an index was out of range

connectionVars == <<log, ends, taken, pending, inMulti, handed, panicked>>

Part(type, multi) == [type |-> type, multi |-> multi]
MultiMessage(type, data, done) == [type |-> type, data |-> data, done |-> done]

ConnectionInit ==
    /\ log = <<>> /\ ends = <<>> /\ taken = 0
    /\ pending = <<>> /\ inMulti = FALSE /\ handed = <<>> /\ panicked = FALSE

EndOf(k) == IF k = 0 THEN 0 ELSE ends[k]
Sent == EndOf(Len(ends))

(* A part of a sequence that goes on behind it. *)
GoesOn(i) == i > 0 /\ log[i].multi /\ log[i].type # MultiDone

(* The sender fills a datagram and sends it; it sends the end of a          *)
(* multi-part message only behind one of its parts.                         *)
AddPart ==
    /\ Len(log) < MaxParts
    /\ \E p \in [type : PartTypes, multi : BOOLEAN] \cup {Part(MultiDone, TRUE)} :
          /\ p.type = MultiDone => GoesOn(Len(log))
          /\ log' = Append(log, p)
    /\ UNCHANGED <<ends, taken, pending, inMulti, handed, panicked>>

SendDatagram ==
    /\ Len(log) > Sent
    /\ ends' = Append(ends, Len(log))
    /\ UNCHANGED <<log, taken, pending, inMulti, handed, panicked>>

-----------------------------------------------------------------------------
(* The loop over the parts of a datagram; c is the connection.              *)
Add(c, i, multi) ==
    [c EXCEPT !.pending = Append(@, MultiMessage(log[i].type, <<i>>, ~multi)), !.inMulti = multi]

Finish(c) ==
    [c EXCEPT !.inMulti = FALSE, !.pending[Len(c.pending)].done = TRUE]

Extend(c, i) == [c EXCEPT !.pending[Len(c.pending)].data = Append(@, i)]

(* Faulty: the type of a part is not compared with that of the message. *)
ContinueAnyType(c, i) ==
    IF c.pending = <<>> THEN [c EXCEPT !.panicked = TRUE]
    ELSE IF log[i].type = MultiDone THEN Finish(c)
    ELSE IF ~log[i].multi THEN Add(c, i, FALSE)
    ELSE Extend(c, i)

Continue(c, i) ==
    IF c.pending = <<>> THEN [c EXCEPT !.panicked = TRUE]
    ELSE IF log[i].type = MultiDone THEN Finish(c)
    ELSE IF ~log[i].multi THEN Add(c, i, FALSE)
    ELSE IF log[i].type # c.pending[Len(c.pending)].type THEN Add(c, i, TRUE)
    ELSE Extend(c, i)

Take(c, i) ==
    IF c.panicked THEN c
    ELSE IF c.inMulti THEN Continue(c, i)
    ELSE Add(c, i, log[i].multi)

TakenFrom(k) ==
    LET after[i \in EndOf(k - 1)..ends[k]] ==
          IF i = EndOf(k - 1) THEN [pending |-> pending, inMulti |-> inMulti, panicked |-> FALSE]
          ELSE Take(after[i - 1], i)
    IN  after[ends[k]]

(* A call of ReciveMessage that finds a message pending. *)
HandPending ==
    /\ ~panicked /\ pending # <<>>
    /\ handed' = Append(handed, Head(pending)) /\ pending' = Tail(pending)
    /\ UNCHANGED <<log, ends, taken, inMulti, panicked>>

(* A call that reads the socket. *)
Receive ==
    /\ ~panicked /\ pending = <<>> /\ taken < Len(ends)
    /\ taken' = taken + 1
    /\ LET c == TakenFrom(taken + 1)
       IN  /\ inMulti' = c.inMulti /\ panicked' = c.panicked
           /\ IF c.panicked
              THEN UNCHANGED <<pending, handed>>
              ELSE pending' = Tail(c.pending) /\ handed' = Append(handed, Head(c.pending))
    /\ UNCHANGED <<log, ends>>

ConnectionNext == AddPart \/ SendDatagram \/ HandPending \/ Receive

ConnectionSpec == ConnectionInit /\ [][ConnectionNext]_connectionVars
-----------------------------------------------------------------------------
(* The messages in the parts 1..n, from the log alone: a message goes on as *)
(* long as the parts are of one sequence and of one type.                   *)
Begins(i) ==
    /\ log[i].type # MultiDone
    /\ \/ i = 1 \/ ~log[i].multi \/ ~GoesOn(i - 1)
       \/ log[i - 1].type # log[i].type

Extent(i, n) ==
    {j \in i..n : log[j].type # MultiDone /\ \A k \in i + 1..j : ~Begins(k)}

(* Those of the numbers 1..n that are in S, in order. *)
InOrder(S, n) ==
    LET upTo[i \in 0..n] ==
          IF i = 0 THEN <<>> ELSE IF i \in S THEN Append(upTo[i - 1], i) ELSE upTo[i - 1]
    IN  upTo[n]

Beginnings(n) == {i \in 1..n : Begins(i)}

MessagesIn(n) ==
    LET begins == InOrder(Beginnings(n), n)
    IN  [m \in DOMAIN begins |->
            [type |-> log[begins[m]].type, data |-> InOrder(Extent(begins[m], n), n)]]

Shown(messages) == [m \in DOMAIN messages |->
                       [type |-> messages[m].type, data |-> messages[m].data]]

(* A sequence of parts lies in one datagram, up to the datagram k. *)
SequencesWhole(k) == \A d \in 1..k : ~GoesOn(EndOf(d))

(* What is handed out and what is pending are the messages of the           *)
(* datagrams taken, each once, in order and with all its parts.             *)
HandedInOrder ==
    SequencesWhole(taken) => Shown(handed \o pending) = MessagesIn(EndOf(taken))

(* ReciveMessage reads the last pending message where there is none exactly *)
(* when it goes on, after a datagram that ended inside a sequence: by then  *)
(* the message the sequence began has been handed out.                      *)
PanicsExactlyOnSplit == panicked <=> ~SequencesWhole(taken - 1)

(* ReciveMessage hands out the messages that came, or panics, and does that *)
(* only where a datagram ended inside a sequence.                           *)
ConnectionInv == HandedInOrder /\ PanicsExactlyOnSplit
=============================================================================

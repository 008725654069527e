--------------------------- MODULE PostingProofs ---------------------------
(***************************************************************************)
(* What is posted is what was written, for every set of agents, threads,   *)
(* files and addresses, every bound and every set of faults.               *)
(***************************************************************************)
EXTENDS Posting, TootsProofs

-----------------------------------------------------------------------------
(* The inductive invariant: TootsInv, and the way of texts to a post.      *)

Named(f) == file[f].stage # "closed" /\ file[f].id # NULL

(* f has its toot and is not being closed. *)
Starts(f) == Named(f) /\ file[f].stage \in {"opening", "open"}
Owner(f)  == dev[file[f].dev].pid

Sends(p, k)      == body[p][k].type = "SEND_TOOT"
Carries(p, k, n) == body[p][k].type = "ADD_TOOT_TEXT" /\ body[p][k].text = n
Keeps(p, i, n)   == held[p][i] # NULL /\ \E j \in DOMAIN held[p][i] : held[p][i][j] = n

(* No two files come from one open, and nothing from one to come.          *)
OpenInv ==
    /\ \A f \in Files : Named(f) => openOf[f] <= opens
    /\ \A f, g \in Files : Named(f) /\ Named(g) /\ openOf[f] = openOf[g] => f = g
    /\ \A n \in TextIds : made[n].open <= opens
    /\ \A p \in Agents : \A k \in DOMAIN body[p] : body[p][k].open <= opens
    /\ \A k \in DOMAIN posts : posts[k].open <= opens

(* Nobody has asked to post what was written since open o. *)
Unsent(o) ==
    /\ \A p \in Agents : \A k \in DOMAIN body[p] : Sends(p, k) => body[p][k].open # o
    /\ \A k \in DOMAIN posts : posts[k].open # o

(* An open is sent once, when its file is closed, and posted once.         *)
SendInv ==
    /\ \A f \in Files : Starts(f) => Unsent(openOf[f])
    /\ \A p, q \in Agents : \A k \in DOMAIN body[p], l \in DOMAIN body[q] :
         Sends(p, k) /\ Sends(q, l) /\ body[p][k].open = body[q][l].open => p = q /\ k = l
    /\ \A p \in Agents : \A k \in DOMAIN body[p] : Sends(p, k) =>
         \A j \in DOMAIN posts : posts[j].open # body[p][k].open
    /\ \A j, k \in DOMAIN posts : posts[j].open = posts[k].open => j = k

(* The text of a write is of its file's open; until it is sent, no other   *)
(* write and no agent has it.                                              *)
WriteInv(t) ==
    /\ thr[t].step \in ElemSteps =>
         text[t] \in 1 .. writes /\ made[text[t]].open = openOf[MyFile(t)]
    /\ At(t, "addText") =>
         /\ \A p \in Agents : /\ \A k \in DOMAIN body[p] : ~Carries(p, k, text[t])
                              /\ \A i \in TootIds : ~Keeps(p, i, text[t])
         /\ \A u \in Threads : At(u, "addText") /\ text[u] = text[t] => u = t

(* A text on a socket is there once, and the agent does not have it. *)
CarryInv(p, k) ==
    body[p][k].type = "ADD_TOOT_TEXT" =>
        /\ body[p][k].text \in 1 .. writes
        /\ made[body[p][k].text].open = body[p][k].open
        /\ \A i \in TootIds : ~Keeps(p, i, body[p][k].text)
        /\ \A l \in DOMAIN body[p] : Carries(p, l, body[p][k].text) => l = k

(* Texts that were written, each once. *)
Once(texts) == IsInjective(texts) /\ \A j \in DOMAIN texts : texts[j] <= writes

(* A text is in one place: with its write, on a socket or with the agent;  *)
(* and nothing is written before open(2) returns.                          *)
TextInv ==
    /\ \A t \in Threads : WriteInv(t)
    /\ \A p \in Agents : \A k \in DOMAIN body[p] : CarryInv(p, k)
    /\ \A p \in Agents, i \in TootIds : held[p][i] # NULL => Once(held[p][i])
    /\ \A k \in DOMAIN posts : Once(posts[k].texts)
    /\ \A n \in success : n <= writes
    /\ \A f \in Files : Named(f) /\ file[f].stage = "opening" =>
         \A n \in 1 .. writes : made[n].open # openOf[f]

(* The agent has heard that f's toot was opened, or its toot is OPEND.     *)
Talks(f) ==
    /\ Starts(f)
    /\ file[f].stage = "open" \/ toot[toots[file[f].id]].state = "OPEND"

(* The handler is about to say that toot i was opened. *)
Welcomes(p, i) == ans[p] # NULL /\ ans[p].op = "NEW_TOOT" /\ ans[p].ok /\ ans[p].toot = i

(* Texts of toot i on p's socket or with the agent, and their open. *)
Waits(p, i, n) == Keeps(p, i, n) \/ \E k \in DOMAIN body[p] : Carries(p, k, n) /\ body[p][k].toot = i

(* What is on its way to p about toot i: the agent has the toot as long as *)
(* texts or SEND_TOOT can come, they are all of one open, nothing follows  *)
(* SEND_TOOT, and the toot was empty when the agent accepted it.           *)
LineInv(p, i) ==
    /\ \A k \in DOMAIN body[p] : body[p][k].toot = i /\ body[p][k].type # "NEW_TOOT" =>
         held[p][i] # NULL
    /\ \A k \in DOMAIN body[p] : Sends(p, k) /\ body[p][k].toot = i =>
         /\ \A l \in DOMAIN body[p] :
              body[p][l].toot = i /\ body[p][l].type # "NEW_TOOT" => l <= k
         /\ \A n \in TextIds : Waits(p, i, n) => made[n].open = body[p][k].open
    /\ \A f \in Files : Talks(f) /\ Owner(f) = p /\ file[f].id = i =>
         /\ held[p][i] # NULL
         /\ \A k \in DOMAIN body[p] : Sends(p, k) => body[p][k].toot # i
         /\ \A n \in TextIds : Waits(p, i, n) => made[n].open = openOf[f]
    /\ Welcomes(p, i) =>
         /\ held[p][i] = << >>
         /\ \A k \in DOMAIN body[p] : body[p][k].toot = i => body[p][k].type = "NEW_TOOT"
         /\ \A f \in Files : Talks(f) /\ Owner(f) = p => file[f].id # i

LinesInv == Undisturbed => \A p \in Agents, i \in TootIds : LineInv(p, i)

(* The message of text n was sent. *)
Sent(n) ==
    n \in success \/ \E t \in Threads : thr[t].step \in {"writeFind", "writeWait"} /\ text[t] = n

(* A text that was sent is ahead of SEND_TOOT, or posted. *)
SentInv ==
    Undisturbed => \A n \in TextIds : Sent(n) =>
        /\ \A f \in Files : file[f].stage = "open" /\ openOf[f] = made[n].open /\ Owner(f) \in sock =>
             Waits(Owner(f), file[f].id, n)
        /\ \A p \in Agents : \A k \in DOMAIN body[p] :
             Sends(p, k) /\ body[p][k].open = made[n].open =>
                 Waits(p, body[p][k].toot, n)
        /\ \A k \in DOMAIN posts : posts[k].open = made[n].open =>
             \E i \in DOMAIN posts[k].texts : posts[k].texts[i] = n

(* Until element_count wraps, indexes grow with the texts of an open, and  *)
(* element_count is the last.                                              *)
IndexInv ==
    /\ ~torn =>
         /\ \A m, n \in 1 .. writes : m < n /\ made[m].open = made[n].open =>
              made[n].open \in wrapped \/ made[m].index < made[n].index
         /\ \A f \in Files, n \in 1 .. writes : Starts(f) /\ made[n].open = openOf[f] =>
              openOf[f] \in wrapped \/ made[n].index <= count[toots[file[f].id]]
    /\ \A k \in DOMAIN posts : \A i, j \in DOMAIN posts[k].texts :
         i < j => made[posts[k].texts[i]].index <= made[posts[k].texts[j]].index

(* The device of a file in use is there. *)
UsedInv == ~torn => \A f \in Files : file[f].stage # "closed" => Registered(file[f].dev)

(* A socket that is closed holds nothing. *)
SocketInv == \A p \in Agents : p \notin sock => inbox[p] = << >>

WayInv ==
    /\ OpenInv /\ SendInv /\ TextInv /\ LinesInv /\ SentInv /\ IndexInv
    /\ PostedIsOneOpen

PostInv == TootsInv /\ PostTypeOK /\ SocketInv /\ UsedInv /\ WayInv
-----------------------------------------------------------------------------
(* Requests and their bodies. *)

(* What Append and Tail do, element by element. *)
LEMMA AppendAt ==
  ASSUME NEW S, NEW s \in Seq(S), NEW e \in S
  PROVE  /\ Append(s, e) \in Seq(S)
         /\ DOMAIN s = 1 .. Len(s) /\ Len(s) \in Nat
         /\ DOMAIN Append(s, e) = 1 .. Len(s) + 1
         /\ \A k \in 1 .. Len(s) : Append(s, e)[k] = s[k]
         /\ Append(s, e)[Len(s) + 1] = e
  BY AppendProperties

(* See above. *)
LEMMA TailAt ==
  ASSUME NEW S, NEW s \in Seq(S), s # << >>
  PROVE  /\ Tail(s) \in Seq(S)
         /\ DOMAIN s = 1 .. Len(s) /\ Len(s) \in Nat /\ Len(s) >= 1
         /\ DOMAIN Tail(s) = 1 .. Len(s) - 1
         /\ \A k \in 1 .. Len(s) - 1 : Tail(s)[k] = s[k + 1]
         /\ Head(s) = s[1] /\ Head(s) \in S
<1>1. Len(s) \in Nat /\ Len(s) # 0
  BY EmptySeq
<1>. QED  BY <1>1, HeadTailProperties

(* Nothing is about nothing. *)
LEMMA EmptyAligned ==
  ASSUME NEW S, NEW queue \in Seq(S), \A j \in DOMAIN queue : queue[j].type \notin RequestTypes
  PROVE  Aligned(<< >>, queue)
<1>1. DOMAIN << >> = {}
  OBVIOUS
<1>2. PICK Place : Place \in [DOMAIN << >> -> DOMAIN queue]
  <2>1. [k \in DOMAIN << >> |-> 1] \in [DOMAIN << >> -> DOMAIN queue]
    BY <1>1
  <2>. QED  BY <2>1
<1>3. Follows(<< >>, queue, Place)
  BY <1>1 DEF Follows
<1>. QED  BY <1>2, <1>3 DEF Aligned

(* A request is queued with its body. *)
LEMMA AskKeepsAligned ==
  ASSUME NEW S, NEW T, NEW bodies \in Seq(S), NEW queue \in Seq(T), Aligned(bodies, queue),
         NEW b \in S, NEW m \in T, m.type = b.type, m.toot = b.toot
  PROVE  Aligned(Append(bodies, b), Append(queue, m))
<1>. DEFINE bs == Append(bodies, b)
            qs == Append(queue, m)
<1>1. PICK Place \in [DOMAIN bodies -> DOMAIN queue] : Follows(bodies, queue, Place)
  BY DEF Aligned
<1>2. /\ DOMAIN bodies = 1 .. Len(bodies) /\ Len(bodies) \in Nat
      /\ DOMAIN bs = 1 .. Len(bodies) + 1
      /\ \A k \in 1 .. Len(bodies) : bs[k] = bodies[k]
      /\ bs[Len(bodies) + 1] = b
  BY AppendAt
<1>3. /\ DOMAIN queue = 1 .. Len(queue) /\ Len(queue) \in Nat
      /\ DOMAIN qs = 1 .. Len(queue) + 1
      /\ \A k \in 1 .. Len(queue) : qs[k] = queue[k]
      /\ qs[Len(queue) + 1] = m
  BY AppendAt
<1>. HIDE DEF bs, qs
<1>. DEFINE P == [k \in DOMAIN bs |-> IF k \in DOMAIN bodies THEN Place[k] ELSE Len(queue) + 1]
<1>4. P \in [DOMAIN bs -> DOMAIN qs]
  BY <1>2, <1>3
<1>5. /\ \A k \in DOMAIN bodies : P[k] = Place[k] /\ Place[k] \in DOMAIN queue
      /\ P[Len(bodies) + 1] = Len(queue) + 1
  BY <1>2
<1>. HIDE DEF P
<1>6. \A k, l \in DOMAIN bs : k < l => P[k] < P[l]
  BY <1>1, <1>2, <1>3, <1>5 DEF Follows
<1>7. \A k \in DOMAIN bs : qs[P[k]].type = bs[k].type /\ qs[P[k]].toot = bs[k].toot
  BY <1>1, <1>2, <1>3, <1>5 DEF Follows
<1>8. \A j \in DOMAIN qs : qs[j].type \in RequestTypes => \E k \in DOMAIN bs : P[k] = j
  <2>1. ASSUME NEW j \in DOMAIN queue, qs[j].type \in RequestTypes PROVE \E k \in DOMAIN bs : P[k] = j
    <3>1. qs[j] = queue[j]
      BY <1>3, Zenon
    <3>2. PICK k \in DOMAIN bodies : Place[k] = j
      BY <1>1, <2>1, <3>1, Zenon DEF Follows
    <3>3. P[k] = j
      BY <1>5, <3>2, Zenon
    <3>4. k \in DOMAIN bs
      BY <1>2
    <3>. QED  BY <3>3, <3>4, Zenon
  <2>2. Len(bodies) + 1 \in DOMAIN bs
    BY <1>2
  <2>3. \A j \in DOMAIN qs : j \in DOMAIN queue \/ j = Len(queue) + 1
    BY <1>3
  <2>. QED  BY <1>5, <2>1, <2>2, <2>3, Zenon
<1>9. Follows(bs, qs, P)
  BY <1>6, <1>7, <1>8 DEF Follows
<1>. QED  BY <1>4, <1>9 DEF Aligned, bs, qs

(* Another message is queued. *)
LEMMA ReplyKeepsAligned ==
  ASSUME NEW S, NEW T, NEW bodies \in Seq(S), NEW queue \in Seq(T), Aligned(bodies, queue),
         NEW m \in T, m.type \notin RequestTypes
  PROVE  Aligned(bodies, Append(queue, m))
<1>. DEFINE qs == Append(queue, m)
<1>1. PICK Place \in [DOMAIN bodies -> DOMAIN queue] : Follows(bodies, queue, Place)
  BY DEF Aligned
<1>2. /\ DOMAIN queue = 1 .. Len(queue) /\ Len(queue) \in Nat
      /\ DOMAIN qs = 1 .. Len(queue) + 1
      /\ \A k \in 1 .. Len(queue) : qs[k] = queue[k]
      /\ qs[Len(queue) + 1] = m
  BY AppendAt
<1>. HIDE DEF qs
<1>3. Place \in [DOMAIN bodies -> DOMAIN qs]
  BY <1>2
<1>4. \A k \in DOMAIN bodies : qs[Place[k]] = queue[Place[k]]
  BY <1>1, <1>2
<1>5. \A j \in DOMAIN qs : qs[j].type \in RequestTypes => j \in DOMAIN queue /\ queue[j] = qs[j]
  BY <1>2
<1>6. Follows(bodies, qs, Place)
  BY <1>1, <1>4, <1>5 DEF Follows
<1>. QED  BY <1>3, <1>6 DEF Aligned, qs

(* The first message is no request and is taken. *)
LEMMA TakeKeepsAligned ==
  ASSUME NEW S, NEW T, NEW bodies \in Seq(S), NEW queue \in Seq(T), Aligned(bodies, queue),
         queue # << >>, Head(queue).type \notin RequestTypes,
         \A k \in DOMAIN bodies : bodies[k].type \in RequestTypes
  PROVE  Aligned(bodies, Tail(queue))
<1>. DEFINE qs == Tail(queue)
<1>1. PICK Place \in [DOMAIN bodies -> DOMAIN queue] : Follows(bodies, queue, Place)
  BY DEF Aligned
<1>2. /\ DOMAIN queue = 1 .. Len(queue) /\ Len(queue) \in Nat
      /\ DOMAIN qs = 1 .. Len(queue) - 1
      /\ \A k \in 1 .. Len(queue) - 1 : qs[k] = queue[k + 1]
      /\ Head(queue) = queue[1]
  BY TailAt
<1>. HIDE DEF qs
<1>. DEFINE P == [k \in DOMAIN bodies |-> Place[k] - 1]
<1>3. \A k \in DOMAIN bodies : Place[k] \in 2 .. Len(queue)
  BY <1>1, <1>2 DEF Follows
<1>4. P \in [DOMAIN bodies -> DOMAIN qs] /\ \A k \in DOMAIN bodies : P[k] = Place[k] - 1
  BY <1>2, <1>3
<1>. HIDE DEF P
<1>5. Follows(bodies, qs, P)
  <2>1. \A k, l \in DOMAIN bodies : k < l => P[k] < P[l]
    BY <1>1, <1>3, <1>4 DEF Follows
  <2>2. \A k \in DOMAIN bodies : qs[P[k]].type = bodies[k].type /\ qs[P[k]].toot = bodies[k].toot
    <3>1. \A k \in DOMAIN bodies : qs[P[k]] = queue[Place[k]]
      BY <1>2, <1>3, <1>4
    <3>. QED  BY <1>1, <3>1 DEF Follows
  <2>3. ASSUME NEW j \in DOMAIN qs, qs[j].type \in RequestTypes
        PROVE  \E k \in DOMAIN bodies : P[k] = j
    <3>1. j + 1 \in DOMAIN queue /\ queue[j + 1].type \in RequestTypes
      BY <1>2, <2>3
    <3>2. PICK k \in DOMAIN bodies : Place[k] = j + 1
      BY <1>1, <3>1 DEF Follows
    <3>3. P[k] = j
      BY <1>2, <1>4, <3>2
    <3>. QED  BY <3>3
  <2>. QED  BY <2>1, <2>2, <2>3 DEF Follows
<1>. QED  BY <1>4, <1>5 DEF Aligned, qs

(* A request at the head of the queue has its body at the head, too, and   *)
(* is taken with it.                                                       *)
LEMMA AnswerKeepsAligned ==
  ASSUME NEW S, NEW T, NEW bodies \in Seq(S), NEW queue \in Seq(T), Aligned(bodies, queue),
         queue # << >>, Head(queue).type \in RequestTypes
  PROVE  /\ bodies # << >>
         /\ Head(bodies).type = Head(queue).type /\ Head(bodies).toot = Head(queue).toot
         /\ Aligned(Tail(bodies), Tail(queue))
<1>. DEFINE qs == Tail(queue)
            bs == Tail(bodies)
<1>1. PICK Place \in [DOMAIN bodies -> DOMAIN queue] : Follows(bodies, queue, Place)
  BY DEF Aligned
<1>2. /\ DOMAIN queue = 1 .. Len(queue) /\ Len(queue) \in Nat /\ Len(queue) >= 1
      /\ DOMAIN qs = 1 .. Len(queue) - 1
      /\ \A k \in 1 .. Len(queue) - 1 : qs[k] = queue[k + 1]
      /\ Head(queue) = queue[1]
  BY TailAt
<1>3. DOMAIN bodies = 1 .. Len(bodies) /\ Len(bodies) \in Nat
  OBVIOUS
<1>4. PICK k1 \in DOMAIN bodies : Place[k1] = 1
  BY <1>1, <1>2 DEF Follows
<1>5. \A k \in DOMAIN bodies : Place[k] \in 1 .. Len(queue)
  BY <1>1, <1>2
<1>6. 1 \in DOMAIN bodies /\ k1 = 1
  BY <1>1, <1>3, <1>4, <1>5 DEF Follows
<1>7. bodies # << >>
  BY <1>3, <1>6
<1>8. /\ DOMAIN bs = 1 .. Len(bodies) - 1
      /\ \A k \in 1 .. Len(bodies) - 1 : bs[k] = bodies[k + 1]
      /\ Head(bodies) = bodies[1]
  BY <1>7, TailAt
<1>9. Head(bodies).type = Head(queue).type /\ Head(bodies).toot = Head(queue).toot
  BY <1>1, <1>2, <1>4, <1>6, <1>8 DEF Follows
<1>. HIDE DEF bs, qs
<1>. DEFINE P == [k \in DOMAIN bs |-> Place[k + 1] - 1]
<1>10. \A k \in DOMAIN bs : k + 1 \in DOMAIN bodies /\ Place[k + 1] \in 2 .. Len(queue)
  BY <1>1, <1>3, <1>4, <1>5, <1>6, <1>8 DEF Follows
<1>11. P \in [DOMAIN bs -> DOMAIN qs] /\ \A k \in DOMAIN bs : P[k] = Place[k + 1] - 1
  BY <1>2, <1>10
<1>. HIDE DEF P
<1>12. Follows(bs, qs, P)
  <2>1. ASSUME NEW k \in DOMAIN bs, NEW l \in DOMAIN bs, k < l PROVE P[k] < P[l]
    <3>1. k + 1 < l + 1
      BY <1>3, <1>8, <2>1
    <3>2. Place[k + 1] < Place[l + 1]
      BY <1>1, <1>10, <3>1 DEF Follows
    <3>. QED  BY <1>2, <1>10, <1>11, <3>2
  <2>2. \A k \in DOMAIN bs : qs[P[k]].type = bs[k].type /\ qs[P[k]].toot = bs[k].toot
    <3>1. \A k \in DOMAIN bs : qs[P[k]] = queue[Place[k + 1]] /\ bs[k] = bodies[k + 1]
      BY <1>2, <1>8, <1>10, <1>11
    <3>. QED  BY <1>1, <1>10, <3>1 DEF Follows
  <2>3. ASSUME NEW j \in DOMAIN qs, qs[j].type \in RequestTypes PROVE \E k \in DOMAIN bs : P[k] = j
    <3>1. j + 1 \in DOMAIN queue /\ queue[j + 1].type \in RequestTypes /\ j >= 1 /\ j \in Nat
      BY <1>2, <2>3
    <3>2. PICK k \in DOMAIN bodies : Place[k] = j + 1
      BY <1>1, <3>1 DEF Follows
    <3>3. k \in 2 .. Len(bodies)
      BY <1>3, <1>4, <1>6, <3>1, <3>2
    <3>4. k - 1 \in DOMAIN bs
      BY <1>3, <1>8, <3>3
    <3>5. P[k - 1] = Place[k] - 1
      BY <1>11, <3>3, <3>4
    <3>. QED  BY <3>1, <3>2, <3>4, <3>5
  <2>. QED  BY <2>1, <2>2, <2>3 DEF Follows
<1>. QED  BY <1>7, <1>9, <1>11, <1>12 DEF Aligned, bs, qs

-----------------------------------------------------------------------------
(* The steps are steps of Toots.                                           *)

(* What does not concern posting is a step of Toots. *)
LEMMA PostIsToots ==
  ASSUME [PostNext]_allVars
  PROVE  [Next]_vars
<1>1. ASSUME NEW t \in Threads,
             \/ PostAddToot(t) \/ PostNewToot(t) \/ PostClose(t) \/ PostCall(t)
             \/ PostAddElement(t) \/ PostAddText(t) \/ PostWriteReturns(t)
      PROVE  CallStep(t) \/ UserStep(t)
  BY <1>1
     DEF PostAddToot, PostNewToot, PostClose, PostCall, PostAddElement, PostAddText,
         PostWriteReturns, CallStep, OtherCallStep, UserStep
<1>2. ASSUME NEW p \in Agents, PostAnswer(p) \/ PostOther(p)
      PROVE  DeviceStep(p) \/ HandlerStep(p) \/ AnswerStep(p)
  BY <1>2 DEF PostAnswer, PostOther, AnswerStep
<1>. QED  BY <1>1, <1>2 DEF PostNext, Next, allVars

(* A file that has a toot had it before, and goes on from open(2) to       *)
(* close(2).                                                               *)
Goes(f) ==
    Named(f)' =>
        /\ Named(f) /\ file'[f].id = file[f].id /\ file'[f].dev = file[f].dev
        /\ file'[f].stage \in {"opening", "open"} => Starts(f)
        /\ file'[f].stage = "opening" => file[f].stage = "opening"

FilesGo == \A f \in Files : Goes(f)

(* A write that has its element had it before. *)
Writes(t) ==
    thr'[t].step \in ElemSteps =>
        /\ thr[t].step \in ElemSteps /\ thr'[t].file = thr[t].file
        /\ At(t, "addText") <=> At(t, "addText")'

WritesGo == \A t \in Threads : Writes(t)

(* A call that returns. *)
LEMMA ReturnGoes ==
  ASSUME CallsShape, NEW t \in Threads, NEW s \in {"open", "closed"}, Return(t, s),
         MyFile(t) \in Files, s = "open" => thr[t].step \in WriteSteps \cup {"openWait"}
  PROVE  FilesGo /\ WritesGo
<1>1. thr \in [Threads -> Call] /\ file \in [Files -> File] /\ CallInv(t)
  BY DEF CallsShape, CallsType, CallsInv
<1>2. PICK f \in Files : f = MyFile(t)
  OBVIOUS
<1>3. /\ \A g \in Files \ {f} : file'[g] = file[g]
      /\ file'[f] = IF s = "closed" THEN ClosedFile ELSE [file[f] EXCEPT !.stage = s]
  BY <1>1, <1>2 DEF Return
<1>4. Goes(f)
  <2>1. CASE s = "closed"
    BY <1>3, <2>1 DEF ClosedFile, Goes, Named
  <2>2. CASE s = "open"
    <3>1. file'[f].stage = "open" /\ file'[f].id = file[f].id /\ file'[f].dev = file[f].dev
      BY <1>1, <1>3, <2>2 DEF File
    <3>2. file[f].stage \in {"opening", "open"}
      BY <1>1, <1>2, <2>2 DEF CallInv, OpenSteps
    <3>. QED  BY <3>1, <3>2 DEF Goes, Named, Starts
  <2>. QED  BY <2>1, <2>2
<1>5. thr'[t].step = "idle" /\ \A u \in Threads \ {t} : thr'[u] = thr[u]
  BY <1>1 DEF Return, IdleThread
<1>6. \A g \in Files \ {f} : Goes(g)
  BY <1>3 DEF Goes, Named, Starts
<1>. QED  BY <1>4, <1>5, <1>6 DEF FilesGo, WritesGo, Writes, ElemSteps, At

(* A call that goes on. *)
LEMMA StepGoes ==
  ASSUME CallsShape, NEW t \in Threads, file' = file,
         \A u \in Threads \ {t} : thr'[u] = thr[u],
         thr'[t].step \in ElemSteps =>
             /\ thr[t].step \in ElemSteps /\ thr'[t].file = thr[t].file
             /\ At(t, "addText") <=> At(t, "addText")'
  PROVE  FilesGo /\ WritesGo
<1>1. FilesGo
  BY DEF FilesGo, Goes, Named, Starts
<1>2. WritesGo
  BY DEF WritesGo, Writes, At
<1>. QED  BY <1>1, <1>2

(* A call that begins with a file, to open or close it. *)
LEMMA TakeGoes ==
  ASSUME CallsShape, NEW t \in Threads, NEW f \in Files, NEW s \in ThreadSteps, s \notin ElemSteps,
         thr' = [thr EXCEPT ![t] = [IdleThread EXCEPT !.step = s, !.file = f]],
         \/ \E d \in DeviceIds : file' = [file EXCEPT ![f] = [stage |-> "opening", id |-> NULL, dev |-> d]]
         \/ file[f].stage = "open" /\ Stage(f, "closing")
  PROVE  FilesGo /\ WritesGo
<1>1. thr \in [Threads -> Call] /\ file \in [Files -> File]
  BY DEF CallsShape, CallsType
<1>2. \A g \in Files \ {f} : file'[g] = file[g]
  BY <1>1 DEF Stage
<1>3. Goes(f)
  BY <1>1 DEF Stage, Goes, Named, Starts, File
<1>4. thr'[t].step = s /\ \A u \in Threads \ {t} : thr'[u] = thr[u]
  BY <1>1 DEF IdleThread
<1>5. FilesGo
  BY <1>2, <1>3 DEF FilesGo, Goes, Named, Starts
<1>6. WritesGo
  BY <1>4 DEF WritesGo, Writes, At
<1>. QED  BY <1>5, <1>6

(* The steps of the system calls, but for those that give an id, an        *)
(* element or a text away.                                                 *)
LEMMA CallsGo ==
  ASSUME ShapeInv, NEW t \in Threads,
         CallStep(t) \/ UserStep(t), ~AddToot(t), ~AddElement(t), ~AddText(t)
  PROVE  FilesGo /\ WritesGo
<1>1. CallsShape /\ thr \in [Threads -> Call] /\ file \in [Files -> File]
  BY DEF ShapeInv, TypeOK, CallsShape, CallsType
<1>2. CallInv(t)
  BY <1>1 DEF CallsShape, CallsInv
<1>3. CASE OpenReturns(t) \/ AddTootFails(t) \/ AddElementFails(t) \/ AddTextFails(t)
           \/ AddTextNoToot(t) \/ WriteFindFails(t) \/ WriteGivesUp(t) \/ WriteReturns(t)
           \/ RemovedToot(t) \/ NothingToRemove(t)
  <2>1. MyFile(t) \in Files
    BY <1>2, <1>3
       DEF CallInv, At, OpenReturns, AddTootFails, AddElementFails, AddTextFails, AddTextNoToot,
           WriteFindFails, WriteGivesUp, WriteReturns, RemovedToot, NothingToRemove
  <2>2. \/ Return(t, "closed")
        \/ Return(t, "open") /\ thr[t].step \in WriteSteps \cup {"openWait"}
    BY <1>3
       DEF At, OpenReturns, AddTootFails, AddElementFails, AddTextFails, AddTextNoToot,
           WriteFindFails, WriteGivesUp, WriteReturns, RemovedToot, NothingToRemove, WriteSteps
  <2>. QED  BY <1>1, <2>1, <2>2, ReturnGoes
<1>4. CASE NewToot(t) \/ NewTootFails(t) \/ OpenFind(t) \/ OpenFindFails(t) \/ OpenGivesUp(t)
           \/ CloseFind(t) \/ CloseFindFails(t) \/ CloseReturns(t)
           \/ \E f \in Files : WriteToot(t, f)
  <2>1. /\ file' = file /\ \A u \in Threads \ {t} : thr'[u] = thr[u]
        /\ thr'[t].step \notin ElemSteps
    <3>1. CASE NewToot(t) \/ NewTootFails(t) \/ OpenFind(t) \/ OpenFindFails(t)
      BY <1>1, <3>1
         DEF NewToot, NewTootFails, OpenFind, OpenFindFails, StepTo, Call, ElemSteps, IdleThread
    <3>2. CASE OpenGivesUp(t) \/ CloseFind(t) \/ CloseFindFails(t) \/ CloseReturns(t)
      BY <1>1, <3>2
         DEF OpenGivesUp, CloseFind, CloseFindFails, CloseReturns, StepTo, Call, ElemSteps, IdleThread
    <3>3. CASE \E f \in Files : WriteToot(t, f)
      BY <1>1, <3>3 DEF WriteToot, StepTo, Call, ElemSteps, IdleThread
    <3>. QED  BY <1>4, <3>1, <3>2, <3>3
  <2>. QED  BY <1>1, <2>1, StepGoes
<1>5. CASE WriteFind(t)
  <2>1. /\ file' = file /\ \A u \in Threads \ {t} : thr'[u] = thr[u]
        /\ At(t, "writeFind") /\ thr'[t].step = "writeWait" /\ thr'[t].file = thr[t].file
    BY <1>1, <1>5 DEF WriteFind, StepTo, At, Call
  <2>. QED  BY <1>1, <2>1, StepGoes DEF ElemSteps, At
<1>6. CASE RemoveToot(t) \/ \E f \in Files : CloseTootLost(t, f)
  <2>1. thr' = thr
    BY <1>6 DEF RemoveToot, CloseTootLost
  <2>2. FilesGo
    BY <1>1, <1>6 DEF RemoveToot, CloseTootLost, FilesGo, Goes, Named, Starts, ClosedFile
  <2>. QED  BY <2>1, <2>2 DEF WritesGo, Writes, At
<1>7. ASSUME NEW f \in Files, CloseToot(t, f) \/ CloseTootFails(t, f) PROVE FilesGo /\ WritesGo
  <2>1. PICK s \in {"closeFind", "removeToot"} : ClosingAt(t, f, s)
    BY <1>7 DEF CloseToot, CloseTootFails
  <2>2. file[f].stage = "open" /\ Stage(f, "closing") /\ s \in ThreadSteps /\ s \notin ElemSteps
    BY <1>7, <2>1 DEF CloseToot, CloseTootFails, StartsClose, ClosingAt, ThreadSteps, ElemSteps
  <2>. QED  BY <1>1, <2>1, <2>2, TakeGoes DEF ClosingAt
<1>8. ASSUME NEW f \in Files, NEW d \in DeviceIds, OpenDevice(t, f, d) PROVE FilesGo /\ WritesGo
  <2>1. "addToot" \in ThreadSteps /\ "addToot" \notin ElemSteps
    BY DEF ThreadSteps, ElemSteps
  <2>. QED  BY <1>1, <1>8, <2>1, TakeGoes DEF OpenDevice
<1>. QED
  BY <1>3, <1>4, <1>5, <1>6, <1>7, <1>8 DEF CallStep, OtherCallStep, UserStep

(* Agents and handlers leave files and system calls alone. *)
LEMMA AgentsGo ==
  ASSUME NEW p \in Agents, DeviceStep(p) \/ HandlerStep(p) \/ AnswerStep(p)
  PROVE  file' = file /\ thr' = thr /\ FilesGo /\ WritesGo
<1>1. file' = file /\ thr' = thr
  BY DEF DeviceStep, HandlerStep, AnswerStep, AnswerFind, AnswerTooLate, AnswerSet, AnswerToot,
         AnswerText, AnswerRefused, MarkDeviceUnready, RemoveDeviceToot, RemovedDeviceToot,
         ForgetEmptyDevice, tootVars
<1>. QED  BY <1>1 DEF FilesGo, Goes, Named, Starts, WritesGo, Writes, At

(* add_toot gives one file an id. *)
LEMMA AddTootGoes ==
  ASSUME ShapeInv, NEW t \in Threads, AddToot(t)
  PROVE  /\ MyFile(t) \in Files /\ file[MyFile(t)].stage = "opening"
         /\ \A f \in Files \ {MyFile(t)} : file'[f] = file[f] /\ Goes(f)
         /\ \A f \in Files : f = MyFile(t) =>
              /\ file'[f].stage = "opening" /\ file'[f].id \in TootIds
              /\ file'[f].dev = file[f].dev /\ toots[file'[f].id] = NULL
              /\ toots'[file'[f].id] \in TootObjs /\ ~Live(toots'[file'[f].id])
              /\ toot'[toots'[file'[f].id]].state = "OPEN_RESULT_WAIT"
         /\ WritesGo
<1>1. /\ thr \in [Threads -> Call] /\ file \in [Files -> File] /\ CallInv(t)
      /\ toots \in [TootIds -> TootObjs \cup {NULL}] /\ toot \in [TootObjs -> Toot]
  BY DEF ShapeInv, TypeOK, CallsInv
<1>2. MyFile(t) \in Files /\ file[MyFile(t)].stage = "opening"
  BY <1>1 DEF AddToot, CallInv, At, OpenSteps
<1>3. PICK f \in Files : f = MyFile(t)
  BY <1>2
<1>4. PICK i \in TootIds, o \in TootObjs :
        /\ IsNextTootId(i) /\ ~Live(o)
        /\ toots' = [toots EXCEPT ![i] = o]
        /\ toot' = [toot EXCEPT ![o] = [state |-> "OPEN_RESULT_WAIT", id |-> i, dev |-> file[f].dev]]
        /\ file' = [file EXCEPT ![f].id = i]
  BY <1>3 DEF AddToot
<1>5. /\ \A g \in Files \ {f} : file'[g] = file[g]
      /\ file'[f].stage = file[f].stage /\ file'[f].id = i /\ file'[f].dev = file[f].dev
  BY <1>1, <1>4 DEF File
<1>6. toots'[i] = o /\ toots[i] = NULL /\ toot'[o].state = "OPEN_RESULT_WAIT"
  BY <1>1, <1>4 DEF IsNextTootId
<1>7. \A g \in Files \ {f} : Goes(g)
  BY <1>5 DEF Goes, Named, Starts
<1>8. WritesGo
  <2>1. thr'[t].step = "newToot" /\ \A u \in Threads \ {t} : thr'[u] = thr[u]
    BY <1>1 DEF AddToot, StepTo, Call
  <2>. QED  BY <2>1 DEF WritesGo, Writes, ElemSteps, At
<1>. QED  BY <1>2, <1>3, <1>4, <1>5, <1>6, <1>7, <1>8

(* A file that has a toot has it alone. *)
LEMMA NamedToot ==
  ASSUME TootsInv, ~torn, NEW f \in Files, Named(f)
  PROVE  /\ file[f].id \in TootIds /\ file[f].dev \in DeviceIds
         /\ toots[file[f].id] \in TootObjs /\ Live(toots[file[f].id])
         /\ toot[toots[file[f].id]].dev = file[f].dev
         /\ toot[toots[file[f].id]].id = file[f].id
         /\ DeviceOf(file[f].id) = file[f].dev /\ PidOf(file[f].id) = Owner(f)
         /\ \A g \in Files : Named(g) /\ file[g].id = file[f].id => g = f
<1>1. file[f].id \in TootIds /\ file[f].dev \in DeviceIds /\ file[f].stage # "closed"
  BY DEF TootsInv, ShapeInv, TypeOK, File, Named, CallsInv, FileInv
<1>2. /\ toots[file[f].id] # NULL /\ Live(toots[file[f].id])
      /\ toot[toots[file[f].id]].dev = file[f].dev
      /\ \A g \in Files \ {f} : ~Holds(g, file[f].id)
  BY <1>1 DEF TootsInv, OwnInv, FileOwnsToot, Holds
<1>3. toots[file[f].id] \in TootObjs
  BY <1>1, <1>2 DEF TootsInv, ShapeInv, TypeOK
<1>4. toot[toots[file[f].id]].id = file[f].id
  BY <1>1, <1>2 DEF TootsInv, OwnInv, TableSound
<1>. QED  BY <1>1, <1>2, <1>3, <1>4 DEF DeviceOf, PidOf, Owner, Holds, Named

(* An id stands for one toot until it is taken back. *)
LEMMA AddressesStay ==
  ASSUME ShapeInv, [Next]_vars, NEW i \in TootIds, toots[i] # NULL, toots'[i] # NULL
  PROVE  toots'[i] = toots[i]
<1>1. toots \in [TootIds -> TootObjs \cup {NULL}]
  BY DEF ShapeInv, TypeOK
<1>2. CASE toots' = toots
  BY <1>2
<1>3. CASE \E t \in Threads : AddToot(t)
  BY <1>1, <1>3 DEF AddToot, IsNextTootId
<1>4. ASSUME NEW a \in Actors, FinishRemove(a) PROVE toots'[i] = toots[i]
  BY <1>1, <1>4 DEF FinishRemove
<1>5. ASSUME NEW t \in Threads, OtherCallStep(t) PROVE toots' = toots \/ FinishRemove(t)
  <2>1. ASSUME \/ AddTootFails(t) \/ NewToot(t) \/ NewTootFails(t) \/ OpenFind(t) \/ OpenFindFails(t)
               \/ OpenReturns(t) \/ OpenGivesUp(t) \/ AddElementFails(t) \/ AddTextFails(t)
        PROVE  toots' = toots
    BY <2>1
       DEF AddTootFails, NewToot, NewTootFails, OpenFind, OpenFindFails, OpenReturns, OpenGivesUp,
           AddElementFails, AddTextFails
  <2>2. ASSUME \/ AddTextNoToot(t) \/ WriteFind(t) \/ WriteFindFails(t) \/ WriteGivesUp(t)
               \/ CloseFind(t) \/ CloseFindFails(t) \/ CloseReturns(t) \/ RemoveToot(t)
               \/ NothingToRemove(t)
        PROVE  toots' = toots
    BY <2>2
       DEF AddTextNoToot, WriteFind, WriteFindFails, WriteGivesUp, CloseFind, CloseFindFails,
           CloseReturns, RemoveToot, StartRemove, NothingToRemove
  <2>3. RemovedToot(t) => FinishRemove(t)
    BY DEF RemovedToot
  <2>. QED  BY <1>5, <2>1, <2>2, <2>3 DEF OtherCallStep
<1>6. ASSUME NEW t \in Threads, CallStep(t) \/ UserStep(t)
      PROVE  toots' = toots \/ AddToot(t) \/ FinishRemove(t)
  BY <1>5, <1>6
     DEF CallStep, AddElement, AddText, WriteReturns, UserStep, OpenDevice, WriteToot, CloseToot,
         CloseTootFails, CloseTootLost
<1>7. ASSUME NEW p \in Agents, DeviceStep(p) \/ HandlerStep(p) \/ AnswerStep(p)
      PROVE  toots' = toots \/ FinishRemove(p)
  <2>1. ASSUME HandlerStep(p) PROVE toots' = toots \/ FinishRemove(p)
    BY <2>1
       DEF HandlerStep, AnswerFind, AnswerTooLate, AnswerSet, MarkDeviceUnready, RemoveDeviceToot,
           StartRemove, RemovedDeviceToot, ForgetEmptyDevice, tootVars
  <2>2. ASSUME DeviceStep(p) \/ AnswerStep(p) PROVE toots' = toots
    BY <2>2 DEF DeviceStep, AnswerStep, AnswerToot, AnswerText, AnswerRefused, tootVars
  <2>. QED  BY <1>7, <2>1, <2>2
<1>8. UNCHANGED vars => toots' = toots
  BY DEF vars, tootVars
<1>. QED  BY <1>2, <1>3, <1>4, <1>6, <1>7, <1>8, Zenon DEF Next, Actors

(* A file that goes on keeps the address of its toot. *)
LEMMA TootStays ==
  ASSUME TootsInv, TootsInv', [Next]_vars, ~torn, ~torn', NEW f \in Files, Named(f), Named(f)',
         file'[f].id = file[f].id
  PROVE  toots'[file[f].id] = toots[file[f].id]
<1>1. file[f].id \in TootIds /\ toots[file[f].id] # NULL
  BY NamedToot, NoValueIsNull
<1>2. toots'[file[f].id] # NULL
  BY <1>1 DEF TootsInv, OwnInv, FileOwnsToot, Holds, Named
<1>. QED  BY <1>1, <1>2, AddressesStay DEF TootsInv

(* No system call makes a file's agent talk about its toot. *)
LEMMA CallsTalk ==
  ASSUME TootsInv, TootsInv', ~torn, ~torn', NEW t \in Threads, CallStep(t) \/ UserStep(t),
         NEW f \in Files, Talks(f)'
  PROVE  Talks(f)
<1>1. [Next]_vars /\ ShapeInv /\ thr \in [Threads -> Call] /\ file \in [Files -> File]
      /\ toot \in [TootObjs -> Toot]
  BY DEF Next, TootsInv, ShapeInv, TypeOK
<1>2. Goes(f)
  <2>1. CASE AddToot(t) /\ f # MyFile(t)
    BY <1>1, <2>1, AddTootGoes
  <2>2. CASE AddToot(t) /\ f = MyFile(t)
    <3>1. /\ file'[f].stage = "opening"
          /\ toot'[toots'[file'[f].id]].state = "OPEN_RESULT_WAIT"
      BY <1>1, <2>2, AddTootGoes
    <3>. QED  BY <3>1 DEF Talks
  <2>3. CASE ~AddToot(t) /\ ~AddElement(t) /\ ~AddText(t)
    BY <1>1, <2>3, CallsGo DEF FilesGo
  <2>4. CASE AddElement(t) \/ AddText(t)
    BY <2>4 DEF AddElement, AddText, Goes, Named, Starts
  <2>. QED  BY <2>1, <2>2, <2>3, <2>4
<1>3. Starts(f) /\ Named(f) /\ file'[f].id = file[f].id
  BY <1>2 DEF Talks, Starts, Goes
<1>4. CASE file[f].stage = "open"
  BY <1>3, <1>4 DEF Talks
<1>5. CASE file[f].stage = "opening" /\ file'[f].stage = "open"
  <2>1. OpenReturns(t) /\ f = MyFile(t)
    <3>1. file'[f].stage # file[f].stage /\ CallInv(t)
      BY <1>1, <1>5 DEF ShapeInv, CallsInv
    <3>2. CASE WriteReturns(t) \/ AddTootFails(t) \/ AddElementFails(t) \/ AddTextFails(t)
               \/ AddTextNoToot(t) \/ WriteFindFails(t) \/ WriteGivesUp(t) \/ RemovedToot(t)
               \/ NothingToRemove(t)
      <4>1. \/ Return(t, "closed")
            \/ Return(t, "open") /\ thr[t].step \in WriteSteps
        BY <3>2
           DEF At, AddTootFails, AddElementFails, AddTextFails, AddTextNoToot, WriteFindFails,
               WriteGivesUp, WriteReturns, RemovedToot, NothingToRemove, WriteSteps
      <4>2. f = MyFile(t)
        BY <1>1, <3>1, <4>1 DEF Return
      <4>3. CASE Return(t, "closed")
        BY <1>1, <1>5, <4>2, <4>3 DEF Return, ClosedFile
      <4>4. CASE thr[t].step \in WriteSteps
        BY <1>5, <3>1, <4>2, <4>4 DEF CallInv
      <4>. QED  BY <4>1, <4>3, <4>4
    <3>3. CASE OpenReturns(t)
      BY <1>1, <3>1, <3>3 DEF OpenReturns, Return
    <3>4. CASE file' = file \/ AddToot(t)
      BY <1>1, <3>1, <3>4 DEF AddToot, File
    <3>5. CASE \E g \in Files : \/ \E d \in DeviceIds : OpenDevice(t, g, d)
                              \/ CloseToot(t, g) \/ CloseTootFails(t, g) \/ CloseTootLost(t, g)
      BY <1>1, <1>5, <3>1, <3>5
         DEF OpenDevice, CloseToot, CloseTootFails, CloseTootLost, ClosingAt, Stage, ClosedFile, File
    <3>. QED
      BY <3>2, <3>3, <3>4, <3>5
         DEF CallStep, OtherCallStep, UserStep, AddElement, AddText, NewToot, NewTootFails,
             OpenFind, OpenFindFails, OpenGivesUp, WriteFind, CloseFind, CloseFindFails,
             CloseReturns, RemoveToot, WriteToot
  <2>2. At(t, "openWait") /\ MayRead(thr[t].obj, toot[thr[t].obj].state = "OPEND")
    BY <2>1 DEF OpenReturns
  <2>3. thr[t].obj = toots[MyToot(t)] /\ Live(thr[t].obj)
    BY <2>2 DEF TootsInv, OwnInv, SleepersSafe
  <2>. QED  BY <1>3, <2>1, <2>2, <2>3 DEF Talks, MayRead, MyToot
<1>6. CASE file'[f].stage # "open"
  <2>1. toot'[toots[file[f].id]].state = "OPEND"
    <3>1. toot'[toots'[file'[f].id]].state = "OPEND" /\ Named(f)'
      BY <1>6 DEF Talks, Starts
    <3>. QED  BY <1>1, <1>3, <3>1, TootStays
  <2>2. toots[file[f].id] \in TootObjs
    BY <1>3, NamedToot
  <2>3. toot[toots[file[f].id]].state = "OPEND"
    <3>1. CASE AddToot(t)
      BY <1>1, <2>1, <2>2, <3>1 DEF AddToot
    <3>2. CASE RemoveToot(t)
      BY <1>1, <2>1, <2>2, <3>2 DEF RemoveToot, StartRemove, SetState, Toot
    <3>3. CASE RemovedToot(t)
      BY <1>1, <2>1, <2>2, <3>3 DEF RemovedToot, FinishRemove, FreeToot
    <3>4. CASE toot' = toot
      BY <2>1, <3>4
    <3>. QED
      BY <3>1, <3>2, <3>3, <3>4
         DEF CallStep, OtherCallStep, UserStep, AddElement, AddText, NewToot, CloseToot,
             WriteReturns, AddTootFails, NewTootFails, OpenFind, OpenFindFails, OpenReturns,
             OpenGivesUp, AddElementFails, AddTextFails, AddTextNoToot, WriteFind,
             WriteFindFails, WriteGivesUp, CloseFind, CloseFindFails, CloseReturns,
             NothingToRemove, OpenDevice, WriteToot, CloseTootFails, CloseTootLost
  <2>. QED  BY <1>3, <2>3 DEF Talks
<1>. QED  BY <1>3, <1>4, <1>5, <1>6 DEF Starts

(* Of agents and handlers, only a handler that sets the toot OPEND does. *)
LEMMA AgentsTalk ==
  ASSUME TootsInv, TootsInv', ~torn, ~torn', NEW p \in Agents, DeviceStep(p) \/ HandlerStep(p),
         NEW f \in Files, Talks(f)', ~Talks(f)
  PROVE  /\ AnswerSet(p) /\ Starts(f)
         /\ ans[p].op = "NEW_TOOT" /\ ans[p].ok /\ ans[p].obj = toots[file[f].id]
<1>1. [Next]_vars /\ toot \in [TootObjs -> Toot]
  BY DEF Next, TootsInv, ShapeInv, TypeOK
<1>2. file' = file /\ Starts(f) /\ Named(f) /\ Named(f)'
  BY AgentsGo DEF Talks, Starts, Named
<1>3. toots'[file[f].id] = toots[file[f].id] /\ toots[file[f].id] \in TootObjs
  BY <1>1, <1>2, TootStays, NamedToot
<1>4. /\ toot'[toots[file[f].id]].state = "OPEND"
      /\ toot[toots[file[f].id]].state # "OPEND"
  BY <1>2, <1>3 DEF Talks
<1>5. CASE AnswerSet(p)
  <2>1. toot' = [toot EXCEPT ![ans[p].obj].state = AnsweredState(ans[p])]
    BY <1>4, <1>5 DEF AnswerSet, SetState
  <2>2. ans[p].obj = toots[file[f].id] /\ AnsweredState(ans[p]) = "OPEND"
    BY <1>1, <1>3, <1>4, <2>1 DEF Toot
  <2>. QED  BY <1>2, <1>5, <2>2 DEF AnsweredState
<1>6. CASE RemoveDeviceToot(p)
  BY <1>1, <1>3, <1>4, <1>6 DEF RemoveDeviceToot, StartRemove, SetState, Toot
<1>7. CASE RemovedDeviceToot(p)
  BY <1>1, <1>3, <1>4, <1>7 DEF RemovedDeviceToot, FinishRemove, FreeToot
<1>8. CASE toot' = toot
  BY <1>4, <1>8
<1>. QED
  BY <1>5, <1>6, <1>7, <1>8
     DEF DeviceStep, HandlerStep, AnswerFind, AnswerTooLate, MarkDeviceUnready,
         ForgetEmptyDevice, tootVars

(* What an agent takes off its socket lets nobody talk. *)
LEMMA AnswersTalk ==
  ASSUME NEW p \in Agents, AnswerStep(p)
  PROVE  /\ UNCHANGED <<devVars, toots, toot, file, thr, rm, cursor, torn, sock>>
         /\ \A f \in Files : Talks(f)' <=> Talks(f)
<1>1. UNCHANGED <<devVars, toots, toot, file, thr, rm, cursor, torn, sock>>
  BY DEF AnswerStep, AnswerToot, AnswerText, AnswerRefused, Pop, PopAndNack, tootVars
<1>. QED  BY <1>1 DEF Talks, Starts, Named

(* The device of a file in use, and so its owner, stay. *)
LEMMA OwnersStay ==
  ASSUME TootsInv, [Next]_vars, UsedInv, ~torn, NEW f \in Files, Named(f),
         file'[f].dev = file[f].dev
  PROVE  Owner(f)' = Owner(f)
<1>1. file[f].stage # "closed" /\ Registered(file[f].dev)
  BY DEF Named, UsedInv
<1>. QED  BY <1>1, DevicesStay DEF Owner

(* A file in use has the device it had, or is opened now. *)
LEMMA NextKeepsUsed ==
  ASSUME TootsInv, [Next]_vars, UsedInv
  PROVE  UsedInv'
<1>. SUFFICES ASSUME ~torn', NEW f \in Files, file'[f].stage # "closed"
              PROVE  dev'[file'[f].dev] # NULL
  BY DEF UsedInv, Registered
<1>1. ~torn /\ ShapeInv /\ file \in [Files -> File] /\ thr \in [Threads -> Call]
  BY TornForGood DEF TootsInv, ShapeInv, TypeOK
<1>2. CASE file[f].stage # "closed" /\ file'[f].dev = file[f].dev
  BY <1>1, <1>2, DevicesStay DEF UsedInv
<1>3. ASSUME NEW t \in Threads, NEW g \in Files, NEW d \in DeviceIds, OpenDevice(t, g, d)
      PROVE  dev'[file'[f].dev] # NULL
  <2>1. CASE f = g
    BY <1>1, <1>3, <2>1 DEF OpenDevice, Ready, Registered, deviceVars, devVars
  <2>2. CASE f # g
    BY <1>1, <1>2, <1>3, <2>2 DEF OpenDevice
  <2>. QED  BY <2>1, <2>2
<1>4. ASSUME NEW t \in Threads, NEW s \in {"open", "closed"}, Return(t, s), ~At(t, "idle"),
             s = "open" => thr[t].step \notin {"idle", "addToot"}
      PROVE  dev'[file'[f].dev] # NULL
  <2>1. file[f].stage # "closed" /\ file'[f].dev = file[f].dev
    <3>1. CASE f = MyFile(t)
      <4>1. s = "open"
        BY <1>1, <1>4, <3>1 DEF Return, ClosedFile
      <4>2. Holds(f, MyToot(t))
        BY <1>1, <1>4, <3>1, <4>1, CallHolds
      <4>. QED  BY <1>1, <1>4, <3>1, <4>1, <4>2 DEF Return, File, Holds
    <3>2. CASE f # MyFile(t)
      BY <1>1, <1>4, <3>2 DEF Return
    <3>. QED  BY <3>1, <3>2
  <2>. QED  BY <1>2, <2>1
<1>5. ASSUME NEW t \in Threads, NEW g \in Files,
             CloseToot(t, g) \/ CloseTootFails(t, g) \/ CloseTootLost(t, g)
      PROVE  dev'[file'[f].dev] # NULL
  <2>1. file[g].stage = "open" /\ \A h \in Files \ {g} : file'[h] = file[h]
    BY <1>1, <1>5 DEF CloseToot, CloseTootFails, CloseTootLost, StartsClose, ClosingAt, Stage
  <2>2. f = g => file'[f].dev = file[f].dev
    BY <1>1, <1>5 DEF CloseToot, CloseTootFails, CloseTootLost, ClosingAt, Stage, ClosedFile, File
  <2>. QED  BY <1>2, <2>1, <2>2
<1>6. CASE file' = file
  BY <1>2, <1>6
<1>7. ASSUME NEW t \in Threads, AddToot(t) PROVE dev'[file'[f].dev] # NULL
  <2>1. file[f].stage # "closed" /\ file'[f].dev = file[f].dev
    BY <1>1, <1>7, AddTootGoes
  <2>. QED  BY <1>2, <2>1
<1>8. ASSUME NEW t \in Threads, CallStep(t) PROVE dev'[file'[f].dev] # NULL
  <2>1. CASE OpenReturns(t) \/ AddElementFails(t) \/ AddTextFails(t) \/ AddTextNoToot(t)
             \/ WriteFindFails(t) \/ WriteGivesUp(t) \/ WriteReturns(t)
    <3>1. Return(t, "open") /\ thr[t].step \notin {"idle", "addToot"} /\ ~At(t, "idle")
      BY <2>1
         DEF OpenReturns, AddElementFails, AddTextFails, AddTextNoToot, WriteFindFails,
             WriteGivesUp, WriteReturns, At
    <3>. QED  BY <1>4, <3>1
  <2>2. CASE AddTootFails(t) \/ RemovedToot(t) \/ NothingToRemove(t)
    <3>1. Return(t, "closed") /\ ~At(t, "idle")
      BY <2>2 DEF AddTootFails, RemovedToot, NothingToRemove, At
    <3>. QED  BY <1>4, <3>1
  <2>. QED
    BY <1>6, <1>7, <1>8, <2>1, <2>2
       DEF CallStep, OtherCallStep, AddElement, AddText, NewToot, NewTootFails, OpenFind,
           OpenFindFails, OpenGivesUp, WriteFind, CloseFind, CloseFindFails, CloseReturns,
           RemoveToot
<1>9. ASSUME NEW t \in Threads, UserStep(t) PROVE dev'[file'[f].dev] # NULL
  BY <1>3, <1>5, <1>6, <1>9 DEF UserStep, WriteToot
<1>. QED  BY <1>6, <1>8, <1>9, AgentsGo DEF Next, vars, tootVars

-----------------------------------------------------------------------------
(* The sockets.                                                            *)

(* What an agent and its handlers do to its socket: they put no request on *)
(* it and take none off.                                                   *)
Handles(p) ==
    \/ inbox'[p] = inbox[p] /\ (p \in sock => p \in sock')
    \/ inbox'[p] = << >> /\ p \notin sock'
    \/ /\ inbox[p] # << >> /\ Head(inbox[p]).type \notin RequestTypes
       /\ inbox'[p] = Tail(inbox[p]) /\ sock' = sock
    \/ /\ p \in sock /\ sock' = sock
       /\ \E m \in Message : m.type \notin RequestTypes /\ inbox'[p] = Append(inbox[p], m)

(* The answers of the kernel are no requests. *)
LEMMA RepliesAreOthers ==
  ASSUME NEW d \in DeviceIds, NEW s \in BOOLEAN
  PROVE  /\ CreateDeviceResult(d).type \notin RequestTypes
         /\ DestroyDeviceResult(d).type \notin RequestTypes
         /\ GetHealthResult(d, s).type \notin RequestTypes
         /\ NlMsgError.type \notin RequestTypes
  BY DEF RequestTypes, CreateDeviceResult, DestroyDeviceResult, GetHealthResult, NlMsgError

(* A message that is no request, or netlink_ack. *)
LEMMA SendHandles ==
  ASSUME NetTypeOK, NEW p \in Agents, NEW m \in Message, m.type \notin RequestTypes,
         SendOk(p, m) \/ Nack(p)
  PROVE  Handles(p)
<1>1. CASE SendOk(p, m)
  BY <1>1 DEF SendOk, CanDeliver, Deliver, Handles, NetTypeOK
<1>2. CASE Nack(p)
  BY <1>2, NackIsMessage DEF Nack, CanDeliver, Deliver, Handles, NetTypeOK, netVars, RequestTypes
<1>. QED  BY <1>1, <1>2

(* The steps of devices and their agents. *)
LEMMA DevicesHandle ==
  ASSUME DevInv, NEW p \in Agents, KernelStep(p) \/ AgentStep(p)
  PROVE  /\ Handles(p) /\ sock' \ {p} = sock \ {p}
         /\ p \in sock' /\ p \notin sock => proc[p] = "off"
<1>1. DevTypeOK /\ NetTypeOK /\ HandlerInv(p) /\ AgentInv(p)
  BY DEF DevInv, DevTypeOK, Inv
<1>2. CASE AgentStart(p)
  BY <1>2 DEF AgentStart, OpenSocket, Handles
<1>3. CASE CloseSocket(p)
  BY <1>1, <1>3 DEF CloseSocket, Handles, NetTypeOK
<1>4. CASE UNCHANGED netVars
  BY <1>4 DEF Handles, netVars
<1>5. ASSUME HeadIs(p, {"CREATE_DEVICE_RESULT", "DESTROY_DEVICE_RESULT", "GET_HEALTH_RESULT",
                        "NLMSG_ERROR"}), Pop(p)
      PROVE  Handles(p) /\ sock' = sock
  BY <1>1, <1>5 DEF HeadIs, Pop, Handles, RequestTypes, NetTypeOK
<1>6. ASSUME NEW m \in Message, m.type \notin RequestTypes, SendOk(p, m) \/ Nack(p)
      PROVE  Handles(p) /\ sock' = sock
  BY <1>1, <1>6, SendHandles DEF SendOk, Nack, Deliver, netVars
<1>7. CASE Nack(p)
  BY <1>6, <1>7, NackIsMessage DEF RequestTypes
<1>8. CASE ReplyCreated(p)
  <2>1. hid[p] \in DeviceIds
    BY <1>1, <1>8 DEF ReplyCreated, HandlerInv, Owns
  <2>. QED  BY <1>6, <1>8, <2>1, AnswersAreMessages, RepliesAreOthers DEF ReplyCreated
<1>9. CASE DestroyDevice(p)
  <2>1. known[p] \in DeviceIds
    BY <1>1, <1>9 DEF DestroyDevice, StartsDestroy, AgentInv, Owns, Serves
  <2>. QED  BY <1>6, <1>9, <2>1, AnswersAreMessages, RepliesAreOthers DEF DestroyDevice
<1>10. CASE GetHealth(p)
  <2>1. known[p] \in DeviceIds
    BY <1>1, <1>10 DEF GetHealth, AgentInv, Owns, Serves
  <2>2. Healthy(p, known[p]) \in BOOLEAN
    BY <1>1, <2>1 DEF Healthy, Ready, Registered, DevTypeOK, Device
  <2>. QED
    BY <1>6, <1>7, <1>10, <2>1, <2>2, AnswersAreMessages, RepliesAreOthers DEF GetHealth
<1>11. CASE AgentCreated(p) \/ AgentReads(p) \/ AgentDestroyed(p)
  BY <1>5, <1>11 DEF AgentCreated, AgentReads, AgentDestroyed, HeadIs
<1>. QED
  BY <1>2, <1>3, <1>4, <1>7, <1>8, <1>9, <1>10, <1>11
     DEF KernelStep, StoreStep, RemoveStep, AttachDeviceClass, AttachDeviceClassFails,
         ReplyCreatedFails, SetDeviceReady, DetachDeviceClass, MarkUnready, ForgetDevice,
         AgentStep, AgentRefused, AgentExit, AddDevice, AddDeviceFails, DestroyDeviceFails,
         SendFails

(* The same of PostOther. *)
LEMMA AgentsHandle ==
  ASSUME DevInv, NEW p \in Agents, DeviceStep(p) \/ HandlerStep(p)
  PROVE  /\ Handles(p) /\ sock' \ {p} = sock \ {p}
         /\ p \in sock' /\ p \notin sock => proc[p] = "off"
         /\ \A q \in Agents \ {p} : inbox'[q] = inbox[q]
<1>1. NetTypeOK
  BY DEF DevInv, DevTypeOK
<1>2. CASE DeviceStep(p) \/ MarkDeviceUnready(p) \/ ForgetEmptyDevice(p)
  <2>1. KernelStep(p) \/ AgentStep(p)
    BY <1>2 DEF DeviceStep, MarkDeviceUnready, ForgetEmptyDevice, KernelStep, RemoveStep
  <2>. QED  BY <1>1, <2>1, DevicesHandle, StepHasOneQueue
<1>3. CASE Nack(p)
  BY <1>1, <1>3, SendHandles, StepHasOneQueue, NackIsMessage
     DEF RequestTypes, Nack, Deliver, netVars
<1>4. CASE UNCHANGED netVars
  BY <1>4 DEF Handles, netVars
<1>. QED
  BY <1>2, <1>3, <1>4
     DEF HandlerStep, AnswerFind, AnswerTooLate, AnswerSet, AnswerDone, RemoveDeviceToot,
         RemovedDeviceToot, deviceVars

(* A body is queued on p's socket. *)
Queued(p, b) ==
    /\ Len(body[p]) \in Nat /\ DOMAIN body[p] = 1 .. Len(body[p])
    /\ DOMAIN body'[p] = 1 .. Len(body[p]) + 1
    /\ \A k \in DOMAIN body[p] : body'[p][k] = body[p][k]
    /\ body'[p][Len(body[p]) + 1] = b
    /\ \A q \in Agents \ {p} : body'[q] = body[q]

(* The first body is taken off p's socket. *)
Taken(p) ==
    /\ Len(body[p]) \in Nat /\ Len(body[p]) >= 1 /\ DOMAIN body[p] = 1 .. Len(body[p])
    /\ Head(body[p]) = body[p][1]
    /\ DOMAIN body'[p] = 1 .. Len(body[p]) - 1
    /\ \A k \in DOMAIN body'[p] : body'[p][k] = body[p][k + 1]
    /\ \A q \in Agents \ {p} : body'[q] = body[q]

(* What lasts on the sockets. *)
BodiesOK ==
    /\ body \in [Agents -> Seq(Body)]
    /\ \A p \in Agents : Aligned(body[p], inbox[p])
    /\ SocketInv

(* A request is sent with its body. *)
LEMMA AskGoes ==
  ASSUME NetTypeOK, BodiesOK, NEW p \in Agents, NEW m \in Message, SendOk(p, m),
         NEW b \in Body, Ask(p, b), m.type = b.type, m.toot = b.toot
  PROVE  BodiesOK' /\ Queued(p, b) /\ p \in sock /\ sock' = sock
<1>1. /\ body \in [Agents -> Seq(Body)] /\ inbox \in [Agents -> Seq(Message)]
      /\ body[p] \in Seq(Body) /\ inbox[p] \in Seq(Message)
  BY DEF NetTypeOK, BodiesOK
<1>2. /\ inbox'[p] = Append(inbox[p], m) /\ \A q \in Agents \ {p} : inbox'[q] = inbox[q]
      /\ p \in sock /\ sock' = sock
  BY <1>1 DEF SendOk, Deliver, CanDeliver
<1>3. body'[p] = Append(body[p], b) /\ \A q \in Agents \ {p} : body'[q] = body[q]
  BY <1>1 DEF Ask
<1>4. Append(body[p], b) \in Seq(Body)
  BY <1>1, AppendAt
<1>5. Queued(p, b)
  BY <1>1, <1>3, AppendAt DEF Queued
<1>6. body' \in [Agents -> Seq(Body)]
  BY <1>1, <1>3, <1>4 DEF Ask
<1>7. \A q \in Agents : Aligned(body'[q], inbox'[q])
  <2>1. Aligned(body[p], inbox[p])
    BY DEF BodiesOK
  <2>2. Aligned(Append(body[p], b), Append(inbox[p], m))
    BY <1>1, <2>1, AskKeepsAligned
  <2>3. Aligned(body'[p], inbox'[p])
    BY <1>2, <1>3, <2>2
  <2>4. ASSUME NEW q \in Agents \ {p} PROVE Aligned(body'[q], inbox'[q])
    BY <1>2, <1>3 DEF BodiesOK
  <2>. QED  BY <2>3, <2>4
<1>8. SocketInv'
  BY <1>2 DEF BodiesOK, SocketInv
<1>. QED  BY <1>2, <1>5, <1>6, <1>7, <1>8 DEF BodiesOK

(* An agent takes a request, and with it its body. *)
LEMMA AnswerGoes ==
  ASSUME NetTypeOK, BodiesOK, NEW p \in Agents, inbox[p] # << >>,
         Head(inbox[p]).type \in RequestTypes, Pop(p) \/ PopAndNack(p),
         body' = [body EXCEPT ![p] = Tail(@)]
  PROVE  /\ BodiesOK' /\ Taken(p) /\ sock' = sock
         /\ body[p][1].type = Head(inbox[p]).type /\ body[p][1].toot = Head(inbox[p]).toot
<1>1. /\ body \in [Agents -> Seq(Body)] /\ inbox \in [Agents -> Seq(Message)]
      /\ body[p] \in Seq(Body) /\ inbox[p] \in Seq(Message) /\ sock' = sock
      /\ Aligned(body[p], inbox[p])
  BY DEF NetTypeOK, BodiesOK, Pop, PopAndNack
<1>2. /\ body[p] # << >>
      /\ Head(body[p]).type = Head(inbox[p]).type /\ Head(body[p]).toot = Head(inbox[p]).toot
      /\ Aligned(Tail(body[p]), Tail(inbox[p]))
  BY <1>1, AnswerKeepsAligned
<1>3. body'[p] = Tail(body[p]) /\ \A q \in Agents \ {p} : body'[q] = body[q]
  BY <1>1
<1>4. Tail(body[p]) \in Seq(Body) /\ Tail(inbox[p]) \in Seq(Message)
  BY <1>1, <1>2, TailAt
<1>5. Taken(p) /\ Head(body[p]) = body[p][1]
  BY <1>1, <1>2, <1>3, TailAt DEF Taken
<1>6. body' \in [Agents -> Seq(Body)]
  BY <1>1, <1>3, <1>4
<1>7. \A q \in Agents \ {p} : inbox'[q] = inbox[q]
  BY <1>1 DEF Pop, PopAndNack
<1>8. Aligned(body'[p], inbox'[p])
  <2>1. CASE Pop(p)
    BY <1>1, <1>2, <1>3, <2>1 DEF Pop
  <2>2. CASE PopAndNack(p)
    <3>1. inbox'[p] = Append(Tail(inbox[p]), NlMsgError)
      BY <1>1, <2>2 DEF PopAndNack
    <3>2. Aligned(Tail(body[p]), Append(Tail(inbox[p]), NlMsgError))
      BY <1>2, <1>4, NackIsMessage, ReplyKeepsAligned DEF RequestTypes
    <3>. QED  BY <1>3, <3>1, <3>2
  <2>. QED  BY <2>1, <2>2
<1>9. ASSUME NEW q \in Agents \ {p} PROVE Aligned(body'[q], inbox'[q])
  BY <1>3, <1>7 DEF BodiesOK
<1>10. SocketInv'
  <2>1. p \in sock
    BY DEF BodiesOK, SocketInv
  <2>. QED  BY <1>1, <1>7, <2>1 DEF BodiesOK, SocketInv
<1>. QED  BY <1>1, <1>2, <1>5, <1>6, <1>8, <1>9, <1>10 DEF BodiesOK

(* The other steps of agents and handlers take no request, but a socket    *)
(* that is closed loses them.                                              *)
LEMMA OtherGoes ==
  ASSUME DevInv, BodiesOK, NEW p \in Agents, DeviceStep(p) \/ HandlerStep(p),
         body' = IF p \in sock' THEN body ELSE [body EXCEPT ![p] = << >>]
  PROVE  /\ BodiesOK'
         /\ sock' \ {p} = sock \ {p} /\ (p \in sock' /\ p \notin sock => proc[p] = "off")
         /\ \A q \in Agents : /\ q \in sock' => body'[q] = body[q]
                              /\ body'[q] = body[q] \/ body'[q] = << >>
<1>1. NetTypeOK
  BY DEF DevInv, DevTypeOK
<1>2. /\ body \in [Agents -> Seq(Body)] /\ inbox \in [Agents -> Seq(Message)]
      /\ body[p] \in Seq(Body) /\ inbox[p] \in Seq(Message)
      /\ Aligned(body[p], inbox[p])
  BY <1>1 DEF NetTypeOK, BodiesOK
<1>3. /\ Handles(p) /\ sock' \ {p} = sock \ {p}
      /\ p \in sock' /\ p \notin sock => proc[p] = "off"
      /\ \A q \in Agents \ {p} : inbox'[q] = inbox[q]
  BY AgentsHandle
<1>4. SocketInv'
  <2>1. ASSUME NEW q \in Agents \ {p}, q \notin sock' PROVE inbox'[q] = << >>
    BY <1>3, <2>1 DEF BodiesOK, SocketInv
  <2>2. ASSUME p \notin sock' PROVE inbox'[p] = << >>
    BY <1>3, <2>2 DEF BodiesOK, SocketInv, Handles
  <2>. QED  BY <2>1, <2>2 DEF SocketInv
<1>5. /\ \A q \in Agents \ {p} : body'[q] = body[q]
      /\ body'[p] = IF p \in sock' THEN body[p] ELSE << >>
      /\ body' \in [Agents -> Seq(Body)]
  BY <1>2
<1>6. Aligned(body'[p], inbox'[p])
  <2>1. CASE p \notin sock'
    <3>1. inbox'[p] = << >>
      BY <1>4, <2>1 DEF SocketInv
    <3>2. << >> \in Seq(Message) /\ DOMAIN << >> = {}
      OBVIOUS
    <3>3. Aligned(<< >>, << >>)
      BY <3>2, EmptyAligned
    <3>. QED  BY <1>5, <2>1, <3>1, <3>3
  <2>2. CASE p \in sock' /\ inbox'[p] = inbox[p]
    BY <1>2, <1>5, <2>2
  <2>3. CASE p \in sock' /\ inbox[p] # << >> /\ Head(inbox[p]).type \notin RequestTypes
             /\ inbox'[p] = Tail(inbox[p])
    <3>1. \A k \in DOMAIN body[p] : body[p][k] \in Body
      BY <1>2
    <3>2. \A k \in DOMAIN body[p] : body[p][k].type \in RequestTypes
      BY <3>1 DEF Body
    <3>. QED  BY <1>2, <1>5, <2>3, <3>2, TakeKeepsAligned
  <2>4. ASSUME p \in sock', NEW m \in Message, m.type \notin RequestTypes,
               inbox'[p] = Append(inbox[p], m)
        PROVE  Aligned(body'[p], inbox'[p])
    BY <1>2, <1>5, <2>4, ReplyKeepsAligned
  <2>. QED  BY <1>3, <2>1, <2>2, <2>3, <2>4 DEF Handles
<1>7. ASSUME NEW q \in Agents \ {p} PROVE Aligned(body'[q], inbox'[q])
  BY <1>3, <1>5 DEF BodiesOK
<1>. QED  BY <1>3, <1>4, <1>5, <1>6, <1>7 DEF BodiesOK

-----------------------------------------------------------------------------
(* The owners of the files, and the steps that put nothing on a socket.    *)

(* The owner of a file in use stays, and opens no socket. *)
LEMMA OwnersKeep ==
  ASSUME TootsInv, [PostNext]_allVars, BodiesOK, UsedInv, ~torn',
         NEW f \in Files, Named(f), file'[f].dev = file[f].dev
  PROVE  /\ ~torn /\ Owner(f)' = Owner(f) /\ Owner(f) \in Agents
         /\ Owner(f) \in sock' => Owner(f) \in sock
<1>1. [Next]_vars /\ DevInv /\ ShapeInv
  BY PostIsToots DEF TootsInv, ShapeInv
<1>2. ~torn
  BY <1>1, TornForGood
<1>3. Owner(f)' = Owner(f)
  BY <1>1, <1>2, OwnersStay
<1>4. Owns(Owner(f), file[f].dev) /\ Owner(f) \in Agents
  <2>1. file[f].dev \in DeviceIds /\ Registered(file[f].dev)
    BY <1>2 DEF UsedInv, Named, TootsInv, ShapeInv, CallsInv, FileInv
  <2>. QED  BY <1>1, <2>1 DEF Owns, Owner, Registered, DevInv, DevTypeOK, Device
<1>5. proc[Owner(f)] # "off"
  <2>1. TableInv(Owner(f)) /\ file[f].dev \in DeviceIds
    BY <1>1, <1>4 DEF DevInv, Inv, Owns
  <2>. QED  BY <1>4, <2>1 DEF TableInv
<1>6. ASSUME NEW p \in Agents, PostOther(p), Owner(f) \in sock' PROVE Owner(f) \in sock
  <2>1. sock' \ {p} = sock \ {p} /\ (p \in sock' /\ p \notin sock => proc[p] = "off")
    BY <1>1, <1>6, AgentsHandle DEF PostOther
  <2>. QED  BY <1>5, <1>6, <2>1
<1>7. ASSUME NEW p \in Agents, PostAnswer(p) PROVE sock' = sock
  BY <1>7, AnswersTalk DEF PostAnswer, AnswerStep
<1>8. ASSUME NEW t \in Threads, CallStep(t) \/ UserStep(t) PROVE sock' = sock
  BY <1>8
     DEF CallStep, OtherCallStep, UserStep, AddToot, AddElement, AddText, NewToot, CloseToot,
         WriteReturns, AddTootFails, NewTootFails, OpenFind, OpenFindFails, OpenReturns,
         OpenGivesUp, AddElementFails, AddTextFails, AddTextNoToot, WriteFind, WriteFindFails,
         WriteGivesUp, CloseFind, CloseFindFails, CloseReturns, RemoveToot, RemovedToot,
         NothingToRemove, OpenDevice, WriteToot, CloseTootFails, CloseTootLost, SendOk, Deliver,
         deviceVars, netVars
<1>9. ASSUME NEW t \in Threads,
             \/ PostAddToot(t) \/ PostNewToot(t) \/ PostClose(t) \/ PostCall(t)
             \/ PostAddElement(t) \/ PostAddText(t) \/ PostWriteReturns(t)
      PROVE  CallStep(t) \/ UserStep(t)
  BY <1>9
     DEF PostAddToot, PostNewToot, PostClose, PostCall, PostAddElement, PostAddText,
         PostWriteReturns, CallStep, OtherCallStep, UserStep
<1>10. UNCHANGED allVars => sock' = sock
  BY DEF allVars, vars, deviceVars, netVars
<1>11. Owner(f) \in sock' => Owner(f) \in sock
  BY <1>6, <1>7, <1>8, <1>9, <1>10, Zenon DEF PostNext
<1>. QED  BY <1>2, <1>3, <1>4, <1>11

(* What a step of the calls or of an answer means to the files: they keep  *)
(* their opens and owners, and no owner begins to talk.                    *)
FilesCalm ==
    /\ openOf' = openOf /\ opens' = opens /\ FilesGo
    /\ Undisturbed' =>
         /\ Undisturbed
         /\ \A f \in Files : Named(f)' =>
              /\ Owner(f)' = Owner(f) /\ (Owner(f) \in sock' => Owner(f) \in sock)
              /\ Talks(f)' => Talks(f)

(* The steps of calls and answers are calm. *)
LEMMA StepsAreCalm ==
  ASSUME PostInv, BodiesOK, TootsInv', [PostNext]_allVars, ~misled' => ~misled,
         openOf' = openOf, opens' = opens,
         \/ \E t \in Threads : (CallStep(t) \/ UserStep(t)) /\ ~AddToot(t)
         \/ \E p \in Agents : AnswerStep(p)
  PROVE  FilesCalm
<1>1. TootsInv /\ ShapeInv /\ UsedInv
  BY DEF PostInv, TootsInv
<1>2. FilesGo
  <2>1. ASSUME NEW t \in Threads, CallStep(t) \/ UserStep(t), ~AddToot(t) PROVE FilesGo
    <3>1. CASE AddElement(t) \/ AddText(t)
      BY <3>1 DEF AddElement, AddText, FilesGo, Goes, Named, Starts
    <3>. QED  BY <1>1, <2>1, <3>1, CallsGo
  <2>. QED  BY <2>1, AgentsGo
<1>3. ASSUME Undisturbed' PROVE Undisturbed /\ ~torn /\ ~torn'
  <2>1. ~torn' /\ ~misled'
    BY <1>3 DEF Undisturbed
  <2>2. ~torn
    BY <1>1, <2>1, PostIsToots, TornForGood
  <2>. QED  BY <2>1, <2>2 DEF Undisturbed
<1>4. ASSUME Undisturbed', NEW f \in Files, Named(f)'
      PROVE  /\ Owner(f)' = Owner(f) /\ (Owner(f) \in sock' => Owner(f) \in sock)
             /\ Talks(f)' => Talks(f)
  <2>1. Named(f) /\ file'[f].dev = file[f].dev
    BY <1>2, <1>4 DEF FilesGo, Goes
  <2>2. Talks(f)' => Talks(f)
    BY <1>1, <1>3, <1>4, CallsTalk, AnswersTalk
  <2>. QED  BY <1>1, <1>3, <1>4, <2>1, <2>2, OwnersKeep
<1>. QED  BY <1>2, <1>3, <1>4 DEF FilesCalm

(* Nothing is put on a socket or taken from it, but what a closed one      *)
(* loses; writes and files go on or end.                                   *)
Quiet ==
    /\ UNCHANGED <<openOf, opens, writes, made, text, count, held, posts, wrapped>>
    /\ FilesGo /\ WritesGo
    /\ \A p \in Agents : /\ p \in sock' => body'[p] = body[p]
                         /\ body'[p] = body[p] \/ body'[p] = << >>
    /\ success' \subseteq TextIds /\ \A n \in TextIds : Sent(n)' => Sent(n)
    /\ ~torn' => ~torn /\ \A f \in Files : Named(f)' => toots'[file[f].id] = toots[file[f].id]
    /\ \A p \in Agents, i \in TootIds : Welcomes(p, i)' => Welcomes(p, i)
    /\ Undisturbed' =>
         /\ Undisturbed
         /\ \A f \in Files : Named(f)' =>
              /\ Owner(f)' = Owner(f) /\ Owner(f) \in Agents
              /\ Owner(f) \in sock' => Owner(f) \in sock
              /\ Talks(f)' =>
                   Talks(f) \/ (Welcomes(Owner(f), file[f].id) /\ ans'[Owner(f)] = NULL)
         /\ \A f \in Files : file'[f].stage = "open" => Talks(f) /\ Named(f)'

(* A text that was sent is a text that was written. *)
LEMMA SentIsWritten ==
  ASSUME PostTypeOK, TextInv, NEW n \in TextIds, Sent(n)
  PROVE  n \in 1 .. writes
<1>1. CASE n \in success
  BY <1>1 DEF TextInv, TextIds, PostTypeOK
<1>2. ASSUME NEW t \in Threads, thr[t].step \in {"writeFind", "writeWait"}, text[t] = n
      PROVE  n \in 1 .. writes
  BY <1>2 DEF TextInv, WriteInv, ElemSteps
<1>. QED  BY <1>1, <1>2 DEF Sent

(* Quiet steps keep the way of the texts. *)
LEMMA QuietKeepsWay ==
  ASSUME PostInv, Quiet
  PROVE  WayInv'
<1>1. /\ OpenInv /\ SendInv /\ TextInv /\ LinesInv /\ SentInv /\ IndexInv /\ PostedIsOneOpen
      /\ PostTypeOK
  BY DEF PostInv, WayInv
<1>2. /\ openOf' = openOf /\ opens' = opens /\ writes' = writes /\ made' = made /\ text' = text
      /\ count' = count /\ held' = held /\ posts' = posts /\ wrapped' = wrapped
      /\ FilesGo /\ WritesGo
  BY DEF Quiet
<1>3. \A p \in Agents : \A k \in DOMAIN body'[p] : body'[p] = body[p] /\ k \in DOMAIN body[p]
  <2>1. DOMAIN << >> = {}
    OBVIOUS
  <2>. QED  BY <2>1 DEF Quiet
<1>4. \A f \in Files : Named(f)' =>
        /\ Named(f) /\ file'[f].id = file[f].id /\ file'[f].dev = file[f].dev
        /\ Starts(f)' => Starts(f)
        /\ file'[f].stage = "opening" => file[f].stage = "opening"
  BY <1>2 DEF FilesGo, Goes, Starts
<1>5. OpenInv'
  <2>1. /\ \A f \in Files : Named(f)' => openOf[f] <= opens
        /\ \A f, g \in Files : Named(f)' /\ Named(g)' /\ openOf[f] = openOf[g] => f = g
    BY <1>1, <1>4 DEF OpenInv
  <2>2. \A p \in Agents : \A k \in DOMAIN body'[p] : body'[p][k].open <= opens
    BY <1>1, <1>3 DEF OpenInv
  <2>. QED  BY <1>1, <1>2, <2>1, <2>2 DEF OpenInv
<1>6. SendInv'
  <2>1. \A f \in Files : Starts(f)' => Unsent(openOf[f])'
    BY <1>1, <1>2, <1>3, <1>4 DEF SendInv, Unsent, Sends, Starts
  <2>2. \A p, q \in Agents : \A k \in DOMAIN body'[p], l \in DOMAIN body'[q] :
          (Sends(p, k) /\ Sends(q, l))' /\ body'[p][k].open = body'[q][l].open => p = q /\ k = l
    BY <1>1, <1>3 DEF SendInv, Sends
  <2>3. \A p \in Agents : \A k \in DOMAIN body'[p] : Sends(p, k)' =>
         \A j \in DOMAIN posts : posts[j].open # body'[p][k].open
    BY <1>1, <1>3 DEF SendInv, Sends
  <2>. QED  BY <1>1, <1>2, <2>1, <2>2, <2>3 DEF SendInv
<1>7. TextInv'
  <2>1. ASSUME NEW t \in Threads PROVE WriteInv(t)'
    <3>1. Writes(t) /\ WriteInv(t)
      BY <1>1, <1>2 DEF WritesGo, TextInv
    <3>2. thr'[t].step \in ElemSteps =>
            text'[t] \in 1 .. writes /\ made'[text'[t]].open = openOf'[thr'[t].file]
      BY <1>2, <3>1 DEF Writes, WriteInv, MyFile
    <3>3. At(t, "addText")' => At(t, "addText")
      BY <3>1 DEF Writes, At, ElemSteps
    <3>4. \A u \in Threads : At(u, "addText")' => At(u, "addText")
      BY <1>2 DEF WritesGo, Writes, At, ElemSteps
    <3>5. ASSUME At(t, "addText")'
          PROVE  \A p \in Agents : /\ \A k \in DOMAIN body'[p] : ~Carries(p, k, text[t])'
                                   /\ \A i \in TootIds : ~Keeps(p, i, text[t])'
      BY <1>2, <1>3, <3>1, <3>3, <3>5 DEF WriteInv, Carries, Keeps
    <3>6. ASSUME At(t, "addText")', NEW u \in Threads, At(u, "addText")', text[u] = text[t]
          PROVE  u = t
      BY <3>1, <3>3, <3>4, <3>6 DEF WriteInv
    <3>. QED  BY <1>2, <3>2, <3>5, <3>6 DEF WriteInv, MyFile
  <2>2. ASSUME NEW p \in Agents, NEW k \in DOMAIN body'[p] PROVE CarryInv(p, k)'
    <3>1. CarryInv(p, k) /\ body'[p] = body[p]
      BY <1>1, <1>3, <2>2 DEF TextInv
    <3>. QED  BY <1>2, <3>1 DEF CarryInv, Carries, Keeps
  <2>3. \A n \in success' : n <= writes'
    BY <1>1, <1>2, SentIsWritten DEF Quiet, Sent, TextIds
  <2>4. \A f \in Files : Named(f)' /\ file'[f].stage = "opening" =>
         \A n \in 1 .. writes : made[n].open # openOf[f]
    BY <1>1, <1>4 DEF TextInv
  <2>. QED  BY <1>1, <1>2, <2>1, <2>2, <2>3, <2>4 DEF TextInv, Once
<1>8. ASSUME Undisturbed'
      PROVE  /\ Undisturbed
             /\ \A f \in Files : Named(f)' =>
                  /\ Owner(f)' = Owner(f) /\ Owner(f) \in Agents
                  /\ Owner(f) \in sock' => Owner(f) \in sock
                  /\ Talks(f)' =>
                       Talks(f) \/ (Welcomes(Owner(f), file[f].id) /\ ans'[Owner(f)] = NULL)
             /\ \A f \in Files : file'[f].stage = "open" => Talks(f) /\ Named(f)'
  BY <1>8 DEF Quiet
<1>9. ASSUME NEW p \in Agents, NEW i \in TootIds, NEW n, Waits(p, i, n)' PROVE Waits(p, i, n)
  BY <1>2, <1>3, <1>9 DEF Waits, Keeps, Carries
<1>10. LinesInv'
  <2>. SUFFICES ASSUME Undisturbed', NEW p \in Agents, NEW i \in TootIds PROVE LineInv(p, i)'
    BY DEF LinesInv
  <2>1. LineInv(p, i)
    BY <1>1, <1>8 DEF LinesInv
  <2>2. \A k \in DOMAIN body'[p] : body'[p][k].toot = i /\ body'[p][k].type # "NEW_TOOT" =>
          held'[p][i] # NULL
    BY <1>2, <1>3, <2>1 DEF LineInv
  <2>3. ASSUME NEW k \in DOMAIN body'[p], Sends(p, k)', body'[p][k].toot = i
        PROVE  /\ \A l \in DOMAIN body'[p] :
                    body'[p][l].toot = i /\ body'[p][l].type # "NEW_TOOT" => l <= k
               /\ \A n \in TextIds : Waits(p, i, n)' => made'[n].open = body'[p][k].open
    BY <1>2, <1>3, <1>9, <2>1, <2>3 DEF LineInv, Sends
  <2>4. ASSUME NEW f \in Files, Talks(f)', Owner(f)' = p, file'[f].id = i
        PROVE  /\ held'[p][i] # NULL
               /\ \A k \in DOMAIN body'[p] : Sends(p, k)' => body'[p][k].toot # i
               /\ \A n \in TextIds : Waits(p, i, n)' => made'[n].open = openOf'[f]
    <3>1. Named(f)' /\ file[f].id = i /\ Owner(f) = p
      BY <1>4, <1>8, <2>4 DEF Talks, Starts
    <3>2. CASE Talks(f)
      BY <1>2, <1>3, <1>9, <2>1, <3>1, <3>2 DEF LineInv, Sends
    <3>3. CASE Welcomes(p, i)
      <4>1. /\ held[p][i] = << >>
            /\ \A k \in DOMAIN body[p] : body[p][k].toot = i => body[p][k].type = "NEW_TOOT"
        BY <2>1, <3>3 DEF LineInv
      <4>2. \A n : ~Waits(p, i, n)
        <5>1. DOMAIN << >> = {}
          OBVIOUS
        <5>. QED  BY <4>1, <5>1 DEF Waits, Keeps, Carries
      <4>3. held[p][i] # NULL
        <5>1. << >> \in Seq(TextIds)
          OBVIOUS
        <5>. QED  BY <4>1, <5>1, NoTextsAssumption
      <4>. QED  BY <1>2, <1>3, <1>9, <4>1, <4>2, <4>3 DEF Sends
    <3>. QED  BY <1>8, <2>4, <3>1, <3>2, <3>3
  <2>5. ASSUME Welcomes(p, i)'
        PROVE  /\ held'[p][i] = << >>
               /\ \A k \in DOMAIN body'[p] : body'[p][k].toot = i => body'[p][k].type = "NEW_TOOT"
               /\ \A f \in Files : Talks(f)' /\ Owner(f)' = p => file'[f].id # i
    <3>1. Welcomes(p, i) /\ ans'[p] # NULL
      BY <2>5 DEF Quiet, Welcomes
    <3>2. ASSUME NEW f \in Files, Talks(f)', Owner(f)' = p, file'[f].id = i PROVE FALSE
      <4>1. Named(f)' /\ file[f].id = i /\ Owner(f) = p
        BY <1>4, <1>8, <3>2 DEF Talks, Starts
      <4>2. Talks(f)
        BY <1>8, <3>1, <3>2, <4>1
      <4>. QED  BY <2>1, <3>1, <4>1, <4>2 DEF LineInv
    <3>. QED  BY <1>2, <1>3, <2>1, <3>1, <3>2 DEF LineInv
  <2>. QED  BY <2>2, <2>3, <2>4, <2>5 DEF LineInv
<1>11. SentInv'
  <2>. SUFFICES ASSUME Undisturbed', NEW n \in TextIds, Sent(n)'
                PROVE  /\ \A f \in Files : file'[f].stage = "open" /\ openOf'[f] = made'[n].open
                              /\ Owner(f)' \in sock' => Waits(Owner(f), file[f].id, n)'
                       /\ \A p \in Agents : \A k \in DOMAIN body'[p] :
                            Sends(p, k)' /\ body'[p][k].open = made'[n].open =>
                                Waits(p, body[p][k].toot, n)'
                       /\ \A k \in DOMAIN posts' : posts'[k].open = made'[n].open =>
                            \E i \in DOMAIN posts'[k].texts : posts'[k].texts[i] = n
    BY DEF SentInv
  <2>1. Undisturbed /\ Sent(n)
    BY <1>8 DEF Quiet
  <2>2. n \in 1 .. writes
    BY <1>1, <2>1, SentIsWritten
  <2>3. ASSUME NEW f \in Files, file'[f].stage = "open", openOf'[f] = made'[n].open,
               Owner(f)' \in sock'
        PROVE  Waits(Owner(f), file[f].id, n)'
    <3>1. Talks(f) /\ Named(f)' /\ Named(f)
      BY <1>4, <1>8, <2>3
    <3>2. /\ Owner(f)' = Owner(f) /\ Owner(f) \in Agents /\ Owner(f) \in sock
          /\ file'[f].id = file[f].id
      BY <1>4, <1>8, <2>3, <3>1
    <3>3. openOf[f] = made[n].open
      BY <1>2, <2>3
    <3>4. file[f].stage # "opening"
      BY <1>1, <2>2, <3>1, <3>3 DEF TextInv
    <3>5. file[f].stage = "open"
      BY <3>1, <3>4 DEF Talks, Starts
    <3>6. Waits(Owner(f), file[f].id, n)
      BY <1>1, <2>1, <3>2, <3>3, <3>5 DEF SentInv
    <3>7. body'[Owner(f)] = body[Owner(f)]
      BY <2>3, <3>2 DEF Quiet
    <3>8. PICK p \in Agents : p = Owner(f)
      BY <3>2
    <3>9. \E i : i = file[f].id
      OBVIOUS
    <3>10. PICK i : i = file[f].id
      BY <3>9
    <3>11. Waits(p, i, n)'
      BY <1>2, <3>6, <3>7, <3>8, <3>10 DEF Waits, Keeps, Carries
    <3>. QED  BY <3>2, <3>8, <3>10, <3>11
  <2>4. ASSUME NEW p \in Agents, NEW k \in DOMAIN body'[p], Sends(p, k)',
               body'[p][k].open = made'[n].open
        PROVE  Waits(p, body[p][k].toot, n)'
    <3>1. body'[p] = body[p] /\ k \in DOMAIN body[p] /\ Sends(p, k)
      BY <1>3, <2>4 DEF Sends
    <3>2. Waits(p, body[p][k].toot, n)
      BY <1>1, <1>2, <2>1, <2>4, <3>1 DEF SentInv
    <3>3. PICK i : i = body[p][k].toot
      OBVIOUS
    <3>4. Waits(p, i, n)'
      BY <1>2, <3>1, <3>2, <3>3 DEF Waits, Keeps, Carries
    <3>. QED  BY <3>1, <3>3, <3>4
  <2>5. \A k \in DOMAIN posts' : posts'[k].open = made'[n].open =>
          \E i \in DOMAIN posts'[k].texts : posts'[k].texts[i] = n
    BY <1>1, <1>2, <2>1 DEF SentInv
  <2>. QED  BY <2>3, <2>4, <2>5
<1>12. IndexInv'
  <2>1. ASSUME ~torn', NEW f \in Files, NEW n \in 1 .. writes, Starts(f)', made[n].open = openOf[f]
        PROVE  openOf[f] \in wrapped \/ made[n].index <= count[toots'[file'[f].id]]
    <3>1. ~torn /\ Named(f)' /\ toots'[file[f].id] = toots[file[f].id]
      BY <2>1 DEF Quiet, Starts
    <3>. QED  BY <1>1, <1>4, <2>1, <3>1 DEF IndexInv
  <2>2. ~torn' => ~torn
    BY DEF Quiet
  <2>. QED  BY <1>1, <1>2, <2>1, <2>2 DEF IndexInv
<1>. QED  BY <1>1, <1>2, <1>5, <1>6, <1>7, <1>8, <1>10, <1>11, <1>12 DEF WayInv, PostedIsOneOpen

(* System calls leave the handlers of agents alone. *)
LEMMA CallsKeepAns ==
  ASSUME NEW t \in Threads, CallStep(t) \/ UserStep(t)
  PROVE  ans' = ans
  BY DEF CallStep, OtherCallStep, UserStep, AddToot, AddElement, AddText, NewToot, CloseToot,
         WriteReturns, AddTootFails, NewTootFails, OpenFind, OpenFindFails, OpenReturns,
         OpenGivesUp, AddElementFails, AddTextFails, AddTextNoToot, WriteFind, WriteFindFails,
         WriteGivesUp, CloseFind, CloseFindFails, CloseReturns, RemoveToot, RemovedToot,
         NothingToRemove, OpenDevice, WriteToot, CloseTootFails, CloseTootLost

(* The invariant holds on the sockets. *)
LEMMA InvBodies ==
  ASSUME PostInv
  PROVE  BodiesOK /\ TootsInv /\ UsedInv /\ DevInv /\ NetTypeOK /\ ShapeInv
  BY DEF PostInv, PostTypeOK, BodiesOK, TootsInv, ShapeInv, DevInv, DevTypeOK

(* The steps of calls that PostCall has are none of the others. *)
LEMMA CallIsOther ==
  ASSUME ShapeInv, NEW t \in Threads, PostCall(t) \/ PostWriteReturns(t)
  PROVE  ~AddToot(t) /\ ~AddElement(t) /\ ~AddText(t)
<1>1. thr \in [Threads -> Call]
  BY DEF ShapeInv, TypeOK
<1>2. /\ AddToot(t) => At(t, "addToot") /\ thr'[t].step = "newToot"
      /\ AddElement(t) => At(t, "addElement") /\ thr'[t].step = "addText"
      /\ AddText(t) => At(t, "addText") /\ thr'[t].step = "writeFind"
  BY <1>1 DEF AddToot, AddElement, AddText, At, StepTo, Call
<1>3. CASE AddTootFails(t) \/ AddElementFails(t) \/ AddTextFails(t) \/ AddTextNoToot(t)
  <2>1. thr'[t].step = "idle"
    BY <1>1, <1>3
       DEF AddTootFails, AddElementFails, AddTextFails, AddTextNoToot, Return, IdleThread
  <2>. QED  BY <1>2, <2>1
<1>4. CASE ~(AddTootFails(t) \/ AddElementFails(t) \/ AddTextFails(t) \/ AddTextNoToot(t))
  <2>1. CASE OtherCallStep(t) \/ WriteReturns(t)
    <3>1. thr[t].step \notin {"addToot", "addElement", "addText"}
      BY <1>4, <2>1
         DEF OtherCallStep, NewToot, NewTootFails, OpenFind, OpenFindFails, OpenReturns,
             OpenGivesUp, WriteFind, WriteFindFails, WriteGivesUp, CloseFind, CloseFindFails,
             CloseReturns, RemoveToot, RemovedToot, NothingToRemove, WriteReturns, At
    <3>. QED  BY <1>2, <3>1 DEF At
  <2>2. CASE UserStep(t)
    <3>1. At(t, "idle")
      BY <2>2
         DEF UserStep, OpenDevice, WriteToot, CloseToot, CloseTootFails, CloseTootLost, StartsClose
    <3>. QED  BY <1>2, <3>1 DEF At
  <2>. QED  BY <2>1, <2>2 DEF PostCall, PostWriteReturns
<1>. QED  BY <1>3, <1>4

(* A file that is open has a toot. *)
LEMMA OpenIsNamed ==
  ASSUME ShapeInv
  PROVE  \A f \in Files : file[f].stage \in {"open", "closing"} => Named(f)
  BY NoValueIsNull DEF ShapeInv, CallsInv, FileInv, Named

(* See above, for the next state. *)
LEMMA OpenIsNamedNext ==
  ASSUME TootsInv'
  PROVE  \A f \in Files : file'[f].stage \in {"open", "closing"} => Named(f)'
<1>1. ShapeInv'
  BY DEF TootsInv
<1>2. \A f \in Files : file'[f].stage \in {"open", "closing"} => file'[f].id \in TootIds
  BY <1>1 DEF ShapeInv, CallsInv, FileInv
<1>. QED  BY <1>2, NoValueIsNull DEF Named

(* What every step keeps of the toots of files. *)
LEMMA TootsGo ==
  ASSUME TootsInv, TootsInv', [Next]_vars, FilesGo
  PROVE  ~torn' => ~torn /\ \A f \in Files : Named(f)' => toots'[file[f].id] = toots[file[f].id]
<1>1. ~torn' => ~torn
  BY TornForGood DEF TootsInv
<1>2. ASSUME ~torn', NEW f \in Files, Named(f)' PROVE toots'[file[f].id] = toots[file[f].id]
  BY <1>1, <1>2, TootStays DEF FilesGo, Goes
<1>. QED  BY <1>1, <1>2

(* What the calls do without posting is quiet. *)
LEMMA CallsAreQuiet ==
  ASSUME PostInv, TootsInv', NEW t \in Threads, PostCall(t) \/ PostWriteReturns(t)
  PROVE  Quiet
<1>1. BodiesOK /\ TootsInv /\ UsedInv /\ ShapeInv /\ TextInv /\ PostTypeOK
  BY InvBodies DEF PostInv, WayInv
<1>2. CallStep(t) \/ UserStep(t)
  BY DEF PostCall, PostWriteReturns, CallStep
<1>3. ~AddToot(t) /\ ~AddElement(t) /\ ~AddText(t)
  BY <1>1, CallIsOther
<1>4. /\ UNCHANGED <<openOf, opens, writes, made, text, count, body, held, posts, wrapped, misled>>
      /\ success' = success \/ (At(t, "writeWait") /\ success' = success \cup {text[t]})
  BY DEF PostCall, PostWriteReturns, WriteReturns, postVars
<1>5. [PostNext]_allVars /\ [Next]_vars
  BY PostIsToots DEF PostNext
<1>6. FilesCalm
  BY <1>1, <1>2, <1>3, <1>4, <1>5, StepsAreCalm
<1>7. FilesGo /\ WritesGo
  BY <1>1, <1>2, <1>3, CallsGo
<1>8. ans' = ans
  BY <1>2, CallsKeepAns
<1>9. success' \subseteq TextIds /\ \A n \in TextIds : Sent(n)' => Sent(n)
  <2>1. At(t, "writeWait") => Sent(text[t]) /\ text[t] \in TextIds
    <3>1. At(t, "writeWait") => text[t] \in 1 .. writes
      BY <1>1 DEF TextInv, WriteInv, ElemSteps, At
    <3>. QED  BY <1>1, <3>1 DEF Sent, At, PostTypeOK, TextIds
  <2>2. success' \subseteq TextIds
    BY <1>1, <1>4, <2>1 DEF PostTypeOK
  <2>3. ASSUME NEW n \in TextIds, NEW u \in Threads, thr'[u].step \in {"writeFind", "writeWait"},
               text[u] = n
        PROVE  Sent(n)
    <3>1. thr[u].step \in {"writeFind", "writeWait"}
      BY <1>7, <2>3 DEF WritesGo, Writes, ElemSteps, At
    <3>. QED  BY <2>3, <3>1 DEF Sent
  <2>. QED  BY <1>4, <2>1, <2>2, <2>3 DEF Sent
<1>10. ASSUME Undisturbed', NEW f \in Files, Named(f)'
       PROVE  /\ Owner(f)' = Owner(f) /\ Owner(f) \in Agents
              /\ Owner(f) \in sock' => Owner(f) \in sock
              /\ Talks(f)' => Talks(f)
  BY <1>1, <1>5, <1>6, <1>10, OwnersKeep DEF FilesCalm, FilesGo, Goes, Undisturbed
<1>11. ASSUME Undisturbed', NEW f \in Files, file'[f].stage = "open"
       PROVE  Talks(f) /\ Named(f)'
  <2>1. Named(f)'
    BY <1>11, OpenIsNamedNext
  <2>2. Talks(f)'
    BY <1>11, <2>1 DEF Talks, Starts
  <2>. QED  BY <1>10, <1>11, <2>1, <2>2
<1>12. Undisturbed' => Undisturbed
  BY <1>6 DEF FilesCalm
<1>13. ~torn' => ~torn /\ \A f \in Files : Named(f)' => toots'[file[f].id] = toots[file[f].id]
  BY <1>1, <1>5, <1>7, TootsGo
<1>14. \A p \in Agents, i \in TootIds : Welcomes(p, i)' => Welcomes(p, i)
  BY <1>8 DEF Welcomes
<1>. QED
  BY <1>4, <1>7, <1>9, <1>10, <1>11, <1>12, <1>13, <1>14 DEF Quiet

(* So is what agents and handlers do without a request. *)
LEMMA OthersAreQuiet ==
  ASSUME PostInv, TootsInv', NEW p \in Agents, PostOther(p)
  PROVE  Quiet
<1>1. /\ BodiesOK /\ TootsInv /\ UsedInv /\ ShapeInv /\ DevInv /\ PostTypeOK
      /\ ans \in [Agents -> Answer \cup {NULL}]
  BY InvBodies DEF PostInv, ShapeInv, TypeOK
<1>2. DeviceStep(p) \/ HandlerStep(p)
  BY DEF PostOther
<1>3. /\ UNCHANGED <<openOf, opens, writes, made, text, count, held, posts, wrapped, success>>
      /\ body' = IF p \in sock' THEN body ELSE [body EXCEPT ![p] = << >>]
      /\ misled' = (misled \/ Misleads(p))
  BY DEF PostOther
<1>4. [PostNext]_allVars /\ [Next]_vars
  BY PostIsToots DEF PostNext
<1>5. file' = file /\ thr' = thr /\ FilesGo /\ WritesGo
  BY <1>2, AgentsGo
<1>6. \A q \in Agents : /\ q \in sock' => body'[q] = body[q]
                        /\ body'[q] = body[q] \/ body'[q] = << >>
  BY <1>1, <1>2, <1>3, OtherGoes
<1>7. success' \subseteq TextIds /\ \A n \in TextIds : Sent(n)' => Sent(n)
  BY <1>1, <1>3, <1>5 DEF PostTypeOK, Sent
<1>8. ~torn' => ~torn /\ \A f \in Files : Named(f)' => toots'[file[f].id] = toots[file[f].id]
  BY <1>1, <1>4, <1>5, TootsGo
<1>9. \A q \in Agents, i \in TootIds : Welcomes(q, i)' => Welcomes(q, i)
  <2>1. CASE AnswerFind(p)
    <3>1. /\ \A q \in Agents \ {p} : ans'[q] = ans[q]
          /\ ans[p] # NULL /\ ans[p] \in Answer /\ ans'[p] = [ans[p] EXCEPT !.obj = toots[ans[p].toot]]
      BY <1>1, <2>1 DEF AnswerFind
    <3>2. ans'[p].op = ans[p].op /\ ans'[p].ok = ans[p].ok /\ ans'[p].toot = ans[p].toot
      BY <3>1 DEF Answer
    <3>. QED  BY <3>1, <3>2 DEF Welcomes
  <2>2. CASE AnswerTooLate(p) \/ AnswerSet(p)
    <3>1. ans'[p] = NULL /\ \A q \in Agents \ {p} : ans'[q] = ans[q]
      BY <1>1, <2>2 DEF AnswerTooLate, AnswerSet, AnswerDone
    <3>. QED  BY <3>1 DEF Welcomes
  <2>3. CASE ans' = ans
    BY <2>3 DEF Welcomes
  <2>. QED
    BY <1>2, <2>1, <2>2, <2>3
       DEF DeviceStep, HandlerStep, MarkDeviceUnready, RemoveDeviceToot, RemovedDeviceToot,
           ForgetEmptyDevice, tootVars
<1>10. Undisturbed' => Undisturbed /\ ~torn /\ ~torn' /\ ~Misleads(p)
  <2>1. misled \in BOOLEAN /\ Misleads(p) \in BOOLEAN
    BY <1>1 DEF PostTypeOK, Misleads
  <2>. QED  BY <1>3, <1>8, <2>1 DEF Undisturbed
<1>11. ASSUME Undisturbed', NEW f \in Files, Named(f)'
       PROVE  /\ Owner(f)' = Owner(f) /\ Owner(f) \in Agents
              /\ Owner(f) \in sock' => Owner(f) \in sock
              /\ Talks(f)' =>
                   Talks(f) \/ (Welcomes(Owner(f), file[f].id) /\ ans'[Owner(f)] = NULL)
  <2>1. ~torn /\ ~torn' /\ ~Misleads(p) /\ Named(f)
    BY <1>5, <1>10, <1>11 DEF Named
  <2>2. /\ Owner(f)' = Owner(f) /\ Owner(f) \in Agents
        /\ Owner(f) \in sock' => Owner(f) \in sock
    BY <1>1, <1>4, <1>5, <2>1, OwnersKeep
  <2>3. ASSUME Talks(f)', ~Talks(f)
        PROVE  Welcomes(Owner(f), file[f].id) /\ ans'[Owner(f)] = NULL
    <3>1. /\ AnswerSet(p)
          /\ ans[p].op = "NEW_TOOT" /\ ans[p].ok /\ ans[p].obj = toots[file[f].id]
      BY <1>1, <1>2, <2>1, <2>3, AgentsTalk
    <3>2. /\ Live(toots[file[f].id]) /\ toot[toots[file[f].id]].id = file[f].id
          /\ toot[toots[file[f].id]].dev = file[f].dev
      BY <1>1, <2>1, NamedToot
    <3>3. FoundOwn(p)
      BY <2>1, <3>1, <3>2 DEF Misleads
    <3>4. ans[p].toot = file[f].id /\ Owner(f) = p
      BY <3>1, <3>2, <3>3 DEF FoundOwn, Owner
    <3>5. ans[p] # NULL /\ ans'[p] = NULL
      BY <1>1, <3>1 DEF AnswerSet, AnswerDone
    <3>. QED  BY <3>1, <3>4, <3>5 DEF Welcomes
  <2>. QED  BY <2>2, <2>3
<1>12. ASSUME Undisturbed', NEW f \in Files, file'[f].stage = "open"
       PROVE  Talks(f) /\ Named(f)'
  BY <1>1, <1>5, <1>12, OpenIsNamed DEF Talks, Starts, Named
<1>. QED
  BY <1>3, <1>5, <1>6, <1>7, <1>8, <1>9, <1>10, <1>11, <1>12 DEF Quiet

(* A step that changes nothing is quiet. *)
LEMMA StutterIsQuiet ==
  ASSUME PostInv, TootsInv', UNCHANGED allVars
  PROVE  Quiet
<1>1. TootsInv /\ UsedInv /\ ShapeInv /\ BodiesOK /\ PostTypeOK
  BY InvBodies DEF PostInv
<1>2. /\ UNCHANGED <<vars, postVars>> /\ UNCHANGED tootVars /\ UNCHANGED deviceVars
      /\ UNCHANGED <<devVars, netVars>>
  BY DEF allVars, vars, deviceVars
<1>3. FilesGo /\ WritesGo
  BY <1>2 DEF FilesGo, Goes, Named, Starts, WritesGo, Writes, At, tootVars
<1>4. ASSUME Undisturbed, NEW f \in Files, Named(f)
      PROVE  Owner(f) \in Agents
  <2>1. ~torn' /\ [PostNext]_allVars /\ file'[f].dev = file[f].dev
    BY <1>2, <1>4 DEF Undisturbed, tootVars
  <2>. QED  BY <1>1, <1>4, <2>1, OwnersKeep
<1>5. dev' = dev /\ sock' = sock /\ misled' = misled /\ torn' = torn
  BY <1>2 DEF devVars, netVars, postVars, tootVars
<1>6. \A f \in Files : (Named(f)' <=> Named(f)) /\ Owner(f)' = Owner(f) /\ (Talks(f)' <=> Talks(f))
  BY <1>2, <1>5 DEF Named, Owner, Talks, Starts, tootVars
<1>7. \A f \in Files : file[f].stage = "open" => Talks(f) /\ Named(f)'
  BY <1>1, <1>6, OpenIsNamed DEF Talks, Starts
<1>. QED
  BY <1>1, <1>2, <1>3, <1>4, <1>5, <1>6, <1>7
     DEF Quiet, Undisturbed, Sent, Welcomes, postVars, tootVars, PostTypeOK

(* The types that the following needs, one by one. *)
LEMMA PostTypes ==
  ASSUME PostTypeOK
  PROVE  /\ writes \in Nat /\ writes <= MaxWrites /\ opens \in Nat /\ 1 .. writes \subseteq TextIds
         /\ \A f \in Files : openOf[f] \in Nat /\ openOf[f] <= MaxOpens
         /\ \A n \in TextIds : /\ made[n].open \in Nat /\ made[n].index \in Nat
                               /\ made[n].index < IndexCount
         /\ \A o \in TootObjs : count[o] \in Nat /\ count[o] < IndexCount
         /\ IndexCount \in Nat /\ IndexCount > 0
         /\ \A p \in Agents : \A k \in DOMAIN body[p] :
              /\ body[p][k] \in Body /\ body[p][k].open \in Nat
              /\ body[p][k].type \in RequestTypes /\ body[p][k].toot \in TootIds
         /\ \A p \in Agents, i \in TootIds : held[p][i] # NULL =>
              /\ held[p][i] \in Seq(TextIds)
              /\ \A j \in DOMAIN held[p][i] : held[p][i][j] \in TextIds
         /\ posts \in Seq(Post)
         /\ \A k \in DOMAIN posts :
              /\ posts[k].open \in Nat /\ posts[k].texts \in Seq(TextIds)
              /\ \A j \in DOMAIN posts[k].texts : posts[k].texts[j] \in TextIds
<1>1. writes \in Nat /\ writes <= MaxWrites /\ opens \in Nat /\ 1 .. writes \subseteq TextIds
  BY HistoryAssumption DEF PostTypeOK, TextIds
<1>2. \A f \in Files : openOf[f] \in Nat /\ openOf[f] <= MaxOpens
  BY HistoryAssumption DEF PostTypeOK
<1>3. IndexCount \in Nat /\ IndexCount > 0
  BY IndexAssumption
<1>4. \A n \in TextIds : made[n].open \in Nat /\ made[n].index \in Nat /\ made[n].index < IndexCount
  BY <1>3, HistoryAssumption DEF PostTypeOK, Indexes
<1>5. \A o \in TootObjs : count[o] \in Nat /\ count[o] < IndexCount
  BY <1>3 DEF PostTypeOK, Indexes
<1>6. ASSUME NEW p \in Agents, NEW k \in DOMAIN body[p]
      PROVE  /\ body[p][k] \in Body /\ body[p][k].open \in Nat
             /\ body[p][k].type \in RequestTypes /\ body[p][k].toot \in TootIds
  <2>1. body[p][k] \in Body
    BY DEF PostTypeOK
  <2>. QED  BY <2>1, HistoryAssumption DEF Body
<1>7. ASSUME NEW p \in Agents, NEW i \in TootIds, held[p][i] # NULL
      PROVE  /\ held[p][i] \in Seq(TextIds)
             /\ \A j \in DOMAIN held[p][i] : held[p][i][j] \in TextIds
  <2>1. held[p][i] \in Seq(TextIds)
    BY <1>7 DEF PostTypeOK
  <2>. QED  BY <2>1
<1>8. posts \in Seq(Post)
  BY DEF PostTypeOK
<1>9. ASSUME NEW k \in DOMAIN posts
      PROVE  /\ posts[k].open \in Nat /\ posts[k].texts \in Seq(TextIds)
             /\ \A j \in DOMAIN posts[k].texts : posts[k].texts[j] \in TextIds
  <2>1. posts[k] \in Post
    BY <1>8
  <2>2. posts[k].open \in Nat /\ posts[k].texts \in Seq(TextIds)
    BY <2>1, HistoryAssumption DEF Post
  <2>. QED  BY <2>2
<1>. QED  BY <1>1, <1>2, <1>3, <1>4, <1>5, <1>6, <1>7, <1>8, <1>9

(* open(2) gives a file its toot and its number. *)
LEMMA AddTootKeepsWay ==
  ASSUME PostInv, TootsInv', NEW t \in Threads, PostAddToot(t)
  PROVE  WayInv'
<1>1. /\ BodiesOK /\ TootsInv /\ UsedInv /\ ShapeInv /\ PostTypeOK /\ CallsInv
      /\ OpenInv /\ SendInv /\ TextInv /\ LinesInv /\ SentInv /\ IndexInv /\ PostedIsOneOpen
      /\ AddToot(t) /\ thr \in [Threads -> Call] /\ file \in [Files -> File]
      /\ toots \in [TootIds -> TootObjs \cup {NULL}]
  BY InvBodies DEF PostInv, WayInv, PostAddToot, ShapeInv, TypeOK
<1>2. PICK f \in Files : f = MyFile(t)
  BY <1>1, AddTootGoes
<1>3. /\ file[f].stage = "opening"
      /\ \A g \in Files \ {f} : file'[g] = file[g] /\ Goes(g)
      /\ file'[f].stage = "opening" /\ file'[f].id \in TootIds /\ toots[file'[f].id] = NULL
      /\ toots'[file'[f].id] \in TootObjs /\ ~Live(toots'[file'[f].id])
      /\ toot'[toots'[file'[f].id]].state = "OPEN_RESULT_WAIT"
      /\ WritesGo
  <2>1. /\ file[MyFile(t)].stage = "opening"
        /\ \A g \in Files \ {MyFile(t)} : file'[g] = file[g] /\ Goes(g)
        /\ WritesGo
    BY <1>1, AddTootGoes
  <2>2. \A g \in Files : g = MyFile(t) =>
              /\ file'[g].stage = "opening" /\ file'[g].id \in TootIds
              /\ toots[file'[g].id] = NULL
              /\ toots'[file'[g].id] \in TootObjs /\ ~Live(toots'[file'[g].id])
              /\ toot'[toots'[file'[g].id]].state = "OPEN_RESULT_WAIT"
    BY <1>1, AddTootGoes
  <2>. QED  BY <1>2, <2>1, <2>2
<1>0. /\ opens \in Nat /\ writes \in Nat /\ \A g \in Files : openOf[g] \in Nat
      /\ 1 .. writes \subseteq TextIds
  BY <1>1, PostTypes
<1>4. /\ opens' = opens + 1 /\ opens \in Nat
      /\ openOf'[f] = opens + 1 /\ \A g \in Files \ {f} : openOf'[g] = openOf[g]
      /\ writes' = writes /\ made' = made /\ text' = text /\ body' = body /\ held' = held
      /\ posts' = posts /\ success' = success /\ wrapped' = wrapped /\ misled' = misled
      /\ sock' = sock /\ ans' = ans
      /\ \E c \in AnyCount : count' = [count EXCEPT ![toots'[file'[f].id]] = c]
  <2>1. openOf' = [openOf EXCEPT ![f] = opens + 1] /\ openOf \in [Files -> 0 .. MaxOpens]
    BY <1>1, <1>2 DEF PostAddToot, PostTypeOK
  <2>. QED  BY <1>0, <1>1, <1>2, <2>1 DEF PostAddToot, AddToot, deviceVars, netVars
<1>5. /\ \A g \in Files \ {f} : (Named(g)' <=> Named(g)) /\ (Starts(g)' <=> Starts(g))
      /\ ~Talks(f)' /\ [PostNext]_allVars /\ [Next]_vars
  BY <1>3, PostIsToots DEF Named, Starts, Talks, PostNext
<1>6. OpenInv'
  <2>1. \A g \in Files : Named(g)' => openOf'[g] <= opens'
    BY <1>0, <1>1, <1>4, <1>5 DEF OpenInv
  <2>2. \A g, h \in Files : Named(g)' /\ Named(h)' /\ openOf'[g] = openOf'[h] => g = h
    <3>1. \A g \in Files \ {f} : Named(g)' => openOf'[g] < openOf'[f]
      BY <1>0, <1>1, <1>4, <1>5 DEF OpenInv
    <3>2. \A g \in Files \ {f} : openOf'[g] = openOf[g] /\ openOf[g] \in Nat /\ (Named(g)' => Named(g))
      BY <1>0, <1>4, <1>5
    <3>3. \A g \in Files \ {f} : Named(g)' => openOf'[g] # openOf'[f]
      BY <1>0, <1>4, <3>1, <3>2
    <3>. QED  BY <1>1, <3>2, <3>3 DEF OpenInv
  <2>3. \A n \in TextIds : made[n].open \in Nat /\ made[n].open <= opens
    BY <1>1 DEF OpenInv, PostTypeOK
  <2>4. ASSUME NEW p \in Agents, NEW k \in DOMAIN body[p] PROVE body[p][k].open <= opens'
    <3>1. body[p][k] \in Body
      BY <1>1 DEF PostTypeOK
    <3>2. body[p][k].open \in Nat
      BY <3>1 DEF Body
    <3>. QED  BY <1>1, <1>4, <3>2 DEF OpenInv
  <2>5. ASSUME NEW k \in DOMAIN posts PROVE posts[k].open <= opens'
    <3>1. posts[k] \in Post
      BY <1>1 DEF PostTypeOK
    <3>2. posts[k].open \in Nat
      BY <3>1 DEF Post
    <3>. QED  BY <1>1, <1>4, <3>2 DEF OpenInv
  <2>. QED  BY <1>4, <2>1, <2>2, <2>3, <2>4, <2>5 DEF OpenInv
<1>7. SendInv'
  <2>1. Unsent(opens + 1)
    <3>1. ASSUME NEW p \in Agents, NEW k \in DOMAIN body[p] PROVE body[p][k].open # opens + 1
      BY <1>1, <1>4 DEF OpenInv
    <3>2. ASSUME NEW k \in DOMAIN posts PROVE posts[k].open # opens + 1
      BY <1>1, <1>4 DEF OpenInv
    <3>. QED  BY <3>1, <3>2 DEF Unsent
  <2>2. \A g \in Files : Starts(g)' => Unsent(openOf'[g])
    BY <1>1, <1>4, <1>5, <2>1 DEF SendInv
  <2>3. \A g \in Files : Unsent(openOf'[g]) => Unsent(openOf[g])'
    BY <1>4 DEF Unsent, Sends
  <2>. QED  BY <1>1, <1>4, <2>2, <2>3 DEF SendInv, Sends
<1>8. TextInv'
  <2>1. ASSUME NEW u \in Threads PROVE WriteInv(u)'
    <3>1. Writes(u) /\ WriteInv(u) /\ CallInv(u)
      BY <1>1, <1>3 DEF WritesGo, TextInv, CallsInv
    <3>2. ASSUME thr'[u].step \in ElemSteps
          PROVE  text[u] \in 1 .. writes /\ made[text[u]].open = openOf'[thr'[u].file]
      <4>1. thr[u].step \in ElemSteps /\ thr'[u].file = thr[u].file
        BY <3>1, <3>2 DEF Writes
      <4>2. file[MyFile(u)].stage = "open" /\ MyFile(u) \in Files
        BY <3>1, <4>1 DEF CallInv, ElemSteps, WriteSteps, At
      <4>3. MyFile(u) # f
        BY <1>3, <4>2
      <4>. QED  BY <1>4, <3>1, <4>1, <4>2, <4>3 DEF WriteInv, MyFile
    <3>3. \A v \in Threads : At(v, "addText")' => At(v, "addText")
      BY <1>3 DEF WritesGo, Writes, At, ElemSteps
    <3>. QED  BY <1>4, <3>1, <3>2, <3>3 DEF WriteInv, MyFile, Carries, Keeps
  <2>2. ASSUME NEW p \in Agents, NEW k \in DOMAIN body[p] PROVE CarryInv(p, k)'
    BY <1>1, <1>4 DEF TextInv, CarryInv, Carries, Keeps
  <2>3. ASSUME NEW g \in Files, Named(g)', file'[g].stage = "opening", NEW n \in 1 .. writes
        PROVE  made[n].open # openOf'[g]
    <3>1. CASE g = f
      <4>1. n \in TextIds
        BY <1>0
      <4>2. made[n].open \in Nat /\ made[n].open <= opens
        BY <1>1, <4>1 DEF OpenInv, PostTypeOK
      <4>. QED  BY <1>4, <3>1, <4>2
    <3>2. CASE g # f
      BY <1>1, <1>3, <1>4, <1>5, <2>3, <3>2 DEF TextInv
    <3>. QED  BY <3>1, <3>2
  <2>. QED  BY <1>1, <1>4, <2>1, <2>2, <2>3 DEF TextInv, Once
<1>9. ASSUME ~torn'
      PROVE  /\ ~torn
             /\ \A g \in Files \ {f} : Named(g)' =>
                  /\ Named(g) /\ Owner(g)' = Owner(g)
                  /\ Talks(g)' => Talks(g)
  <2>1. ~torn
    BY <1>1, <1>5, <1>9, TornForGood
  <2>2. ASSUME NEW g \in Files \ {f}, Named(g)'
        PROVE  Named(g) /\ Owner(g)' = Owner(g) /\ (Talks(g)' => Talks(g))
    <3>1. Named(g) /\ file'[g].dev = file[g].dev
      BY <1>3, <1>5, <2>2
    <3>2. CallStep(t)
      BY <1>1 DEF CallStep
    <3>. QED  BY <1>1, <1>5, <1>9, <2>1, <3>1, <3>2, OwnersKeep, CallsTalk
  <2>. QED  BY <2>1, <2>2
<1>10. ASSUME Undisturbed' PROVE Undisturbed /\ ~torn'
  BY <1>4, <1>9, <1>10 DEF Undisturbed
<1>11. \A p \in Agents, i \in TootIds :
         /\ Welcomes(p, i)' <=> Welcomes(p, i)
         /\ \A n \in TextIds : Waits(p, i, n)' <=> Waits(p, i, n)
  BY <1>4 DEF Waits, Keeps, Carries, Welcomes
<1>12. LinesInv'
  <2>. SUFFICES ASSUME Undisturbed', NEW p \in Agents, NEW i \in TootIds PROVE LineInv(p, i)'
    BY DEF LinesInv
  <2>1. LineInv(p, i)
    BY <1>1, <1>10 DEF LinesInv
  <2>2. \A g \in Files : Talks(g)' =>
          /\ Talks(g) /\ Owner(g)' = Owner(g) /\ file'[g].id = file[g].id
          /\ openOf'[g] = openOf[g]
    BY <1>3, <1>4, <1>5, <1>9, <1>10 DEF Talks, Starts
  <2>3. \A k \in DOMAIN body'[p] : Sends(p, k)' <=> Sends(p, k)
    BY <1>4 DEF Sends
  <2>4. /\ body' = body /\ held' = held /\ made' = made
        /\ (Welcomes(p, i)' <=> Welcomes(p, i))
        /\ \A n \in TextIds : Waits(p, i, n)' <=> Waits(p, i, n)
    BY <1>4, <1>11
  <2>. QED  BY <2>1, <2>2, <2>3, <2>4 DEF LineInv
<1>13. SentInv'
  <2>. SUFFICES ASSUME Undisturbed', NEW n \in TextIds, Sent(n)'
                PROVE  /\ \A g \in Files : file'[g].stage = "open" /\ openOf'[g] = made'[n].open
                              /\ Owner(g)' \in sock' => Waits(Owner(g), file[g].id, n)'
                       /\ \A p \in Agents : \A k \in DOMAIN body'[p] :
                            Sends(p, k)' /\ body'[p][k].open = made'[n].open =>
                                Waits(p, body[p][k].toot, n)'
                       /\ \A k \in DOMAIN posts' : posts'[k].open = made'[n].open =>
                            \E i \in DOMAIN posts'[k].texts : posts'[k].texts[i] = n
    BY DEF SentInv
  <2>1. Sent(n)
    BY <1>3, <1>4 DEF Sent, WritesGo, Writes, ElemSteps, At
  <2>2. ASSUME NEW g \in Files, file'[g].stage = "open", openOf'[g] = made'[n].open,
               Owner(g)' \in sock'
        PROVE  Waits(Owner(g), file[g].id, n)'
    <3>1. g # f /\ Named(g)'
      BY <1>3, <2>2, OpenIsNamedNext
    <3>2. /\ file[g].stage = "open" /\ openOf[g] = made[n].open /\ Owner(g)' = Owner(g)
          /\ Owner(g) \in sock /\ file'[g].id = file[g].id
      BY <1>3, <1>4, <1>9, <1>10, <2>2, <3>1
    <3>3. Waits(Owner(g), file[g].id, n)
      BY <1>1, <1>10, <2>1, <3>2 DEF SentInv
    <3>4. body'[Owner(g)] = body[Owner(g)] /\ held' = held
      BY <1>4
    <3>. QED  BY <3>2, <3>3, <3>4 DEF Waits, Keeps, Carries
  <2>. QED  BY <1>1, <1>4, <1>10, <2>1, <2>2 DEF SentInv, Sends, Waits, Keeps, Carries
<1>14. IndexInv'
  <2>1. ASSUME ~torn', NEW g \in Files, NEW n \in 1 .. writes, Starts(g)', made[n].open = openOf'[g]
        PROVE  openOf'[g] \in wrapped \/ made[n].index <= count'[toots'[file'[g].id]]
    <3>1. g # f
      <4>1. n \in TextIds
        BY <1>0
      <4>2. made[n].open \in Nat /\ made[n].open <= opens
        BY <1>1, <4>1 DEF OpenInv, PostTypeOK
      <4>. QED  BY <1>4, <2>1, <4>2
    <3>2. Named(g) /\ Starts(g) /\ file'[g] = file[g] /\ openOf'[g] = openOf[g] /\ ~torn /\ Named(g)'
      BY <1>3, <1>4, <1>5, <1>9, <2>1, <3>1 DEF Starts
    <3>3. /\ toots[file[g].id] \in TootObjs /\ Live(toots[file[g].id])
          /\ toots'[file[g].id] = toots[file[g].id]
      BY <1>1, <1>5, <2>1, <3>2, NamedToot, TootStays
    <3>4. count'[toots[file[g].id]] = count[toots[file[g].id]]
      BY <1>1, <1>3, <1>4, <3>3 DEF PostTypeOK
    <3>. QED  BY <1>1, <2>1, <3>2, <3>3, <3>4 DEF IndexInv
  <2>. QED  BY <1>1, <1>4, <1>9, <2>1 DEF IndexInv
<1>. QED
  BY <1>1, <1>4, <1>6, <1>7, <1>8, <1>10, <1>12, <1>13, <1>14 DEF WayInv, PostedIsOneOpen

(* What follows from FilesCalm, file by file. *)
LEMMA CalmFiles ==
  ASSUME FilesCalm
  PROVE  /\ openOf' = openOf /\ opens' = opens
         /\ \A f \in Files : Named(f)' =>
              /\ Named(f) /\ file'[f].id = file[f].id /\ file'[f].dev = file[f].dev
              /\ Starts(f)' => Starts(f)
              /\ file'[f].stage = "opening" => file[f].stage = "opening"
         /\ Undisturbed' =>
              /\ Undisturbed
              /\ \A f \in Files : Named(f)' =>
                   /\ Owner(f)' = Owner(f) /\ (Owner(f) \in sock' => Owner(f) \in sock)
                   /\ Talks(f)' => Talks(f)
  BY DEF FilesCalm, FilesGo, Goes, Starts

(* When no file gets a toot or an open, the opens of files stay apart. *)
LEMMA CalmKeepsOpens ==
  ASSUME OpenInv, FilesCalm, made' = made, posts' = posts,
         \A p \in Agents : \A k \in DOMAIN body'[p] : body'[p][k].open <= opens
  PROVE  OpenInv'
<1>1. /\ openOf' = openOf /\ opens' = opens /\ \A f \in Files : Named(f)' => Named(f)
  BY CalmFiles
<1>. QED  BY <1>1 DEF OpenInv

(* A request is queued that is no SEND_TOOT. *)
LEMMA QueuedKeepsSent ==
  ASSUME SendInv, FilesCalm, posts' = posts,
         \A p \in Agents : \A k \in DOMAIN body'[p] : Sends(p, k)' =>
             k \in DOMAIN body[p] /\ body'[p][k] = body[p][k]
  PROVE  SendInv'
<1>1. \A f \in Files : Starts(f)' => Starts(f)
  BY CalmFiles DEF Starts
<1>2. \A p \in Agents : \A k \in DOMAIN body'[p] : Sends(p, k)' =>
        k \in DOMAIN body[p] /\ body'[p][k] = body[p][k] /\ Sends(p, k)
  BY DEF Sends
<1>3. \A f \in Files : Starts(f)' => Unsent(openOf[f])'
  BY <1>1, <1>2, CalmFiles DEF SendInv, Unsent
<1>4. \A p, q \in Agents : \A k \in DOMAIN body'[p], l \in DOMAIN body'[q] :
        (Sends(p, k) /\ Sends(q, l))' /\ body'[p][k].open = body'[q][l].open => p = q /\ k = l
  BY <1>2 DEF SendInv
<1>5. \A p \in Agents : \A k \in DOMAIN body'[p] : Sends(p, k)' =>
       \A j \in DOMAIN posts : posts[j].open # body'[p][k].open
  BY <1>2 DEF SendInv
<1>6. openOf' = openOf
  BY CalmFiles
<1>. QED  BY <1>3, <1>4, <1>5, <1>6 DEF SendInv

(* create_toot sends NEW_TOOT. *)
LEMMA NewTootKeepsWay ==
  ASSUME PostInv, TootsInv', NEW t \in Threads, PostNewToot(t)
  PROVE  WayInv' /\ BodiesOK'
<1>1. /\ BodiesOK /\ TootsInv /\ UsedInv /\ ShapeInv /\ PostTypeOK /\ CallsInv /\ NetTypeOK /\ DevInv
      /\ OpenInv /\ SendInv /\ TextInv /\ LinesInv /\ SentInv /\ IndexInv /\ PostedIsOneOpen
      /\ NewToot(t) /\ thr \in [Threads -> Call] /\ CallInv(t)
  BY InvBodies DEF PostInv, WayInv, PostNewToot, ShapeInv, TypeOK, CallsInv
<1>2. /\ MyFile(t) \in Files /\ MyToot(t) \in TootIds /\ file[MyFile(t)].stage = "opening"
      /\ At(t, "newToot") /\ TootReady(MyToot(t))
  BY <1>1 DEF NewToot, CallInv, At, OpenSteps
<1>3. PICK f \in Files : f = MyFile(t)
  BY <1>2
<1>4. PICK p \in Agents : p = PidOf(MyToot(t))
  BY <1>1, <1>2, ReadyToot DEF ShapeInv
<1>5. PICK b \in Body : b = Asked("NEW_TOOT", f, 0)
  <2>1. openOf[f] \in 0 .. MaxOpens /\ 0 \in 0 .. MaxWrites
    BY <1>1, HistoryAssumption DEF PostTypeOK
  <2>2. Asked("NEW_TOOT", f, 0) \in Body
    BY <1>2, <1>3, <2>1 DEF Asked, Body, RequestTypes, MyToot
  <2>. QED  BY <2>2
<1>6. BodiesOK' /\ Queued(p, b) /\ p \in sock /\ sock' = sock
  <2>1. PICK m \in Message : m = NewTootMsg(MyToot(t), file[MyFile(t)].dev) /\ SendOk(p, m)
    <3>1. file[MyFile(t)].dev \in DeviceIds
      BY <1>1, <1>2 DEF CallsInv, FileInv
    <3>2. NewTootMsg(MyToot(t), file[MyFile(t)].dev) \in Message
      BY <1>2, <3>1 DEF NewTootMsg, Message, Request
    <3>. QED  BY <1>1, <1>4, <3>2 DEF NewToot
  <2>2. Ask(p, b)
    BY <1>3, <1>4, <1>5 DEF PostNewToot
  <2>3. m.type = b.type /\ m.toot = b.toot
    BY <1>3, <1>5, <2>1 DEF NewTootMsg, Asked, MyToot
  <2>. QED  BY <1>1, <2>1, <2>2, <2>3, AskGoes
<1>7. /\ openOf' = openOf /\ opens' = opens /\ writes' = writes /\ made' = made /\ text' = text
      /\ count' = count /\ held' = held /\ posts' = posts /\ success' = success
      /\ wrapped' = wrapped /\ misled' = misled
      /\ ans' = ans /\ toots' = toots /\ file' = file
  BY <1>1 DEF PostNewToot, NewToot
<1>8. [PostNext]_allVars /\ [Next]_vars /\ CallStep(t)
  BY <1>1, PostIsToots DEF PostNext, CallStep, OtherCallStep
<1>9. ~AddToot(t) /\ ~AddElement(t) /\ ~AddText(t)
  BY <1>1 DEF NewToot, AddToot, AddElement, AddText, At
<1>10. FilesCalm /\ WritesGo
  <2>1. FilesCalm
    BY <1>1, <1>7, <1>8, <1>9, StepsAreCalm
  <2>. QED  BY <1>1, <1>8, <1>9, <2>1, CallsGo
<1>11. ASSUME NEW q \in Agents, NEW k \in DOMAIN body'[q]
       PROVE  \/ k \in DOMAIN body[q] /\ body'[q][k] = body[q][k]
              \/ q = p /\ k = Len(body[p]) + 1 /\ body'[q][k] = b
  BY <1>6, <1>11 DEF Queued
<1>12. /\ b.type = "NEW_TOOT" /\ b.open = openOf[f] /\ openOf[f] <= opens
  <2>1. Named(f)
    BY <1>2, <1>3, NoValueIsNull DEF Named, MyToot
  <2>. QED  BY <1>1, <1>5, <2>1 DEF Asked, OpenInv
<1>13. \A q \in Agents : \A k \in DOMAIN body'[q] : body'[q][k].type # "NEW_TOOT" =>
         k \in DOMAIN body[q] /\ body'[q][k] = body[q][k]
  BY <1>11, <1>12
<1>14. OpenInv'
  <2>1. \A q \in Agents : \A k \in DOMAIN body'[q] : body'[q][k].open <= opens
    BY <1>1, <1>11, <1>12 DEF OpenInv
  <2>. QED  BY <1>1, <1>7, <1>10, <2>1, CalmKeepsOpens
<1>15. SendInv'
  <2>1. \A q \in Agents : \A k \in DOMAIN body'[q] : Sends(q, k)' =>
          k \in DOMAIN body[q] /\ body'[q][k] = body[q][k]
    BY <1>13 DEF Sends
  <2>. QED  BY <1>1, <1>7, <1>10, <2>1, QueuedKeepsSent
<1>16. \A q \in Agents, n \in 0 .. MaxWrites : \A k \in DOMAIN body'[q] :
         Carries(q, k, n)' => k \in DOMAIN body[q] /\ body'[q][k] = body[q][k] /\ Carries(q, k, n)
  BY <1>13 DEF Carries
<1>17. ASSUME NEW q \in Agents, NEW i \in TootIds, NEW n \in TextIds PROVE Waits(q, i, n)' <=> Waits(q, i, n)
  <2>1. TextIds \subseteq 0 .. MaxWrites
    BY DEF TextIds
  <2>2. Keeps(q, i, n)' <=> Keeps(q, i, n)
    BY <1>7 DEF Keeps
  <2>3. \A k \in DOMAIN body[q] : k \in DOMAIN body'[q] /\ body'[q][k] = body[q][k]
    BY <1>6 DEF Queued
  <2>. QED  BY <1>16, <2>1, <2>2, <2>3 DEF Waits, Carries
<1>18. TextInv'
  <2>1. ASSUME NEW u \in Threads PROVE WriteInv(u)'
    <3>1. Writes(u) /\ WriteInv(u) /\ text[u] \in 0 .. MaxWrites
      BY <1>1, <1>10 DEF WritesGo, TextInv, PostTypeOK
    <3>2. thr'[u].step \in ElemSteps =>
            text[u] \in 1 .. writes /\ made[text[u]].open = openOf[thr'[u].file]
      BY <3>1 DEF Writes, WriteInv, MyFile
    <3>3. \A v \in Threads : At(v, "addText")' => At(v, "addText")
      BY <1>10 DEF WritesGo, Writes, At, ElemSteps
    <3>4. ASSUME At(u, "addText")', NEW q \in Agents
          PROVE  /\ \A k \in DOMAIN body'[q] : ~Carries(q, k, text[u])'
                 /\ \A i \in TootIds : ~Keeps(q, i, text[u])'
      BY <1>7, <1>16, <3>1, <3>3, <3>4 DEF WriteInv, Keeps, Carries
    <3>5. ASSUME At(u, "addText")', NEW v \in Threads, At(v, "addText")', text[v] = text[u]
          PROVE  v = u
      BY <3>1, <3>3, <3>5 DEF WriteInv
    <3>. QED  BY <1>7, <3>2, <3>4, <3>5 DEF WriteInv, MyFile
  <2>2. ASSUME NEW q \in Agents, NEW k \in DOMAIN body'[q] PROVE CarryInv(q, k)'
    <3>. SUFFICES ASSUME body'[q][k].type = "ADD_TOOT_TEXT" PROVE CarryInv(q, k)'
      BY DEF CarryInv
    <3>1. k \in DOMAIN body[q] /\ body'[q][k] = body[q][k]
      BY <1>13
    <3>2. CarryInv(q, k) /\ body[q][k].text \in 0 .. MaxWrites
      <4>1. body[q][k] \in Body
        BY <1>1, <3>1, PostTypes
      <4>. QED  BY <1>1, <3>1, <4>1 DEF TextInv, Body
    <3>3. \A l \in DOMAIN body'[q] : Carries(q, l, body[q][k].text)' => l = k
      BY <1>16, <3>1, <3>2 DEF CarryInv
    <3>. QED  BY <1>7, <3>1, <3>2, <3>3 DEF CarryInv, Keeps, Carries
  <2>. QED  BY <1>1, <1>7, <2>1, <2>2 DEF TextInv, Once, Named
<1>19. LinesInv'
  <2>. SUFFICES ASSUME Undisturbed', NEW q \in Agents, NEW i \in TootIds PROVE LineInv(q, i)'
    BY DEF LinesInv
  <2>1. LineInv(q, i) /\ (Welcomes(q, i)' <=> Welcomes(q, i))
    BY <1>1, <1>7, <1>10, CalmFiles DEF LinesInv, Welcomes
  <2>2. \A g \in Files : Talks(g)' => Talks(g) /\ Owner(g)' = Owner(g)
    BY <1>10, CalmFiles DEF Talks, Starts
  <2>3. \A k \in DOMAIN body'[q] : Sends(q, k)' =>
          k \in DOMAIN body[q] /\ body'[q][k] = body[q][k] /\ Sends(q, k)
    BY <1>13 DEF Sends
  <2>4. \A k \in DOMAIN body'[q] : body'[q][k].toot = i /\ body'[q][k].type # "NEW_TOOT" =>
          held'[q][i] # NULL
    BY <1>7, <1>13, <2>1 DEF LineInv
  <2>5. ASSUME NEW k \in DOMAIN body'[q], Sends(q, k)', body'[q][k].toot = i
        PROVE  /\ \A l \in DOMAIN body'[q] :
                    body'[q][l].toot = i /\ body'[q][l].type # "NEW_TOOT" => l <= k
               /\ \A n \in TextIds : Waits(q, i, n)' => made'[n].open = body'[q][k].open
    BY <1>7, <1>13, <1>17, <2>1, <2>3, <2>5 DEF LineInv
  <2>6. ASSUME NEW g \in Files, Talks(g)', Owner(g)' = q, file'[g].id = i
        PROVE  /\ held'[q][i] # NULL
               /\ \A k \in DOMAIN body'[q] : Sends(q, k)' => body'[q][k].toot # i
               /\ \A n \in TextIds : Waits(q, i, n)' => made'[n].open = openOf'[g]
    BY <1>7, <1>17, <2>1, <2>2, <2>3, <2>6 DEF LineInv
  <2>7. ASSUME Welcomes(q, i)'
        PROVE  /\ held'[q][i] = << >>
               /\ \A k \in DOMAIN body'[q] : body'[q][k].toot = i => body'[q][k].type = "NEW_TOOT"
               /\ \A g \in Files : Talks(g)' /\ Owner(g)' = q => file'[g].id # i
    BY <1>7, <1>13, <2>1, <2>2, <2>7 DEF LineInv
  <2>. QED  BY <2>4, <2>5, <2>6, <2>7 DEF LineInv
<1>20. SentInv'
  <2>. SUFFICES ASSUME Undisturbed', NEW n \in TextIds, Sent(n)'
                PROVE  /\ \A g \in Files : file'[g].stage = "open" /\ openOf'[g] = made'[n].open
                              /\ Owner(g)' \in sock' => Waits(Owner(g), file[g].id, n)'
                       /\ \A q \in Agents : \A k \in DOMAIN body'[q] :
                            Sends(q, k)' /\ body'[q][k].open = made'[n].open =>
                                Waits(q, body[q][k].toot, n)'
                       /\ \A k \in DOMAIN posts' : posts'[k].open = made'[n].open =>
                            \E i \in DOMAIN posts'[k].texts : posts'[k].texts[i] = n
    BY DEF SentInv
  <2>1. Sent(n) /\ Undisturbed
    BY <1>7, <1>10, CalmFiles DEF Sent, WritesGo, Writes, ElemSteps, At
  <2>2. ASSUME NEW g \in Files, file'[g].stage = "open", openOf'[g] = made'[n].open,
               Owner(g)' \in sock'
        PROVE  Waits(Owner(g), file[g].id, n)'
    <3>1. Named(g)' /\ Named(g) /\ ~torn'
      BY <1>7, <1>10, <2>2, OpenIsNamedNext, CalmFiles DEF Undisturbed
    <3>2. Owner(g)' = Owner(g) /\ Owner(g) \in Agents /\ file[g].id \in TootIds
      BY <1>1, <1>7, <1>8, <2>1, <3>1, OwnersKeep, NamedToot DEF Undisturbed
    <3>3. Waits(Owner(g), file[g].id, n)
      BY <1>1, <1>6, <1>7, <2>1, <2>2, <3>2 DEF SentInv
    <3>4. PICK q \in Agents, i \in TootIds : q = Owner(g) /\ i = file[g].id
      BY <3>2
    <3>5. Waits(q, i, n)'
      BY <1>17, <3>3, <3>4
    <3>. QED  BY <1>7, <3>2, <3>4, <3>5
  <2>3. ASSUME NEW q \in Agents, NEW k \in DOMAIN body'[q], Sends(q, k)',
               body'[q][k].open = made'[n].open
        PROVE  Waits(q, body[q][k].toot, n)'
    <3>1. k \in DOMAIN body[q] /\ body'[q][k] = body[q][k] /\ Sends(q, k)
      BY <1>13, <2>3 DEF Sends
    <3>2. PICK i \in TootIds : i = body[q][k].toot
      BY <1>1, <3>1, PostTypes
    <3>3. Waits(q, i, n)
      BY <1>1, <1>7, <2>1, <2>3, <3>1, <3>2 DEF SentInv
    <3>4. Waits(q, i, n)'
      BY <1>17, <3>3
    <3>. QED  BY <3>1, <3>2, <3>4
  <2>. QED  BY <1>1, <1>7, <2>1, <2>2, <2>3 DEF SentInv
<1>21. IndexInv'
  <2>1. ~torn' => ~torn
    BY <1>1, <1>8, TornForGood
  <2>. QED  BY <1>1, <1>7, <2>1 DEF IndexInv, Starts, Named
<1>. QED
  BY <1>1, <1>6, <1>7, <1>10, <1>14, <1>15, <1>18, <1>19, <1>20, <1>21, CalmFiles
     DEF WayInv, PostedIsOneOpen

(* add_toot_element sends ADD_TOOT_TEXT. *)
LEMMA AddTextKeepsWay ==
  ASSUME PostInv, TootsInv', NEW t \in Threads, PostAddText(t)
  PROVE  WayInv' /\ BodiesOK'
<1>1. /\ BodiesOK /\ TootsInv /\ UsedInv /\ ShapeInv /\ PostTypeOK /\ CallsInv /\ NetTypeOK /\ DevInv
      /\ OpenInv /\ SendInv /\ TextInv /\ LinesInv /\ SentInv /\ IndexInv /\ PostedIsOneOpen
      /\ AddText(t) /\ thr \in [Threads -> Call] /\ CallInv(t)
  BY InvBodies DEF PostInv, WayInv, PostAddText, ShapeInv, TypeOK, CallsInv
<1>2. /\ MyFile(t) \in Files /\ MyToot(t) \in TootIds /\ file[MyFile(t)].stage = "open"
      /\ At(t, "addText") /\ TootReady(MyToot(t)) /\ thr[t].elem \in ElementIds
  BY <1>1 DEF AddText, CallInv, At, WriteSteps, ElemSteps
<1>3. PICK f \in Files : f = MyFile(t)
  BY <1>2
<1>4. PICK p \in Agents : p = PidOf(MyToot(t))
  BY <1>1, <1>2, ReadyToot DEF ShapeInv
<1>5. Named(f) /\ file[f].stage = "open" /\ Starts(f) /\ Talks(f) /\ file[f].id \in TootIds
  BY <1>1, <1>2, <1>3, OpenIsNamed DEF Starts, Talks, MyToot
<1>. DEFINE n0 == text[t]
            i0 == file[f].id
<1>6. /\ WriteInv(t) /\ n0 \in 1 .. writes /\ n0 \in TextIds /\ n0 \in 0 .. MaxWrites
      /\ made[n0].open = openOf[f]
  <2>1. WriteInv(t) /\ n0 \in 1 .. writes /\ made[n0].open = openOf[f]
    BY <1>1, <1>2, <1>3 DEF TextInv, WriteInv, ElemSteps, At
  <2>. QED  BY <1>1, <2>1, PostTypes DEF PostTypeOK
<1>7. PICK b \in Body : b = Asked("ADD_TOOT_TEXT", f, n0)
  <2>1. openOf[f] \in 0 .. MaxOpens
    BY <1>1 DEF PostTypeOK
  <2>2. Asked("ADD_TOOT_TEXT", f, n0) \in Body
    BY <1>5, <1>6, <2>1 DEF Asked, Body, RequestTypes
  <2>. QED  BY <2>2
<1>8. BodiesOK' /\ Queued(p, b) /\ p \in sock /\ sock' = sock
  <2>1. PICK m \in Message :
          m = AddTextMsg(MyToot(t), DeviceOf(MyToot(t)), thr[t].elem) /\ SendOk(p, m)
    <3>1. DeviceOf(MyToot(t)) \in DeviceIds
      BY <1>1, <1>2, ReadyToot
    <3>2. AddTextMsg(MyToot(t), DeviceOf(MyToot(t)), thr[t].elem) \in Message
      BY <1>2, <3>1, RequestsAreMessages
    <3>. QED  BY <1>1, <1>4, <3>2 DEF AddText
  <2>2. Ask(p, b)
    BY <1>3, <1>4, <1>7 DEF PostAddText
  <2>3. m.type = b.type /\ m.toot = b.toot
    BY <1>3, <1>7, <2>1 DEF AddTextMsg, Asked, MyToot
  <2>. QED  BY <1>1, <2>1, <2>2, <2>3, AskGoes
<1>9. /\ openOf' = openOf /\ opens' = opens /\ writes' = writes /\ made' = made /\ text' = text
      /\ count' = count /\ held' = held /\ posts' = posts /\ success' = success
      /\ wrapped' = wrapped /\ misled' = misled
      /\ ans' = ans /\ toots' = toots /\ file' = file
      /\ thr'[t].step = "writeFind" /\ thr'[t].file = thr[t].file
      /\ \A u \in Threads \ {t} : thr'[u] = thr[u]
  BY <1>1 DEF PostAddText, AddText, StepTo, Call
<1>10. [PostNext]_allVars /\ [Next]_vars /\ CallStep(t)
  BY <1>1, PostIsToots DEF PostNext, CallStep
<1>11. FilesCalm
  <2>1. ~AddToot(t)
    BY <1>1 DEF AddText, AddToot, At
  <2>. QED  BY <1>1, <1>9, <1>10, <2>1, StepsAreCalm
<1>12. ASSUME NEW q \in Agents, NEW k \in DOMAIN body'[q]
       PROVE  \/ k \in DOMAIN body[q] /\ body'[q][k] = body[q][k]
              \/ q = p /\ k = Len(body[p]) + 1 /\ body'[q][k] = b
  BY <1>8, <1>12 DEF Queued
<1>13. /\ b.type = "ADD_TOOT_TEXT" /\ b.open = openOf[f] /\ openOf[f] <= opens
       /\ b.toot = i0 /\ b.text = n0
  BY <1>1, <1>5, <1>7 DEF Asked, OpenInv
<1>14. \A q \in Agents : \A k \in DOMAIN body'[q] : Sends(q, k)' =>
         k \in DOMAIN body[q] /\ body'[q][k] = body[q][k] /\ Sends(q, k)
  BY <1>12, <1>13 DEF Sends
<1>. HIDE DEF n0, i0
<1>15. OpenInv' /\ SendInv'
  <2>1. \A q \in Agents : \A k \in DOMAIN body'[q] : body'[q][k].open <= opens
    BY <1>1, <1>12, <1>13 DEF OpenInv
  <2>2. OpenInv'
    BY <1>1, <1>9, <1>11, <2>1, CalmKeepsOpens
  <2>3. SendInv'
    BY <1>1, <1>9, <1>11, <1>14, QueuedKeepsSent
  <2>. QED  BY <2>2, <2>3
<1>16. ASSUME NEW q \in Agents, NEW n, NEW k \in DOMAIN body'[q], Carries(q, k, n)'
       PROVE  \/ k \in DOMAIN body[q] /\ body'[q][k] = body[q][k] /\ Carries(q, k, n)
              \/ q = p /\ k = Len(body[p]) + 1 /\ n = n0
  BY <1>12, <1>13, <1>16 DEF Carries
<1>17. \A q \in Agents : \A k \in DOMAIN body[q] : k \in DOMAIN body'[q] /\ body'[q][k] = body[q][k]
  BY <1>8 DEF Queued
<1>18. ASSUME NEW q \in Agents, NEW i \in TootIds, NEW n \in TextIds
       PROVE  /\ Waits(q, i, n) => Waits(q, i, n)'
              /\ Waits(q, i, n)' => Waits(q, i, n) \/ (q = p /\ i = i0 /\ n = n0)
  <2>1. Keeps(q, i, n)' <=> Keeps(q, i, n)
    BY <1>9 DEF Keeps
  <2>2. Waits(q, i, n) => Waits(q, i, n)'
    BY <1>17, <2>1 DEF Waits, Carries
  <2>3. ASSUME NEW k \in DOMAIN body'[q], Carries(q, k, n)', body'[q][k].toot = i
        PROVE  Waits(q, i, n) \/ (q = p /\ i = i0 /\ n = n0)
    BY <1>12, <1>13, <2>3 DEF Waits, Carries
  <2>. QED  BY <2>1, <2>2, <2>3 DEF Waits
<1>19. ASSUME NEW i, NEW n, i = i0, n = n0 PROVE Waits(p, i, n)'
  <2>1. Len(body[p]) + 1 \in DOMAIN body'[p] /\ body'[p][Len(body[p]) + 1] = b
    BY <1>8 DEF Queued
  <2>. QED  BY <1>13, <1>19, <2>1 DEF Waits, Carries
<1>20. /\ \A q \in Agents : /\ \A k \in DOMAIN body[q] : ~Carries(q, k, n0)
                            /\ \A i \in TootIds : ~Keeps(q, i, n0)
       /\ \A u \in Threads : At(u, "addText") /\ text[u] = n0 => u = t
  BY <1>2, <1>6 DEF WriteInv, n0
<1>21. TextInv'
  <2>1. ASSUME NEW u \in Threads PROVE WriteInv(u)'
    <3>1. WriteInv(u)
      BY <1>1 DEF TextInv
    <3>2. thr'[u].step \in ElemSteps =>
            text[u] \in 1 .. writes /\ made[text[u]].open = openOf[thr'[u].file]
      BY <1>2, <1>9, <3>1 DEF WriteInv, MyFile, ElemSteps, At
    <3>3. \A v \in Threads : At(v, "addText")' => v # t /\ At(v, "addText")
      BY <1>9 DEF At
    <3>4. ASSUME At(u, "addText")', NEW q \in Agents
          PROVE  /\ \A k \in DOMAIN body'[q] : ~Carries(q, k, text[u])'
                 /\ \A i \in TootIds : ~Keeps(q, i, text[u])'
      <4>1. text[u] # n0
        BY <1>20, <3>3, <3>4
      <4>2. ASSUME NEW k \in DOMAIN body'[q], Carries(q, k, text[u])' PROVE FALSE
        <5>1. body'[q][k].type = "ADD_TOOT_TEXT" /\ body'[q][k].text = text[u]
          BY <1>9, <4>2 DEF Carries
        <5>2. Carries(q, k, text[u]) /\ k \in DOMAIN body[q]
          BY <1>12, <1>13, <4>1, <5>1 DEF Carries
        <5>. QED  BY <3>1, <3>3, <3>4, <5>2 DEF WriteInv
      <4>. QED  BY <1>9, <3>1, <3>3, <3>4, <4>2 DEF WriteInv, Keeps
    <3>5. ASSUME At(u, "addText")', NEW v \in Threads, At(v, "addText")', text[v] = text[u]
          PROVE  v = u
      BY <3>1, <3>3, <3>5 DEF WriteInv
    <3>. QED  BY <1>9, <3>2, <3>4, <3>5 DEF WriteInv, MyFile
  <2>2. ASSUME NEW q \in Agents, NEW k \in DOMAIN body'[q] PROVE CarryInv(q, k)'
    <3>. SUFFICES ASSUME body'[q][k].type = "ADD_TOOT_TEXT" PROVE CarryInv(q, k)'
      BY DEF CarryInv
    <3>1. CASE k \in DOMAIN body[q] /\ body'[q][k] = body[q][k]
      <4>1. CarryInv(q, k) /\ Carries(q, k, body[q][k].text)
        BY <1>1, <3>1 DEF TextInv, Carries
      <4>2. body[q][k].text # n0
        BY <1>20, <3>1, <4>1
      <4>3. ASSUME NEW l \in DOMAIN body'[q], body'[q][l].type = "ADD_TOOT_TEXT",
                   body'[q][l].text = body[q][k].text
            PROVE  l = k
        <5>1. l \in DOMAIN body[q] /\ body'[q][l] = body[q][l]
          BY <1>12, <1>13, <4>2, <4>3
        <5>. QED  BY <3>1, <4>1, <4>3, <5>1 DEF CarryInv, Carries
      <4>. QED  BY <1>9, <3>1, <4>1, <4>3 DEF CarryInv, Keeps, Carries
    <3>2. CASE q = p /\ k = Len(body[p]) + 1 /\ body'[q][k] = b
      <4>1. ASSUME NEW l \in DOMAIN body'[q], body'[q][l].type = "ADD_TOOT_TEXT",
                   body'[q][l].text = n0
            PROVE  l = k
        <5>1. ~(l \in DOMAIN body[q] /\ body'[q][l] = body[q][l])
          BY <1>20, <4>1 DEF Carries
        <5>. QED  BY <1>12, <3>2, <5>1
      <4>. QED  BY <1>6, <1>9, <1>13, <1>20, <3>2, <4>1 DEF CarryInv, Keeps, Carries
    <3>. QED  BY <1>12, <3>1, <3>2
  <2>. QED  BY <1>1, <1>9, <2>1, <2>2 DEF TextInv, Once, Named
<1>22. ASSUME ~torn
       PROVE  /\ Owner(f) = p /\ \A g \in Files : Named(g) /\ file[g].id = i0 => g = f
              /\ \A g \in Files : Named(g) => file[g].id \in TootIds
  BY <1>1, <1>3, <1>4, <1>5, <1>22, NamedToot DEF MyToot, i0
<1>23. LinesInv'
  <2>. SUFFICES ASSUME Undisturbed', NEW q \in Agents, NEW i \in TootIds PROVE LineInv(q, i)'
    BY DEF LinesInv
  <2>1. LineInv(q, i) /\ (Welcomes(q, i)' <=> Welcomes(q, i)) /\ ~torn
    BY <1>1, <1>9, <1>11, CalmFiles DEF LinesInv, Welcomes, Undisturbed
  <2>2. \A g \in Files : Talks(g)' => Talks(g) /\ Owner(g)' = Owner(g) /\ Named(g)
    BY <1>11, CalmFiles DEF Talks, Starts
  <2>3. q = p /\ i = i0 =>
          /\ held[q][i] # NULL
          /\ \A k \in DOMAIN body[q] : Sends(q, k) => body[q][k].toot # i
          /\ ~Welcomes(q, i)
    BY <1>5, <1>22, <2>1 DEF LineInv, i0
  <2>4. \A k \in DOMAIN body'[q] : body'[q][k].toot = i /\ body'[q][k].type # "NEW_TOOT" =>
          held'[q][i] # NULL
    BY <1>9, <1>12, <1>13, <2>1, <2>3 DEF LineInv
  <2>5. ASSUME NEW k \in DOMAIN body'[q], Sends(q, k)', body'[q][k].toot = i
        PROVE  /\ \A l \in DOMAIN body'[q] :
                    body'[q][l].toot = i /\ body'[q][l].type # "NEW_TOOT" => l <= k
               /\ \A n \in TextIds : Waits(q, i, n)' => made'[n].open = body'[q][k].open
    <3>1. k \in DOMAIN body[q] /\ body'[q][k] = body[q][k] /\ Sends(q, k)
      BY <1>14, <2>5
    <3>2. ~(q = p /\ i = i0)
      BY <2>3, <2>5, <3>1
    <3>3. \A l \in DOMAIN body'[q] : body'[q][l].toot = i =>
            l \in DOMAIN body[q] /\ body'[q][l] = body[q][l]
      BY <1>12, <1>13, <3>2
    <3>. QED  BY <1>9, <1>18, <2>1, <2>5, <3>1, <3>2, <3>3 DEF LineInv
  <2>6. ASSUME NEW g \in Files, Talks(g)', Owner(g)' = q, file'[g].id = i
        PROVE  /\ held'[q][i] # NULL
               /\ \A k \in DOMAIN body'[q] : Sends(q, k)' => body'[q][k].toot # i
               /\ \A n \in TextIds : Waits(q, i, n)' => made'[n].open = openOf'[g]
    <3>1. Talks(g) /\ Owner(g) = q /\ file[g].id = i /\ Named(g)
      BY <1>9, <2>2, <2>6
    <3>2. i = i0 => g = f
      BY <1>22, <2>1, <3>1
    <3>. QED  BY <1>6, <1>9, <1>14, <1>18, <2>1, <3>1, <3>2 DEF LineInv
  <2>7. ASSUME Welcomes(q, i)'
        PROVE  /\ held'[q][i] = << >>
               /\ \A k \in DOMAIN body'[q] : body'[q][k].toot = i => body'[q][k].type = "NEW_TOOT"
               /\ \A g \in Files : Talks(g)' /\ Owner(g)' = q => file'[g].id # i
    BY <1>9, <1>12, <1>13, <2>1, <2>2, <2>3, <2>7 DEF LineInv
  <2>. QED  BY <2>4, <2>5, <2>6, <2>7 DEF LineInv
<1>24. SentInv'
  <2>. SUFFICES ASSUME Undisturbed', NEW n \in TextIds, Sent(n)'
                PROVE  /\ \A g \in Files : file'[g].stage = "open" /\ openOf'[g] = made'[n].open
                              /\ Owner(g)' \in sock' => Waits(Owner(g), file[g].id, n)'
                       /\ \A q \in Agents : \A k \in DOMAIN body'[q] :
                            Sends(q, k)' /\ body'[q][k].open = made'[n].open =>
                                Waits(q, body[q][k].toot, n)'
                       /\ \A k \in DOMAIN posts' : posts'[k].open = made'[n].open =>
                            \E i \in DOMAIN posts'[k].texts : posts'[k].texts[i] = n
    BY DEF SentInv
  <2>1. (Sent(n) \/ n = n0) /\ Undisturbed /\ ~torn
    <3>1. Undisturbed /\ ~torn
      BY <1>11, CalmFiles DEF Undisturbed
    <3>2. ASSUME NEW u \in Threads, thr'[u].step \in {"writeFind", "writeWait"}, text'[u] = n
          PROVE  Sent(n) \/ n = n0
      BY <1>9, <3>2 DEF Sent, n0
    <3>. QED  BY <1>9, <3>1, <3>2 DEF Sent
  <2>2. ASSUME NEW g \in Files, file'[g].stage = "open", openOf'[g] = made'[n].open,
               Owner(g)' \in sock'
        PROVE  Waits(Owner(g), file[g].id, n)'
    <3>1. Named(g)' /\ Named(g) /\ ~torn'
      BY <1>9, <1>11, <2>2, OpenIsNamedNext, CalmFiles DEF Undisturbed
    <3>2. Owner(g)' = Owner(g) /\ Owner(g) \in Agents /\ file[g].id \in TootIds
      BY <1>1, <1>9, <1>10, <2>1, <3>1, <1>22, OwnersKeep
    <3>3. CASE Sent(n)
      <4>1. Waits(Owner(g), file[g].id, n)
        BY <1>1, <1>8, <1>9, <2>1, <2>2, <3>2, <3>3 DEF SentInv
      <4>2. PICK q \in Agents, i \in TootIds : q = Owner(g) /\ i = file[g].id
        BY <3>2
      <4>3. Waits(q, i, n)'
        BY <1>18, <4>1, <4>2
      <4>. QED  BY <1>9, <3>2, <4>2, <4>3
    <3>4. CASE n = n0
      <4>1. g = f
        BY <1>1, <1>5, <1>6, <1>9, <2>2, <3>1, <3>4 DEF OpenInv
      <4>2. Owner(g) = p /\ file'[g].id = i0
        BY <1>9, <1>22, <2>1, <4>1 DEF i0
      <4>3. PICK i : i = file[g].id
        OBVIOUS
      <4>4. Waits(p, i, n)'
        BY <1>9, <1>19, <3>4, <4>2, <4>3
      <4>. QED  BY <1>9, <3>2, <4>2, <4>3, <4>4
    <3>. QED  BY <2>1, <3>3, <3>4
  <2>3. ASSUME NEW q \in Agents, NEW k \in DOMAIN body'[q], Sends(q, k)',
               body'[q][k].open = made'[n].open
        PROVE  Waits(q, body[q][k].toot, n)'
    <3>1. k \in DOMAIN body[q] /\ body'[q][k] = body[q][k] /\ Sends(q, k)
      BY <1>14, <2>3
    <3>2. PICK i \in TootIds : i = body[q][k].toot
      BY <1>1, <3>1, PostTypes
    <3>3. n # n0
      BY <1>1, <1>5, <1>6, <1>9, <2>3, <3>1 DEF SendInv, Unsent
    <3>4. Waits(q, i, n)
      BY <1>1, <1>9, <2>1, <2>3, <3>1, <3>2, <3>3 DEF SentInv
    <3>5. Waits(q, i, n)'
      BY <1>18, <3>4
    <3>. QED  BY <3>1, <3>2, <3>5
  <2>4. ASSUME NEW k \in DOMAIN posts, posts[k].open = made[n].open
        PROVE  \E i \in DOMAIN posts[k].texts : posts[k].texts[i] = n
    <3>1. n # n0
      BY <1>1, <1>5, <1>6, <2>4 DEF SendInv, Unsent
    <3>. QED  BY <1>1, <2>1, <2>4, <3>1 DEF SentInv
  <2>. QED  BY <1>9, <2>2, <2>3, <2>4
<1>25. IndexInv'
  <2>1. ~torn' => ~torn
    BY <1>1, <1>10, TornForGood
  <2>. QED  BY <1>1, <1>9, <2>1 DEF IndexInv, Starts, Named
<1>. QED
  BY <1>1, <1>8, <1>9, <1>11, <1>15, <1>21, <1>23, <1>24, <1>25, CalmFiles
     DEF WayInv, PostedIsOneOpen

(* send_toot sends SEND_TOOT. *)
LEMMA CloseKeepsWay ==
  ASSUME PostInv, TootsInv', NEW t \in Threads, PostClose(t)
  PROVE  WayInv' /\ BodiesOK'
<1>1. /\ BodiesOK /\ TootsInv /\ UsedInv /\ ShapeInv /\ PostTypeOK /\ CallsInv /\ NetTypeOK /\ DevInv
      /\ OpenInv /\ SendInv /\ TextInv /\ LinesInv /\ SentInv /\ IndexInv /\ PostedIsOneOpen
      /\ thr \in [Threads -> Call] /\ file \in [Files -> File]
  BY InvBodies DEF PostInv, WayInv, ShapeInv, TypeOK
<1>2. PICK f \in Files :
        /\ CloseToot(t, f)
        /\ Ask(PidOf(file[f].id), Asked("SEND_TOOT", f, 0))
  BY DEF PostClose
<1>3. /\ file[f].stage = "open" /\ TootReady(file[f].id) /\ At(t, "idle")
      /\ ClosingAt(t, f, "closeFind")
  BY <1>2 DEF CloseToot, StartsClose
<1>4. PICK p \in Agents : p = PidOf(file[f].id)
  BY <1>1, <1>3, ReadyToot
<1>5. Named(f) /\ Starts(f) /\ Talks(f) /\ file[f].id \in TootIds
  BY <1>1, <1>3, OpenIsNamed, ReadyToot DEF Starts, Talks
<1>6. PICK i0 \in TootIds : i0 = file[f].id
  BY <1>5
<1>7. PICK b \in Body : b = Asked("SEND_TOOT", f, 0)
  <2>1. openOf[f] \in 0 .. MaxOpens /\ 0 \in 0 .. MaxWrites
    BY <1>1, HistoryAssumption DEF PostTypeOK
  <2>2. Asked("SEND_TOOT", f, 0) \in Body
    BY <1>5, <2>1 DEF Asked, Body, RequestTypes
  <2>. QED  BY <2>2
<1>8. BodiesOK' /\ Queued(p, b) /\ p \in sock /\ sock' = sock
  <2>1. PICK g \in TootIds : TootReady(g) /\ SendOk(p, SendTootMsg(i0, DeviceOf(g)))
    BY <1>2, <1>4, <1>6 DEF CloseToot
  <2>2. SendTootMsg(i0, DeviceOf(g)) \in Message
    <3>1. DeviceOf(g) \in DeviceIds
      BY <1>1, <2>1, ReadyToot
    <3>. QED  BY <1>6, <3>1 DEF SendTootMsg, Message, Request
  <2>3. PICK m \in Message : m = SendTootMsg(i0, DeviceOf(g)) /\ SendOk(p, m)
    BY <2>1, <2>2
  <2>4. Ask(p, b)
    BY <1>2, <1>4, <1>7
  <2>5. m.type = b.type /\ m.toot = b.toot
    BY <1>6, <1>7, <2>3 DEF SendTootMsg, Asked
  <2>. QED  BY <1>1, <2>3, <2>4, <2>5, AskGoes
<1>9. /\ openOf' = openOf /\ opens' = opens /\ writes' = writes /\ made' = made /\ text' = text
      /\ count' = count /\ held' = held /\ posts' = posts /\ success' = success
      /\ wrapped' = wrapped /\ misled' = misled
      /\ ans' = ans /\ toots' = toots
      /\ thr'[t].step = "closeFind" /\ \A u \in Threads \ {t} : thr'[u] = thr[u]
      /\ \A g \in Files \ {f} : file'[g] = file[g]
      /\ file'[f].stage = "closing" /\ file'[f].id = file[f].id /\ file'[f].dev = file[f].dev
  <2>1. /\ thr' = [thr EXCEPT ![t] = [IdleThread EXCEPT !.step = "closeFind", !.file = f]]
        /\ file' = [file EXCEPT ![f].stage = "closing"]
    BY <1>3 DEF ClosingAt, Stage
  <2>2. /\ thr'[t].step = "closeFind" /\ \A u \in Threads \ {t} : thr'[u] = thr[u]
    BY <1>1, <2>1 DEF IdleThread
  <2>3. /\ \A g \in Files \ {f} : file'[g] = file[g]
        /\ file'[f].stage = "closing" /\ file'[f].id = file[f].id /\ file'[f].dev = file[f].dev
    BY <1>1, <2>1 DEF File
  <2>. QED  BY <1>2, <2>2, <2>3 DEF PostClose, CloseToot
<1>10. [PostNext]_allVars /\ [Next]_vars /\ UserStep(t)
  BY <1>2, PostIsToots DEF PostNext, UserStep
<1>11. FilesCalm
  <2>1. ~AddToot(t)
    BY <1>3 DEF AddToot, At
  <2>. QED  BY <1>1, <1>9, <1>10, <2>1, StepsAreCalm
<1>12. ASSUME NEW q \in Agents, NEW k \in DOMAIN body'[q]
       PROVE  \/ k \in DOMAIN body[q] /\ body'[q][k] = body[q][k]
              \/ q = p /\ k = Len(body[p]) + 1 /\ body'[q][k] = b
  BY <1>8, <1>12 DEF Queued
<1>13. /\ b.type = "SEND_TOOT" /\ b.open = openOf[f] /\ openOf[f] <= opens /\ b.toot = i0
  BY <1>1, <1>5, <1>6, <1>7 DEF Asked, OpenInv
<1>14. \A q \in Agents : \A k \in DOMAIN body[q] : k \in DOMAIN body'[q] /\ body'[q][k] = body[q][k]
  BY <1>8 DEF Queued
<1>15. ASSUME NEW q \in Agents, NEW k \in DOMAIN body'[q], Sends(q, k)'
       PROVE  \/ k \in DOMAIN body[q] /\ body'[q][k] = body[q][k] /\ Sends(q, k)
              \/ q = p /\ k = Len(body[p]) + 1 /\ body'[q][k] = b
  BY <1>12, <1>15 DEF Sends
<1>16. \A q \in Agents : \A k \in DOMAIN body'[q] : body'[q][k].type = "ADD_TOOT_TEXT" =>
         k \in DOMAIN body[q] /\ body'[q][k] = body[q][k]
  BY <1>12, <1>13
<1>17. \A q \in Agents, i \in TootIds : \A n \in TextIds : Waits(q, i, n)' <=> Waits(q, i, n)
  BY <1>9, <1>14, <1>16 DEF Waits, Keeps, Carries
<1>18. OpenInv'
  <2>1. \A q \in Agents : \A k \in DOMAIN body'[q] : body'[q][k].open <= opens
    BY <1>1, <1>12, <1>13 DEF OpenInv
  <2>. QED  BY <1>1, <1>9, <1>11, <2>1, CalmKeepsOpens
<1>19. /\ \A g \in Files : Starts(g)' => Starts(g) /\ g # f /\ openOf[g] # openOf[f]
       /\ Unsent(openOf[f])
  <2>1. \A g \in Files : Starts(g)' => Starts(g) /\ Named(g) /\ g # f
    BY <1>9, <1>11, CalmFiles DEF Starts
  <2>2. Unsent(openOf[f])
    BY <1>1, <1>5 DEF SendInv
  <2>. QED  BY <1>1, <1>5, <2>1, <2>2 DEF OpenInv
<1>20. SendInv'
  <2>1. ASSUME NEW g \in Files, Starts(g)' PROVE Unsent(openOf[g])'
    <3>1. Unsent(openOf[g]) /\ openOf[g] # openOf[f]
      BY <1>1, <1>19, <2>1 DEF SendInv
    <3>2. \A q \in Agents : \A k \in DOMAIN body'[q] : Sends(q, k)' => body'[q][k].open # openOf[g]
      BY <1>13, <1>15, <3>1 DEF Unsent
    <3>. QED  BY <1>9, <3>1, <3>2 DEF Unsent
  <2>2. ASSUME NEW q \in Agents, NEW k \in DOMAIN body[q], Sends(q, k)
        PROVE  body[q][k].open # openOf[f]
    BY <1>19, <2>2 DEF Unsent
  <2>3. ASSUME NEW q \in Agents, NEW r \in Agents, NEW k \in DOMAIN body'[q], NEW l \in DOMAIN body'[r],
               Sends(q, k)', Sends(r, l)', body'[q][k].open = body'[r][l].open
        PROVE  q = r /\ k = l
    <3>1. CASE /\ k \in DOMAIN body[q] /\ body'[q][k] = body[q][k] /\ Sends(q, k)
               /\ l \in DOMAIN body[r] /\ body'[r][l] = body[r][l] /\ Sends(r, l)
      BY <1>1, <2>3, <3>1 DEF SendInv
    <3>2. CASE /\ k \in DOMAIN body[q] /\ body'[q][k] = body[q][k] /\ Sends(q, k)
               /\ r = p /\ l = Len(body[p]) + 1 /\ body'[r][l] = b
      BY <1>13, <2>2, <2>3, <3>2
    <3>3. CASE /\ l \in DOMAIN body[r] /\ body'[r][l] = body[r][l] /\ Sends(r, l)
               /\ q = p /\ k = Len(body[p]) + 1 /\ body'[q][k] = b
      BY <1>13, <2>2, <2>3, <3>3
    <3>. QED  BY <1>15, <2>3, <3>1, <3>2, <3>3
  <2>4. ASSUME NEW q \in Agents, NEW k \in DOMAIN body'[q], Sends(q, k)', NEW j \in DOMAIN posts
        PROVE  posts[j].open # body'[q][k].open
    BY <1>1, <1>13, <1>15, <1>19, <2>4 DEF SendInv, Unsent
  <2>. QED  BY <1>1, <1>9, <2>1, <2>3, <2>4 DEF SendInv
<1>21. TextInv'
  <2>1. ASSUME NEW u \in Threads PROVE WriteInv(u)'
    <3>1. WriteInv(u)
      BY <1>1 DEF TextInv
    <3>2. \A v \in Threads : thr'[v].step \in ElemSteps => thr'[v] = thr[v]
      BY <1>9 DEF ElemSteps
    <3>3. \A v \in Threads : At(v, "addText")' => At(v, "addText")
      BY <1>9 DEF At
    <3>4. ASSUME At(u, "addText")', NEW q \in Agents
          PROVE  /\ \A k \in DOMAIN body'[q] : ~Carries(q, k, text[u])'
                 /\ \A i \in TootIds : ~Keeps(q, i, text[u])'
      BY <1>9, <1>16, <3>1, <3>3, <3>4 DEF WriteInv, Keeps, Carries
    <3>5. ASSUME At(u, "addText")', NEW v \in Threads, At(v, "addText")', text[v] = text[u]
          PROVE  v = u
      BY <3>1, <3>3, <3>5 DEF WriteInv
    <3>. QED  BY <1>9, <3>1, <3>2, <3>4, <3>5 DEF WriteInv, MyFile
  <2>2. ASSUME NEW q \in Agents, NEW k \in DOMAIN body'[q] PROVE CarryInv(q, k)'
    <3>. SUFFICES ASSUME body'[q][k].type = "ADD_TOOT_TEXT" PROVE CarryInv(q, k)'
      BY DEF CarryInv
    <3>1. k \in DOMAIN body[q] /\ body'[q][k] = body[q][k]
      BY <1>16
    <3>2. CarryInv(q, k)
      BY <1>1, <3>1 DEF TextInv
    <3>3. \A l \in DOMAIN body'[q] : Carries(q, l, body[q][k].text)' => l = k
      BY <1>9, <1>16, <3>1, <3>2 DEF CarryInv, Carries
    <3>. QED  BY <1>9, <3>1, <3>2, <3>3 DEF CarryInv, Keeps, Carries
  <2>3. \A g \in Files : Named(g)' /\ file'[g].stage = "opening" =>
         \A n \in 1 .. writes : made[n].open # openOf[g]
    BY <1>1, <1>9 DEF TextInv, Named
  <2>. QED  BY <1>1, <1>9, <2>1, <2>2, <2>3 DEF TextInv, Once
<1>22. ASSUME ~torn
       PROVE  /\ Owner(f) = p /\ \A g \in Files : Named(g) /\ file[g].id = i0 => g = f
              /\ \A g \in Files : Named(g) => file[g].id \in TootIds
  BY <1>1, <1>4, <1>5, <1>6, <1>22, NamedToot
<1>23. LinesInv'
  <2>. SUFFICES ASSUME Undisturbed', NEW q \in Agents, NEW i \in TootIds PROVE LineInv(q, i)'
    BY DEF LinesInv
  <2>1. LineInv(q, i) /\ (Welcomes(q, i)' <=> Welcomes(q, i)) /\ ~torn
    BY <1>1, <1>9, <1>11, CalmFiles DEF LinesInv, Welcomes, Undisturbed
  <2>2. \A g \in Files : Talks(g)' =>
          /\ Talks(g) /\ Owner(g)' = Owner(g) /\ Named(g) /\ g # f /\ file'[g].id = file[g].id
    BY <1>9, <1>11, CalmFiles DEF Talks, Starts
  <2>3. q = p /\ i = i0 =>
          /\ held[q][i] # NULL
          /\ \A k \in DOMAIN body[q] : Sends(q, k) => body[q][k].toot # i
          /\ ~Welcomes(q, i)
          /\ \A n \in TextIds : Waits(q, i, n) => made[n].open = openOf[f]
    BY <1>5, <1>6, <1>22, <2>1 DEF LineInv
  <2>4. \A k \in DOMAIN body'[q] : body'[q][k].toot = i /\ body'[q][k].type # "NEW_TOOT" =>
          held'[q][i] # NULL
    BY <1>9, <1>12, <1>13, <2>1, <2>3 DEF LineInv
  <2>5. ASSUME NEW k \in DOMAIN body'[q], Sends(q, k)', body'[q][k].toot = i
        PROVE  /\ \A l \in DOMAIN body'[q] :
                    body'[q][l].toot = i /\ body'[q][l].type # "NEW_TOOT" => l <= k
               /\ \A n \in TextIds : Waits(q, i, n)' => made'[n].open = body'[q][k].open
    <3>1. CASE k \in DOMAIN body[q] /\ body'[q][k] = body[q][k] /\ Sends(q, k)
      <4>1. ~(q = p /\ i = i0)
        BY <2>3, <2>5, <3>1
      <4>2. \A l \in DOMAIN body'[q] : body'[q][l].toot = i =>
              l \in DOMAIN body[q] /\ body'[q][l] = body[q][l]
        BY <1>12, <1>13, <4>1
      <4>. QED  BY <1>9, <1>17, <2>1, <2>5, <3>1, <4>2 DEF LineInv
    <3>2. CASE q = p /\ k = Len(body[p]) + 1 /\ body'[q][k] = b
      <4>1. \A l \in DOMAIN body'[q] : l <= k
        BY <1>8, <3>2 DEF Queued
      <4>. QED  BY <1>9, <1>13, <1>17, <2>3, <2>5, <3>2, <4>1
    <3>. QED  BY <1>15, <2>5, <3>1, <3>2
  <2>6. ASSUME NEW g \in Files, Talks(g)', Owner(g)' = q, file'[g].id = i
        PROVE  /\ held'[q][i] # NULL
               /\ \A k \in DOMAIN body'[q] : Sends(q, k)' => body'[q][k].toot # i
               /\ \A n \in TextIds : Waits(q, i, n)' => made'[n].open = openOf'[g]
    <3>1. Talks(g) /\ Owner(g) = q /\ file[g].id = i /\ Named(g) /\ g # f
      BY <2>2, <2>6
    <3>2. i # i0
      BY <1>22, <2>1, <3>1
    <3>. QED  BY <1>9, <1>13, <1>15, <1>17, <2>1, <3>1, <3>2 DEF LineInv
  <2>7. ASSUME Welcomes(q, i)'
        PROVE  /\ held'[q][i] = << >>
               /\ \A k \in DOMAIN body'[q] : body'[q][k].toot = i => body'[q][k].type = "NEW_TOOT"
               /\ \A g \in Files : Talks(g)' /\ Owner(g)' = q => file'[g].id # i
    BY <1>9, <1>12, <1>13, <2>1, <2>2, <2>3, <2>7 DEF LineInv
  <2>. QED  BY <2>4, <2>5, <2>6, <2>7 DEF LineInv
<1>24. SentInv'
  <2>. SUFFICES ASSUME Undisturbed', NEW n \in TextIds, Sent(n)'
                PROVE  /\ \A g \in Files : file'[g].stage = "open" /\ openOf'[g] = made'[n].open
                              /\ Owner(g)' \in sock' => Waits(Owner(g), file[g].id, n)'
                       /\ \A q \in Agents : \A k \in DOMAIN body'[q] :
                            Sends(q, k)' /\ body'[q][k].open = made'[n].open =>
                                Waits(q, body[q][k].toot, n)'
                       /\ \A k \in DOMAIN posts' : posts'[k].open = made'[n].open =>
                            \E i \in DOMAIN posts'[k].texts : posts'[k].texts[i] = n
    BY DEF SentInv
  <2>1. Sent(n) /\ Undisturbed /\ ~torn
    <3>1. Undisturbed /\ ~torn
      BY <1>11, CalmFiles DEF Undisturbed
    <3>2. ASSUME NEW u \in Threads, thr'[u].step \in {"writeFind", "writeWait"}, text'[u] = n
          PROVE  Sent(n)
      BY <1>9, <3>2 DEF Sent
    <3>. QED  BY <1>9, <3>1, <3>2 DEF Sent
  <2>2. ASSUME NEW g \in Files, file'[g].stage = "open", openOf'[g] = made'[n].open,
               Owner(g)' \in sock'
        PROVE  Waits(Owner(g), file[g].id, n)'
    <3>1. Named(g)' /\ Named(g) /\ ~torn' /\ g # f /\ file'[g] = file[g]
      BY <1>9, <1>11, <2>2, OpenIsNamedNext, CalmFiles DEF Undisturbed
    <3>2. Owner(g)' = Owner(g) /\ Owner(g) \in Agents /\ file[g].id \in TootIds
      BY <1>1, <1>9, <1>10, <2>1, <3>1, <1>22, OwnersKeep
    <3>3. Waits(Owner(g), file[g].id, n)
      BY <1>1, <1>8, <1>9, <2>1, <2>2, <3>1, <3>2 DEF SentInv
    <3>4. PICK q \in Agents, i \in TootIds : q = Owner(g) /\ i = file[g].id
      BY <3>2
    <3>5. Waits(q, i, n)'
      BY <1>17, <3>3, <3>4
    <3>. QED  BY <3>1, <3>2, <3>4, <3>5
  <2>3. ASSUME NEW q \in Agents, NEW k \in DOMAIN body'[q], Sends(q, k)',
               body'[q][k].open = made'[n].open
        PROVE  Waits(q, body[q][k].toot, n)'
    <3>1. CASE k \in DOMAIN body[q] /\ body'[q][k] = body[q][k] /\ Sends(q, k)
      <4>1. PICK i \in TootIds : i = body[q][k].toot
        BY <1>1, <3>1, PostTypes
      <4>2. Waits(q, i, n)
        BY <1>1, <1>9, <2>1, <2>3, <3>1, <4>1 DEF SentInv
      <4>3. Waits(q, i, n)'
        BY <1>17, <4>2
      <4>. QED  BY <3>1, <4>1, <4>3
    <3>2. CASE q = p /\ k = Len(body[p]) + 1 /\ body'[q][k] = b
      <4>1. Owner(f) = p /\ openOf[f] = made[n].open
        BY <1>9, <1>13, <1>22, <2>1, <2>3, <3>2
      <4>2. Waits(p, i0, n)
        BY <1>1, <1>3, <1>6, <1>8, <2>1, <4>1 DEF SentInv
      <4>3. Waits(p, i0, n)'
        BY <1>17, <4>2
      <4>. QED  BY <1>13, <3>2, <4>3
    <3>. QED  BY <1>15, <2>3, <3>1, <3>2
  <2>. QED  BY <1>1, <1>9, <2>1, <2>2, <2>3 DEF SentInv
<1>25. IndexInv'
  <2>1. ~torn' => ~torn
    BY <1>1, <1>10, TornForGood
  <2>2. \A g \in Files : Starts(g)' => Starts(g) /\ file'[g] = file[g]
    BY <1>9, <1>19
  <2>. QED  BY <1>1, <1>9, <2>1, <2>2 DEF IndexInv
<1>. QED
  BY <1>1, <1>8, <1>9, <1>11, <1>18, <1>20, <1>21, <1>23, <1>24, <1>25, CalmFiles
     DEF WayInv, PostedIsOneOpen

(* The next index is one more, or 0. *)
LEMMA NextIndexIs ==
  ASSUME NEW c \in Nat, IndexCount \in Nat, IndexCount > 0, c < IndexCount
  PROVE  NextIndex(c) \in Nat /\ NextIndex(c) < IndexCount /\ (NextIndex(c) # 0 => NextIndex(c) > c)
<1>1. CASE c + 1 = IndexCount
  BY <1>1 DEF NextIndex
<1>2. CASE c + 1 < IndexCount
  BY <1>2 DEF NextIndex
<1>. QED  BY <1>1, <1>2

(* add_element gives a text its index. *)
LEMMA AddElementKeepsWay ==
  ASSUME PostInv, TootsInv', NEW t \in Threads, PostAddElement(t)
  PROVE  WayInv'
<1>1. /\ BodiesOK /\ TootsInv /\ UsedInv /\ ShapeInv /\ PostTypeOK /\ CallsInv /\ NetTypeOK /\ DevInv
      /\ OpenInv /\ SendInv /\ TextInv /\ LinesInv /\ SentInv /\ IndexInv /\ PostedIsOneOpen
      /\ AddElement(t) /\ thr \in [Threads -> Call] /\ CallInv(t)
  BY InvBodies DEF PostInv, WayInv, PostAddElement, ShapeInv, TypeOK, CallsInv
<1>2. /\ MyFile(t) \in Files /\ MyToot(t) \in TootIds /\ file[MyFile(t)].stage = "open"
      /\ At(t, "addElement") /\ toots[MyToot(t)] \in TootObjs
  <2>1. /\ MyFile(t) \in Files /\ MyToot(t) \in TootIds /\ file[MyFile(t)].stage = "open"
        /\ At(t, "addElement") /\ toots[MyToot(t)] # NULL
    BY <1>1 DEF AddElement, CallInv, At, WriteSteps
  <2>. QED  BY <1>1, <2>1 DEF ShapeInv, TypeOK
<1>3. PICK f \in Files : f = MyFile(t)
  BY <1>2
<1>4. Named(f) /\ file[f].stage = "open" /\ Starts(f) /\ file[f].id = MyToot(t)
  BY <1>1, <1>2, <1>3, OpenIsNamed DEF Starts, MyToot
<1>5. PICK o \in TootObjs : o = toots[MyToot(t)]
  BY <1>2
<1>6. PICK n0 \in TextIds : n0 = writes + 1
  BY <1>1, PostTypes, HistoryAssumption DEF PostAddElement, TextIds
<1>7. PICK index : index = NextIndex(count[o])
  OBVIOUS
<1>8. /\ writes' = n0 /\ writes \in Nat /\ writes < n0 /\ n0 <= MaxWrites /\ n0 = writes + 1
      /\ 1 .. writes \subseteq TextIds
  BY <1>1, <1>6, PostTypes, HistoryAssumption DEF PostAddElement
<1>9. /\ made'[n0] = [open |-> openOf[f], index |-> index]
      /\ \A n \in TextIds \ {n0} : made'[n] = made[n]
      /\ text'[t] = n0 /\ \A u \in Threads \ {t} : text'[u] = text[u]
      /\ count'[o] = index /\ \A a \in TootObjs \ {o} : count'[a] = count[a]
      /\ wrapped \subseteq wrapped' /\ (index = 0 => openOf[f] \in wrapped')
  BY <1>1, <1>3, <1>5, <1>6, <1>7 DEF PostAddElement, PostTypeOK
<1>10. /\ openOf' = openOf /\ opens' = opens /\ body' = body /\ held' = held
       /\ posts' = posts /\ success' = success /\ misled' = misled /\ sock' = sock
       /\ ans' = ans /\ toots' = toots /\ file' = file
       /\ thr'[t].step = "addText" /\ thr'[t].file = thr[t].file
       /\ \A u \in Threads \ {t} : thr'[u] = thr[u]
  BY <1>1 DEF PostAddElement, AddElement, deviceVars, netVars, Call
<1>11. [PostNext]_allVars /\ [Next]_vars /\ CallStep(t)
  BY <1>1, PostIsToots DEF PostNext, CallStep
<1>12. FilesCalm
  <2>1. ~AddToot(t)
    BY <1>1 DEF AddElement, AddToot, At
  <2>. QED  BY <1>1, <1>10, <1>11, <2>1, StepsAreCalm
<1>13. /\ \A n \in 1 .. writes : n \in TextIds /\ made'[n] = made[n]
       /\ \A n \in 1 .. n0 : n = n0 \/ n \in 1 .. writes
  BY <1>6, <1>8, <1>9
<1>14. openOf[f] <= opens /\ opens \in Nat
  BY <1>1, <1>4, PostTypes DEF OpenInv
<1>15. OpenInv'
  <2>1. \A n \in TextIds : made'[n].open <= opens
    BY <1>1, <1>9, <1>14 DEF OpenInv
  <2>. QED  BY <1>1, <1>10, <2>1 DEF OpenInv, Named
<1>16. SendInv'
  BY <1>1, <1>10 DEF SendInv, Starts, Named, Unsent, Sends
<1>17. /\ \A p \in Agents, i \in TootIds : \A n \in TextIds : Keeps(p, i, n) => n <= writes
       /\ \A p \in Agents : \A k \in DOMAIN body[p] : \A n : Carries(p, k, n) => n \in 1 .. writes
  BY <1>1 DEF TextInv, Once, Keeps, CarryInv, Carries
<1>18. /\ ~\E p \in Agents, i \in TootIds : Keeps(p, i, n0)
       /\ ~\E p \in Agents : \E k \in DOMAIN body[p] : Carries(p, k, n0)
  BY <1>8, <1>17
<1>19. TextInv'
  <2>1. ASSUME NEW u \in Threads PROVE WriteInv(u)'
    <3>1. CASE u = t
      <4>1. text'[t] \in 1 .. writes' /\ made'[text'[t]].open = openOf'[thr'[t].file]
        BY <1>3, <1>6, <1>8, <1>9, <1>10 DEF MyFile
      <4>2. ASSUME NEW v \in Threads, At(v, "addText")', text'[v] = n0 PROVE v = t
        <5>1. SUFFICES ASSUME v # t PROVE FALSE
          OBVIOUS
        <5>2. At(v, "addText") /\ text[v] = n0
          BY <1>9, <1>10, <4>2, <5>1 DEF At
        <5>3. text[v] \in 1 .. writes
          BY <1>1, <5>2 DEF TextInv, WriteInv, ElemSteps, At
        <5>. QED  BY <1>8, <5>2, <5>3
      <4>3. \A p \in Agents : /\ \A k \in DOMAIN body'[p] : ~Carries(p, k, text[t])'
                              /\ \A i \in TootIds : ~Keeps(p, i, text[t])'
        BY <1>9, <1>10, <1>18 DEF Carries, Keeps
      <4>. QED  BY <1>9, <3>1, <4>1, <4>2, <4>3 DEF WriteInv, MyFile
    <3>2. CASE u # t
      <4>1. WriteInv(u) /\ thr'[u] = thr[u] /\ text'[u] = text[u]
        BY <1>1, <1>9, <1>10, <3>2 DEF TextInv
      <4>2. thr[u].step \in ElemSteps =>
              text[u] \in 1 .. writes' /\ made'[text[u]].open = openOf[thr[u].file]
        BY <1>8, <1>13, <4>1 DEF WriteInv, MyFile
      <4>3. ASSUME At(u, "addText"), NEW v \in Threads, At(v, "addText")', text'[v] = text[u]
            PROVE  v = u
        <5>1. text[u] \in 1 .. writes
          BY <4>1, <4>3 DEF WriteInv, ElemSteps, At
        <5>2. v # t
          BY <1>8, <1>9, <4>3, <5>1
        <5>3. At(v, "addText") /\ text[v] = text[u]
          BY <1>9, <1>10, <4>3, <5>2 DEF At
        <5>. QED  BY <4>1, <4>3, <5>3 DEF WriteInv
      <4>4. ASSUME At(u, "addText"), NEW p \in Agents
            PROVE  /\ \A k \in DOMAIN body'[p] : ~Carries(p, k, text[u])'
                   /\ \A i \in TootIds : ~Keeps(p, i, text[u])'
        BY <1>10, <4>1, <4>4 DEF WriteInv, Carries, Keeps
      <4>. QED  BY <1>10, <4>1, <4>2, <4>3, <4>4 DEF WriteInv, MyFile, At
    <3>. QED  BY <3>1, <3>2
  <2>2. ASSUME NEW p \in Agents, NEW k \in DOMAIN body'[p] PROVE CarryInv(p, k)'
    <3>1. CarryInv(p, k)
      BY <1>1, <1>10 DEF TextInv
    <3>2. body[p][k].type = "ADD_TOOT_TEXT" =>
            body[p][k].text \in 1 .. writes' /\ made'[body[p][k].text].open = body[p][k].open
      BY <1>8, <1>13, <3>1 DEF CarryInv
    <3>. QED  BY <1>10, <3>1, <3>2 DEF CarryInv, Carries, Keeps
  <2>3. ASSUME NEW p \in Agents, NEW i \in TootIds, held[p][i] # NULL PROVE Once(held[p][i])'
    <3>1. Once(held[p][i]) /\ \A j \in DOMAIN held[p][i] : held[p][i][j] \in Nat
      BY <1>1, <2>3, PostTypes DEF TextInv, TextIds
    <3>. QED  BY <1>8, <1>10, <3>1 DEF Once
  <2>4. ASSUME NEW k \in DOMAIN posts PROVE Once(posts[k].texts)'
    <3>1. Once(posts[k].texts) /\ \A j \in DOMAIN posts[k].texts : posts[k].texts[j] \in Nat
      BY <1>1, <2>4, PostTypes DEF TextInv, TextIds
    <3>. QED  BY <1>8, <1>10, <3>1 DEF Once
  <2>5. ASSUME NEW n \in success PROVE n <= writes'
    <3>1. n <= writes /\ n \in Nat
      BY <1>1 DEF TextInv, PostTypeOK, TextIds
    <3>. QED  BY <1>8, <3>1
  <2>6. ASSUME NEW g \in Files, Named(g), file[g].stage = "opening", NEW n \in 1 .. writes'
        PROVE  made'[n].open # openOf[g]
    <3>1. openOf[g] # openOf[f]
      BY <1>1, <1>4, <2>6 DEF OpenInv
    <3>. QED  BY <1>1, <1>8, <1>9, <1>13, <2>6, <3>1 DEF TextInv
  <2>. QED  BY <1>10, <2>1, <2>2, <2>3, <2>4, <2>5, <2>6 DEF TextInv, Named
<1>20. ASSUME NEW p \in Agents, NEW i \in TootIds, NEW n \in TextIds
       PROVE  /\ Waits(p, i, n)' <=> Waits(p, i, n)
              /\ Waits(p, i, n) => n \in 1 .. writes /\ made'[n] = made[n]
  <2>1. Waits(p, i, n)' <=> Waits(p, i, n)
    BY <1>10 DEF Waits, Keeps, Carries
  <2>2. Waits(p, i, n) => n <= writes /\ n \in 1 .. MaxWrites
    BY <1>8, <1>17 DEF Waits, TextIds
  <2>. QED  BY <1>8, <1>13, <2>1, <2>2
<1>21. LinesInv'
  <2>. SUFFICES ASSUME Undisturbed', NEW q \in Agents, NEW i \in TootIds PROVE LineInv(q, i)'
    BY DEF LinesInv
  <2>1. LineInv(q, i) /\ (Welcomes(q, i)' <=> Welcomes(q, i))
    BY <1>1, <1>10, <1>12, CalmFiles DEF LinesInv, Welcomes
  <2>2. \A g \in Files : Talks(g)' => Talks(g) /\ Owner(g)' = Owner(g)
    BY <1>12, CalmFiles DEF Talks, Starts
  <2>3. \A k \in DOMAIN body'[q] : Sends(q, k)' <=> Sends(q, k)
    BY <1>10 DEF Sends
  <2>4. \A n \in TextIds : Waits(q, i, n)' => Waits(q, i, n) /\ made'[n] = made[n]
    BY <1>20
  <2>5. ASSUME NEW k \in DOMAIN body'[q], Sends(q, k)', body'[q][k].toot = i
        PROVE  /\ \A l \in DOMAIN body'[q] :
                    body'[q][l].toot = i /\ body'[q][l].type # "NEW_TOOT" => l <= k
               /\ \A n \in TextIds : Waits(q, i, n)' => made'[n].open = body'[q][k].open
    BY <1>10, <2>1, <2>3, <2>4, <2>5 DEF LineInv
  <2>6. ASSUME NEW g \in Files, Talks(g)', Owner(g)' = q, file'[g].id = i
        PROVE  /\ held'[q][i] # NULL
               /\ \A k \in DOMAIN body'[q] : Sends(q, k)' => body'[q][k].toot # i
               /\ \A n \in TextIds : Waits(q, i, n)' => made'[n].open = openOf'[g]
    BY <1>10, <2>1, <2>2, <2>3, <2>4, <2>6 DEF LineInv
  <2>7. ASSUME Welcomes(q, i)'
        PROVE  /\ held'[q][i] = << >>
               /\ \A k \in DOMAIN body'[q] : body'[q][k].toot = i => body'[q][k].type = "NEW_TOOT"
               /\ \A g \in Files : Talks(g)' /\ Owner(g)' = q => file'[g].id # i
    BY <1>10, <2>1, <2>2, <2>7 DEF LineInv
  <2>. QED  BY <1>10, <2>1, <2>5, <2>6, <2>7 DEF LineInv
<1>22. SentInv'
  <2>. SUFFICES ASSUME Undisturbed', NEW n \in TextIds, Sent(n)'
                PROVE  /\ \A g \in Files : file'[g].stage = "open" /\ openOf'[g] = made'[n].open
                              /\ Owner(g)' \in sock' => Waits(Owner(g), file[g].id, n)'
                       /\ \A q \in Agents : \A k \in DOMAIN body'[q] :
                            Sends(q, k)' /\ body'[q][k].open = made'[n].open =>
                                Waits(q, body[q][k].toot, n)'
                       /\ \A k \in DOMAIN posts' : posts'[k].open = made'[n].open =>
                            \E i \in DOMAIN posts'[k].texts : posts'[k].texts[i] = n
    BY DEF SentInv
  <2>1. Sent(n) /\ made'[n] = made[n] /\ Undisturbed /\ ~torn
    <3>1. Undisturbed /\ ~torn
      BY <1>12, CalmFiles DEF Undisturbed
    <3>2. ASSUME NEW u \in Threads, thr'[u].step \in {"writeFind", "writeWait"}, text'[u] = n
          PROVE  Sent(n)
      <4>1. u # t
        BY <1>10, <3>2
      <4>. QED  BY <1>9, <1>10, <3>2, <4>1 DEF Sent
    <3>3. Sent(n)
      BY <1>10, <3>2 DEF Sent
    <3>. QED  BY <1>1, <1>13, <3>1, <3>3, SentIsWritten
  <2>2. ASSUME NEW g \in Files, file'[g].stage = "open", openOf'[g] = made'[n].open,
               Owner(g)' \in sock'
        PROVE  Waits(Owner(g), file[g].id, n)'
    <3>1. Named(g)' /\ Named(g) /\ ~torn'
      BY <1>10, <1>12, <2>2, OpenIsNamedNext, CalmFiles DEF Undisturbed
    <3>2. Owner(g)' = Owner(g) /\ Owner(g) \in Agents /\ file[g].id \in TootIds
      BY <1>1, <1>10, <1>11, <2>1, <3>1, OwnersKeep, NamedToot
    <3>3. Waits(Owner(g), file[g].id, n)
      BY <1>1, <1>10, <2>1, <2>2, <3>2 DEF SentInv
    <3>4. PICK q \in Agents, i \in TootIds : q = Owner(g) /\ i = file[g].id
      BY <3>2
    <3>5. Waits(q, i, n)'
      BY <1>20, <3>3, <3>4
    <3>. QED  BY <1>10, <3>2, <3>4, <3>5
  <2>3. ASSUME NEW q \in Agents, NEW k \in DOMAIN body'[q], Sends(q, k)',
               body'[q][k].open = made'[n].open
        PROVE  Waits(q, body[q][k].toot, n)'
    <3>1. body' = body /\ held' = held /\ made'[n] = made[n]
      BY <1>10, <2>1
    <3>2. k \in DOMAIN body[q] /\ Sends(q, k) /\ body[q][k].open = made[n].open
      BY <2>3, <3>1 DEF Sends
    <3>3. Waits(q, body[q][k].toot, n)
      BY <1>1, <2>1, <3>2 DEF SentInv
    <3>. QED  BY <3>1, <3>3 DEF Waits, Keeps, Carries
  <2>4. ASSUME NEW k \in DOMAIN posts', posts'[k].open = made'[n].open
        PROVE  \E i \in DOMAIN posts'[k].texts : posts'[k].texts[i] = n
    <3>1. posts' = posts /\ made'[n] = made[n]
      BY <1>10, <2>1
    <3>. QED  BY <1>1, <2>1, <2>4, <3>1 DEF SentInv
  <2>. QED  BY <2>2, <2>3, <2>4
<1>23. IndexInv'
  <2>1. /\ index \in Nat /\ (index # 0 => index > count[o]) /\ count[o] \in Nat
        /\ \A n \in TextIds : made[n].index \in Nat
    BY <1>1, <1>7, PostTypes, NextIndexIs
  <2>2. ASSUME ~torn, NEW n \in 1 .. writes, made[n].open = openOf[f]
        PROVE  openOf[f] \in wrapped' \/ made[n].index < index
    <3>1. openOf[f] \in wrapped \/ made[n].index <= count[o]
      BY <1>1, <1>4, <1>5, <2>2 DEF IndexInv
    <3>. QED  BY <1>8, <1>9, <2>1, <2>2, <3>1
  <2>3. ASSUME ~torn, NEW m \in 1 .. n0, NEW n \in 1 .. n0, m < n, made'[m].open = made'[n].open
        PROVE  made'[n].open \in wrapped' \/ made'[m].index < made'[n].index
    <3>1. m \in 1 .. writes
      BY <1>8, <2>3
    <3>2. CASE n = n0
      <4>1. made'[n].open = openOf[f] /\ made'[n].index = index /\ made'[m] = made[m]
        BY <1>9, <1>13, <3>1, <3>2
      <4>. QED  BY <2>2, <2>3, <3>1, <4>1
    <3>3. CASE n \in 1 .. writes
      BY <1>1, <1>9, <1>13, <2>3, <3>1, <3>3 DEF IndexInv
    <3>. QED  BY <1>13, <3>2, <3>3
  <2>4. ASSUME ~torn, NEW g \in Files, NEW n \in 1 .. n0, Starts(g), made'[n].open = openOf[g]
        PROVE  openOf[g] \in wrapped' \/ made'[n].index <= count'[toots[file[g].id]]
    <3>1. CASE g = f
      <4>1. count'[toots[file[g].id]] = index
        BY <1>4, <1>5, <1>9, <3>1
      <4>2. CASE n = n0
        BY <1>9, <2>1, <4>1, <4>2
      <4>3. CASE n \in 1 .. writes
        BY <1>13, <2>1, <2>2, <2>4, <3>1, <4>1, <4>3
      <4>. QED  BY <1>13, <4>2, <4>3
    <3>2. CASE g # f
      <4>1. openOf[g] # openOf[f] /\ Named(g)
        BY <1>1, <1>4, <2>4, <3>2 DEF OpenInv, Starts
      <4>2. n \in 1 .. writes /\ made'[n] = made[n]
        BY <1>9, <1>13, <2>4, <4>1
      <4>3. toots[file[g].id] \in TootObjs /\ toots[file[g].id] # o
        BY <1>1, <1>4, <1>5, <2>4, <3>2, <4>1, NamedToot
      <4>. QED  BY <1>1, <1>9, <2>4, <4>2, <4>3 DEF IndexInv
    <3>. QED  BY <3>1, <3>2
  <2>5. ASSUME NEW k \in DOMAIN posts, NEW i \in DOMAIN posts[k].texts, NEW j \in DOMAIN posts[k].texts,
               i < j
        PROVE  made'[posts[k].texts[i]].index <= made'[posts[k].texts[j]].index
    <3>1. \A l \in DOMAIN posts[k].texts : posts[k].texts[l] \in 1 .. writes
      <4>1. Once(posts[k].texts) /\ \A l \in DOMAIN posts[k].texts : posts[k].texts[l] \in TextIds
        BY <1>1, PostTypes DEF TextInv
      <4>. QED  BY <1>8, <4>1 DEF Once, TextIds
    <3>. QED  BY <1>1, <1>13, <2>5, <3>1 DEF IndexInv
  <2>6. ~torn' => ~torn
    BY <1>1, <1>11, TornForGood
  <2>. QED  BY <1>8, <1>10, <2>3, <2>4, <2>5, <2>6 DEF IndexInv, Starts, Named
<1>24. PostedIsOneOpen'
  <2>1. ASSUME Undisturbed', NEW k \in DOMAIN posts, NEW i \in DOMAIN posts[k].texts
        PROVE  made'[posts[k].texts[i]].open = posts[k].open
    <3>1. posts[k].texts[i] \in 1 .. writes
      <4>1. Once(posts[k].texts) /\ posts[k].texts[i] \in TextIds
        BY <1>1, PostTypes DEF TextInv
      <4>. QED  BY <1>8, <4>1 DEF Once, TextIds
    <3>. QED  BY <1>1, <1>12, <1>13, <2>1, <3>1, CalmFiles DEF PostedIsOneOpen
  <2>. QED  BY <1>10, <2>1 DEF PostedIsOneOpen
<1>. QED  BY <1>15, <1>16, <1>19, <1>21, <1>22, <1>23, <1>24 DEF WayInv

(* The agent has taken the request m and answered it with ok. *)
Took(p, m, ok) ==
    /\ Taken(p) /\ sock' = sock
    /\ m.type = body[p][1].type /\ m.toot = body[p][1].toot
    /\ openOf' = openOf /\ opens' = opens /\ writes' = writes /\ made' = made /\ text' = text
    /\ count' = count /\ success' = success /\ wrapped' = wrapped /\ misled' = misled
    /\ file' = file /\ thr' = thr /\ toots' = toots /\ FilesCalm
    /\ ans[p] = NULL /\ \A q \in Agents \ {p} : ans'[q] = ans[q]
    /\ ans'[p] # NULL => ans'[p].op = m.type /\ ans'[p].toot = m.toot /\ ans'[p].ok = ok

(* A post of the first request: the texts the agent had, each once, sorted. *)
NewPost(p, x) ==
    /\ Sends(p, 1) /\ x.open = body[p][1].open
    /\ \A j \in DOMAIN x.texts : x.texts[j] \in TextIds /\ Keeps(p, body[p][1].toot, x.texts[j])
    /\ \A n \in TextIds : Keeps(p, body[p][1].toot, n) => \E j \in DOMAIN x.texts : x.texts[j] = n
    /\ IsInjective(x.texts)
    /\ \A i, j \in DOMAIN x.texts : i < j => made[x.texts[i]].index <= made[x.texts[j]].index

(* What the manager does with the first request. *)
Manages(p) ==
    /\ \A q \in Agents, i \in TootIds, n \in TextIds :
         Keeps(q, i, n)' => Keeps(q, i, n) \/ (q = p /\ i = body[p][1].toot /\ Carries(p, 1, n))
    /\ \A q \in Agents, i \in TootIds :
         held[q][i] # NULL /\ held'[q][i] = NULL => q = p /\ i = body[p][1].toot /\ Sends(p, 1)
    /\ \A i \in TootIds : Welcomes(p, i)' => held[p][i] = NULL /\ held'[p][i] = << >>
    /\ \A q \in Agents \ {p} : held'[q] = held[q]
    /\ \A q \in Agents, i \in TootIds, n \in TextIds :
         Undisturbed /\ Waits(q, i, n) => Waits(q, i, n)' \/ (q = p /\ i = body[p][1].toot /\ Sends(p, 1))
    /\ \A i \in TootIds : held'[p][i] # NULL => Once(held'[p][i])
    /\ \A j \in DOMAIN posts' :
         \/ j \in DOMAIN posts /\ posts'[j] = posts[j]
         \/ j = Len(posts) + 1 /\ NewPost(p, posts'[j])

(* Where a request was when those before it were not yet taken. *)
Old(p, q, k) == IF q = p THEN k + 1 ELSE k

(* The requests that are left were there before, one place on. *)
LEMMA TakenLeaves ==
  ASSUME PostTypeOK, NEW p \in Agents, Taken(p)
  PROVE  \A q \in Agents :
           /\ \A k \in DOMAIN body'[q] :
                /\ k \in Nat /\ k >= 1 /\ Old(p, q, k) \in DOMAIN body[q]
                /\ body'[q][k] = body[q][Old(p, q, k)]
                /\ q = p => Old(p, q, k) = k + 1 /\ Old(p, q, k) > 1
                /\ \A l \in DOMAIN body'[q] : Old(p, q, l) <= Old(p, q, k) => l <= k
                /\ \A l \in DOMAIN body'[q] : Old(p, q, l) = Old(p, q, k) => l = k
           /\ \A l \in DOMAIN body[q] : (q = p => l # 1) =>
                \E k \in DOMAIN body'[q] : body'[q][k] = body[q][l]
<1>. TAKE q \in Agents
<1>1. CASE q = p
  <2>1. /\ Len(body[q]) \in Nat /\ DOMAIN body[q] = 1 .. Len(body[q])
        /\ DOMAIN body'[q] = 1 .. Len(body[q]) - 1
        /\ \A k \in DOMAIN body'[q] : body'[q][k] = body[q][k + 1] /\ Old(p, q, k) = k + 1
    BY <1>1 DEF Taken, Old
  <2>2. ASSUME NEW l \in DOMAIN body[q], l # 1
        PROVE  \E k \in DOMAIN body'[q] : body'[q][k] = body[q][l]
    <3>1. l - 1 \in DOMAIN body'[q] /\ (l - 1) + 1 = l
      BY <2>1, <2>2
    <3>. QED  BY <2>1, <3>1
  <2>3. ASSUME NEW k \in DOMAIN body'[q]
        PROVE  /\ k \in Nat /\ k >= 1 /\ Old(p, q, k) \in DOMAIN body[q]
               /\ body'[q][k] = body[q][Old(p, q, k)]
               /\ Old(p, q, k) = k + 1 /\ Old(p, q, k) > 1
               /\ \A l \in DOMAIN body'[q] : Old(p, q, l) <= Old(p, q, k) => l <= k
               /\ \A l \in DOMAIN body'[q] : Old(p, q, l) = Old(p, q, k) => l = k
    <3>1. k \in Nat /\ k >= 1 /\ k + 1 \in DOMAIN body[q] /\ Old(p, q, k) = k + 1
      BY <2>1
    <3>2. \A l \in DOMAIN body'[q] : l \in Nat /\ Old(p, q, l) = l + 1
      BY <2>1
    <3>. QED  BY <2>1, <3>1, <3>2
  <2>. QED  BY <1>1, <2>2, <2>3
<1>2. CASE q # p
  <2>1. body'[q] = body[q] /\ \A k \in DOMAIN body'[q] : Old(p, q, k) = k
    BY <1>2 DEF Taken, Old
  <2>2. DOMAIN body[q] = 1 .. Len(body[q]) /\ Len(body[q]) \in Nat
    BY DEF PostTypeOK
  <2>. QED  BY <1>2, <2>1, <2>2
<1>. QED  BY <1>1, <1>2

(* Whatever the request is, the agent keeps the way of the texts. *)
LEMMA ManagerKeepsWay ==
  ASSUME PostInv, TootsInv', NEW p \in Agents, PostAnswer(p),
         NEW m, NEW ok, Took(p, m, ok), Manages(p)
  PROVE  WayInv'
<1>1. /\ BodiesOK /\ TootsInv /\ UsedInv /\ ShapeInv /\ PostTypeOK
      /\ OpenInv /\ SendInv /\ TextInv /\ LinesInv /\ SentInv /\ IndexInv /\ PostedIsOneOpen
  BY InvBodies DEF PostInv, WayInv
<1>2. /\ Taken(p) /\ sock' = sock
      /\ openOf' = openOf /\ opens' = opens /\ writes' = writes /\ made' = made /\ text' = text
      /\ count' = count /\ success' = success /\ wrapped' = wrapped /\ misled' = misled
      /\ file' = file /\ thr' = thr /\ toots' = toots /\ FilesCalm
      /\ ans[p] = NULL /\ \A q \in Agents \ {p} : ans'[q] = ans[q]
  BY DEF Took
<1>3. PICK b : b = body[p][1]
  OBVIOUS
<1>4. 1 \in DOMAIN body[p] /\ b \in Body /\ b.toot \in TootIds
  BY <1>1, <1>2, <1>3, PostTypes DEF Taken
<1>5. \A q \in Agents : \A k \in DOMAIN body'[q] :
        /\ k \in Nat /\ k >= 1 /\ Old(p, q, k) \in DOMAIN body[q]
        /\ body'[q][k] = body[q][Old(p, q, k)]
        /\ q = p => Old(p, q, k) = k + 1 /\ Old(p, q, k) > 1
        /\ \A l \in DOMAIN body'[q] : Old(p, q, l) <= Old(p, q, k) => l <= k
        /\ \A l \in DOMAIN body'[q] : Old(p, q, l) = Old(p, q, k) => l = k
  BY <1>1, <1>2, TakenLeaves
<1>6. /\ \A q \in Agents : \A k \in DOMAIN body'[q] : Sends(q, k)' <=> Sends(q, Old(p, q, k))
      /\ \A q \in Agents : \A k \in DOMAIN body'[q] : \A n : Carries(q, k, n)' => Carries(q, Old(p, q, k), n)
  <2>1. ASSUME NEW q \in Agents, NEW k \in DOMAIN body'[q] PROVE Sends(q, k)' <=> Sends(q, Old(p, q, k))
    BY <1>5 DEF Sends
  <2>2. ASSUME NEW q \in Agents, NEW k \in DOMAIN body'[q], NEW n, Carries(q, k, n)'
        PROVE  Carries(q, Old(p, q, k), n)
    BY <1>5, <2>2 DEF Carries
  <2>. QED  BY <2>1, <2>2
<1>7. \A j \in DOMAIN posts' : \/ j \in DOMAIN posts /\ posts'[j] = posts[j]
                               \/ j = Len(posts) + 1 /\ NewPost(p, posts'[j])
  BY DEF Manages
<1>8. OpenInv'
  <2>1. \A q \in Agents : \A k \in DOMAIN body'[q] : body'[q][k].open <= opens
    BY <1>1, <1>5 DEF OpenInv
  <2>2. \A j \in DOMAIN posts' : posts'[j].open <= opens
    BY <1>1, <1>4, <1>7 DEF OpenInv, NewPost
  <2>. QED  BY <1>1, <1>2, <2>1, <2>2 DEF OpenInv, Named
<1>9. SendInv'
  <2>1. ASSUME NEW f \in Files, Starts(f) PROVE Unsent(openOf[f])'
    <3>1. Unsent(openOf[f])
      BY <1>1, <2>1 DEF SendInv
    <3>2. \A q \in Agents : \A k \in DOMAIN body'[q] : Sends(q, k)' => body'[q][k].open # openOf[f]
      BY <1>5, <1>6, <3>1 DEF Unsent
    <3>3. \A j \in DOMAIN posts' : posts'[j].open # openOf[f]
      BY <1>4, <1>7, <3>1 DEF Unsent, NewPost
    <3>. QED  BY <1>2, <3>2, <3>3 DEF Unsent
  <2>2. ASSUME NEW q \in Agents, NEW r \in Agents, NEW k \in DOMAIN body'[q], NEW l \in DOMAIN body'[r],
               Sends(q, k)', Sends(r, l)', body'[q][k].open = body'[r][l].open
        PROVE  q = r /\ k = l
    <3>1. q = r /\ Old(p, q, k) = Old(p, r, l)
      BY <1>1, <1>5, <1>6, <2>2 DEF SendInv
    <3>. QED  BY <1>5, <2>2, <3>1
  <2>3. ASSUME NEW q \in Agents, NEW k \in DOMAIN body'[q], Sends(q, k)', NEW j \in DOMAIN posts'
        PROVE  posts'[j].open # body'[q][k].open
    <3>1. Sends(q, Old(p, q, k)) /\ body'[q][k].open = body[q][Old(p, q, k)].open
          /\ Old(p, q, k) \in DOMAIN body[q] /\ (q = p => Old(p, q, k) # 1)
      BY <1>5, <1>6, <2>3
    <3>2. CASE j \in DOMAIN posts /\ posts'[j] = posts[j]
      BY <1>1, <3>1, <3>2 DEF SendInv
    <3>3. CASE NewPost(p, posts'[j])
      BY <1>1, <1>4, <3>1, <3>3 DEF SendInv, NewPost
    <3>. QED  BY <1>7, <3>2, <3>3
  <2>4. ASSUME NEW j \in DOMAIN posts', NEW k \in DOMAIN posts', posts'[j].open = posts'[k].open
        PROVE  j = k
    <3>1. \A i \in DOMAIN posts : NewPost(p, posts'[j]) => posts[i].open # posts'[j].open
      BY <1>1, <1>4 DEF SendInv, NewPost
    <3>2. \A i \in DOMAIN posts : NewPost(p, posts'[k]) => posts[i].open # posts'[k].open
      BY <1>1, <1>4 DEF SendInv, NewPost
    <3>. QED  BY <1>1, <1>7, <2>4, <3>1, <3>2 DEF SendInv
  <2>. QED  BY <1>2, <2>1, <2>2, <2>3, <2>4 DEF SendInv, Starts, Named
<1>10. \A q \in Agents, i \in TootIds, n \in TextIds :
         Keeps(q, i, n)' => Keeps(q, i, n) \/ (q = p /\ i = b.toot /\ Carries(p, 1, n))
  BY <1>3 DEF Manages
<1>11. ASSUME NEW q \in Agents, NEW i \in TootIds, NEW n \in TextIds, Waits(q, i, n)' PROVE Waits(q, i, n)
  <2>1. CASE Keeps(q, i, n)'
    BY <1>3, <1>4, <1>10, <2>1 DEF Waits
  <2>2. ASSUME NEW k \in DOMAIN body'[q], Carries(q, k, n)', body'[q][k].toot = i PROVE Waits(q, i, n)
    BY <1>5, <1>6, <2>2 DEF Waits
  <2>. QED  BY <1>11, <2>1, <2>2 DEF Waits
<1>12. TextInv'
  <2>1. ASSUME NEW u \in Threads PROVE WriteInv(u)'
    <3>1. WriteInv(u)
      BY <1>1 DEF TextInv
    <3>2. ASSUME At(u, "addText"), NEW q \in Agents
          PROVE  /\ \A k \in DOMAIN body'[q] : ~Carries(q, k, text[u])'
                 /\ \A i \in TootIds : ~Keeps(q, i, text[u])'
      <4>1. text[u] \in TextIds
        BY <1>1, <3>1, <3>2, PostTypes DEF WriteInv, ElemSteps, At
      <4>2. PICK n \in TextIds : n = text[u]
        BY <4>1
      <4>3. /\ \A r \in Agents : \A k \in DOMAIN body[r] : ~Carries(r, k, n)
            /\ \A r \in Agents, i \in TootIds : ~Keeps(r, i, n)
        BY <3>1, <3>2, <4>2 DEF WriteInv
      <4>4. \A k \in DOMAIN body'[q] : ~Carries(q, k, n)'
        BY <1>5, <1>6, <4>3
      <4>5. \A i \in TootIds : ~Keeps(q, i, n)'
        BY <1>4, <1>10, <4>3
      <4>. QED  BY <1>2, <4>2, <4>4, <4>5 DEF Carries, Keeps
    <3>. QED  BY <1>2, <3>1, <3>2 DEF WriteInv, MyFile, At
  <2>2. ASSUME NEW q \in Agents, NEW k \in DOMAIN body'[q] PROVE CarryInv(q, k)'
    <3>. SUFFICES ASSUME body'[q][k].type = "ADD_TOOT_TEXT" PROVE CarryInv(q, k)'
      BY DEF CarryInv
    <3>1. PICK l \in DOMAIN body[q] :
            l = Old(p, q, k) /\ body'[q][k] = body[q][l] /\ (q = p => l # 1)
      BY <1>5
    <3>2. CarryInv(q, l) /\ body[q][l].type = "ADD_TOOT_TEXT"
      BY <1>1, <3>1 DEF TextInv
    <3>3. PICK n \in TextIds : n = body[q][l].text
      BY <1>1, <3>2, PostTypes DEF CarryInv
    <3>4. \A i \in TootIds : ~Keeps(q, i, n)'
      <4>1. \A i \in TootIds : ~Keeps(q, i, n)
        BY <3>2, <3>3 DEF CarryInv
      <4>2. q = p => ~Carries(p, 1, n)
        BY <1>4, <3>1, <3>2, <3>3 DEF CarryInv
      <4>. QED  BY <1>10, <4>1, <4>2
    <3>5. \A j \in DOMAIN body'[q] : Carries(q, j, n)' => j = k
      <4>1. ASSUME NEW j \in DOMAIN body'[q], Carries(q, j, n)' PROVE j = k
        <5>1. Old(p, q, j) = l
          BY <1>5, <1>6, <3>2, <3>3, <4>1 DEF CarryInv
        <5>. QED  BY <1>5, <3>1, <5>1
      <4>. QED  BY <4>1
    <3>6. body'[q][k].text = n /\ n \in 1 .. writes /\ made[n].open = body'[q][k].open
      BY <3>1, <3>2, <3>3 DEF CarryInv
    <3>. QED  BY <1>2, <3>4, <3>5, <3>6 DEF CarryInv, Keeps, Carries
  <2>3. ASSUME NEW q \in Agents, NEW i \in TootIds, held'[q][i] # NULL PROVE Once(held'[q][i])
    BY <1>1, <2>3 DEF Manages, TextInv
  <2>4. ASSUME NEW j \in DOMAIN posts' PROVE Once(posts'[j].texts)
    <3>1. CASE j \in DOMAIN posts /\ posts'[j] = posts[j]
      BY <1>1, <3>1 DEF TextInv
    <3>2. CASE NewPost(p, posts'[j])
      <4>1. held[p][b.toot] # NULL => Once(held[p][b.toot])
        BY <1>1, <1>4 DEF TextInv
      <4>2. \A k \in DOMAIN posts'[j].texts : posts'[j].texts[k] <= writes
        BY <1>3, <3>2, <4>1 DEF NewPost, Keeps, Once
      <4>. QED  BY <3>2, <4>2 DEF NewPost, Once
    <3>. QED  BY <1>7, <3>1, <3>2
  <2>. QED  BY <1>1, <1>2, <2>1, <2>2, <2>3, <2>4 DEF TextInv, Once, Named
<1>13. Undisturbed' => Undisturbed /\ \A f \in Files : Named(f)' => Owner(f)' = Owner(f)
  BY <1>2, CalmFiles
<1>14. \A q \in Agents, i \in TootIds :
         held[q][i] # NULL /\ held'[q][i] = NULL => q = p /\ i = b.toot /\ Sends(p, 1)
  BY <1>3 DEF Manages
<1>15. LinesInv'
  <2>. SUFFICES ASSUME Undisturbed', NEW q \in Agents, NEW i \in TootIds PROVE LineInv(q, i)'
    BY DEF LinesInv
  <2>1. LineInv(q, i)
    BY <1>1, <1>13 DEF LinesInv
  <2>2. \A g \in Files : Talks(g)' => Talks(g) /\ Owner(g)' = Owner(g)
    BY <1>2, CalmFiles DEF Talks, Starts
  <2>3. ASSUME NEW k \in DOMAIN body'[q], body'[q][k].toot = i, body'[q][k].type # "NEW_TOOT"
        PROVE  held'[q][i] # NULL
    <3>1. /\ held[q][i] # NULL
          /\ q = p /\ Sends(p, 1) /\ b.toot = i => Old(p, q, k) <= 1
      BY <1>3, <1>4, <1>5, <2>1, <2>3 DEF LineInv
    <3>. QED  BY <1>5, <1>14, <3>1
  <2>4. ASSUME NEW k \in DOMAIN body'[q], Sends(q, k)', body'[q][k].toot = i
        PROVE  /\ \A l \in DOMAIN body'[q] :
                    body'[q][l].toot = i /\ body'[q][l].type # "NEW_TOOT" => l <= k
               /\ \A n \in TextIds : Waits(q, i, n)' => made'[n].open = body'[q][k].open
    <3>1. PICK j \in DOMAIN body[q] : j = Old(p, q, k) /\ body'[q][k] = body[q][j] /\ Sends(q, j)
      BY <1>5, <1>6, <2>4
    <3>2. ASSUME NEW l \in DOMAIN body'[q], body'[q][l].toot = i, body'[q][l].type # "NEW_TOOT"
          PROVE  l <= k
      <4>1. Old(p, q, l) <= j
        BY <1>5, <2>1, <2>4, <3>1, <3>2 DEF LineInv
      <4>. QED  BY <1>5, <3>1, <4>1
    <3>. QED  BY <1>2, <1>11, <2>1, <2>4, <3>1, <3>2 DEF LineInv
  <2>5. ASSUME NEW g \in Files, Talks(g)', Owner(g)' = q, file'[g].id = i
        PROVE  /\ held'[q][i] # NULL
               /\ \A k \in DOMAIN body'[q] : Sends(q, k)' => body'[q][k].toot # i
               /\ \A n \in TextIds : Waits(q, i, n)' => made'[n].open = openOf'[g]
    <3>1. /\ held[q][i] # NULL
          /\ \A k \in DOMAIN body[q] : Sends(q, k) => body[q][k].toot # i
          /\ \A n \in TextIds : Waits(q, i, n) => made[n].open = openOf[g]
      BY <1>2, <2>1, <2>2, <2>5 DEF LineInv
    <3>2. held'[q][i] # NULL
      BY <1>3, <1>4, <1>14, <3>1
    <3>. QED  BY <1>2, <1>5, <1>6, <1>11, <3>1, <3>2
  <2>6. ASSUME Welcomes(q, i)'
        PROVE  /\ held'[q][i] = << >>
               /\ \A k \in DOMAIN body'[q] : body'[q][k].toot = i => body'[q][k].type = "NEW_TOOT"
               /\ \A g \in Files : Talks(g)' /\ Owner(g)' = q => file'[g].id # i
    <3>1. CASE q = p
      <4>1. held[p][i] = NULL /\ held'[p][i] = << >>
        BY <2>6, <3>1 DEF Manages
      <4>. QED  BY <1>2, <1>5, <2>1, <2>2, <3>1, <4>1 DEF LineInv
    <3>2. CASE q # p
      <4>1. Welcomes(q, i) /\ held'[q] = held[q]
        BY <1>2, <2>6, <3>2 DEF Manages, Welcomes
      <4>. QED  BY <1>2, <1>5, <2>1, <2>2, <4>1 DEF LineInv
    <3>. QED  BY <3>1, <3>2
  <2>. QED  BY <2>3, <2>4, <2>5, <2>6 DEF LineInv
<1>16. \A q \in Agents, i \in TootIds, n \in TextIds :
         Undisturbed /\ Waits(q, i, n) => Waits(q, i, n)' \/ (q = p /\ i = b.toot /\ Sends(p, 1))
  BY <1>3 DEF Manages
<1>17. SentInv'
  <2>. SUFFICES ASSUME Undisturbed', NEW n \in TextIds, Sent(n)'
                PROVE  /\ \A g \in Files : file'[g].stage = "open" /\ openOf'[g] = made'[n].open
                              /\ Owner(g)' \in sock' => Waits(Owner(g), file[g].id, n)'
                       /\ \A q \in Agents : \A k \in DOMAIN body'[q] :
                            Sends(q, k)' /\ body'[q][k].open = made'[n].open =>
                                Waits(q, body[q][k].toot, n)'
                       /\ \A k \in DOMAIN posts' : posts'[k].open = made'[n].open =>
                            \E i \in DOMAIN posts'[k].texts : posts'[k].texts[i] = n
    BY DEF SentInv
  <2>1. Sent(n) /\ Undisturbed /\ ~torn
    BY <1>2, <1>13 DEF Sent, Undisturbed
  <2>2. ASSUME NEW g \in Files, file'[g].stage = "open", openOf'[g] = made'[n].open,
               Owner(g)' \in sock'
        PROVE  Waits(Owner(g), file[g].id, n)'
    <3>1. Named(g)' /\ Named(g) /\ Talks(g) /\ ~torn'
      BY <1>1, <1>2, <2>1, <2>2, OpenIsNamed, OpenIsNamedNext DEF Named, Talks, Starts, Undisturbed
    <3>2. Owner(g)' = Owner(g) /\ Owner(g) \in Agents /\ file[g].id \in TootIds
      <4>1. [PostNext]_allVars
        BY DEF PostNext
      <4>. QED  BY <1>1, <1>2, <2>1, <3>1, <4>1, OwnersKeep, NamedToot
    <3>3. PICK q \in Agents, i \in TootIds : q = Owner(g) /\ i = file[g].id
      BY <3>2
    <3>4. Waits(q, i, n)
      BY <1>1, <1>2, <2>1, <2>2, <3>2, <3>3 DEF SentInv
    <3>5. LineInv(q, i)
      BY <1>1, <2>1 DEF LinesInv
    <3>6. ~(q = p /\ i = b.toot /\ Sends(p, 1))
      BY <1>3, <1>4, <3>1, <3>3, <3>5 DEF LineInv
    <3>7. Waits(q, i, n)'
      BY <1>16, <2>1, <3>4, <3>6
    <3>. QED  BY <1>2, <3>2, <3>3, <3>7
  <2>3. ASSUME NEW q \in Agents, NEW k \in DOMAIN body'[q], Sends(q, k)',
               body'[q][k].open = made'[n].open
        PROVE  Waits(q, body[q][k].toot, n)'
    <3>1. PICK j \in DOMAIN body[q] :
            j = Old(p, q, k) /\ body'[q][k] = body[q][j] /\ Sends(q, j) /\ (q = p => j > 1)
      BY <1>5, <1>6, <2>3
    <3>2. PICK i \in TootIds : i = body[q][j].toot
      BY <1>1, <3>1, PostTypes
    <3>3. Waits(q, i, n)
      BY <1>1, <1>2, <2>1, <2>3, <3>1, <3>2 DEF SentInv
    <3>4. LineInv(q, i) /\ body[q][j].type # "NEW_TOOT"
      BY <1>1, <2>1, <3>1 DEF LinesInv, Sends
    <3>5. ~(q = p /\ i = b.toot /\ Sends(p, 1))
      <4>1. j \in Nat
        BY <1>1 DEF PostTypeOK
      <4>. QED  BY <1>3, <1>4, <3>1, <3>2, <3>4, <4>1 DEF LineInv
    <3>6. Waits(q, i, n)'
      BY <1>16, <2>1, <3>3, <3>5
    <3>. QED  BY <3>1, <3>2, <3>6
  <2>4. ASSUME NEW k \in DOMAIN posts', posts'[k].open = made'[n].open
        PROVE  \E i \in DOMAIN posts'[k].texts : posts'[k].texts[i] = n
    <3>1. CASE k \in DOMAIN posts /\ posts'[k] = posts[k]
      BY <1>1, <1>2, <2>1, <2>4, <3>1 DEF SentInv
    <3>2. CASE NewPost(p, posts'[k])
      <4>1. Sends(p, 1) /\ b.open = made[n].open
        BY <1>2, <1>3, <2>4, <3>2 DEF NewPost
      <4>2. Waits(p, b.toot, n)
        BY <1>1, <1>3, <1>4, <2>1, <4>1 DEF SentInv
      <4>3. Keeps(p, b.toot, n)
        <5>1. SUFFICES ASSUME NEW l \in DOMAIN body[p], Carries(p, l, n), body[p][l].toot = b.toot
                       PROVE  FALSE
          BY <4>2 DEF Waits
        <5>2. LineInv(p, b.toot)
          BY <1>1, <1>4, <2>1 DEF LinesInv
        <5>3. l <= 1
          BY <1>3, <1>4, <4>1, <5>1, <5>2 DEF LineInv, Carries
        <5>4. l = 1
          BY <1>2, <5>3 DEF Taken
        <5>. QED  BY <4>1, <5>1, <5>4 DEF Sends, Carries
      <4>. QED  BY <1>3, <3>2, <4>3 DEF NewPost
    <3>. QED  BY <1>7, <3>1, <3>2
  <2>. QED  BY <2>2, <2>3, <2>4
<1>18. IndexInv'
  <2>1. ~torn' => ~torn
    <3>1. [PostNext]_allVars
      BY DEF PostNext
    <3>. QED  BY <1>1, <3>1, PostIsToots, TornForGood
  <2>2. ASSUME NEW k \in DOMAIN posts', NEW i \in DOMAIN posts'[k].texts,
               NEW j \in DOMAIN posts'[k].texts, i < j
        PROVE  made[posts'[k].texts[i]].index <= made[posts'[k].texts[j]].index
    BY <1>1, <1>7, <2>2 DEF IndexInv, NewPost
  <2>. QED  BY <1>1, <1>2, <2>1, <2>2 DEF IndexInv, Starts, Named
<1>19. PostedIsOneOpen'
  <2>. SUFFICES ASSUME Undisturbed', NEW k \in DOMAIN posts', NEW j \in DOMAIN posts'[k].texts
                PROVE  made[posts'[k].texts[j]].open = posts'[k].open
    BY <1>2 DEF PostedIsOneOpen
  <2>1. CASE k \in DOMAIN posts /\ posts'[k] = posts[k]
    BY <1>1, <1>13, <2>1 DEF PostedIsOneOpen
  <2>2. CASE NewPost(p, posts'[k])
    <3>1. PICK n \in TextIds : n = posts'[k].texts[j] /\ Keeps(p, b.toot, n)
      BY <1>3, <2>2 DEF NewPost
    <3>2. LineInv(p, b.toot)
      BY <1>1, <1>4, <1>13 DEF LinesInv
    <3>3. made[n].open = b.open
      BY <1>3, <1>4, <2>2, <3>1, <3>2 DEF LineInv, Waits, NewPost
    <3>. QED  BY <1>3, <2>2, <3>1, <3>3 DEF NewPost
  <2>. QED  BY <1>7, <2>1, <2>2
<1>. QED  BY <1>8, <1>9, <1>12, <1>15, <1>17, <1>18, <1>19 DEF WayInv

(* Sorting keeps the texts, each as often as it was there. *)
LEMMA SortedTexts ==
  ASSUME NEW texts \in Seq(TextIds), IsInjective(texts), NEW s \in GetText(texts)
  PROVE  /\ s \in Seq(TextIds) /\ IsInjective(s)
         /\ \A j \in DOMAIN s : s[j] \in TextIds /\ \E k \in DOMAIN texts : texts[k] = s[j]
         /\ \A k \in DOMAIN texts : \E j \in DOMAIN s : s[j] = texts[k]
         /\ \A i, j \in DOMAIN s : i < j => made[s[i]].index <= made[s[j]].index
<1>1. PICK q \in Bijection(DOMAIN texts, DOMAIN texts) : s = [i \in DOMAIN texts |-> texts[q[i]]]
  BY DEF GetText, Orders
<1>2. /\ q \in [DOMAIN texts -> DOMAIN texts]
      /\ \A a, b \in DOMAIN texts : q[a] = q[b] => a = b
      /\ \A k \in DOMAIN texts : \E j \in DOMAIN texts : q[j] = k
  BY DEF Bijection, Injection, Surjection, IsInjective
<1>3. DOMAIN s = DOMAIN texts /\ \A i \in DOMAIN s : s[i] = texts[q[i]] /\ q[i] \in DOMAIN texts
  BY <1>1, <1>2
<1>4. /\ Len(texts) \in Nat /\ DOMAIN texts = 1 .. Len(texts)
      /\ \A i \in DOMAIN texts : texts[i] \in TextIds
  OBVIOUS
<1>5. s \in Seq(TextIds)
  <2>1. s \in [1 .. Len(texts) -> TextIds]
    BY <1>1, <1>2, <1>4
  <2>. QED  BY <1>4, <2>1
<1>6. IsInjective(s)
  BY <1>2, <1>3 DEF IsInjective
<1>7. \A k \in DOMAIN texts : \E j \in DOMAIN s : s[j] = texts[k]
  BY <1>2, <1>3
<1>8. \A i, j \in DOMAIN s : i < j => made[s[i]].index <= made[s[j]].index
  BY DEF GetText
<1>. QED  BY <1>3, <1>4, <1>5, <1>6, <1>7, <1>8

(* The agent takes the first request and hands it to its manager. *)
LEMMA AnswerTakes ==
  ASSUME PostInv, TootsInv', NEW p \in Agents, PostAnswer(p)
  PROVE  /\ BodiesOK'
         /\ \E m \in Message, ok \in BOOLEAN :
              /\ Took(p, m, ok) /\ m.type \in RequestTypes
              /\ ManageNew(p, m, ok) \/ ManageText(p, m, ok) \/ ManageSend(p, m, ok)
<1>1. /\ BodiesOK /\ TootsInv /\ UsedInv /\ ShapeInv /\ PostTypeOK /\ NetTypeOK
      /\ ans \in [Agents -> Answer \cup {NULL}]
  BY InvBodies DEF PostInv, ShapeInv, TypeOK
<1>2. PICK ok \in BOOLEAN :
        /\ AnswerToot(p, ok) \/ AnswerText(p, ok) \/ AnswerRefused(p)
        /\ LET m == Head(inbox[p])
           IN ManageNew(p, m, ok) \/ ManageText(p, m, ok) \/ ManageSend(p, m, ok)
  BY DEF PostAnswer
<1>3. /\ inbox[p] # << >> /\ Head(inbox[p]).type \in RequestTypes /\ ans[p] = NULL
      /\ Pop(p) \/ PopAndNack(p)
  BY <1>2 DEF AnswerToot, AnswerText, AnswerRefused, CanAnswer, HeadIs, RequestTypes
<1>4. PICK m \in Message : m = Head(inbox[p])
  <2>1. inbox[p] \in Seq(Message)
    BY <1>1 DEF NetTypeOK
  <2>. QED  BY <1>3, <2>1, TailAt
<1>5. /\ openOf' = openOf /\ opens' = opens /\ writes' = writes /\ made' = made /\ text' = text
      /\ count' = count /\ success' = success /\ wrapped' = wrapped /\ misled' = misled
      /\ body' = [body EXCEPT ![p] = Tail(@)]
  BY DEF PostAnswer
<1>6. /\ BodiesOK' /\ Taken(p) /\ sock' = sock
      /\ m.type = body[p][1].type /\ m.toot = body[p][1].toot
  BY <1>1, <1>3, <1>4, <1>5, AnswerGoes
<1>7. /\ AnswerStep(p) /\ [PostNext]_allVars
  BY <1>2 DEF AnswerStep, PostNext
<1>8. file' = file /\ thr' = thr /\ toots' = toots
  BY <1>7, AnswersTalk
<1>9. FilesCalm
  BY <1>1, <1>5, <1>7, StepsAreCalm
<1>10. /\ \A q \in Agents \ {p} : ans'[q] = ans[q]
       /\ ans'[p] # NULL => ans'[p].op = m.type /\ ans'[p].toot = m.toot /\ ans'[p].ok = ok
  BY <1>1, <1>2, <1>3, <1>4 DEF AnswerToot, AnswerText, AnswerRefused, tootVars
<1>11. Took(p, m, ok)
  BY <1>3, <1>5, <1>6, <1>8, <1>9, <1>10 DEF Took
<1>. QED  BY <1>2, <1>3, <1>4, <1>6, <1>11

(* What the manager holds and has posted has its type. *)
ManagedOK ==
    /\ held' \in [Agents -> [TootIds -> Seq(TextIds) \cup {NULL}]]
    /\ posts' \in Seq(Post)

(* Waits follow from Keeps, and from what stays on the socket. *)
LEMMA WaitsOn ==
  ASSUME PostTypeOK, NEW p \in Agents, Taken(p), NEW q \in Agents, NEW i \in TootIds, NEW n \in TextIds,
         Waits(q, i, n), Keeps(q, i, n) => Keeps(q, i, n)',
         q = p /\ Carries(p, 1, n) /\ body[p][1].toot = i => Keeps(q, i, n)'
  PROVE  Waits(q, i, n)'
<1>1. CASE Keeps(q, i, n)
  BY <1>1 DEF Waits
<1>2. ASSUME NEW l \in DOMAIN body[q], Carries(q, l, n), body[q][l].toot = i
      PROVE  Waits(q, i, n)'
  <2>1. CASE q = p /\ l = 1
    BY <1>2, <2>1 DEF Waits
  <2>2. CASE q = p => l # 1
    <3>1. PICK k \in DOMAIN body'[q] : body'[q][k] = body[q][l]
      BY <1>2, <2>2, TakenLeaves
    <3>. QED  BY <1>2, <3>1 DEF Waits, Carries
  <2>. QED  BY <2>1, <2>2
<1>. QED  BY <1>1, <1>2 DEF Waits

(* TootManage.NewToot *)
LEMMA ManageNewOK ==
  ASSUME PostInv, NEW p \in Agents, NEW m \in Message, NEW ok \in BOOLEAN,
         Took(p, m, ok), ManageNew(p, m, ok)
  PROVE  Manages(p) /\ ManagedOK
<1>1. /\ PostTypeOK /\ TextInv /\ Taken(p) /\ m.type = "NEW_TOOT" /\ posts' = posts
      /\ m.type = body[p][1].type /\ m.toot = body[p][1].toot
  BY DEF PostInv, WayInv, Took, ManageNew
<1>2. PICK i0 \in TootIds : i0 = m.toot
  <2>1. 1 \in DOMAIN body[p]
    BY <1>1 DEF Taken
  <2>. QED  BY <1>1, <2>1, PostTypes
<1>3. held \in [Agents -> [TootIds -> Seq(TextIds) \cup {NULL}]]
  BY <1>1 DEF PostTypeOK
<1>4. ok = (held[p][i0] = NULL)
  BY <1>2 DEF ManageNew
<1>5. << >> \in Seq(TextIds) /\ << >> # NULL /\ DOMAIN << >> = {}
  <2>1. << >> \in Seq(TextIds) /\ Len(<< >>) = 0
    OBVIOUS
  <2>2. DOMAIN << >> = {}
    OBVIOUS
  <2>3. << >> # NULL
    BY <2>1, NoTextsAssumption
  <2>. QED  BY <2>1, <2>2, <2>3
<1>6. /\ \A q \in Agents \ {p} : held'[q] = held[q]
      /\ \A i \in TootIds \ {i0} : held'[p][i] = held[p][i]
      /\ held'[p][i0] = IF ok THEN << >> ELSE held[p][i0]
      /\ held' \in [Agents -> [TootIds -> Seq(TextIds) \cup {NULL}]]
  <2>1. CASE ok
    <3>1. held' = [held EXCEPT ![p] = [held[p] EXCEPT ![i0] = << >>]]
      BY <1>2, <1>3, <2>1 DEF ManageNew
    <3>2. held[p] \in [TootIds -> Seq(TextIds) \cup {NULL}]
      BY <1>3
    <3>. QED  BY <1>3, <1>5, <2>1, <3>1, <3>2
  <2>2. CASE ~ok
    BY <1>3, <2>2 DEF ManageNew
  <2>. QED  BY <2>1, <2>2
<1>7. \A q \in Agents, i \in TootIds : \A n \in TextIds : Keeps(q, i, n)' <=> Keeps(q, i, n)
  BY <1>4, <1>5, <1>6 DEF Keeps
<1>8. \A n : ~Carries(p, 1, n)
  BY <1>1 DEF Carries
<1>9. \A q \in Agents, i \in TootIds : ~(held[q][i] # NULL /\ held'[q][i] = NULL)
  BY <1>4, <1>5, <1>6
<1>10. ASSUME NEW i \in TootIds, Welcomes(p, i)' PROVE held[p][i] = NULL /\ held'[p][i] = << >>
  <2>1. i = i0 /\ ok
    BY <1>2, <1>10 DEF Welcomes, Took
  <2>. QED  BY <1>4, <1>6, <2>1
<1>11. ASSUME NEW q \in Agents, NEW i \in TootIds, NEW n \in TextIds, Waits(q, i, n)
       PROVE  Waits(q, i, n)'
  BY <1>1, <1>7, <1>8, <1>11, WaitsOn
<1>12. \A i \in TootIds : held'[p][i] # NULL => Once(held'[p][i])
  BY <1>1, <1>5, <1>6 DEF TextInv, Once, IsInjective
<1>. QED
  BY <1>1, <1>6, <1>7, <1>9, <1>10, <1>11, <1>12 DEF Manages, ManagedOK, PostTypeOK

(* TootManage.AddTootElement *)
LEMMA ManageTextOK ==
  ASSUME PostInv, NEW p \in Agents, NEW m \in Message, NEW ok \in BOOLEAN,
         Took(p, m, ok), ManageText(p, m, ok)
  PROVE  Manages(p) /\ ManagedOK
<1>1. /\ PostTypeOK /\ TextInv /\ LinesInv /\ Taken(p) /\ m.type = "ADD_TOOT_TEXT" /\ posts' = posts
      /\ m.type = body[p][1].type /\ m.toot = body[p][1].toot
      /\ ans'[p] # NULL => ans'[p].op = m.type
  BY DEF PostInv, WayInv, Took, ManageText
<1>2. 1 \in DOMAIN body[p] /\ Head(body[p]) = body[p][1]
  BY <1>1 DEF Taken
<1>3. PICK i0 \in TootIds : i0 = m.toot
  BY <1>1, <1>2, PostTypes
<1>4. CarryInv(p, 1)
  BY <1>1, <1>2 DEF TextInv
<1>5. PICK n0 \in TextIds : n0 = body[p][1].text /\ n0 <= writes /\ Carries(p, 1, n0)
  BY <1>1, <1>2, <1>4, PostTypes DEF CarryInv, Carries
<1>6. /\ \A n : Carries(p, 1, n) => n = n0
      /\ \A i \in TootIds : ~Keeps(p, i, n0)
  BY <1>1, <1>4, <1>5 DEF Carries, CarryInv
<1>7. held \in [Agents -> [TootIds -> Seq(TextIds) \cup {NULL}]]
  BY <1>1 DEF PostTypeOK
<1>8. ok = (held[p][i0] # NULL)
  BY <1>3 DEF ManageText
<1>9. /\ \A q \in Agents \ {p} : held'[q] = held[q]
      /\ \A i \in TootIds \ {i0} : held'[p][i] = held[p][i]
      /\ ~ok => held'[p][i0] = held[p][i0]
      /\ ok => held[p][i0] \in Seq(TextIds) /\ held'[p][i0] = Append(held[p][i0], n0)
               /\ held'[p][i0] \in Seq(TextIds)
      /\ held' \in [Agents -> [TootIds -> Seq(TextIds) \cup {NULL}]]
  <2>1. CASE ok
    <3>1. held[p] \in [TootIds -> Seq(TextIds) \cup {NULL}] /\ held[p][i0] \in Seq(TextIds)
      BY <1>7, <1>8, <2>1
    <3>2. Append(held[p][i0], n0) \in Seq(TextIds)
      BY <3>1, AppendAt
    <3>3. held' = [held EXCEPT ![p] = [held[p] EXCEPT ![i0] = Append(held[p][i0], n0)]]
      BY <1>2, <1>3, <1>5, <1>7, <2>1 DEF ManageText
    <3>. QED  BY <1>7, <2>1, <3>1, <3>2, <3>3
  <2>2. CASE ~ok
    BY <1>7, <2>2 DEF ManageText
  <2>. QED  BY <2>1, <2>2
<1>10. ok => /\ held'[p][i0] # NULL
             /\ DOMAIN held[p][i0] = 1 .. Len(held[p][i0]) /\ Len(held[p][i0]) \in Nat
             /\ DOMAIN held'[p][i0] = 1 .. Len(held[p][i0]) + 1
             /\ \A k \in DOMAIN held[p][i0] : held'[p][i0][k] = held[p][i0][k]
             /\ held'[p][i0][Len(held[p][i0]) + 1] = n0
  <2>1. ASSUME ok
        PROVE  \E s \in Seq(TextIds) : s = held[p][i0] /\ held'[p][i0] = Append(s, n0)
    BY <1>9, <2>1, Zenon
  <2>2. ASSUME NEW s \in Seq(TextIds)
        PROVE  /\ Append(s, n0) # NULL
               /\ DOMAIN s = 1 .. Len(s) /\ Len(s) \in Nat
               /\ DOMAIN Append(s, n0) = 1 .. Len(s) + 1
               /\ \A k \in DOMAIN s : Append(s, n0)[k] = s[k]
               /\ Append(s, n0)[Len(s) + 1] = n0
    <3>1. Append(s, n0) \in Seq(TextIds)
      BY AppendAt
    <3>2. Append(s, n0) # NULL
      BY <3>1, NoTextsAssumption, Zenon
    <3>. QED  BY <3>2, AppendAt
  <2>. QED  BY <2>1, <2>2, Zenon
<1>11. ASSUME NEW q \in Agents, NEW i \in TootIds, NEW n
       PROVE  /\ Keeps(q, i, n)' => Keeps(q, i, n) \/ (q = p /\ i = i0 /\ n = n0)
              /\ Keeps(q, i, n) => Keeps(q, i, n)'
  <2>1. CASE q = p /\ i = i0 /\ ok
    <3>1. held[q][i] # NULL /\ held'[q][i] # NULL
      BY <1>8, <1>10, <2>1
    <3>2. ASSUME Keeps(q, i, n)' PROVE Keeps(q, i, n) \/ (q = p /\ i = i0 /\ n = n0)
      <4>1. PICK k \in DOMAIN held'[q][i] : held'[q][i][k] = n
        BY <3>2 DEF Keeps
      <4>2. CASE k \in DOMAIN held[p][i0]
        BY <1>10, <2>1, <3>1, <4>1, <4>2 DEF Keeps
      <4>3. CASE k \notin DOMAIN held[p][i0]
        <5>1. k \in 1 .. Len(held[p][i0]) + 1 /\ k \notin 1 .. Len(held[p][i0]) /\ Len(held[p][i0]) \in Nat
          BY <1>10, <2>1, <4>1, <4>3
        <5>2. k = Len(held[p][i0]) + 1
          BY <5>1
        <5>. QED  BY <1>10, <2>1, <4>1, <5>2
      <4>. QED  BY <4>2, <4>3
    <3>3. ASSUME Keeps(q, i, n) PROVE Keeps(q, i, n)'
      <4>1. PICK k \in DOMAIN held[q][i] : held[q][i][k] = n
        BY <3>3 DEF Keeps
      <4>2. k \in 1 .. Len(held[p][i0]) /\ Len(held[p][i0]) \in Nat
        BY <1>10, <2>1, <4>1
      <4>3. k \in DOMAIN held'[q][i] /\ held'[q][i][k] = n
        <5>1. k \in 1 .. Len(held[p][i0]) + 1
          BY <4>2
        <5>. QED  BY <1>10, <2>1, <4>1, <5>1
      <4>. QED  BY <3>1, <4>3 DEF Keeps
    <3>. QED  BY <3>2, <3>3
  <2>2. CASE ~(q = p /\ i = i0 /\ ok)
    <3>1. held'[q][i] = held[q][i]
      BY <1>9, <2>2
    <3>. QED  BY <3>1 DEF Keeps
  <2>. QED  BY <2>1, <2>2
<1>12. ok => \A i : i = i0 => Keeps(p, i, n0)'
  <2>1. ASSUME ok, NEW i, i = i0 PROVE Keeps(p, i, n0)'
    <3>1. Len(held[p][i0]) + 1 \in DOMAIN held'[p][i]
      BY <1>10, <2>1
    <3>. QED  BY <1>10, <2>1, <3>1 DEF Keeps
  <2>. QED  BY <2>1
<1>13. \A q \in Agents, i \in TootIds : ~(held[q][i] # NULL /\ held'[q][i] = NULL)
  BY <1>8, <1>9, <1>10
<1>14. \A i \in TootIds : ~Welcomes(p, i)'
  BY <1>1 DEF Welcomes
<1>15. ASSUME NEW q \in Agents, NEW i \in TootIds, NEW n \in TextIds, Undisturbed, Waits(q, i, n)
       PROVE  Waits(q, i, n)'
  <2>1. ASSUME q = p, Carries(p, 1, n), body[p][1].toot = i PROVE Keeps(q, i, n)'
    <3>1. LineInv(p, i)
      BY <1>1, <1>15 DEF LinesInv
    <3>2. held[p][i] # NULL
      BY <1>1, <1>2, <2>1, <3>1 DEF LineInv
    <3>. QED  BY <1>1, <1>3, <1>6, <1>8, <1>12, <2>1, <3>2
  <2>. QED  BY <1>1, <1>11, <1>15, <2>1, WaitsOn
<1>16. ASSUME NEW i \in TootIds, held'[p][i] # NULL PROVE Once(held'[p][i])
  <2>1. CASE i = i0 /\ ok
    <3>1. Once(held[p][i0])
      BY <1>1, <1>8, <2>1 DEF TextInv
    <3>2. \A k \in DOMAIN held[p][i0] : held[p][i0][k] # n0
      BY <1>6, <1>8, <2>1 DEF Keeps
    <3>3. PICK len \in Nat : len = Len(held[p][i0])
      BY <1>10, <2>1
    <3>4. PICK s : s = held[p][i0]
      OBVIOUS
    <3>5. PICK s2 : s2 = held'[p][i0]
      OBVIOUS
    <3>6. /\ DOMAIN s = 1 .. len /\ DOMAIN s2 = 1 .. len + 1
          /\ \A k \in DOMAIN s : s2[k] = s[k] /\ s[k] # n0
          /\ s2[len + 1] = n0
      BY <1>10, <2>1, <3>2, <3>3, <3>4, <3>5
    <3>7. \A k \in DOMAIN s2 : k \in DOMAIN s \/ k = len + 1
      BY <3>6
    <3>8. IsInjective(s) /\ \A k \in DOMAIN s : s[k] <= writes
      BY <3>1, <3>4 DEF Once
    <3>9. IsInjective(s2)
      BY <3>6, <3>7, <3>8 DEF IsInjective
    <3>10. \A k \in DOMAIN s2 : s2[k] <= writes
      BY <1>5, <3>6, <3>7, <3>8
    <3>11. writes' = writes
      BY <1>1, <2>1 DEF Took
    <3>. QED  BY <2>1, <3>5, <3>9, <3>10, <3>11 DEF Once
  <2>2. CASE ~(i = i0 /\ ok)
    BY <1>1, <1>9, <1>16, <2>2 DEF TextInv
  <2>. QED  BY <2>1, <2>2
<1>17. \A q \in Agents, i \in TootIds, n \in TextIds :
         Keeps(q, i, n)' => Keeps(q, i, n) \/ (q = p /\ i = body[p][1].toot /\ Carries(p, 1, n))
  BY <1>1, <1>3, <1>5, <1>11
<1>. QED
  BY <1>1, <1>9, <1>13, <1>14, <1>15, <1>16, <1>17 DEF Manages, ManagedOK, PostTypeOK

(* TootManage.SendToot *)
LEMMA ManageSendOK ==
  ASSUME PostInv, NEW p \in Agents, NEW m \in Message, NEW ok \in BOOLEAN,
         Took(p, m, ok), ManageSend(p, m, ok)
  PROVE  Manages(p) /\ ManagedOK
<1>1. /\ PostTypeOK /\ TextInv /\ Taken(p) /\ m.type = "SEND_TOOT"
      /\ m.type = body[p][1].type /\ m.toot = body[p][1].toot
      /\ ans'[p] # NULL => ans'[p].op = m.type
  BY DEF PostInv, WayInv, Took, ManageSend
<1>2. 1 \in DOMAIN body[p] /\ Head(body[p]) = body[p][1] /\ Sends(p, 1) /\ \A n : ~Carries(p, 1, n)
  BY <1>1 DEF Taken, Sends, Carries
<1>3. PICK i0 \in TootIds : i0 = m.toot
  BY <1>1, <1>2, PostTypes
<1>4. held \in [Agents -> [TootIds -> Seq(TextIds) \cup {NULL}]]
  BY <1>1 DEF PostTypeOK
<1>5. /\ \A q \in Agents \ {p} : held'[q] = held[q]
      /\ \A i \in TootIds \ {i0} : held'[p][i] = held[p][i]
      /\ held'[p][i0] = IF ok THEN NULL ELSE held[p][i0]
      /\ held' \in [Agents -> [TootIds -> Seq(TextIds) \cup {NULL}]]
  <2>1. CASE ok
    <3>1. held' = [held EXCEPT ![p] = [held[p] EXCEPT ![i0] = NULL]]
      BY <1>3, <1>4, <2>1 DEF ManageSend
    <3>2. held[p] \in [TootIds -> Seq(TextIds) \cup {NULL}]
      BY <1>4
    <3>. QED  BY <1>4, <2>1, <3>1, <3>2
  <2>2. CASE ~ok
    BY <1>4, <2>2 DEF ManageSend
  <2>. QED  BY <2>1, <2>2
<1>6. ASSUME NEW q \in Agents, NEW i \in TootIds, NEW n
      PROVE  /\ Keeps(q, i, n)' => Keeps(q, i, n)
             /\ Keeps(q, i, n) => Keeps(q, i, n)' \/ (q = p /\ i = i0)
  <2>1. held'[q][i] = held[q][i] \/ (q = p /\ i = i0 /\ held'[q][i] = NULL)
    BY <1>5
  <2>. QED  BY <2>1 DEF Keeps
<1>7. \A i \in TootIds : ~Welcomes(p, i)'
  BY <1>1 DEF Welcomes
<1>8. ASSUME NEW q \in Agents, NEW i \in TootIds, NEW n \in TextIds, Waits(q, i, n)
      PROVE  Waits(q, i, n)' \/ (q = p /\ i = i0)
  BY <1>1, <1>2, <1>6, <1>8, WaitsOn
<1>9. \A i \in TootIds : held'[p][i] # NULL => Once(held'[p][i])
  BY <1>1, <1>5 DEF TextInv
<1>10. /\ posts' \in Seq(Post)
       /\ \A j \in DOMAIN posts' :
            \/ j \in DOMAIN posts /\ posts'[j] = posts[j]
            \/ j = Len(posts) + 1 /\ NewPost(p, posts'[j])
  <2>1. CASE posts' = posts
    BY <1>1, <2>1 DEF PostTypeOK
  <2>2. CASE posts' # posts
    <3>1. PICK texts \in GetText(held[p][i0]) :
            /\ held[p][i0] # NULL
            /\ posts' = Append(posts, [open |-> body[p][1].open, texts |-> texts])
      BY <1>2, <1>3, <2>2 DEF ManageSend
    <3>2. held[p][i0] \in Seq(TextIds) /\ IsInjective(held[p][i0])
      BY <1>1, <1>4, <3>1 DEF TextInv, Once
    <3>3. /\ texts \in Seq(TextIds) /\ IsInjective(texts)
          /\ \A j \in DOMAIN texts : texts[j] \in TextIds /\ \E k \in DOMAIN held[p][i0] : held[p][i0][k] = texts[j]
          /\ \A k \in DOMAIN held[p][i0] : \E j \in DOMAIN texts : texts[j] = held[p][i0][k]
          /\ \A i, j \in DOMAIN texts : i < j => made[texts[i]].index <= made[texts[j]].index
      BY <3>1, <3>2, SortedTexts
    <3>4. PICK x \in Post : x = [open |-> body[p][1].open, texts |-> texts]
      <4>1. body[p][1] \in Body
        BY <1>1, <1>2, PostTypes
      <4>2. body[p][1].open \in 0 .. MaxOpens
        BY <4>1 DEF Body
      <4>. QED  BY <3>3, <4>2 DEF Post
    <3>5. NewPost(p, x)
      <4>1. x.texts = texts /\ x.open = body[p][1].open
        BY <3>4
      <4>2. \A n : Keeps(p, i0, n) <=> \E k \in DOMAIN held[p][i0] : held[p][i0][k] = n
        BY <3>1 DEF Keeps
      <4>3. \A j \in DOMAIN texts : texts[j] \in TextIds /\ Keeps(p, i0, texts[j])
        BY <3>3, <4>2, Zenon
      <4>4. \A n \in TextIds : Keeps(p, i0, n) => \E j \in DOMAIN texts : texts[j] = n
        BY <3>3, <4>2, Zenon
      <4>5. IsInjective(texts) /\ Sends(p, 1) /\ i0 = body[p][1].toot
        BY <1>1, <1>2, <1>3, <3>3
      <4>. QED  BY <3>3, <4>1, <4>3, <4>4, <4>5, Zenon DEF NewPost
    <3>6. posts \in Seq(Post) /\ posts' = Append(posts, x)
      BY <1>1, <3>1, <3>4 DEF PostTypeOK
    <3>. QED  BY <3>5, <3>6, AppendAt
  <2>. QED  BY <2>1, <2>2
<1>11. \A q \in Agents, i \in TootIds :
         held[q][i] # NULL /\ held'[q][i] = NULL => q = p /\ i = i0
  BY <1>5
<1>. QED
  BY <1>1, <1>2, <1>3, <1>5, <1>6, <1>7, <1>8, <1>9, <1>10, <1>11 DEF Manages, ManagedOK


(* The manager keeps the way of the texts. *)
LEMMA AnswerKeepsWay ==
  ASSUME PostInv, TootsInv', NEW p \in Agents, PostAnswer(p)
  PROVE  WayInv' /\ BodiesOK' /\ ManagedOK
<1>1. BodiesOK'
  BY AnswerTakes
<1>2. PICK m \in Message, ok \in BOOLEAN :
        /\ Took(p, m, ok)
        /\ ManageNew(p, m, ok) \/ ManageText(p, m, ok) \/ ManageSend(p, m, ok)
  BY AnswerTakes
<1>3. Manages(p) /\ ManagedOK
  BY <1>2, ManageNewOK, ManageTextOK, ManageSendOK
<1>4. WayInv'
  BY <1>2, <1>3, ManagerKeepsWay
<1>. QED  BY <1>1, <1>3, <1>4

-----------------------------------------------------------------------------
(* The types of the history and of the manager, and the theorems.          *)

OwnTypes ==
    /\ opens \in 0 .. MaxOpens
    /\ openOf \in [Files -> 0 .. MaxOpens]
    /\ writes \in 0 .. MaxWrites
    /\ made \in [TextIds -> [open : 0 .. MaxOpens, index : Indexes]]
    /\ text \in [Threads -> 0 .. MaxWrites]
    /\ count \in [TootObjs -> Indexes]
    /\ held \in [Agents -> [TootIds -> Seq(TextIds) \cup {NULL}]]
    /\ posts \in Seq(Post)
    /\ success \subseteq TextIds /\ wrapped \subseteq 0 .. MaxOpens
    /\ misled \in BOOLEAN

(* PostTypeOK has three parts. *)
LEMMA TypesTogether ==
  ASSUME TootsInv', BodiesOK', OwnTypes'
  PROVE  PostTypeOK' /\ SocketInv'
<1>1. TypeOK'
  BY DEF TootsInv, ShapeInv
<1>. QED  BY <1>1 DEF BodiesOK, OwnTypes, PostTypeOK

(* The sockets are as they were. *)
LEMMA SameBodies ==
  ASSUME BodiesOK, body' = body, inbox' = inbox, sock' = sock
  PROVE  BodiesOK'
  BY DEF BodiesOK, SocketInv

(* System calls close no socket. *)
LEMMA CallsKeepSock ==
  ASSUME NEW t \in Threads, CallStep(t) \/ UserStep(t)
  PROVE  sock' = sock
  BY DEF CallStep, OtherCallStep, UserStep, AddToot, AddElement, AddText, NewToot, CloseToot,
         WriteReturns, AddTootFails, NewTootFails, OpenFind, OpenFindFails, OpenReturns,
         OpenGivesUp, AddElementFails, AddTextFails, AddTextNoToot, WriteFind, WriteFindFails,
         WriteGivesUp, CloseFind, CloseFindFails, CloseReturns, RemoveToot, RemovedToot,
         NothingToRemove, OpenDevice, WriteToot, CloseTootFails, CloseTootLost, SendOk, Deliver,
         deviceVars, netVars

(* open(2) keeps the types. *)
LEMMA AddTootKeepsTypes ==
  ASSUME PostInv, NEW t \in Threads, PostAddToot(t)
  PROVE  BodiesOK' /\ OwnTypes'
<1>1. PostTypeOK /\ BodiesOK
  BY InvBodies DEF PostInv
<1>2. AddToot(t) /\ CallStep(t)
  BY DEF PostAddToot, CallStep
<1>3. inbox' = inbox /\ body' = body
  BY <1>2 DEF PostAddToot, AddToot, deviceVars, netVars
<1>4. opens + 1 \in 0 .. MaxOpens
  BY <1>1, HistoryAssumption DEF PostTypeOK, PostAddToot
<1>5. PICK c \in AnyCount : count' = [count EXCEPT ![toots'[file'[MyFile(t)].id]] = c]
  BY DEF PostAddToot
<1>6. c \in Indexes
  BY <1>5, IndexAssumption
<1>7. count' \in [TootObjs -> Indexes]
  BY <1>1, <1>5, <1>6 DEF PostTypeOK
<1>8. openOf' \in [Files -> 0 .. MaxOpens]
  BY <1>1, <1>4 DEF PostTypeOK, PostAddToot
<1>9. OwnTypes'
  BY <1>1, <1>4, <1>7, <1>8 DEF PostTypeOK, PostAddToot, OwnTypes
<1>. QED  BY <1>1, <1>2, <1>3, <1>9, CallsKeepSock, SameBodies

(* add_element keeps the types. *)
LEMMA AddElementKeepsTypes ==
  ASSUME PostInv, NEW t \in Threads, PostAddElement(t)
  PROVE  BodiesOK' /\ OwnTypes'
<1>1. PostTypeOK /\ BodiesOK /\ ShapeInv
  BY InvBodies DEF PostInv
<1>2. AddElement(t) /\ CallStep(t)
  BY DEF PostAddElement, CallStep
<1>3. inbox' = inbox /\ body' = body
  BY <1>2 DEF PostAddElement, AddElement, deviceVars, netVars
<1>4. MyFile(t) \in Files /\ MyToot(t) \in TootIds /\ toots[MyToot(t)] \in TootObjs
  <2>1. CallInv(t) /\ At(t, "addElement") /\ toots[MyToot(t)] # NULL
    BY <1>1, <1>2 DEF ShapeInv, CallsInv, AddElement
  <2>. QED  BY <1>1, <2>1 DEF CallInv, At, WriteSteps, ShapeInv, TypeOK
<1>5. writes + 1 \in TextIds /\ writes + 1 \in 0 .. MaxWrites
  BY <1>1, HistoryAssumption DEF PostTypeOK, PostAddElement, TextIds
<1>6. PICK index \in Indexes : index = NextIndex(count[toots[MyToot(t)]])
  <2>1. /\ count[toots[MyToot(t)]] \in Nat /\ count[toots[MyToot(t)]] < IndexCount
        /\ IndexCount \in Nat /\ IndexCount > 0
    BY <1>1, <1>4, PostTypes
  <2>2. /\ NextIndex(count[toots[MyToot(t)]]) \in Nat
        /\ NextIndex(count[toots[MyToot(t)]]) < IndexCount
    BY <2>1, NextIndexIs
  <2>. QED  BY <2>1, <2>2 DEF Indexes
<1>7. openOf[MyFile(t)] \in 0 .. MaxOpens
  BY <1>1, <1>4 DEF PostTypeOK
<1>8. count' \in [TootObjs -> Indexes]
  BY <1>1, <1>6 DEF PostTypeOK, PostAddElement
<1>9. made' \in [TextIds -> [open : 0 .. MaxOpens, index : Indexes]]
  BY <1>1, <1>6, <1>7 DEF PostTypeOK, PostAddElement
<1>10. text' \in [Threads -> 0 .. MaxWrites] /\ writes' \in 0 .. MaxWrites
  BY <1>1, <1>5 DEF PostTypeOK, PostAddElement
<1>11. wrapped' \subseteq 0 .. MaxOpens
  BY <1>1, <1>7 DEF PostTypeOK, PostAddElement
<1>12. OwnTypes'
  BY <1>1, <1>8, <1>9, <1>10, <1>11 DEF PostTypeOK, PostAddElement, OwnTypes
<1>. QED  BY <1>1, <1>2, <1>3, <1>12, CallsKeepSock, SameBodies

(* Calls that put nothing on a socket keep the types. *)
LEMMA CallsKeepTypes ==
  ASSUME PostInv, NEW t \in Threads, PostCall(t) \/ PostWriteReturns(t)
  PROVE  BodiesOK' /\ OwnTypes'
<1>1. PostTypeOK /\ BodiesOK /\ TextInv
  BY InvBodies DEF PostInv, WayInv
<1>2. CallStep(t) \/ UserStep(t)
  BY DEF PostCall, PostWriteReturns, CallStep
<1>3. inbox' = inbox /\ body' = body
  BY DEF PostCall, PostWriteReturns, WriteReturns, deviceVars, netVars, postVars
<1>4. success' \subseteq TextIds
  <2>1. CASE PostCall(t)
    BY <1>1, <2>1 DEF PostCall, postVars, PostTypeOK
  <2>2. CASE PostWriteReturns(t)
    <3>1. text[t] \in TextIds
      BY <1>1, <2>2, PostTypes
         DEF PostWriteReturns, WriteReturns, At, TextInv, WriteInv, ElemSteps
    <3>. QED  BY <1>1, <2>2, <3>1 DEF PostTypeOK, PostWriteReturns
  <2>. QED  BY <2>1, <2>2
<1>5. OwnTypes'
  BY <1>1, <1>4 DEF PostTypeOK, PostCall, PostWriteReturns, postVars, OwnTypes
<1>. QED  BY <1>1, <1>2, <1>3, <1>5, CallsKeepSock, SameBodies

(* A request changes the types of nothing else. *)
LEMMA AsksKeepTypes ==
  ASSUME PostInv, NEW t \in Threads, PostNewToot(t) \/ PostAddText(t) \/ PostClose(t)
  PROVE  OwnTypes'
  BY DEF PostInv, PostTypeOK, PostNewToot, PostAddText, PostClose, OwnTypes

(* Agents and handlers keep the types. *)
LEMMA AgentsKeepTypes ==
  ASSUME PostInv, NEW p \in Agents, PostOther(p) \/ (PostAnswer(p) /\ ManagedOK)
  PROVE  OwnTypes'
<1>1. PostTypeOK
  BY DEF PostInv
<1>2. CASE PostOther(p)
  <2>1. misled' \in BOOLEAN
    BY <1>1, <1>2 DEF PostTypeOK, PostOther
  <2>. QED  BY <1>1, <1>2, <2>1 DEF PostTypeOK, PostOther, OwnTypes
<1>3. CASE PostAnswer(p) /\ ManagedOK
  BY <1>1, <1>3 DEF PostTypeOK, PostAnswer, ManagedOK, OwnTypes
<1>. QED  BY <1>2, <1>3

(* Every step keeps the invariant. *)
LEMMA NextKeepsPost ==
  ASSUME PostInv, [PostNext]_allVars
  PROVE  PostInv'
<1>1. TootsInv /\ UsedInv /\ BodiesOK /\ DevInv /\ PostTypeOK
  BY InvBodies DEF PostInv
<1>2. [Next]_vars
  BY PostIsToots
<1>3. TootsInv' /\ UsedInv'
  BY <1>1, <1>2, NextKeepsToots, NextKeepsUsed
<1>4. SUFFICES WayInv' /\ BodiesOK' /\ OwnTypes'
  BY <1>3, <1>4, TypesTogether DEF PostInv
<1>5. ASSUME NEW t \in Threads, PostAddToot(t) PROVE WayInv' /\ BodiesOK' /\ OwnTypes'
  BY <1>3, <1>5, AddTootKeepsWay, AddTootKeepsTypes
<1>6. ASSUME NEW t \in Threads, PostNewToot(t) PROVE WayInv' /\ BodiesOK' /\ OwnTypes'
  BY <1>3, <1>6, NewTootKeepsWay, AsksKeepTypes
<1>7. ASSUME NEW t \in Threads, PostClose(t) PROVE WayInv' /\ BodiesOK' /\ OwnTypes'
  BY <1>3, <1>7, CloseKeepsWay, AsksKeepTypes
<1>8. ASSUME NEW t \in Threads, PostCall(t) PROVE WayInv' /\ BodiesOK' /\ OwnTypes'
  BY <1>3, <1>8, CallsAreQuiet, QuietKeepsWay, CallsKeepTypes
<1>9. ASSUME NEW t \in Threads, PostAddElement(t) PROVE WayInv' /\ BodiesOK' /\ OwnTypes'
  BY <1>3, <1>9, AddElementKeepsWay, AddElementKeepsTypes
<1>10. ASSUME NEW t \in Threads, PostAddText(t) PROVE WayInv' /\ BodiesOK' /\ OwnTypes'
  BY <1>3, <1>10, AddTextKeepsWay, AsksKeepTypes
<1>11. ASSUME NEW t \in Threads, PostWriteReturns(t) PROVE WayInv' /\ BodiesOK' /\ OwnTypes'
  BY <1>3, <1>11, CallsAreQuiet, QuietKeepsWay, CallsKeepTypes
<1>12. ASSUME NEW p \in Agents, PostAnswer(p) PROVE WayInv' /\ BodiesOK' /\ OwnTypes'
  BY <1>3, <1>12, AnswerKeepsWay, AgentsKeepTypes
<1>13. ASSUME NEW p \in Agents, PostOther(p) PROVE WayInv' /\ BodiesOK' /\ OwnTypes'
  <2>1. BodiesOK'
    <3>1. /\ DeviceStep(p) \/ HandlerStep(p)
          /\ body' = IF p \in sock' THEN body ELSE [body EXCEPT ![p] = << >>]
      BY <1>13 DEF PostOther
    <3>. QED  BY <1>1, <3>1, OtherGoes
  <2>. QED  BY <1>3, <1>13, <2>1, OthersAreQuiet, QuietKeepsWay, AgentsKeepTypes
<1>14. CASE UNCHANGED allVars
  <2>1. WayInv'
    BY <1>3, <1>14, StutterIsQuiet, QuietKeepsWay
  <2>2. UNCHANGED postVars /\ inbox' = inbox /\ sock' = sock
    BY <1>14 DEF allVars, vars, deviceVars, netVars
  <2>3. BodiesOK' /\ OwnTypes'
    BY <1>1, <2>2, SameBodies DEF postVars, PostTypeOK, OwnTypes
  <2>. QED  BY <2>1, <2>3
<1>. QED
  BY <1>5, <1>6, <1>7, <1>8, <1>9, <1>10, <1>11, <1>12, <1>13, <1>14 DEF PostNext

(* Nothing is opened, written or posted at the start. *)
LEMMA InitIsPost ==
  ASSUME PostInit, TootsInv
  PROVE  PostInv
<1>1. TypeOK /\ Init
  BY DEF PostInit, TootsInv, ShapeInv
<1>2. /\ \A f \in Files : file[f].stage = "closed"
      /\ \A t \in Threads : thr[t].step = "idle"
      /\ \A p \in Agents : ans[p] = NULL /\ inbox[p] = << >>
  BY <1>1 DEF Init, DevInit, NetInit, ClosedFile, IdleThread
<1>3. /\ << >> \in Seq(Body) /\ << >> \in Seq(Post) /\ << >> \in Seq(Message)
      /\ DOMAIN << >> = {}
  OBVIOUS
<1>4. 0 \in 0 .. MaxOpens /\ 0 \in 0 .. MaxWrites /\ 0 \in Indexes
  BY HistoryAssumption, IndexAssumption DEF Indexes
<1>5. \A p \in Agents : body[p] = << >> /\ \A i \in TootIds : held[p][i] = NULL
  BY DEF PostInit
<1>6. \A p \in Agents : Aligned(body[p], inbox[p])
  BY <1>2, <1>3, <1>5, EmptyAligned
<1>7. PostTypeOK
  BY <1>1, <1>3, <1>4, <1>6 DEF PostInit, PostTypeOK
<1>8. SocketInv /\ UsedInv
  BY <1>2 DEF SocketInv, UsedInv
<1>9. \A f \in Files : ~Named(f) /\ ~Starts(f) /\ ~Talks(f)
  BY <1>2 DEF Named, Starts, Talks
<1>10. posts = << >> /\ success = {} /\ writes = 0 /\ opens = 0 /\ 1 .. writes = {}
  BY DEF PostInit
<1>11. \A n \in TextIds : made[n].open = 0
  BY DEF PostInit
<1>12. OpenInv /\ SendInv
  BY <1>3, <1>5, <1>9, <1>10, <1>11 DEF OpenInv, SendInv
<1>13. TextInv
  BY <1>2, <1>3, <1>5, <1>9, <1>10 DEF TextInv, WriteInv, ElemSteps, At
<1>14. LinesInv
  BY <1>2, <1>3, <1>5, <1>9 DEF LinesInv, LineInv, Welcomes
<1>15. SentInv
  BY <1>2, <1>10 DEF SentInv, Sent
<1>16. IndexInv /\ PostedIsOneOpen
  BY <1>3, <1>10 DEF IndexInv, PostedIsOneOpen
<1>. QED  BY <1>7, <1>8, <1>12, <1>13, <1>14, <1>15, <1>16 DEF PostInv, WayInv

(* The way of the texts to a post is as PostInv says. *)
THEOREM PostInvariant == PostSpec => []PostInv
<1>1. PostInit => PostInv
  <2>. SUFFICES ASSUME PostInit PROVE PostInv
    OBVIOUS
  <2>1. Init
    BY DEF PostInit
  <2>. QED  BY <2>1, InitIsToots, InitIsPost
<1>2. PostInv /\ [PostNext]_allVars => PostInv'
  BY NextKeepsPost
<1>. QED  BY <1>1, <1>2, PTL DEF PostSpec

(* No post mixes the texts of two opens or repeats one, and the requests   *)
(* on a socket are those of the calls they come from.                      *)
THEOREM PostsAreOfOneOpen == PostSpec => []PostingInv
<1>1. PostInv => PostingInv
  <2>. SUFFICES ASSUME PostInv PROVE PostingInv
    OBVIOUS
  <2>1. PostTypeOK /\ PostedIsOneOpen /\ SendInv /\ TextInv
    BY DEF PostInv, WayInv
  <2>2. ASSUME Undisturbed, NEW k \in DOMAIN posts, NEW l \in DOMAIN posts,
               NEW i \in DOMAIN posts[k].texts, NEW j \in DOMAIN posts[l].texts,
               posts[k].texts[i] = posts[l].texts[j]
        PROVE  k = l /\ i = j
    <3>1. posts[k].open = posts[l].open
      BY <2>1, <2>2 DEF PostedIsOneOpen
    <3>2. k = l
      BY <2>1, <3>1 DEF SendInv
    <3>3. IsInjective(posts[k].texts)
      BY <2>1 DEF TextInv, Once
    <3>. QED  BY <2>2, <3>2, <3>3 DEF IsInjective
  <2>. QED  BY <2>1, <2>2 DEF PostingInv, PostedOnce
<1>. QED  BY <1>1, PostInvariant, PTL

(* A write(2) that succeeded is in the post of its open. *)
THEOREM SuccessesArePosted == PostSpec => []SuccessIsPosted
<1>1. PostInv => SuccessIsPosted
  <2>. SUFFICES ASSUME PostInv PROVE SuccessIsPosted
    OBVIOUS
  <2>1. success \subseteq TextIds /\ SentInv
    BY DEF PostInv, WayInv, PostTypeOK
  <2>. QED  BY <2>1 DEF SuccessIsPosted, SentInv, Sent
<1>. QED  BY <1>1, PostInvariant, PTL

(* Texts are posted in the order in which the writes got their elements.   *)
THEOREM PostsAreInOrder == PostSpec => []PostedInOrder
<1>1. PostInv => PostedInOrder
  <2>. SUFFICES ASSUME PostInv, Undisturbed,
                       NEW k \in DOMAIN posts, posts[k].open \notin wrapped,
                       NEW i \in DOMAIN posts[k].texts, NEW j \in DOMAIN posts[k].texts, i < j
                PROVE  posts[k].texts[i] < posts[k].texts[j]
    BY DEF PostedInOrder
  <2>1. PostTypeOK /\ PostedIsOneOpen /\ TextInv /\ IndexInv /\ ~torn
    BY DEF PostInv, WayInv, Undisturbed
  <2>2. PICK a \in TextIds : a = posts[k].texts[i]
    BY <2>1, PostTypes
  <2>3. PICK b \in TextIds : b = posts[k].texts[j]
    BY <2>1, PostTypes
  <2>4. made[a].open = posts[k].open /\ made[b].open = posts[k].open
    BY <2>1, <2>2, <2>3 DEF PostedIsOneOpen
  <2>5. posts[k].texts \in Seq(TextIds) /\ Once(posts[k].texts)
    BY <2>1, PostTypes DEF TextInv
  <2>6. i # j /\ a # b
    <3>1. i \in Nat /\ j \in Nat
      BY <2>5
    <3>2. i # j
      BY <3>1
    <3>. QED  BY <2>2, <2>3, <2>5, <3>2 DEF Once, IsInjective
  <2>7. /\ made[a].index <= made[b].index
        /\ made[a].index \in Nat /\ made[b].index \in Nat
    BY <2>1, <2>2, <2>3, PostTypes DEF IndexInv
  <2>8. a \in 1 .. writes /\ b \in 1 .. writes
    <3>1. a <= writes /\ b <= writes /\ writes \in Nat
      BY <2>1, <2>2, <2>3, <2>5, PostTypes DEF Once
    <3>. QED  BY <3>1, HistoryAssumption DEF TextIds
  <2>9. ~(b < a)
    <3>1. ASSUME b < a PROVE made[b].index < made[a].index
      BY <2>1, <2>4, <2>8, <3>1 DEF IndexInv
    <3>. QED  BY <2>7, <3>1
  <2>10. a \in Nat /\ b \in Nat
    BY HistoryAssumption DEF TextIds
  <2>. QED  BY <2>2, <2>3, <2>6, <2>9, <2>10
<1>. QED  BY <1>1, PostInvariant, PTL
=============================================================================

---------------------------- MODULE ReaderProofs ----------------------------
(* Proofs about Reader: the window on the stream stays where the calls are,  *)
(* inside the buffer, whatever the source gives, and calls that succeed hand *)
(* out the bytes that come next.                                             *)
EXTENDS Reader, Lemmas

Rest(r) == Len(stream) - r.src

(* A source gives no more than it is asked for, and than there is.           *)
LEMMA GivenIsThere ==
  ASSUME NEW r, r.chunk \in Nat \ {0}, r.src \in Nat, Len(stream) \in Nat, r.src <= Len(stream),
         NEW few \in Nat, NEW many \in Nat
  PROVE  Given(r, few, many) \in 0..many /\ r.src + Given(r, few, many) <= Len(stream)
<1>. DEFINE D == 0..many
            more(c) == Least(r.chunk, Least(many - c, Len(stream) - r.src - c))
            turn(f, c) == IF c >= few THEN c ELSE IF more(c) = 0 THEN c ELSE f[c + more(c)]
            Is(f) == f = [c \in 0..many |-> turn(f, c)]
            after == CHOOSE f : Is(f)
            step == [c \in D |-> [f \in [D -> Nat] |-> turn(f, c)]]
<1>0. PICK rest \in Nat : rest = Len(stream) - r.src
  OBVIOUS
<1>1. PICK chunk \in Nat \ {0} : chunk = r.chunk
  OBVIOUS
<1>2. PICK most \in Nat : most <= many /\ most <= rest /\ (most = many \/ most = rest)
  OBVIOUS
<1>3. ASSUME NEW c \in D
      PROVE  /\ more(c) \in Int /\ c + more(c) \in D
             /\ c <= rest => (more(c) \in Nat /\ c + more(c) <= most)
             /\ c > rest => c + more(c) = rest
             /\ c = most => more(c) = 0
  <2>. HIDE DEF step, Is, after, turn
  <2>0. c \in Int /\ many - c \in Int /\ rest - c \in Int
    OBVIOUS
  <2>1. PICK a \in Int : a = Least(many - c, rest - c)
    BY <2>0 DEF Least
  <2>2. more(c) = Least(chunk, a)
    BY <1>0, <1>1, <2>1, Zenon
  <2>. HIDE DEF more
  <2>3. more(c) = IF chunk <= a THEN chunk ELSE a
    BY <2>2 DEF Least
  <2>4. a = IF many - c <= rest - c THEN many - c ELSE rest - c
    BY <2>1 DEF Least
  <2>. QED  BY <1>2, <2>3, <2>4
<1>8. Given(r, few, many) = after[0]
  BY DEF Given
<1>. HIDE DEF more
<1>. DEFINE rank == [c \in D |-> IF c > rest THEN many + 1 ELSE many - c]
<1>4. step \in [D -> [[D -> Nat] -> Nat]]
  <2>1. \A c \in D, f \in [D -> Nat] : turn(f, c) \in Nat
    BY <1>3
  <2>. QED  BY <2>1
<1>19. ASSUME NEW c \in D, NEW d \in D, d = c + more(c), more(c) # 0
      PROVE  rank[d] < rank[c]
  <2>. HIDE DEF step, Is, turn, after
  <2>1. CASE c > rest
    <3>1. d = rest
      BY <1>3, <1>19, <2>1
    <3>. QED  BY <2>1, <3>1
  <2>2. CASE c <= rest
    <3>1. PICK k \in Nat \ {0} : d = c + k /\ d <= most
      BY <1>3, <1>19, <2>2
    <3>2. ~(c > rest) /\ ~(d > rest) /\ c \in Nat /\ d \in Nat
      BY <1>2, <2>2, <3>1
    <3>3. rank[c] = many - c /\ rank[d] = many - d
      BY <3>2
    <3>. HIDE DEF rank
    <3>4. many - d < many - c
      BY <3>1, <3>2
    <3>. QED  BY <3>3, <3>4, Zenon
  <2>. QED  BY <2>1, <2>2
<1>5. Ranked(D, Nat, step, rank, many + 2)
  <2>1. \A c \in D : rank[c] \in Nat /\ rank[c] < many + 2
    OBVIOUS
  <2>2. ASSUME NEW c \in D, NEW f \in [D -> Nat], NEW g \in [D -> Nat],
               \A j \in D : rank[j] < rank[c] => f[j] = g[j]
        PROVE  step[c][f] = step[c][g]
    <3>1. CASE c >= few \/ more(c) = 0
      BY <3>1
    <3>2. CASE c < few /\ more(c) # 0
      <4>2. PICK d \in D : d = c + more(c)
        BY <1>3
      <4>3. rank[d] < rank[c]
        BY <1>19, <3>2, <4>2, Zenon
      <4>4. step[c][f] = f[d] /\ step[c][g] = g[d]
        BY <3>2, <4>2
      <4>. QED  BY <2>2, <4>3, <4>4
    <3>. QED  BY <3>1, <3>2
  <2>. QED  BY <2>1, <2>2 DEF Ranked
<1>6. \E f : Is(f)
  <2>1. PICK f \in [D -> Nat] : Recursive(f, D, step)
    <3>. HIDE DEF step, rank, D
    <3>1. many + 2 \in Nat /\ Nat # {}
      OBVIOUS
    <3>. QED  BY <1>4, <1>5, <3>1, RecursionByRank
  <2>2. \A c \in D : step[c][f] = turn(f, c)
    OBVIOUS
  <2>3. f = [c \in D |-> step[c][f]]
    BY <2>1, Zenon DEF Recursive
  <2>4. D = 0..many
    OBVIOUS
  <2>. HIDE DEF step, turn, D
  <2>5. f = [c \in D |-> turn(f, c)]
    BY <2>2, <2>3, Zenon
  <2>. QED  BY <2>4, <2>5, Zenon
<1>7. Is(after)
  <2>. HIDE DEF Is
  <2>. QED  BY <1>6
<1>. HIDE DEF after
<1>9. \A c \in D : after[c] = turn(after, c)
  BY <1>7
<1>. DEFINE P == {i \in 1..most + 1 : after[i - 1] \in i - 1..most}
<1>11. most + 1 \in P
  <2>1. most \in D /\ more(most) = 0
    BY <1>2, <1>3
  <2>2. after[most] = most
    BY <1>9, <2>1
  <2>. QED  BY <2>2
<1>12. ASSUME NEW i \in 1..most, \A j \in i + 1..most + 1 : j \in P PROVE i \in P
  <2>1. PICK c \in 0..most - 1 : c = i - 1
    OBVIOUS
  <2>2. c \in D /\ after[c] = turn(after, c)
    BY <1>2, <1>9
  <2>3. more(c) \in Nat /\ c + more(c) <= most
    <3>. HIDE DEF step, rank, P
    <3>1. c <= rest
      BY <1>2
    <3>. QED  BY <1>3, <2>2, <3>1
  <2>4. CASE c >= few \/ more(c) = 0
    BY <2>1, <2>2, <2>4
  <2>5. CASE c < few /\ more(c) # 0
    <3>1. PICK d \in Nat : d = c + more(c)
      BY <2>3
    <3>2. after[c] = after[d]
      BY <2>2, <2>5, <3>1
    <3>3. d + 1 \in i + 1..most + 1
      BY <2>1, <2>3, <2>5, <3>1
    <3>4. d + 1 \in P
      BY <1>12, <3>3
    <3>. QED  BY <2>1, <2>3, <3>1, <3>2, <3>4
  <2>. QED  BY <2>4, <2>5
<1>13. 1 \in P
  <2>1. 1..most + 1 \subseteq P
    <3>. HIDE DEF P
    <3>. QED  BY <1>11, <1>12, FromTheEnd
  <2>. QED  BY <2>1
<1>. QED  BY <1>0, <1>2, <1>8, <1>13

-----------------------------------------------------------------------------
(* A reader whose window lies inside its buffer, and one whose window shows  *)
(* the stream from place p on unless an error is flagged.                    *)
Errors == {"ok", "io", "too_big", "invalid", "bug", "type", "unsupported", "unreachable"}

Readers ==
    [mem : Seq(Int), data : Nat, end : Nat, src : Nat, err : Errors, edge : Nat,
     chunk : Nat \ {0}, got : Seq(Int)]

Inbound(r) ==
    /\ r \in Readers
    /\ r.data <= r.end /\ r.end <= Len(r.mem) /\ r.src <= Len(stream)
    /\ r.edge <= size /\ (size > 0 => Len(r.mem) = size)

At(r, p) ==
    /\ r.src - (r.end - r.data) = p
    /\ \A i \in 1..r.end - r.data : r.mem[r.data + i] = p + i

Sound(r, p) == Inbound(r) /\ (r.err = "ok" => At(r, p))

SetupOK ==
    /\ stream \in Seq(0..255) /\ size \in Nat
    /\ fill \in BOOLEAN /\ skip \in BOOLEAN /\ (fill => size > 0)

(* Places are as many as there are, one after the other.                     *)
LEMMA PlacesAre ==
  ASSUME NEW p \in Nat, NEW n \in Nat
  PROVE  /\ Places(p, n) \in Seq(Int) /\ Len(Places(p, n)) = n
         /\ \A i \in 1..n : Places(p, n)[i] = p + i
  BY DEF Places

(* What is in the window of a reader at p are the places from p on.          *)
LEMMA WindowIs ==
  ASSUME NEW r, Inbound(r), NEW p \in Nat, At(r, p), NEW n \in Nat, n <= InBuffer(r)
  PROVE  Window(r, n) = Places(p, n)
<1>1. PICK m \in Seq(Int), d \in Nat, e \in Nat : m = r.mem /\ d = r.data /\ e = r.end
  BY DEF Inbound, Readers
<1>2. d + n <= Len(m) /\ d + n <= e /\ Len(m) \in Nat
  BY <1>1 DEF Inbound, InBuffer
<1>3. SubSeq(m, d + 1, d + n) = [i \in 1..n |-> m[d + i]]
  <2>1. d + 1 \in 1..Len(m) + 1 /\ d + n \in d + 1 - 1..Len(m)
    BY <1>2
  <2>2. PICK q : q = SubSeq(m, d + 1, d + n)
    OBVIOUS
  <2>3. q \in Seq(Int) /\ Len(q) = d + n - (d + 1) + 1
        /\ \A i \in 1..d + n - (d + 1) + 1 : q[i] = m[d + 1 + i - 1]
    BY <2>1, <2>2, SubSeqProperties
  <2>4. d + n - (d + 1) + 1 = n /\ \A i \in 1..n : d + 1 + i - 1 = d + i
    OBVIOUS
  <2>5. Len(q) = n /\ \A i \in 1..n : q[i] = m[d + i]
    BY <2>3, <2>4
  <2>6. q = [i \in 1..n |-> q[i]]
    BY <2>3, <2>5
  <2>. QED  BY <2>2, <2>5, <2>6
<1>4. \A i \in 1..n : m[d + i] = p + i
  <2>1. \A i \in 1..n : i \in 1..e - d
    BY <1>1, <1>2
  <2>2. \A i \in 1..e - d : m[d + i] = p + i
    BY <1>1, Zenon DEF At
  <2>. QED  BY <2>1, <2>2, Zenon
<1>5. [i \in 1..n |-> m[d + i]] = [i \in 1..n |-> p + i]
  BY <1>4, Zenon
<1>6. Window(r, n) = SubSeq(m, d + 1, d + n)
  BY <1>1, Zenon DEF Window
<1>. QED  BY <1>3, <1>5, <1>6, Zenon DEF Places

(* A flagged error empties the window and nothing more.                      *)
LEMMA FlagErrorKeeps ==
  ASSUME NEW r, Inbound(r), NEW e \in Errors \ {"ok"}
  PROVE  /\ Inbound(FlagError(r, e)) /\ FlagError(r, e).err # "ok"
         /\ FlagError(r, e).data = r.data /\ FlagError(r, e).got = r.got
<1>1. CASE r.err = "ok"
  <2>1. FlagError(r, e) = [r EXCEPT !.err = e, !.end = r.data]
    BY <1>1 DEF FlagError
  <2>2. PICK g : g = [r EXCEPT !.err = e, !.end = r.data]
    OBVIOUS
  <2>3. r \in Readers
    BY DEF Inbound
  <2>4. /\ g \in Readers /\ g.err = e /\ g.end = r.data /\ g.data = r.data /\ g.mem = r.mem
        /\ g.src = r.src /\ g.edge = r.edge /\ g.got = r.got
    BY <2>2, <2>3 DEF Readers
  <2>5. r.data \in Nat /\ r.end \in Nat /\ Len(r.mem) \in Nat
    BY <2>3 DEF Readers
  <2>6. Inbound(g)
    BY <2>4, <2>5 DEF Inbound
  <2>. QED  BY <2>1, <2>2, <2>4, <2>6
<1>2. CASE r.err # "ok"
  BY <1>2 DEF FlagError
<1>. QED  BY <1>1, <1>2

(* The source writes between at and at + n.                                  *)
Written(w, m, at, from, n) ==
    /\ w \in Seq(Int) /\ Len(w) = Len(m)
    /\ \A i \in 1..n : w[at + i] = from + i
    /\ \A i \in 1..at : w[i] = m[i]

LEMMA WriteIs ==
  ASSUME NEW m \in Seq(Int), NEW at \in Nat, NEW from \in Nat, NEW n \in Nat, at + n <= Len(m)
  PROVE  Written(Write(m, at, from, n), m, at, from, n)
<1>1. PICK l \in Nat : l = Len(m) /\ DOMAIN m = 1..l /\ \A i \in 1..l : m[i] \in Int
  OBVIOUS
<1>2. PICK w : w = Write(m, at, from, n)
  OBVIOUS
<1>3. w = [i \in 1..l |-> IF i \in at + 1..at + n THEN from + i - at ELSE m[i]]
  BY <1>1, <1>2 DEF Write
<1>4. w \in Seq(Int) /\ Len(w) = l
  BY <1>1, <1>3
<1>5. ASSUME NEW i \in 1..n PROVE w[at + i] = from + i
  <2>1. at + i \in 1..l /\ at + i \in at + 1..at + n
    BY <1>1
  <2>. QED  BY <1>3, <2>1
<1>6. ASSUME NEW i \in 1..at PROVE w[i] = m[i]
  <2>1. i \in 1..l /\ i \notin at + 1..at + n
    BY <1>1
  <2>. QED  BY <1>3, <2>1
<1>7. Written(w, m, at, from, n)
  BY <1>1, <1>4, <1>5, <1>6 DEF Written
<1>. QED  BY <1>2, <1>7, Zenon

(* What the source puts into the buffer, if it gives enough.                 *)
Filled(r, f, at, few, many) ==
    /\ Inbound(f) /\ f.data = r.data /\ f.got = r.got
    /\ f.err = "ok" =>
          /\ r.err = "ok" /\ f.end = r.end
          /\ \E n \in few..many :
                /\ f.src = r.src + n
                /\ \A i \in 1..n : f.mem[at + i] = r.src + i
                /\ \A i \in 1..at : f.mem[i] = r.mem[i]

(* mpack_fill_range writes where it was told to, or an error is flagged.     *)
LEMMA FillRangeFills ==
  ASSUME SetupOK, fill, NEW r, Inbound(r), NEW at \in Nat, NEW few \in Nat, NEW many \in Nat,
         few <= many, at + many <= size
  PROVE  Filled(r, FillRange(r, at, few, many), at, few, many)
<1>0. r \in Readers /\ r.src \in Nat /\ r.src <= Len(stream) /\ r.chunk \in Nat \ {0} /\ Len(stream) \in Nat
  BY DEF SetupOK, Inbound, Readers
<1>1. PICK n \in 0..many : n = Given(r, few, many) /\ r.src + n <= Len(stream)
  BY <1>0, GivenIsThere
<1>2. PICK f : f = [r EXCEPT !.mem = Write(r.mem, at, r.src, n), !.src = @ + n, !.edge = at + many]
  OBVIOUS
<1>3. FillRange(r, at, few, many) = IF n < few THEN FlagError(f, "io") ELSE f
  BY <1>1, <1>2, Zenon DEF FillRange
<1>4. PICK w : w = Write(r.mem, at, r.src, n)
  OBVIOUS
<1>5. /\ w \in Seq(Int) /\ Len(w) = Len(r.mem)
      /\ \A i \in 1..n : w[at + i] = r.src + i
      /\ \A i \in 1..at : w[i] = r.mem[i]
  <2>1. r.mem \in Seq(Int) /\ r.src \in Nat /\ at + n <= Len(r.mem)
    BY DEF SetupOK, Inbound, Readers
  <2>2. Written(w, r.mem, at, r.src, n)
    BY <1>4, <2>1, WriteIs
  <2>. QED  BY <2>2, Zenon DEF Written
<1>6. f = [r EXCEPT !.mem = w, !.src = r.src + n, !.edge = at + many]
  BY <1>2, <1>4
<1>7. /\ f \in Readers /\ f.mem = w /\ f.data = r.data /\ f.end = r.end /\ f.src = r.src + n
      /\ f.err = r.err /\ f.edge = at + many /\ f.got = r.got
  <2>1. r.src + n \in Nat /\ at + many \in Nat
    BY <1>0
  <2>. QED  BY <1>0, <1>5, <1>6, <2>1 DEF Readers
<1>8. Inbound(f)
  BY <1>1, <1>5, <1>7 DEF Inbound
<1>9. CASE n < few
  <2>1. PICK g : g = FlagError(f, "io")
    OBVIOUS
  <2>2. Inbound(g) /\ g.err # "ok" /\ g.data = f.data /\ g.got = f.got
    BY <1>8, <2>1, FlagErrorKeeps DEF Errors
  <2>. QED  BY <1>3, <1>7, <1>9, <2>1, <2>2 DEF Filled
<1>10. CASE n >= few
  <2>1. FillRange(r, at, few, many) = f
    BY <1>3, <1>10
  <2>2. f.err = "ok" => \E k \in few..many :
                /\ f.src = r.src + k
                /\ \A i \in 1..k : f.mem[at + i] = r.src + i
                /\ \A i \in 1..at : f.mem[i] = r.mem[i]
    <3>1. n \in few..many
      BY <1>10
    <3>. QED  BY <1>5, <1>7, <3>1
  <2>3. Filled(r, f, at, few, many)
    BY <1>7, <1>8, <2>2 DEF Filled
  <2>. QED  BY <2>1, <2>3
<1>. QED  BY <1>9, <1>10

(* The window has been moved to the front of the buffer v, and then the      *)
(* source has given f.                                                       *)
MovedToFront(r, v, p, k) ==
    /\ k = r.end - r.data /\ Inbound(v) /\ v.src = r.src /\ v.data = 0
    /\ \A i \in 1..k : v.mem[i] = p + i

Refilled(r, f, k, e) == e = [f EXCEPT !.end = k + f.src - r.src]
Reaches(e, p, n) == Inbound(e) /\ At(e, p) /\ InBuffer(e) >= n /\ e.err = "ok"

(* Where the window was is where the source goes on: with n more bytes it    *)
(* shows the stream from the same place on.                                  *)
LEMMA RefilledShows ==
  ASSUME SetupOK, NEW r, NEW p \in Nat, Inbound(r), At(r, p),
         NEW k \in Nat, NEW v, MovedToFront(r, v, p, k),
         NEW few \in Nat, NEW many \in Nat, k + many <= size,
         NEW f, Filled(v, f, k, few, many), f.err = "ok",
         NEW e, Refilled(r, f, k, e)
  PROVE  Reaches(e, p, k + few)
<1>0. /\ k = r.end - r.data /\ Inbound(v) /\ v.src = r.src /\ v.data = 0
      /\ \A i \in 1..k : v.mem[i] = p + i
      /\ e = [f EXCEPT !.end = k + f.src - r.src]
  BY DEF MovedToFront, Refilled
<1>1. PICK n \in few..many : /\ f.src = v.src + n
                             /\ \A i \in 1..n : f.mem[k + i] = v.src + i
                             /\ \A i \in 1..k : f.mem[i] = v.mem[i]
  BY <1>0 DEF Filled
<1>2. f \in Readers /\ Inbound(f) /\ f.data = 0 /\ r.src \in Nat /\ r.src = p + k
  <2>1. f \in Readers /\ Inbound(f) /\ f.data = 0
    BY <1>0 DEF Filled, Inbound
  <2>2. r \in Readers /\ r.src - k = p
    BY <1>0 DEF Inbound, At
  <2>3. r.src \in Nat
    BY <2>2 DEF Readers
  <2>. QED  BY <2>1, <2>2, <2>3
<1>3. k + f.src - r.src = k + n
  BY <1>0, <1>1, <1>2
<1>4. /\ e \in Readers /\ e.end = k + n /\ e.data = 0 /\ e.mem = f.mem /\ e.src = r.src + n
      /\ e.err = "ok" /\ e.edge = f.edge
  <2>1. k + n \in Nat
    OBVIOUS
  <2>2. e = [f EXCEPT !.end = k + n]
    BY <1>0, <1>3
  <2>. QED  BY <1>0, <1>1, <1>2, <2>1, <2>2 DEF Readers
<1>5. Inbound(e)
  <2>1. size > 0 => Len(f.mem) = size
    BY <1>2 DEF Inbound
  <2>2. k + n <= Len(f.mem)
    <3>1. Len(f.mem) \in Nat
      BY <1>2 DEF Readers
    <3>. QED  BY <2>1, <3>1 DEF SetupOK
  <2>3. f.src <= Len(stream) /\ f.edge <= size /\ f.src = r.src + n
    BY <1>0, <1>1, <1>2 DEF Inbound
  <2>4. 0 <= k + n
    OBVIOUS
  <2>. QED  BY <1>4, <2>1, <2>2, <2>3, <2>4 DEF Inbound
<1>6. At(e, p)
  <2>1. ASSUME NEW i \in 1..k + n PROVE f.mem[i] = p + i
    <3>1. CASE i <= k
      BY <1>0, <1>1, <3>1
    <3>2. CASE i > k
      <4>0. i - k \in 1..n /\ i = k + (i - k)
        BY <3>2
      <4>1. PICK j \in 1..n : i = k + j
        BY <4>0
      <4>. QED  BY <1>0, <1>1, <1>2, <4>1
    <3>. QED  BY <3>1, <3>2
  <2>2. e.end - e.data = k + n /\ \A i \in 1..k + n : e.data + i = i
    BY <1>4
  <2>3. e.src - (k + n) = p
    BY <1>2, <1>4
  <2>. QED  BY <1>4, <2>1, <2>2, <2>3 DEF At
<1>7. k + n >= k + few /\ k + n - 0 = k + n
  OBVIOUS
<1>. QED  BY <1>4, <1>5, <1>6, <1>7 DEF InBuffer, Reaches

(* The window is moved to the front and filled up: no byte of it is lost.    *)
LEMMA EnsureStraddleKeeps ==
  ASSUME SetupOK, NEW r, NEW p \in Nat, Inbound(r), At(r, p), r.err = "ok",
         NEW n \in Nat, n > InBuffer(r)
  PROVE  /\ Sound(EnsureStraddle(r, n), p)
         /\ EnsureStraddle(r, n).err = "ok" => InBuffer(EnsureStraddle(r, n)) >= n
<1>1. CASE ~fill \/ n > size
  <2>1. EnsureStraddle(r, n) \in {FlagError(r, "invalid"), FlagError(r, "too_big")}
    BY <1>1 DEF EnsureStraddle
  <2>2. {"invalid", "too_big"} \subseteq Errors \ {"ok"}
    BY DEF Errors
  <2>3. \A e \in {"invalid", "too_big"} : Inbound(FlagError(r, e)) /\ FlagError(r, e).err # "ok"
    BY <2>2, FlagErrorKeeps
  <2>. QED  BY <2>1, <2>3 DEF Sound
<1>2. CASE fill /\ n <= size
  <2>0. r \in Readers
    BY DEF Inbound
  <2>1. PICK k \in Nat : k = r.end - r.data /\ k = InBuffer(r) /\ k <= Len(r.mem) /\ k < n
    <3>1. r.end \in Nat /\ r.data \in Nat /\ Len(r.mem) \in Nat
      BY <2>0 DEF Readers
    <3>. QED  BY <3>1 DEF Inbound, InBuffer
  <2>2. PICK v : v = [r EXCEPT !.mem = [i \in DOMAIN @ |-> IF i <= k THEN r.mem[r.data + i] ELSE @[i]],
                               !.data = 0, !.end = k]
    OBVIOUS
  <2>3. PICK f : f = FillRange(v, k, n - k, size - k)
    OBVIOUS
  <2>4. EnsureStraddle(r, n) = IF f.err = "ok" THEN [f EXCEPT !.end = k + f.src - r.src] ELSE f
    <3>1. fill /\ ~(n > size)
      BY <1>2 DEF SetupOK
    <3>. QED  BY <2>1, <2>2, <2>3, <3>1 DEF EnsureStraddle
  <2>5. PICK w : w = [i \in DOMAIN r.mem |-> IF i <= k THEN r.mem[r.data + i] ELSE r.mem[i]]
    OBVIOUS
  <2>6. w \in Seq(Int) /\ Len(w) = Len(r.mem) /\ \A i \in 1..k : w[i] = r.mem[r.data + i]
    <3>1. PICK m \in Seq(Int), l \in Nat, d \in Nat : m = r.mem /\ l = Len(m) /\ d = r.data /\ DOMAIN m = 1..l
      BY <2>0 DEF Readers
    <3>2. d + k <= l
      BY <2>0, <2>1, <3>1 DEF Inbound, Readers
    <3>3. w = [i \in 1..l |-> IF i <= k THEN m[d + i] ELSE m[i]]
      BY <2>5, <3>1
    <3>4. \A i \in 1..k : d + i \in 1..l
      BY <3>2
    <3>5. \A i \in 1..l : (IF i <= k THEN m[d + i] ELSE m[i]) \in Int
      <4>1. \A i \in 1..l : m[i] \in Int
        BY <3>1
      <4>2. \A i \in 1..l : i <= k => i \in 1..k
        OBVIOUS
      <4>. QED  BY <3>4, <4>1, <4>2, Zenon
    <3>6. w \in Seq(Int) /\ Len(w) = l
      BY <3>3, <3>5
    <3>7. \A i \in 1..k : i \in 1..l /\ i <= k
      BY <3>2
    <3>8. \A i \in 1..k : w[i] = m[d + i]
      BY <3>3, <3>7, Zenon
    <3>. QED  BY <3>1, <3>6, <3>8, Zenon
  <2>7. v = [r EXCEPT !.mem = w, !.data = 0, !.end = k]
    BY <2>2, <2>5
  <2>8. /\ v \in Readers /\ v.mem = w /\ v.data = 0 /\ v.end = k /\ v.src = r.src /\ v.edge = r.edge
        /\ v.err = r.err
    BY <2>0, <2>1, <2>6, <2>7 DEF Readers
  <2>9. Inbound(v)
    BY <2>1, <2>6, <2>8 DEF Inbound
  <2>10. \A i \in 1..k : v.mem[i] = p + i
    BY <2>1, <2>6, <2>8 DEF At
  <2>11. /\ n - k \in Nat /\ size - k \in Nat /\ n - k <= size - k /\ k + (size - k) <= size
         /\ k + (n - k) = n
    BY <1>2, <2>1 DEF SetupOK
  <2>15. PICK few \in Nat, many \in Nat : few = n - k /\ many = size - k /\ few <= many
                                          /\ k + many <= size /\ k + few = n
    BY <2>11
  <2>12. Filled(v, f, k, few, many)
    BY <1>2, <2>3, <2>9, <2>15, FillRangeFills
  <2>13. CASE f.err = "ok"
    <3>1. PICK e : e = [f EXCEPT !.end = k + f.src - r.src]
      OBVIOUS
    <3>2. MovedToFront(r, v, p, k) /\ Refilled(r, f, k, e)
      BY <2>1, <2>8, <2>9, <2>10, <3>1 DEF MovedToFront, Refilled
    <3>3. Reaches(e, p, k + few)
      BY <2>12, <2>13, <2>15, <3>2, RefilledShows
    <3>4. EnsureStraddle(r, n) = e
      BY <2>4, <2>13, <3>1
    <3>. QED  BY <2>15, <3>3, <3>4 DEF Sound, Reaches
  <2>14. CASE f.err # "ok"
    <3>1. EnsureStraddle(r, n) = f
      BY <2>4, <2>14
    <3>. QED  BY <2>12, <2>14, <3>1 DEF Filled, Sound
  <2>. QED  BY <2>13, <2>14
<1>. QED  BY <1>1, <1>2 DEF SetupOK

(* mpack_reader_ensure gives n bytes in one piece, or flags an error.        *)
LEMMA EnsureKeeps ==
  ASSUME SetupOK, NEW r, NEW p \in Nat, Sound(r, p), r.err = "ok", NEW n \in Nat
  PROVE  /\ Sound(Ensure(r, n), p)
         /\ Ensure(r, n).err = "ok" => InBuffer(Ensure(r, n)) >= n
<1>1. Inbound(r) /\ At(r, p)
  BY DEF Sound
<1>2. InBuffer(r) \in Int
  BY <1>1 DEF Inbound, Readers, InBuffer
<1>3. CASE n <= InBuffer(r)
  BY <1>2, <1>3 DEF Ensure
<1>4. CASE n > InBuffer(r)
  <2>1. Ensure(r, n) = EnsureStraddle(r, n)
    BY <1>2, <1>4 DEF Ensure
  <2>. QED  BY <1>1, <1>4, <2>1, EnsureStraddleKeeps
<1>. QED  BY <1>2, <1>3, <1>4

-----------------------------------------------------------------------------
(* A call at place p that asks for n bytes moves the window behind them.     *)
ReadsAt(e, p, n) == Sound(e, p + n) /\ (e.err = "ok" => e.got = Places(p, n))

(* The rest of the window and what is read behind it join.                   *)
LEMMA PlacesJoin ==
  ASSUME NEW p \in Nat, NEW k \in Nat, NEW n \in Nat
  PROVE  Places(p, k) \o Places(p + k, n) = Places(p, k + n)
<1>1. PICK a, b, c : a = Places(p, k) /\ b = Places(p + k, n) /\ c = Places(p, k + n)
  OBVIOUS
<1>2. /\ a \in Seq(Int) /\ Len(a) = k /\ \A i \in 1..k : a[i] = p + i
      /\ b \in Seq(Int) /\ Len(b) = n /\ \A i \in 1..n : b[i] = p + k + i
      /\ c = [i \in 1..k + n |-> p + i]
  BY <1>1 DEF Places
<1>3. PICK s : s = a \o b
  OBVIOUS
<1>7. /\ s \in Seq(Int) /\ Len(s) = k + n
      /\ \A i \in 1..k + n : s[i] = IF i <= k THEN a[i] ELSE b[i - k]
  <2>1. /\ a \o b \in Seq(Int) /\ Len(a \o b) = Len(a) + Len(b)
        /\ \A i \in 1..Len(a) + Len(b) : (a \o b)[i] = IF i <= Len(a) THEN a[i] ELSE b[i - Len(a)]
    BY <1>2, ConcatProperties
  <2>. QED  BY <1>2, <1>3, <2>1
<1>4. ASSUME NEW i \in 1..k + n PROVE s[i] = p + i
  <2>0. i \in Int /\ s[i] = IF i <= k THEN a[i] ELSE b[i - k]
    BY <1>7
  <2>1. CASE i <= k
    BY <1>2, <2>0, <2>1
  <2>2. CASE i > k
    <3>1. s[i] = b[i - k] /\ i - k \in 1..n
      BY <1>2, <2>0, <2>2
    <3>2. b[i - k] = p + k + (i - k)
      BY <1>2, <3>1
    <3>. QED  BY <2>0, <3>1, <3>2
  <2>. QED  BY <2>0, <2>1, <2>2
<1>5. s = [i \in 1..k + n |-> s[i]]
  BY <1>7
<1>6. s = c
  BY <1>2, <1>4, <1>5
<1>. QED  BY <1>1, <1>3, <1>6

(* What is in the window is passed over.                                     *)
Passed(r, n, e) == \E g \in Seq(Int) : e = [r EXCEPT !.got = g, !.data = @ + n]

(* The window begins n places later.                                         *)
LEMMA PassesInWindow ==
  ASSUME SetupOK, NEW r, Inbound(r), NEW n \in Nat, n <= InBuffer(r), NEW e, Passed(r, n, e)
  PROVE  Inbound(e) /\ e.err = r.err /\ \A p \in Nat : At(r, p) => At(e, p + n)
<1>1. PICK g \in Seq(Int) : e = [r EXCEPT !.got = g, !.data = @ + n]
  BY DEF Passed
<1>2. r \in Readers
  BY DEF Inbound
<1>3. /\ r.data \in Nat /\ r.end \in Nat /\ r.src \in Nat /\ r.data + n \in Nat
      /\ r.data + n <= r.end
  BY <1>2 DEF Readers, InBuffer
<1>4. e = [r EXCEPT !.got = g, !.data = r.data + n]
  BY <1>1
<1>5. /\ e \in Readers /\ e.data = r.data + n /\ e.end = r.end /\ e.mem = r.mem /\ e.src = r.src
      /\ e.edge = r.edge /\ e.err = r.err
  BY <1>2, <1>3, <1>4 DEF Readers
<1>6. Inbound(e)
  BY <1>3, <1>5 DEF Inbound
<1>7. ASSUME NEW p \in Nat, At(r, p) PROVE At(e, p + n)
  <2>0. PICK d \in Nat, z \in Nat : d = r.data /\ z = r.end
    BY <1>3
  <2>3. e.data = d + n /\ e.end = z /\ e.mem = r.mem
    BY <1>5, <2>0, Zenon
  <2>4. ASSUME NEW i \in 1..z - (d + n) PROVE r.mem[d + n + i] = p + n + i
    <3>1. n + i \in 1..z - d /\ d + n + i = d + (n + i) /\ p + (n + i) = p + n + i
      OBVIOUS
    <3>2. r.mem[d + (n + i)] = p + (n + i)
      BY <1>7, <2>0, <3>1, Zenon DEF At
    <3>. QED  BY <3>1, <3>2, Zenon
  <2>1. ASSUME NEW i \in 1..e.end - e.data PROVE e.mem[e.data + i] = p + n + i
    BY <2>1, <2>3, <2>4, Zenon
  <2>2. e.src - (e.end - e.data) = p + n
    <3>1. r.src - (r.end - r.data) = p
      BY <1>7 DEF At
    <3>2. PICK a \in Nat, b \in Nat, c \in Nat : a = r.src /\ b = r.end /\ c = r.data
      BY <1>3
    <3>3. e.src - (e.end - e.data) = a - (b - (c + n))
      BY <1>5, <3>2
    <3>4. a - (b - c) = p
      BY <3>1, <3>2
    <3>5. a - (b - (c + n)) = p + n
      BY <3>4
    <3>. QED  BY <3>3, <3>5
  <2>. QED  BY <2>1, <2>2 DEF At
<1>. QED  BY <1>5, <1>6, <1>7

(* The buffer is filled from its beginning, and few bytes of it are taken.   *)
Fresh(v, f, few, e) ==
    \E g \in Seq(Int) : e = [f EXCEPT !.got = g, !.data = few, !.end = f.src - v.src]

(* Then the window shows what comes after the bytes that were taken.         *)
LEMMA FreshWindow ==
  ASSUME SetupOK, fill, NEW v, Inbound(v), NEW few \in Nat, few <= size,
         NEW f, Filled(v, f, 0, few, size), f.err = "ok", NEW e, Fresh(v, f, few, e)
  PROVE  Inbound(e) /\ At(e, v.src + few) /\ e.err = "ok"
<1>1. PICK n \in few..size : f.src = v.src + n /\ \A i \in 1..n : f.mem[0 + i] = v.src + i
  BY DEF Filled
<1>2. PICK g \in Seq(Int) : e = [f EXCEPT !.got = g, !.data = few, !.end = f.src - v.src]
  BY DEF Fresh
<1>3. f \in Readers /\ v \in Readers /\ Inbound(f)
  BY DEF Filled, Inbound
<1>4. v.src \in Nat /\ f.src - v.src = n /\ n \in Nat /\ size > 0
  <2>1. v.src \in Nat
    BY <1>3 DEF Readers
  <2>2. n \in Nat /\ size > 0
    BY DEF SetupOK
  <2>3. f.src = v.src + n
    BY <1>1
  <2>. QED  BY <2>1, <2>2, <2>3
<1>5. /\ e \in Readers /\ e.end = n /\ e.data = few /\ e.mem = f.mem /\ e.src = v.src + n
      /\ e.err = "ok" /\ e.edge = f.edge
  <2>1. e = [f EXCEPT !.got = g, !.data = few, !.end = n]
    BY <1>2, <1>4
  <2>. QED  BY <1>1, <1>3, <1>4, <2>1 DEF Readers
<1>6. Inbound(e)
  <2>1. Len(f.mem) = size /\ f.src <= Len(stream) /\ f.edge <= size
    BY <1>3, <1>4 DEF Inbound
  <2>. QED  BY <1>1, <1>4, <1>5, <2>1 DEF Inbound, SetupOK
<1>7. At(e, v.src + few)
  <2>1. ASSUME NEW i \in 1..n - few PROVE f.mem[few + i] = v.src + few + i
    <3>1. few + i \in 1..n /\ 0 + (few + i) = few + i /\ i \in Int
      OBVIOUS
    <3>2. f.mem[0 + (few + i)] = v.src + (few + i)
      BY <1>1, <3>1
    <3>. QED  BY <1>4, <3>1, <3>2
  <2>2. v.src + n - (n - few) = v.src + few
    BY <1>4
  <2>3. /\ e.src - (e.end - e.data) = v.src + few
        /\ \A i \in 1..e.end - e.data : e.mem[e.data + i] = v.src + few + i
    <3>1. e.end - e.data = n - few /\ e.src - (n - few) = v.src + few
      <4>1. PICK a \in Nat, b \in Nat, c \in Nat, d \in Nat : a = e.src /\ b = e.end /\ c = e.data /\ d = v.src
        BY <1>4, <1>5 DEF Readers
      <4>2. b - c = n - few /\ a - (n - few) = d + few
        BY <1>1, <1>5, <4>1
      <4>. QED  BY <4>1, <4>2
    <3>2. \A i \in 1..n - few : e.mem[e.data + i] = v.src + few + i
      BY <1>5, <2>1
    <3>. QED  BY <3>1, <3>2
  <2>. QED  BY <2>3 DEF At
<1>. QED  BY <1>5, <1>6, <1>7

(* The window is given up before more is read.                               *)
Emptied(r) == [r EXCEPT !.data = r.end]

(* The source goes on behind the window, so nothing is lost when it is given up. *)
LEMMA EmptiedWindow ==
  ASSUME NEW r, Inbound(r)
  PROVE  /\ Inbound(Emptied(r)) /\ Emptied(r).err = r.err /\ Emptied(r).src = r.src
         /\ Emptied(r).data = r.end /\ Emptied(r).end = r.end
         /\ InBuffer(r) \in Nat /\ r.src \in Nat
         /\ \A p \in Nat : At(r, p) => r.src = p + InBuffer(r)
<1>1. r \in Readers
  BY DEF Inbound
<1>2. PICK e : e = Emptied(r)
  OBVIOUS
<1>3. r.end \in Nat /\ r.data \in Nat /\ r.src \in Nat /\ r.data <= r.end
  BY <1>1 DEF Readers, Inbound
<1>4. /\ e \in Readers /\ e.data = r.end /\ e.end = r.end /\ e.mem = r.mem /\ e.src = r.src
      /\ e.edge = r.edge /\ e.err = r.err
  BY <1>1, <1>2, <1>3 DEF Emptied, Readers
<1>5. Inbound(e)
  BY <1>3, <1>4 DEF Inbound
<1>. QED  BY <1>2, <1>3, <1>4, <1>5 DEF InBuffer, At

(* What is read through the buffer fits into it.                             *)
LEMMA SmallFits ==
  ASSUME SetupOK
  PROVE  size \div SmallFraction \in Nat /\ size \div SmallFraction <= size
<1>1. PICK d \in Nat \ {0}, s \in Nat : d = SmallFraction /\ s = size
  BY ReaderAssumption DEF SetupOK
<1>2. PICK q \in Int : q = s \div d
  OBVIOUS
<1>3. s \div d \in Nat /\ d * (s \div d) <= s
  OBVIOUS
<1>4. q <= d * q
  BY <1>2, <1>3
<1>. QED  BY <1>1, <1>2, <1>3, <1>4

(* A call that reads: the bytes are those at p, and they are passed over.    *)
LEMMA ReadThroughBufferReads ==
  ASSUME SetupOK, fill, NEW r, Inbound(r), NEW p \in Nat, At(r, p), r.err = "ok",
         NEW n \in Nat, n > InBuffer(r), n - InBuffer(r) <= size
  PROVE  ReadsAt(ReadThroughBuffer(Emptied(r), Window(r, InBuffer(r)), n - InBuffer(r)), p, n)
<1>1. PICK k \in Nat, m \in Nat : k = InBuffer(r) /\ m = n - k /\ m <= size /\ k + m = n /\ r.src = p + k
  BY EmptiedWindow
<1>2. PICK v : v = Emptied(r) /\ Inbound(v) /\ v.src = p + k /\ v.err = "ok"
  BY <1>1, EmptiedWindow
<1>3. PICK head \in Seq(Int) : head = Window(r, k) /\ head = Places(p, k)
  <2>1. Window(r, k) = Places(p, k)
    BY <1>1, WindowIs
  <2>2. Places(p, k) \in Seq(Int)
    BY PlacesAre
  <2>. QED  BY <2>1, <2>2
<1>4. PICK f : f = FillRange(v, 0, m, size)
  OBVIOUS
<1>5. Filled(v, f, 0, m, size) /\ Inbound(f) /\ f \in Readers
  <2>1. size \in Nat /\ 0 + size <= size
    BY DEF SetupOK
  <2>2. Filled(v, f, 0, m, size)
    BY <1>1, <1>2, <1>4, <2>1, FillRangeFills
  <2>. QED  BY <2>2 DEF Filled, Inbound
<1>6. PICK e : e = ReadThroughBuffer(v, head, m)
  OBVIOUS
<1>7. e = IF f.err # "ok" THEN [f EXCEPT !.got = head \o [i \in 1..m |-> Junk]]
          ELSE [f EXCEPT !.got = head \o SubSeq(f.mem, 1, m), !.data = m, !.end = f.src - v.src]
  BY <1>4, <1>6 DEF ReadThroughBuffer
<1>8. CASE f.err # "ok"
  <2>1. PICK g \in Seq(Int) : g = head \o [i \in 1..m |-> Junk]
    <3>1. [i \in 1..m |-> Junk] \in Seq(Int)
      BY DEF Junk
    <3>. QED  BY <3>1, ConcatProperties
  <2>2. e = [f EXCEPT !.got = g]
    BY <1>7, <1>8, <2>1
  <2>3. /\ e \in Readers /\ e.data = f.data /\ e.end = f.end /\ e.mem = f.mem /\ e.src = f.src
        /\ e.edge = f.edge /\ e.err = f.err
    BY <1>5, <2>2 DEF Readers
  <2>4. Inbound(e)
    BY <1>5, <2>3 DEF Inbound
  <2>. QED  BY <1>1, <1>2, <1>3, <1>6, <1>8, <2>3, <2>4 DEF ReadsAt, Sound
<1>9. CASE f.err = "ok"
  <2>1. PICK b : b = SubSeq(f.mem, 1, m)
    OBVIOUS
  <2>2. b = Places(p + k, m)
    <3>1. PICK l \in m..size : \A i \in 1..l : f.mem[0 + i] = p + k + i
      BY <1>2, <1>5, <1>9 DEF Filled
    <3>2. PICK w \in Seq(Int) : w = f.mem /\ Len(w) = size /\ \A i \in 1..m : w[i] = p + k + i
      <4>1. f.mem \in Seq(Int) /\ Len(f.mem) = size
        BY <1>5 DEF Inbound, Readers, SetupOK
      <4>2. \A i \in 1..m : f.mem[i] = p + k + i
        <5>1. \A i \in 1..m : i \in 1..l /\ 0 + i = i
          OBVIOUS
        <5>. QED  BY <3>1, <5>1
      <4>. QED  BY <4>1, <4>2
    <3>3. b \in Seq(Int) /\ Len(b) = m /\ \A i \in 1..m : b[i] = w[i]
      <4>0. b = SubSeq(w, 1, m)
        BY <2>1, <3>2
      <4>1. b = SubSeq(w, 1, m) /\ \A i \in 1..m : w[i] \in Int
        BY <3>2, <4>0
      <4>2. /\ SubSeq(w, 1, m) \in Seq(Int) /\ Len(SubSeq(w, 1, m)) = IF 1 <= m THEN m - 1 + 1 ELSE 0
            /\ \A i \in 1..m - 1 + 1 : SubSeq(w, 1, m)[i] = w[1 + i - 1]
        BY <4>1, SubSeqProperties
      <4>. QED  BY <4>1, <4>2
    <3>4. b = [i \in 1..m |-> b[i]]
      BY <3>3
    <3>. QED  BY <3>2, <3>3, <3>4 DEF Places
  <2>3. head \o b = Places(p, n)
    <3>1. Places(p, k) \o Places(p + k, m) = Places(p, k + m)
      BY PlacesJoin
    <3>. QED  BY <1>1, <1>3, <2>2, <3>1, Zenon
  <2>4. PICK g \in Seq(Int) : g = head \o b
    BY <2>3, PlacesAre
  <2>5. e = [f EXCEPT !.got = g, !.data = m, !.end = f.src - v.src]
    BY <1>7, <1>9, <2>1, <2>4
  <2>6. Fresh(v, f, m, e)
    BY <2>5 DEF Fresh
  <2>7. Inbound(e) /\ At(e, v.src + m) /\ e.err = "ok"
    BY <1>1, <1>2, <1>5, <1>9, <2>6, FreshWindow
  <2>8. v.src + m = p + n
    BY <1>1, <1>2
  <2>9. e.got = g
    BY <1>5, <2>5 DEF Readers
  <2>. QED  BY <1>1, <1>2, <1>3, <1>6, <2>3, <2>4, <2>7, <2>8, <2>9 DEF ReadsAt, Sound
<1>. QED  BY <1>8, <1>9

(* The same for what is read into the target.                                *)
LEMMA ReadPastBufferReads ==
  ASSUME SetupOK, NEW r, Inbound(r), NEW p \in Nat, At(r, p), r.err = "ok",
         NEW n \in Nat, n > InBuffer(r)
  PROVE  ReadsAt(ReadPastBuffer(Emptied(r), Window(r, InBuffer(r)), n - InBuffer(r)), p, n)
<1>1. PICK k \in Nat, m \in Nat : k = InBuffer(r) /\ m = n - k /\ k + m = n /\ r.src = p + k
  BY EmptiedWindow
<1>2. PICK v : v = Emptied(r) /\ Inbound(v) /\ v.src = p + k /\ v.err = "ok" /\ v.data = v.end /\ v \in Readers
  BY <1>1, EmptiedWindow DEF Inbound
<1>3. PICK head \in Seq(Int) : head = Window(r, k) /\ head = Places(p, k)
  <2>1. Window(r, k) = Places(p, k)
    BY <1>1, WindowIs
  <2>2. Places(p, k) \in Seq(Int)
    BY PlacesAre
  <2>. QED  BY <2>1, <2>2
<1>4. PICK j \in 0..m : j = Given(v, m, m) /\ v.src + j <= Len(stream)
  <2>1. v.src \in Nat /\ v.src <= Len(stream) /\ v.chunk \in Nat \ {0} /\ Len(stream) \in Nat
    BY <1>2 DEF SetupOK, Inbound, Readers
  <2>. QED  BY <2>1, GivenIsThere
<1>5. PICK f : f = [v EXCEPT !.src = @ + j, !.got = head \o Places(v.src, j) \o [i \in 1..m - j |-> Junk]]
  OBVIOUS
<1>6. PICK e : e = ReadPastBuffer(v, head, m)
  OBVIOUS
<1>7. e = IF j < m THEN FlagError(f, "io") ELSE f
  BY <1>4, <1>5, <1>6, Zenon DEF ReadPastBuffer
<1>8. PICK g \in Seq(Int) : g = head \o Places(v.src, j) \o [i \in 1..m - j |-> Junk]
  <2>1. [i \in 1..m - j |-> Junk] \in Seq(Int)
    BY DEF Junk
  <2>4. j \in Nat /\ v.src \in Nat
    BY <1>2 DEF Readers
  <2>2. Places(v.src, j) \in Seq(Int)
    BY <2>4, PlacesAre
  <2>3. head \o Places(v.src, j) \in Seq(Int)
    BY <2>2, ConcatProperties
  <2>. QED  BY <2>1, <2>3, ConcatProperties
<1>9. /\ f \in Readers /\ f.src = p + k + j /\ f.got = g /\ f.data = v.data /\ f.end = v.end
      /\ f.mem = v.mem /\ f.err = "ok" /\ f.edge = v.edge
  <2>1. f = [v EXCEPT !.src = p + k + j, !.got = g]
    BY <1>2, <1>5, <1>8
  <2>2. p + k + j \in Nat
    OBVIOUS
  <2>. QED  BY <1>2, <2>1, <2>2 DEF Readers
<1>10. Inbound(f)
  BY <1>2, <1>4, <1>9 DEF Inbound
<1>11. CASE j < m
  <2>1. Inbound(FlagError(f, "io")) /\ FlagError(f, "io").err # "ok"
    BY <1>10, FlagErrorKeeps DEF Errors
  <2>. QED  BY <1>1, <1>2, <1>3, <1>6, <1>7, <1>11, <2>1 DEF ReadsAt, Sound
<1>12. CASE j = m
  <2>1. e = f
    BY <1>7, <1>12
  <2>2. At(f, p + n)
    <3>1. f.end - f.data = 0
      <4>1. v.end \in Nat
        BY <1>2 DEF Readers
      <4>. QED  BY <1>2, <1>9, <4>1
    <3>2. f.src - 0 = p + n
      BY <1>1, <1>9, <1>12
    <3>. QED  BY <3>1, <3>2 DEF At
  <2>3. f.got = Places(p, n)
    <3>1. Places(p, k) \o Places(p + k, m) = Places(p, k + m)
      BY PlacesJoin
    <3>2. Places(p, n) \in Seq(Int)
      BY PlacesAre
    <3>3. [i \in 1..m - j |-> Junk] = <<>>
      BY <1>12
    <3>4. g = Places(p, n) \o <<>>
      BY <1>1, <1>2, <1>3, <1>8, <1>12, <3>1, <3>3, Zenon
    <3>5. Places(p, n) \o <<>> = Places(p, n)
      BY <3>2, ConcatEmptySeq
    <3>. QED  BY <1>9, <3>4, <3>5
  <2>. QED  BY <1>1, <1>2, <1>3, <1>6, <1>9, <1>10, <2>1, <2>2, <2>3 DEF ReadsAt, Sound
<1>. QED  BY <1>11, <1>12

(* mpack_read_native gives the next n bytes, whichever way it takes.         *)
LEMMA ReadNativeReads ==
  ASSUME SetupOK, NEW r, NEW p \in Nat, Sound(r, p), NEW n \in Nat
  PROVE  ReadsAt(ReadNative(r, n), p, n)
<1>1. Inbound(r) /\ r \in Readers /\ InBuffer(r) \in Nat
  BY EmptiedWindow DEF Sound, Inbound
<1>2. CASE n <= InBuffer(r)
  <2>1. PICK g : g = Window(r, n)
    OBVIOUS
  <2>2. g \in Seq(Int)
    <3>1. PICK m \in Seq(Int), d \in Nat : m = r.mem /\ d = r.data /\ d + n <= Len(m) /\ Len(m) \in Nat
      <4>1. r.mem \in Seq(Int) /\ r.data \in Nat /\ r.end \in Nat /\ Len(r.mem) \in Nat
        BY <1>1 DEF Readers
      <4>2. r.end <= Len(r.mem) /\ n <= r.end - r.data
        BY <1>1, <1>2 DEF Inbound, InBuffer
      <4>. QED  BY <4>1, <4>2
    <3>2. \A i \in d + 1..d + n : m[i] \in Int
      BY <3>1
    <3>3. d + 1 \in Int /\ d + n \in Int
      BY <3>1
    <3>4. SubSeq(m, d + 1, d + n) \in Seq(Int)
      BY <3>2, <3>3, SubSeqProperties, Zenon
    <3>. QED  BY <2>1, <3>1, <3>4, Zenon DEF Window
  <2>3. PICK e : e = [r EXCEPT !.got = g, !.data = @ + n]
    OBVIOUS
  <2>4. ReadNative(r, n) = e
    BY <1>1, <1>2, <2>1, <2>3 DEF ReadNative
  <2>5. Passed(r, n, e)
    BY <2>2, <2>3 DEF Passed
  <2>6. Inbound(e) /\ e.err = r.err /\ (At(r, p) => At(e, p + n))
    BY <1>1, <1>2, <2>5, PassesInWindow
  <2>7. e.got = g
    BY <1>1, <2>3 DEF Readers
  <2>8. r.err = "ok" => g = Places(p, n)
    BY <1>1, <1>2, <2>1, WindowIs DEF Sound
  <2>. QED  BY <2>4, <2>6, <2>7, <2>8 DEF ReadsAt, Sound
<1>3. CASE n > InBuffer(r)
  <2>1. ReadNative(r, n) = ReadNativeStraddle(r, n)
    BY <1>1, <1>3 DEF ReadNative
  <2>2. CASE r.err # "ok" \/ ~fill
    <3>1. PICK f : f = (IF r.err # "ok" THEN r ELSE FlagError(r, "invalid")) /\ Inbound(f) /\ f.err # "ok"
      BY <1>1, <2>2, FlagErrorKeeps DEF Errors
    <3>2. ReadNativeStraddle(r, n) = [f EXCEPT !.got = Zeros(n)]
      BY <2>2, <3>1 DEF ReadNativeStraddle
    <3>3. PICK g \in Seq(Int) : g = Zeros(n)
      <4>1. [i \in 1..n |-> 0] \in Seq(Int)
        OBVIOUS
      <4>. QED  BY <4>1 DEF Zeros, NUL
    <3>4. PICK e : e = [f EXCEPT !.got = g]
      OBVIOUS
    <3>5. /\ e \in Readers /\ e.data = f.data /\ e.end = f.end /\ e.mem = f.mem /\ e.src = f.src
          /\ e.edge = f.edge /\ e.err = f.err
      BY <3>1, <3>3, <3>4 DEF Readers, Inbound
    <3>6. Inbound(e)
      BY <3>1, <3>5 DEF Inbound
    <3>. QED  BY <2>1, <3>1, <3>2, <3>3, <3>4, <3>5, <3>6 DEF ReadsAt, Sound
  <2>3. CASE r.err = "ok" /\ fill
    <3>1. PICK k \in Nat : k = InBuffer(r)
      BY <1>1
    <3>2. Len(Window(r, k)) = k
      <4>1. Inbound(r) /\ At(r, p) /\ k <= InBuffer(r)
        BY <2>3, <3>1 DEF Sound
      <4>2. Window(r, k) = Places(p, k)
        BY <4>1, WindowIs
      <4>. QED  BY <4>2, PlacesAre
    <3>3. ReadNativeStraddle(r, n) =
             IF n - k <= size \div SmallFraction THEN ReadThroughBuffer(Emptied(r), Window(r, k), n - k)
             ELSE ReadPastBuffer(Emptied(r), Window(r, k), n - k)
      BY <2>3, <3>1, <3>2 DEF ReadNativeStraddle, Emptied
    <3>4. Inbound(r) /\ At(r, p)
      BY <2>3 DEF Sound
    <3>5. CASE n - k <= size \div SmallFraction
      <4>1. n - k <= size
        BY <3>5, SmallFits DEF SetupOK
      <4>. QED  BY <1>3, <2>1, <2>3, <3>1, <3>3, <3>4, <3>5, <4>1, ReadThroughBufferReads
    <3>6. CASE ~(n - k <= size \div SmallFraction)
      BY <1>3, <2>1, <2>3, <3>1, <3>3, <3>4, <3>6, ReadPastBufferReads
    <3>. QED  BY <3>5, <3>6
  <2>. QED  BY <2>2, <2>3
<1>. QED  BY <1>1, <1>2, <1>3

-----------------------------------------------------------------------------
(* A call that skips n bytes.                                                *)
Skips(r, e, p, n) == Sound(e, p + n) /\ (e.err = "ok" => e.got = r.got)

(* k buffers have been filled and thrown away.                               *)
ThrownAway(r, q, k) ==
    /\ Inbound(q)
    /\ q.err = "ok" => q.src = r.src + k * size /\ q.data = q.end /\ q.got = r.got

Throws(q) == IF q.err # "ok" THEN q ELSE FillRange(q, 0, size, size)

(* One buffer more.                                                          *)
LEMMA ThrowsAway ==
  ASSUME SetupOK, fill, NEW r, r \in Readers, NEW k \in Nat, NEW q, ThrownAway(r, q, k)
  PROVE  ThrownAway(r, Throws(q), k + 1)
<1>1. CASE q.err # "ok"
  BY <1>1 DEF Throws, ThrownAway
<1>2. CASE q.err = "ok"
  <2>1. PICK f : f = FillRange(q, 0, size, size)
    OBVIOUS
  <2>2. Inbound(q) /\ q.src = r.src + k * size /\ q.data = q.end /\ q.got = r.got
    BY <1>2 DEF ThrownAway
  <2>3. Filled(q, f, 0, size, size)
    <3>1. size \in Nat /\ size <= size /\ 0 + size <= size
      BY DEF SetupOK
    <3>. QED  BY <2>1, <2>2, <3>1, FillRangeFills
  <2>4. ASSUME f.err = "ok" PROVE f.src = r.src + (k + 1) * size /\ f.data = f.end /\ f.got = r.got
    <3>1. f.data = q.data /\ f.end = q.end /\ f.got = q.got /\ \E n \in size..size : f.src = q.src + n
      BY <2>3, <2>4 DEF Filled
    <3>2. size \in Nat /\ r.src \in Nat
      BY DEF SetupOK, Readers
    <3>3. f.src = r.src + k * size + size
      BY <2>2, <3>1, <3>2
    <3>4. r.src + k * size + size = r.src + (k + 1) * size
      BY <3>2
    <3>. QED  BY <2>2, <3>1, <3>3, <3>4
  <2>5. Throws(q) = f
    BY <1>2, <2>1 DEF Throws
  <2>6. Inbound(f)
    BY <2>3 DEF Filled
  <2>. QED  BY <2>4, <2>5, <2>6 DEF ThrownAway
<1>. QED  BY <1>1, <1>2

(* Division leaves a rest.                                                   *)
LEMMA Division ==
  ASSUME NEW a \in Nat, NEW d \in Nat \ {0}
  PROVE  a \div d \in Nat /\ a - (a \div d) * d \in 0..d - 1
  OBVIOUS

(* mpack_reader_skip_using_fill passes over n bytes.                         *)
LEMMA SkipUsingFillSkips ==
  ASSUME SetupOK, fill, NEW r, Inbound(r), r.err = "ok", r.data = r.end,
         NEW n \in Nat \ {0}
  PROVE  Skips(r, SkipUsingFill(r, n), r.src, n)
<1>. DEFINE S == {q \in Readers : Inbound(q)}
            turn(f, k) == IF k = 0 THEN r ELSE
                IF f[k - 1].err # "ok" THEN f[k - 1] ELSE FillRange(f[k - 1], 0, size, size)
<1>0. r \in Readers /\ r.src \in Nat /\ r.end \in Nat
  BY DEF Inbound, Readers
<1>. DEFINE full == (n - 1) \div size
            rest == n - full * size
            Is(f) == f = [k \in 0..full |-> turn(f, k)]
            after == CHOOSE f : Is(f)
            step == [k \in 1..full |-> [q \in S |-> Throws(q)]]
<1>2. SkipUsingFill(r, n) =
         LET f == FillRange([after[full] EXCEPT !.data = 0], 0, rest, size)
         IN  IF after[full].err # "ok" THEN after[full]
             ELSE IF f.err # "ok" THEN f
             ELSE [f EXCEPT !.data = rest, !.end = f.src - after[full].src]
  BY DEF SkipUsingFill
<1>1. /\ full \in Nat /\ rest \in Nat /\ rest \in 1..size /\ full * size + rest = n
      /\ full * size \in Nat
  <2>. HIDE DEF after, step, Is, S, turn
  <2>1. PICK d \in Nat \ {0}, a \in Nat : d = size /\ a = n - 1
    BY DEF SetupOK
  <2>2. a \div d \in Nat /\ a - (a \div d) * d \in 0..d - 1
    BY Division
  <2>3. PICK q \in Nat : q = a \div d
    BY <2>2
  <2>4. PICK b \in Nat : b = q * d
    OBVIOUS
  <2>5. n - b \in 1..d /\ n - b \in Nat /\ b + (n - b) = n
    BY <2>1, <2>2, <2>3, <2>4
  <2>6. full = q /\ full * size = b /\ rest = n - b
    BY <2>1, <2>3, <2>4
  <2>. HIDE DEF full, rest
  <2>. QED  BY <2>1, <2>4, <2>5, <2>6
<1>. HIDE DEF full, rest
<1>. USE <1>1
<1>3. \E f : Is(f)
  <2>1. ASSUME NEW q \in S PROVE Throws(q) \in S
    <3>1. CASE q.err # "ok"
      BY <3>1 DEF Throws
    <3>2. CASE q.err = "ok"
      <4>1. size \in Nat /\ size <= size /\ 0 + size <= size
        BY DEF SetupOK
      <4>2. Filled(q, FillRange(q, 0, size, size), 0, size, size)
        BY <4>1, FillRangeFills
      <4>. QED  BY <3>2, <4>2 DEF Throws, Filled, Inbound
    <3>. QED  BY <3>1, <3>2
  <2>2. step \in [1..full -> [S -> S]] /\ r \in S
    BY <1>0, <2>1
  <2>3. PICK f \in [0..full -> S] : Follows(f, full, r, step)
    <3>. HIDE DEF S, step
    <3>. QED  BY <2>2, RecursiveFunction
  <2>4. ASSUME NEW k \in 0..full PROVE f[k] = turn(f, k)
    <3>1. CASE k = 0
      BY <2>3, <3>1 DEF Follows
    <3>2. CASE k # 0
      <4>1. PICK j \in 0..full - 1 : k = j + 1 /\ k - 1 = j /\ j + 1 \in 1..full /\ j \in 0..full
        BY <3>2
      <4>2. f[j + 1] = step[j + 1][f[j]] /\ f[j] \in S
        BY <2>3, <4>1 DEF Follows
      <4>3. f[k] = Throws(f[j])
        BY <4>1, <4>2
      <4>. QED  BY <3>2, <4>1, <4>3 DEF Throws
    <3>. QED  BY <3>1, <3>2
  <2>. QED  BY <2>3, <2>4
<1>4. Is(after)
  <2>. HIDE DEF Is
  <2>. QED  BY <1>3
<1>. HIDE DEF after
<1>5. \A k \in 0..full : after[k] = turn(after, k)
  BY <1>4
<1>6. ThrownAway(r, after[full], full)
  <2>. DEFINE T == {k \in 0..full : ThrownAway(r, after[k], k)}
  <2>1. 0 \in T
    <3>1. after[0] = r
      BY <1>5
    <3>2. r.src = r.src + 0 * size
      BY <1>0 DEF SetupOK
    <3>. QED  BY <3>1, <3>2 DEF ThrownAway
  <2>2. ASSUME NEW k \in 0..full - 1, k \in T PROVE k + 1 \in T
    <3>1. k + 1 \in 0..full /\ k + 1 # 0 /\ k + 1 - 1 = k
      OBVIOUS
    <3>2. after[k + 1] = Throws(after[k])
      BY <1>5, <3>1 DEF Throws
    <3>. QED  BY <1>0, <2>2, <3>1, <3>2, ThrowsAway
  <2>3. 0..full \subseteq T
    <3>. HIDE DEF T
    <3>. QED  BY <2>1, <2>2, InductionUpTo
  <2>. QED  BY <2>3
<1>7. PICK t : t = after[full]
  OBVIOUS
<1>8. Inbound(t) /\ t \in Readers
  BY <1>6, <1>7 DEF ThrownAway, Inbound
<1>9. CASE t.err # "ok"
  BY <1>2, <1>7, <1>8, <1>9 DEF Skips, Sound
<1>10. CASE t.err = "ok"
  <2>1. t.src = r.src + full * size /\ t.data = t.end /\ t.got = r.got
    BY <1>6, <1>7, <1>10 DEF ThrownAway
  <2>2. PICK v : v = [t EXCEPT !.data = 0]
    OBVIOUS
  <2>3. /\ v \in Readers /\ v.data = 0 /\ v.end = t.end /\ v.mem = t.mem /\ v.src = t.src
        /\ v.edge = t.edge /\ v.err = t.err /\ v.got = t.got
    BY <1>8, <2>2 DEF Readers
  <2>4. Inbound(v)
    <3>1. 0 <= t.end
      BY <1>8 DEF Readers
    <3>. QED  BY <1>8, <2>3, <3>1 DEF Inbound
  <2>5. PICK f : f = FillRange(v, 0, rest, size)
    OBVIOUS
  <2>6. Filled(v, f, 0, rest, size)
    <3>1. size \in Nat /\ rest <= size /\ 0 + size <= size
      BY <1>1 DEF SetupOK
    <3>. QED  BY <2>4, <2>5, <3>1, FillRangeFills
  <2>7. CASE f.err # "ok"
    <3>1. SkipUsingFill(r, n) = f
      BY <1>2, <1>7, <1>10, <2>2, <2>5, <2>7
    <3>. QED  BY <2>6, <2>7, <3>1 DEF Filled, Skips, Sound
  <2>8. CASE f.err = "ok"
    <3>1. PICK e : e = [f EXCEPT !.data = rest, !.end = f.src - v.src]
      OBVIOUS
    <3>2. SkipUsingFill(r, n) = e
      BY <1>2, <1>7, <1>10, <2>2, <2>3, <2>5, <2>8, <3>1
    <3>3. f \in Readers
      BY <2>6 DEF Filled, Inbound
    <3>4. e = [f EXCEPT !.got = f.got, !.data = rest, !.end = f.src - v.src] /\ f.got \in Seq(Int)
      BY <3>1, <3>3 DEF Readers
    <3>5. Fresh(v, f, rest, e)
      BY <3>4 DEF Fresh
    <3>6. Inbound(e) /\ At(e, v.src + rest)
      BY <1>1, <2>4, <2>6, <2>8, <3>5, FreshWindow
    <3>7. v.src + rest = r.src + n
      <4>1. PICK b \in Nat, d \in Nat, s \in Nat : b = full * size /\ d = rest /\ b + d = n /\ s = r.src
        BY <1>0, <1>1
      <4>2. v.src + rest = s + b + d
        BY <2>1, <2>3, <4>1
      <4>. QED  BY <4>1, <4>2
    <3>8. e.got = r.got
      BY <2>1, <2>3, <2>6, <3>1, <3>3 DEF Filled, Readers
    <3>. QED  BY <3>2, <3>6, <3>7, <3>8 DEF Skips, Sound
  <2>. QED  BY <2>7, <2>8
<1>. QED  BY <1>9, <1>10

(* So does the skip function of the caller.                                  *)
LEMMA CallSkipSkips ==
  ASSUME SetupOK, NEW r, Inbound(r), r.err = "ok", r.data = r.end, NEW n \in Nat
  PROVE  Skips(r, CallSkip(r, n), r.src, n)
<1>0. r \in Readers /\ r.src \in Nat /\ r.end \in Nat /\ Len(stream) \in Nat
  BY DEF Inbound, Readers, SetupOK
<1>1. CASE r.src + n > Len(stream)
  <2>1. Inbound(FlagError(r, "io")) /\ FlagError(r, "io").err # "ok"
    BY FlagErrorKeeps DEF Errors
  <2>. QED  BY <1>1, <2>1 DEF CallSkip, Skips, Sound
<1>2. CASE ~(r.src + n > Len(stream))
  <2>1. PICK e : e = [r EXCEPT !.src = r.src + n]
    OBVIOUS
  <2>2. CallSkip(r, n) = e
    BY <1>2, <2>1 DEF CallSkip
  <2>6. r.src + n \in Nat
    BY <1>0
  <2>3. /\ e \in Readers /\ e.data = r.end /\ e.end = r.end /\ e.mem = r.mem /\ e.src = r.src + n
        /\ e.edge = r.edge /\ e.err = r.err /\ e.got = r.got
    BY <1>0, <2>1, <2>6 DEF Readers
  <2>4. Inbound(e)
    BY <1>0, <1>2, <2>3 DEF Inbound
  <2>5. At(e, r.src + n)
    <3>1. e.end - e.data = 0 /\ e.src - 0 = r.src + n
      BY <1>0, <2>3
    <3>. QED  BY <3>1 DEF At
  <2>. QED  BY <2>2, <2>3, <2>4, <2>5 DEF Skips, Sound
<1>. QED  BY <1>1, <1>2

(* mpack_skip_bytes passes over n bytes, whichever way it takes.             *)
LEMMA SkipBytesSkips ==
  ASSUME SetupOK, NEW r, NEW p \in Nat, Sound(r, p), NEW n \in Nat
  PROVE  Skips(r, SkipBytes(r, n), p, n)
<1>1. Inbound(r) /\ r \in Readers /\ InBuffer(r) \in Nat
  BY EmptiedWindow DEF Sound, Inbound
<1>2. CASE r.err # "ok"
  BY <1>1, <1>2 DEF SkipBytes, Skips, Sound
<1>3. CASE r.err = "ok" /\ InBuffer(r) >= n
  <2>1. PICK e : e = [r EXCEPT !.data = @ + n]
    OBVIOUS
  <2>2. SkipBytes(r, n) = e
    BY <1>3, <2>1 DEF SkipBytes
  <2>3. e = [r EXCEPT !.got = r.got, !.data = @ + n] /\ r.got \in Seq(Int) /\ e.got = r.got
    BY <1>1, <2>1 DEF Readers
  <2>4. Passed(r, n, e)
    BY <2>3 DEF Passed
  <2>5. Inbound(e) /\ e.err = r.err /\ (At(r, p) => At(e, p + n))
    BY <1>1, <1>3, <2>4, PassesInWindow
  <2>. QED  BY <2>2, <2>3, <2>5 DEF Skips, Sound
<1>4. CASE r.err = "ok" /\ InBuffer(r) < n
  <2>0. SkipBytes(r, n) = SkipBytesStraddle(r, n)
    BY <1>1, <1>4 DEF SkipBytes
  <2>1. PICK m \in Nat \ {0} : m = n - InBuffer(r)
    BY <1>1, <1>4
  <2>2. PICK v : /\ v = Emptied(r) /\ Inbound(v) /\ v.src = r.src /\ v.err = "ok" /\ v.data = v.end
                 /\ v.got = r.got
    <3>1. Emptied(r).got = r.got
      BY <1>1 DEF Emptied, Readers
    <3>. QED  BY <1>1, <1>4, <3>1, EmptiedWindow
  <2>3. v.src + m = p + n
    <3>1. r.src = p + InBuffer(r)
      BY <1>1, <1>4, EmptiedWindow DEF Sound
    <3>. QED  BY <1>1, <2>1, <2>2, <3>1
  <2>4. \/ SkipBytesStraddle(r, n) = FlagError(r, "invalid")
        \/ fill /\ SkipBytesStraddle(r, n) = CallSkip(v, m)
        \/ fill /\ SkipBytesStraddle(r, n) = SkipUsingFill(v, m)
    <3>1. SkipBytesStraddle(r, n) =
             IF ~fill THEN FlagError(r, "invalid")
             ELSE IF skip /\ m > size \div 16 THEN CallSkip(v, m)
             ELSE SkipUsingFill(v, m)
      BY <2>1, <2>2, Zenon DEF SkipBytesStraddle, Emptied
    <3>. QED  BY <3>1, Zenon
  <2>5. CASE SkipBytesStraddle(r, n) = FlagError(r, "invalid")
    <3>1. Inbound(FlagError(r, "invalid")) /\ FlagError(r, "invalid").err # "ok"
      BY <1>1, FlagErrorKeeps DEF Errors
    <3>. QED  BY <2>0, <2>5, <3>1 DEF Skips, Sound
  <2>6. CASE fill /\ SkipBytesStraddle(r, n) = CallSkip(v, m)
    <3>1. Skips(v, CallSkip(v, m), v.src, m)
      BY <2>2, CallSkipSkips
    <3>. QED  BY <2>0, <2>2, <2>3, <2>6, <3>1 DEF Skips
  <2>7. CASE fill /\ SkipBytesStraddle(r, n) = SkipUsingFill(v, m)
    <3>1. Skips(v, SkipUsingFill(v, m), v.src, m)
      BY <2>2, <2>7, SkipUsingFillSkips
    <3>. QED  BY <2>0, <2>2, <2>3, <2>7, <3>1 DEF Skips
  <2>. QED  BY <2>4, <2>5, <2>6, <2>7
<1>. QED  BY <1>1, <1>2, <1>3, <1>4

-----------------------------------------------------------------------------
(* What is shown stays in the window until it is consumed.                   *)
Shows(e, p, n) == Sound(e, p) /\ (e.err = "ok" => e.got = Places(p, n) /\ n <= InBuffer(e))

(* Bytes that were ensured are shown.                                        *)
LEMMA EnsuredShows ==
  ASSUME SetupOK, NEW r, NEW p \in Nat, Sound(r, p), r.err = "ok", NEW n \in Nat
  PROVE  Shows(Show(Ensure(r, n), n), p, n)
<1>1. PICK e : e = Ensure(r, n)
  OBVIOUS
<1>2. Sound(e, p) /\ (e.err = "ok" => InBuffer(e) >= n)
  BY <1>1, EnsureKeeps
<1>3. CASE e.err # "ok"
  BY <1>1, <1>2, <1>3 DEF Show, Shows
<1>4. CASE e.err = "ok"
  <2>1. e \in Readers /\ Inbound(e) /\ At(e, p) /\ InBuffer(e) \in Nat /\ n <= InBuffer(e)
    BY <1>2, <1>4, EmptiedWindow DEF Sound, Inbound
  <2>2. Window(e, n) = Places(p, n)
    BY <2>1, WindowIs
  <2>3. PICK g \in Seq(Int) : g = Places(p, n)
    BY PlacesAre
  <2>4. PICK s : s = [e EXCEPT !.got = g]
    OBVIOUS
  <2>5. Show(e, n) = s
    BY <1>4, <2>2, <2>3, <2>4 DEF Show
  <2>6. /\ s \in Readers /\ s.data = e.data /\ s.end = e.end /\ s.mem = e.mem /\ s.src = e.src
        /\ s.edge = e.edge /\ s.err = "ok" /\ s.got = g
    BY <1>4, <2>1, <2>3, <2>4 DEF Readers
  <2>7. Inbound(s) /\ At(s, p) /\ InBuffer(s) = InBuffer(e)
    BY <2>1, <2>6 DEF Inbound, At, InBuffer
  <2>. QED  BY <1>1, <2>1, <2>3, <2>5, <2>6, <2>7 DEF Shows, Sound
<1>. QED  BY <1>3, <1>4

(* Bytes that are shown and consumed are read.                               *)
LEMMA ConsumeReads ==
  ASSUME SetupOK, NEW r, NEW p \in Nat, NEW n \in Nat, Shows(r, p, n)
  PROVE  ReadsAt(Consume(r), p, n)
<1>1. Inbound(r) /\ r \in Readers
  BY DEF Shows, Sound, Inbound
<1>2. CASE r.err # "ok"
  BY <1>1, <1>2 DEF Consume, ReadsAt, Sound
<1>3. CASE r.err = "ok"
  <2>1. At(r, p) /\ r.got = Places(p, n) /\ n <= InBuffer(r)
    BY <1>3 DEF Shows, Sound
  <2>2. PICK e : e = [r EXCEPT !.data = @ + n]
    OBVIOUS
  <2>3. Len(r.got) = n
    BY <2>1, PlacesAre
  <2>4. Consume(r) = e
    BY <1>3, <2>2, <2>3 DEF Consume
  <2>5. e = [r EXCEPT !.got = r.got, !.data = @ + n] /\ r.got \in Seq(Int) /\ e.got = r.got
    BY <1>1, <2>2 DEF Readers
  <2>6. Passed(r, n, e)
    BY <2>5 DEF Passed
  <2>7. Inbound(e) /\ e.err = r.err /\ At(e, p + n)
    BY <1>1, <2>1, <2>6, PassesInWindow
  <2>. QED  BY <2>1, <2>4, <2>5, <2>7 DEF ReadsAt, Sound
<1>. QED  BY <1>2, <1>3

(* mpack_read_bytes_inplace gives the next n bytes.                          *)
LEMMA ReadInplaceReads ==
  ASSUME SetupOK, NEW r, NEW p \in Nat, Sound(r, p), NEW n \in Nat
  PROVE  ReadsAt(ReadInplace(r, n), p, n)
<1>1. CASE r.err # "ok"
  BY <1>1 DEF ReadInplace, ReadsAt, Sound
<1>2. CASE r.err = "ok"
  <2>1. PICK s : s = Show(Ensure(r, n), n) /\ Shows(s, p, n)
    BY <1>2, EnsuredShows
  <2>2. ReadsAt(Consume(s), p, n)
    BY <2>1, ConsumeReads
  <2>. QED  BY <1>2, <2>1, <2>2 DEF ReadInplace
<1>. QED  BY <1>1, <1>2

-----------------------------------------------------------------------------
(* Why there is no tag is one of the errors.                                 *)
LEMMA RefusalIs ==
  ASSUME NEW b
  PROVE  Refusal(b) \in Errors
  BY DEF Refusal, Errors

(* The stream is made of bytes.                                              *)
LEMMA StreamBytes ==
  ASSUME SetupOK
  PROVE  Len(stream) \in Nat /\ \A i \in 1..Len(stream) : stream[i] \in Byte /\ stream[i] \in Nat
<1>1. stream \in Seq(Byte) /\ \A b \in Byte : b \in Nat
  BY DEF SetupOK, Byte
<1>. HIDE DEF Byte
<1>. QED  BY <1>1

(* The places of a stretch of the stream stand for its bytes.                *)
LEMMA BytesAre ==
  ASSUME SetupOK, NEW p \in Nat, NEW n \in Nat, p + n <= Len(stream)
  PROVE  /\ Bytes(Places(p, n)) \in Seq(Nat)
         /\ Len(Bytes(Places(p, n))) = n
         /\ \A i \in 1..n : Bytes(Places(p, n))[i] = stream[p + i]
         /\ Bytes(Places(p, n)) = [i \in 1..n |-> stream[p + i]]
<1>1. Len(Places(p, n)) = n /\ \A i \in 1..n : Places(p, n)[i] = p + i
  BY PlacesAre
<1>2. Bytes(Places(p, n)) = [i \in 1..n |-> stream[p + i]]
  BY <1>1 DEF Bytes
<1>3. \A i \in 1..n : stream[p + i] \in Nat
  <2>1. Len(stream) \in Nat /\ \A i \in 1..Len(stream) : stream[i] \in Nat
    BY StreamBytes
  <2>2. \A i \in 1..n : p + i \in 1..Len(stream)
    BY <2>1
  <2>. QED  BY <2>1, <2>2
<1>. QED  BY <1>2, <1>3

(* The tag that begins at place p is whole, and n bytes long.                *)
WholeTag(p, n) ==
    /\ p + n <= Len(stream) /\ Refusal(stream[p + 1]) = "ok" /\ n = TagSize(stream[p + 1])

(* A whole tag ends where the stream says.                                   *)
LEMMA TagEndIs ==
  ASSUME SetupOK, NEW p \in Nat, NEW n \in Nat \ {0}, WholeTag(p, n)
  PROVE  TagEnd(p) = p + n /\ p + n < Behind
<1>1. Len(stream) \in Nat
  BY DEF SetupOK
<1>2. ~(p >= Len(stream)) /\ Refusal(stream[p + 1]) = "ok"
  BY <1>1 DEF WholeTag
<1>3. TagEnd(p) = Least(Behind, p + n)
  BY <1>2 DEF TagEnd, WholeTag
<1>. QED  BY <1>1, <1>3 DEF WholeTag, Least, Behind

(* What is parsed from its bytes has a word of numbers.                      *)
LEMMA ParsedTag ==
  ASSUME SetupOK, NEW p \in Nat, NEW n \in Nat \ {0}, WholeTag(p, n)
  PROVE  Worded(ParseTag(Bytes(Places(p, n))))
<1>1. PICK w : w = Bytes(Places(p, n))
  OBVIOUS
<1>2. w \in Seq(Nat) /\ Len(w) = n /\ \A i \in 1..n : w[i] = stream[p + i]
  BY <1>1, BytesAre DEF WholeTag
<1>3. PICK b \in Byte : b = w[1] /\ b = stream[p + 1]
  <2>1. 1 \in 1..n
    OBVIOUS
  <2>2. p + 1 \in 1..Len(stream)
    BY DEF WholeTag, SetupOK
  <2>3. stream[p + 1] \in Byte
    BY <2>2, StreamBytes
  <2>. QED  BY <1>2, <2>1, <2>3
<1>4. ParseTag(w) = ReadTag(b, SubSeq(w, 2, n))
  BY <1>3 DEF ParseTag, WholeTag
<1>5. SubSeq(w, 2, n) \in Seq(Nat)
  BY <1>2
<1>6. Refusal(b) = "ok"
  BY <1>3 DEF WholeTag
<1>. QED  BY <1>1, <1>3, <1>4, <1>5, <1>6, ReadTagWorded

(* So what follows the tag has a length.                                     *)
LEMMA PayloadIs ==
  ASSUME NEW t, Worded(t)
  PROVE  Payload(t) \in Nat /\ Children(t) \in Nat
<1>1. PICK m \in Nat : m = Number(t.v)
  BY NumberIsNat DEF Worded
<1>. QED  BY <1>1 DEF Payload, Children

(* A tag is shown whole, or there is none at p.                              *)
ShowsTag(e, p) ==
    Sound(e, p) /\ (e.err = "ok" => \E n \in Nat \ {0} : WholeTag(p, n) /\ Shows(e, p, n))

(* The window is a part of the stream.                                       *)
LEMMA InStream ==
  ASSUME SetupOK, NEW e, NEW p \in Nat, NEW n \in Nat, Inbound(e), At(e, p), n <= InBuffer(e)
  PROVE  p + n <= Len(stream)
<1>1. e.src = p + InBuffer(e) /\ InBuffer(e) \in Nat
  BY EmptiedWindow
<1>2. e.src <= Len(stream) /\ Len(stream) \in Nat
  BY DEF Inbound, SetupOK
<1>. QED  BY <1>1, <1>2

(* mpack_parse_tag shows the tag at p, or flags an error.                    *)
LEMMA PeekTagShows ==
  ASSUME SetupOK, NEW r, NEW p \in Nat, Sound(r, p)
  PROVE  ShowsTag(PeekTagBytes(r), p)
<1>1. CASE r.err # "ok"
  BY <1>1 DEF PeekTagBytes, ShowsTag
<1>2. CASE r.err = "ok"
  <2>1. PICK one : one = Ensure(r, 1) /\ Sound(one, p) /\ (one.err = "ok" => InBuffer(one) >= 1)
    BY <1>2, EnsureKeeps
  <2>2. PICK b : b = stream[one.mem[one.data + 1]]
    OBVIOUS
  <2>3. PeekTagBytes(r) = IF one.err # "ok" THEN one
        ELSE IF Refusal(b) # "ok" THEN FlagError(one, Refusal(b))
        ELSE Show(Ensure(one, TagSize(b)), TagSize(b))
    BY <1>2, <2>1, <2>2, Zenon DEF PeekTagBytes, ParseTagFrom
  <2>4. CASE one.err # "ok"
    BY <2>1, <2>3, <2>4 DEF ShowsTag
  <2>5. CASE one.err = "ok" /\ Refusal(b) # "ok"
    <3>1. PICK e : e = FlagError(one, Refusal(b)) /\ Inbound(e) /\ e.err # "ok"
      <4>1. Refusal(b) \in Errors \ {"ok"}
        BY <2>5, RefusalIs
      <4>. QED  BY <2>1, <4>1, FlagErrorKeeps DEF Sound
    <3>. QED  BY <2>3, <2>5, <3>1 DEF ShowsTag, Sound
  <2>6. CASE one.err = "ok" /\ Refusal(b) = "ok"
    <3>1. PICK n \in Nat \ {0} : n = TagSize(b)
      BY TagSizeIs
    <3>2. PICK e : e = Show(Ensure(one, n), n) /\ Shows(e, p, n)
      BY <2>1, <2>6, EnsuredShows
    <3>3. PeekTagBytes(r) = e
      BY <2>3, <2>6, <3>1, <3>2
    <3>4. b = stream[p + 1]
      <4>1. Inbound(one) /\ At(one, p) /\ InBuffer(one) \in Nat /\ 1 <= InBuffer(one)
        BY <2>1, <2>6, EmptiedWindow DEF Sound
      <4>2. 1 \in 1..one.end - one.data
        BY <4>1 DEF InBuffer
      <4>. QED  BY <2>2, <4>1, <4>2 DEF At
    <3>5. ASSUME e.err = "ok" PROVE WholeTag(p, n)
      <4>1. Inbound(e) /\ At(e, p) /\ n <= InBuffer(e)
        BY <3>2, <3>5 DEF Shows, Sound
      <4>2. p + n <= Len(stream)
        BY <4>1, InStream
      <4>. QED  BY <2>6, <3>1, <3>4, <4>2 DEF WholeTag
    <3>. QED  BY <3>2, <3>3, <3>5 DEF ShowsTag, Shows
  <2>. QED  BY <2>4, <2>5, <2>6
<1>. QED  BY <1>1, <1>2

(* A tag that is read is passed over.                                        *)
ReadsTag(e, p) ==
    Inbound(e) /\ (e.err = "ok" => \E n \in Nat \ {0} : WholeTag(p, n) /\ ReadsAt(e, p, n))

(* mpack_read_tag passes over it.                                            *)
LEMMA ReadTagReads ==
  ASSUME SetupOK, NEW r, NEW p \in Nat, Sound(r, p)
  PROVE  ReadsTag(ReadTagBytes(r), p)
<1>1. PICK s : s = PeekTagBytes(r) /\ ShowsTag(s, p)
  BY PeekTagShows
<1>2. ReadTagBytes(r) = Consume(s)
  BY <1>1 DEF ReadTagBytes
<1>3. CASE s.err # "ok"
  BY <1>1, <1>2, <1>3 DEF Consume, ReadsTag, ShowsTag, Sound
<1>4. CASE s.err = "ok"
  <2>1. PICK n \in Nat \ {0} : WholeTag(p, n) /\ Shows(s, p, n)
    BY <1>1, <1>4 DEF ShowsTag
  <2>2. ReadsAt(Consume(s), p, n)
    BY <2>1, ConsumeReads
  <2>. QED  BY <1>2, <2>1, <2>2 DEF ReadsTag, ReadsAt, Sound
<1>. QED  BY <1>3, <1>4

-----------------------------------------------------------------------------
(* Where elements end: what ElementEnd looks up.                             *)
TagAt(i) == ParseTag(SubSeq(stream, i + 1, TagEnd(i)))

Onwards(i, k) ==
    <<Least(Behind, TagEnd(i) + Payload(TagAt(i))), Least(Behind, k - 1 + Children(TagAt(i)))>>

Upto == 0..Behind

EndOf(f, i, k) ==
    IF k = 0 THEN i ELSE IF TagEnd(i) = Behind THEN Behind ELSE f[Onwards(i, k)]

(* ElementEnd looks at the tag a reader would parse.                         *)
LEMMA TagAtIs ==
  ASSUME SetupOK, NEW p \in Nat, NEW n \in Nat \ {0}, WholeTag(p, n)
  PROVE  TagAt(p) = ParseTag(Bytes(Places(p, n)))
<1>1. TagEnd(p) = p + n /\ p + n <= Len(stream) /\ Len(stream) \in Nat
  BY TagEndIs, StreamBytes DEF WholeTag
<1>2. PICK s \in Seq(Nat) : s = stream
  BY StreamBytes DEF SetupOK
<1>3. PICK w : w = SubSeq(s, p + 1, p + n)
  OBVIOUS
<1>4. w = [i \in 1..n |-> s[p + i]]
  <2>1. p + 1 \in 1..Len(s) + 1 /\ p + n \in p + 1 - 1..Len(s)
    BY <1>1, <1>2
  <2>2. /\ w \in Seq(Nat) /\ Len(w) = p + n - (p + 1) + 1
        /\ \A i \in 1..p + n - (p + 1) + 1 : w[i] = s[p + 1 + i - 1]
    BY <1>3, <2>1, SubSeqProperties
  <2>3. p + n - (p + 1) + 1 = n /\ \A i \in 1..n : p + 1 + i - 1 = p + i
    OBVIOUS
  <2>4. Len(w) = n /\ \A i \in 1..n : w[i] = s[p + i]
    BY <2>2, <2>3
  <2>5. w = [i \in 1..n |-> w[i]]
    BY <2>2, <2>4
  <2>. QED  BY <2>4, <2>5
<1>5. Bytes(Places(p, n)) = [i \in 1..n |-> s[p + i]]
  <2>1. Bytes(Places(p, n)) = [i \in 1..n |-> stream[p + i]]
    BY <1>1, BytesAre
  <2>. QED  BY <1>2, <2>1
<1>6. SubSeq(stream, p + 1, TagEnd(p)) = Bytes(Places(p, n))
  BY <1>1, <1>2, <1>3, <1>4, <1>5
<1>. QED  BY <1>6 DEF TagAt

(* Where a tag ends within the stream, it is whole.                          *)
LEMMA TagThere ==
  ASSUME SetupOK, NEW i \in Nat, TagEnd(i) # Behind
  PROVE  \E n \in Nat \ {0} : WholeTag(i, n) /\ TagEnd(i) = i + n /\ i + n < Behind
<1>1. Len(stream) \in Nat
  BY StreamBytes
<1>2. ~(i >= Len(stream)) /\ Refusal(stream[i + 1]) = "ok"
  BY DEF TagEnd
<1>3. PICK n \in Nat \ {0} : n = TagSize(stream[i + 1])
  BY TagSizeIs
<1>4. TagEnd(i) = Least(Behind, i + n)
  BY <1>2, <1>3 DEF TagEnd
<1>5. i + n < Behind
  BY <1>1, <1>4 DEF Least, Behind
<1>6. WholeTag(i, n)
  BY <1>1, <1>2, <1>3, <1>5 DEF WholeTag, Behind
<1>. QED  BY <1>5, <1>6, TagEndIs

(* ElementEnd looks up a place further on.                                   *)
LEMMA OnwardsIs ==
  ASSUME SetupOK, NEW i \in Upto, NEW k \in Upto \ {0}, TagEnd(i) # Behind
  PROVE  \E x \in Upto, y \in Upto : Onwards(i, k) = <<x, y>> /\ i < x
<1>0. Len(stream) \in Nat /\ Behind \in Nat /\ i \in Nat /\ k \in Nat \ {0}
  BY StreamBytes DEF Behind, Upto
<1>1. PICK n \in Nat \ {0} : WholeTag(i, n) /\ TagEnd(i) = i + n /\ i + n < Behind
  BY <1>0, TagThere
<1>2. Worded(TagAt(i))
  BY <1>0, <1>1, TagAtIs, ParsedTag
<1>3. PICK a \in Nat, c \in Nat : a = Payload(TagAt(i)) /\ c = Children(TagAt(i))
  BY <1>2, PayloadIs
<1>4. Onwards(i, k) = <<Least(Behind, i + n + a), Least(Behind, k - 1 + c)>>
  BY <1>1, <1>3 DEF Onwards
<1>5. Least(Behind, i + n + a) \in Upto /\ i < Least(Behind, i + n + a)
  BY <1>0, <1>1 DEF Least, Upto
<1>6. Least(Behind, k - 1 + c) \in Upto
  BY <1>0 DEF Least, Upto
<1>. QED  BY <1>4, <1>5, <1>6

(* So it is the value of a function there is.                                *)
LEMMA ElementEnds ==
  ASSUME SetupOK
  PROVE  \E f : /\ \A i, k \in Upto : f[<<i, k>>] = EndOf(f, i, k)
                /\ \A p : ElementEnd(p) = f[<<p, 1>>]
<1>. DEFINE Is(f) == f = [x \in (0..Behind) \X (0..Behind) |->
                             IF x[2] = 0 THEN x[1] ELSE IF TagEnd(x[1]) = Behind THEN Behind
                             ELSE f[Onwards(x[1], x[2])]]
            after == CHOOSE f : Is(f)
            D == Upto \X Upto
            F == [D -> Upto]
            step == [x \in D |-> [f \in F |-> EndOf(f, x[1], x[2])]]
            rank == [x \in D |-> Behind - x[1]]
<1>0. Behind \in Nat
  BY StreamBytes DEF Behind
<1>1. ASSUME NEW x \in D
      PROVE  \E i, k \in Upto : x = <<i, k>> /\ x[1] = i /\ x[2] = k /\ rank[x] = Behind - i
  OBVIOUS
<1>2. ASSUME NEW x \in D, NEW f \in F
      PROVE  EndOf(f, x[1], x[2]) \in Upto
  <2>1. PICK i \in Upto, k \in Upto : x[1] = i /\ x[2] = k
    BY <1>1
  <2>2. CASE k = 0 \/ TagEnd(i) = Behind
    <3>1. Behind \in Upto
      BY <1>0 DEF Upto
    <3>. QED  BY <2>1, <2>2, <3>1 DEF EndOf
  <2>3. CASE k # 0 /\ TagEnd(i) # Behind
    <3>1. PICK a \in Upto, b \in Upto : Onwards(i, k) = <<a, b>>
      BY <2>3, OnwardsIs
    <3>2. f[<<a, b>>] \in Upto
      OBVIOUS
    <3>. QED  BY <2>1, <2>3, <3>1, <3>2 DEF EndOf
  <2>. QED  BY <2>2, <2>3
<1>3. step \in [D -> [F -> Upto]]
  BY <1>2
<1>4. Ranked(D, Upto, step, rank, Behind + 1)
  <2>1. ASSUME NEW x \in D PROVE rank[x] \in Nat /\ rank[x] < Behind + 1
    <3>1. PICK i \in Upto : rank[x] = Behind - i
      BY <1>1
    <3>. QED  BY <1>0, <3>1 DEF Upto
  <2>2. ASSUME NEW x \in D, NEW f \in F, NEW g \in F,
               \A y \in D : rank[y] < rank[x] => f[y] = g[y]
        PROVE  step[x][f] = step[x][g]
    <3>1. PICK i \in Upto, k \in Upto : x[1] = i /\ x[2] = k /\ rank[x] = Behind - i
      BY <1>1
    <3>2. step[x][f] = EndOf(f, i, k) /\ step[x][g] = EndOf(g, i, k)
      BY <3>1
    <3>3. CASE k = 0 \/ TagEnd(i) = Behind
      BY <3>2, <3>3 DEF EndOf
    <3>4. CASE k # 0 /\ TagEnd(i) # Behind
      <4>1. PICK a \in Upto, b \in Upto : Onwards(i, k) = <<a, b>> /\ i < a
        BY <3>4, OnwardsIs
      <4>2. <<a, b>> \in D /\ rank[<<a, b>>] = Behind - a
        OBVIOUS
      <4>3. Behind - a < Behind - i
        BY <1>0, <4>1 DEF Upto
      <4>4. f[<<a, b>>] = g[<<a, b>>]
        BY <2>2, <3>1, <4>2, <4>3
      <4>. QED  BY <3>2, <3>4, <4>1, <4>4 DEF EndOf
    <3>. QED  BY <3>3, <3>4
  <2>. HIDE DEF rank, step
  <2>. QED  BY <2>1, <2>2 DEF Ranked
<1>5. \E f : Is(f)
  <2>1. PICK f \in [D -> Upto] : Recursive(f, D, step)
    <3>1. Behind + 1 \in Nat /\ Upto # {}
      BY <1>0 DEF Upto
    <3>. HIDE DEF rank, step, D
    <3>. QED  BY <1>3, <1>4, <3>1, RecursionByRank
  <2>2. f = [x \in D |-> EndOf(f, x[1], x[2])]
    BY <2>1 DEF Recursive
  <2>3. Is(f)
    <3>. HIDE DEF step, rank, after
    <3>. QED  BY <2>2 DEF EndOf, Upto
  <2>. QED  BY <2>3
<1>6. Is(after)
  <2>. HIDE DEF Is
  <2>. QED  BY <1>5
<1>7. \A p : ElementEnd(p) = after[<<p, 1>>]
  BY DEF ElementEnd, Onwards, TagAt
<1>. HIDE DEF after
<1>8. ASSUME NEW i \in Upto, NEW k \in Upto PROVE after[<<i, k>>] = EndOf(after, i, k)
  <2>1. <<i, k>> \in (0..Behind) \X (0..Behind) /\ <<i, k>>[1] = i /\ <<i, k>>[2] = k
    BY DEF Upto
  <2>. HIDE DEF step, rank
  <2>. QED  BY <1>6, <2>1 DEF EndOf
<1>. QED  BY <1>7, <1>8

-----------------------------------------------------------------------------
(* Discard goes from element to element.                                     *)
Inner(p, t, todo) ==
    IF p.err # "ok" THEN [r |-> p, todo |-> 0]
    ELSE [r |-> SkipBytes(p, Payload(t)), todo |-> todo - 1 + Children(t)]

Element(p, todo) == Inner(p, ParseTag(Bytes(p.got)), todo)

Turn(q) == IF q.todo = 0 \/ q.r.err # "ok" THEN q ELSE Element(ReadTagBytes(q.r), q.todo)

Turns == {q \in [r : Readers, todo : Nat] : \E p \in Nat : Sound(q.r, p)}

(* One element is passed over: its tag, and the text that belongs to it.     *)
PassesElement(q, e, p) ==
    /\ e \in Turns /\ Inbound(e.r)
    /\ e.r.err = "ok" =>
          \E n \in Nat \ {0} :
             LET t == ParseTag(Bytes(Places(p, n)))
             IN  /\ WholeTag(p, n) /\ Worded(t)
                 /\ At(e.r, p + n + Payload(t)) /\ e.todo = q.todo - 1 + Children(t)

(* One turn of the loop passes over one element.                             *)
LEMMA TurnPasses ==
  ASSUME SetupOK, NEW q \in Turns, NEW p \in Nat, Sound(q.r, p), q.todo # 0, q.r.err = "ok"
  PROVE  PassesElement(q, Turn(q), p)
<1>0. q.todo \in Nat \ {0}
  BY DEF Turns
<1>1. PICK r : r = ReadTagBytes(q.r) /\ ReadsTag(r, p)
  BY ReadTagReads
<1>2. PICK t : t = ParseTag(Bytes(r.got))
  OBVIOUS
<1>3. PICK e : e = Turn(q)
  OBVIOUS
<1>4. e = IF r.err # "ok" THEN [r |-> r, todo |-> 0]
          ELSE [r |-> SkipBytes(r, Payload(t)), todo |-> q.todo - 1 + Children(t)]
  BY <1>1, <1>2, <1>3 DEF Turn, Element, Inner
<1>5. Inbound(r) /\ r \in Readers
  BY <1>1 DEF ReadsTag, Inbound
<1>6. CASE r.err # "ok"
  <2>1. e.r = r /\ e.todo = 0 /\ e = [r |-> r, todo |-> 0]
    BY <1>4, <1>6
  <2>2. Sound(r, 0)
    BY <1>5, <1>6 DEF Sound
  <2>3. e \in Turns
    BY <1>5, <2>1, <2>2 DEF Turns
  <2>. QED  BY <1>3, <1>5, <1>6, <2>1, <2>3 DEF PassesElement
<1>7. CASE r.err = "ok"
  <2>1. PICK n \in Nat \ {0} : WholeTag(p, n) /\ ReadsAt(r, p, n)
    BY <1>1, <1>7 DEF ReadsTag
  <2>2. r.got = Places(p, n) /\ Sound(r, p + n)
    BY <1>7, <2>1 DEF ReadsAt
  <2>3. t = ParseTag(Bytes(Places(p, n))) /\ Worded(t)
    BY <1>2, <2>1, <2>2, ParsedTag
  <2>4. PICK a \in Nat, c \in Nat : a = Payload(t) /\ c = Children(t)
    BY <2>3, PayloadIs
  <2>5. PICK s : s = SkipBytes(r, a) /\ Skips(r, s, p + n, a)
    <3>1. p + n \in Nat
      OBVIOUS
    <3>. QED  BY <2>2, <3>1, SkipBytesSkips
  <2>6. e = [r |-> s, todo |-> q.todo - 1 + c]
    BY <1>4, <1>7, <2>4, <2>5
  <2>7. Sound(s, p + n + a) /\ Inbound(s) /\ s \in Readers
    BY <2>5 DEF Skips, Sound, Inbound
  <2>8. q.todo - 1 + c \in Nat /\ p + n + a \in Nat
    BY <1>0
  <2>9. e \in Turns /\ e.r = s /\ e.todo = q.todo - 1 + c
    BY <2>6, <2>7, <2>8 DEF Turns
  <2>10. ASSUME s.err = "ok" PROVE At(s, p + n + a)
    BY <2>7, <2>10 DEF Sound
  <2>. HIDE DEF Turns
  <2>. QED  BY <1>3, <2>1, <2>3, <2>4, <2>7, <2>9, <2>10 DEF PassesElement
<1>. QED  BY <1>6, <1>7

(* Every turn leaves a state of the loop.                                    *)
LEMMA TurnStays ==
  ASSUME SetupOK, NEW q \in Turns
  PROVE  Turn(q) \in Turns
<1>1. CASE q.todo = 0 \/ q.r.err # "ok"
  BY <1>1 DEF Turn
<1>2. CASE ~(q.todo = 0 \/ q.r.err # "ok")
  <2>1. PICK p \in Nat : Sound(q.r, p)
    BY DEF Turns
  <2>2. PassesElement(q, Turn(q), p)
    BY <1>2, <2>1, TurnPasses
  <2>. QED  BY <2>2 DEF PassesElement
<1>. QED  BY <1>1, <1>2

(* What is still to come ends where the element ends that began at p, unless *)
(* more elements are to come than the stream has bytes.                      *)
Coming(f, p, todo, at) ==
    \/ todo \in Upto /\ f[<<at, todo>>] = f[<<p, 1>>]
    \/ todo > Len(stream) - at

OpenAt(f, q, p, k) ==
    /\ q \in Turns /\ Inbound(q.r)
    /\ q.r.err = "ok" =>
          \E at \in Nat : /\ At(q.r, at) /\ Coming(f, p, q.todo, at)
                          /\ q.todo = 0 \/ at >= p + k

(* What is to come after an element ends where it did before.                *)
LEMMA ComingStays ==
  ASSUME SetupOK, NEW f, \A i, k \in Upto : f[<<i, k>>] = EndOf(f, i, k),
         NEW p \in Nat, NEW todo \in Nat \ {0}, NEW at \in Nat, Coming(f, p, todo, at),
         NEW n \in Nat \ {0}, WholeTag(at, n), NEW a \in Nat, NEW c \in Nat,
         a = Payload(TagAt(at)), c = Children(TagAt(at)), at + n + a <= Len(stream)
  PROVE  Coming(f, p, todo - 1 + c, at + n + a)
<1>0. PICK l \in Nat : l = Len(stream) /\ Behind = l + 1
  BY StreamBytes DEF Behind
<1>1. CASE todo > Len(stream) - at
  BY <1>0, <1>1 DEF Coming
<1>2. CASE todo \in Upto /\ f[<<at, todo>>] = f[<<p, 1>>]
  <2>1. TagEnd(at) = at + n /\ at + n < Behind
    BY TagEndIs
  <2>2. at \in Upto
    BY <1>0 DEF Upto
  <2>3. f[<<at, todo>>] = EndOf(f, at, todo)
    BY <1>2, <2>2
  <2>4. EndOf(f, at, todo) = f[Onwards(at, todo)]
    <3>1. TagEnd(at) # Behind
      BY <1>0, <2>1
    <3>. QED  BY <3>1 DEF EndOf
  <2>5. Onwards(at, todo) = <<Least(Behind, at + n + a), Least(Behind, todo - 1 + c)>>
    BY <2>1 DEF Onwards
  <2>6. Least(Behind, at + n + a) = at + n + a
    BY <1>0 DEF Least
  <2>7. CASE todo - 1 + c > Behind
    BY <1>0, <2>7 DEF Coming
  <2>8. CASE ~(todo - 1 + c > Behind)
    <3>0. ASSUME NEW b \in Nat, NEW t \in Nat, ~(t > b) PROVE Least(b, t) = t
      BY <3>0 DEF Least
    <3>1. Least(Behind, todo - 1 + c) = todo - 1 + c
      BY <1>0, <2>8, <3>0
    <3>2. todo - 1 + c \in Upto
      BY <1>0, <2>8 DEF Upto
    <3>3. f[<<at + n + a, todo - 1 + c>>] = f[<<p, 1>>]
      BY <1>2, <2>3, <2>4, <2>5, <2>6, <3>1
    <3>. QED  BY <3>2, <3>3 DEF Coming
  <2>. QED  BY <2>7, <2>8
<1>. QED  BY <1>1, <1>2 DEF Coming

(* So every turn leaves the end where it was, and moves on.                  *)
LEMMA TurnStaysOpen ==
  ASSUME SetupOK, NEW f, \A i, k \in Upto : f[<<i, k>>] = EndOf(f, i, k),
         NEW p \in Nat, NEW k \in Nat, NEW q, OpenAt(f, q, p, k)
  PROVE  OpenAt(f, Turn(q), p, k + 1)
<1>0. q \in Turns /\ q.todo \in Nat /\ Inbound(q.r)
  BY DEF OpenAt, Turns
<1>1. CASE q.todo = 0 \/ q.r.err # "ok"
  BY <1>1 DEF OpenAt, Turn
<1>2. CASE q.todo # 0 /\ q.r.err = "ok"
  <2>1. PICK at \in Nat : /\ At(q.r, at) /\ Coming(f, p, q.todo, at)
                          /\ at >= p + k
    BY <1>2 DEF OpenAt
  <2>2. PICK e : e = Turn(q) /\ PassesElement(q, e, at)
    <3>1. Sound(q.r, at)
      BY <1>0, <2>1 DEF Sound
    <3>. QED  BY <1>0, <1>2, <3>1, TurnPasses
  <2>3. ASSUME e.r.err = "ok"
        PROVE  \E to \in Nat : At(e.r, to) /\ Coming(f, p, e.todo, to) /\ to >= p + (k + 1)
    <3>0. PICK n \in Nat \ {0} :
             LET t == ParseTag(Bytes(Places(at, n)))
             IN  /\ WholeTag(at, n) /\ Worded(t)
                 /\ At(e.r, at + n + Payload(t)) /\ e.todo = q.todo - 1 + Children(t)
      BY <2>2, <2>3 DEF PassesElement
    <3>9. PICK t : t = ParseTag(Bytes(Places(at, n)))
      OBVIOUS
    <3>1. /\ WholeTag(at, n) /\ Worded(t)
          /\ At(e.r, at + n + Payload(t)) /\ e.todo = q.todo - 1 + Children(t)
      BY <3>0, <3>9
    <3>2. t = TagAt(at)
      BY <3>1, <3>9, TagAtIs
    <3>3. PICK a \in Nat, c \in Nat : a = Payload(t) /\ c = Children(t)
      BY <3>1, PayloadIs
    <3>4. At(e.r, at + n + a) /\ e.todo = q.todo - 1 + c /\ Inbound(e.r)
      BY <2>2, <3>1, <3>3 DEF PassesElement
    <3>5. at + n + a <= Len(stream)
      <4>1. at + n + a \in Nat /\ 0 \in Nat /\ 0 <= InBuffer(e.r)
        BY <3>4, EmptiedWindow
      <4>2. at + n + a + 0 <= Len(stream)
        BY <3>4, <4>1, InStream
      <4>. QED  BY <4>2
    <3>6. q.todo \in Nat \ {0}
      BY <1>0, <1>2
    <3>7. Coming(f, p, q.todo - 1 + c, at + n + a)
      BY <2>1, <3>1, <3>2, <3>3, <3>5, <3>6, ComingStays
    <3>8. at + n + a \in Nat /\ at + n + a >= p + (k + 1)
      BY <2>1
    <3>. QED  BY <3>4, <3>7, <3>8
  <2>. QED  BY <2>2, <2>3 DEF OpenAt, PassesElement
<1>. QED  BY <1>1, <1>2

(* mpack_discard passes over the element at p, with all that is in it.       *)
Discards(e, p) ==
    Inbound(e) /\ e.got = <<>> /\ (e.err = "ok" => At(e, ElementEnd(p)) /\ ElementEnd(p) \in Nat)

(* After as many turns as the stream has bytes none is open.                 *)
LEMMA DiscardDiscards ==
  ASSUME SetupOK, NEW r, NEW p \in Nat, Sound(r, p)
  PROVE  Discards(Discard(r), p)
<1>. DEFINE full == Len(stream) + 1
            begin == [r |-> r, todo |-> 1]
            Is(f) == f = [k \in 0..full |-> IF k = 0 THEN begin ELSE Turn(f[k - 1])]
            after == CHOOSE f : Is(f)
            step == [k \in 1..full |-> [q \in Turns |-> Turn(q)]]
<1>0. full \in Nat /\ Len(stream) \in Nat /\ full = Behind /\ full = Len(stream) + 1
  BY StreamBytes DEF Behind
<1>1. Discard(r) = [after[full].r EXCEPT !.got = <<>>]
  BY DEF Discard, Turn, Element, Inner
<1>. HIDE DEF full
<1>2. begin \in Turns /\ r \in Readers
  <2>1. r \in Readers
    BY DEF Sound, Inbound
  <2>. QED  BY <2>1 DEF Turns
<1>3. \E f : Is(f)
  <2>1. step \in [1..full -> [Turns -> Turns]]
    <3>. HIDE DEF Turns
    <3>. QED  BY TurnStays
  <2>2. PICK f \in [0..full -> Turns] : Follows(f, full, begin, step)
    <3>. HIDE DEF step, begin, Turns
    <3>. QED  BY <1>0, <1>2, <2>1, RecursiveFunction
  <2>. HIDE DEF Turns
  <2>3. ASSUME NEW k \in 0..full PROVE f[k] = IF k = 0 THEN begin ELSE Turn(f[k - 1])
    <3>. HIDE DEF begin
    <3>1. CASE k = 0
      BY <2>2, <3>1 DEF Follows
    <3>2. CASE k # 0
      <4>1. PICK j \in 0..full - 1 : k = j + 1 /\ k - 1 = j /\ j + 1 \in 1..full /\ j \in 0..full
        BY <1>0, <3>2
      <4>2. f[j + 1] = step[j + 1][f[j]] /\ f[j] \in Turns
        <5>. HIDE DEF step
        <5>. QED  BY <2>2, <4>1 DEF Follows
      <4>. QED  BY <3>2, <4>1, <4>2
    <3>. QED  BY <3>1, <3>2
  <2>. QED  BY <2>2, <2>3
<1>4. Is(after)
  <2>. HIDE DEF Is
  <2>. QED  BY <1>3
<1>. HIDE DEF after
<1>5. \A k \in 0..full : after[k] = IF k = 0 THEN begin ELSE Turn(after[k - 1])
  BY <1>4
<1>6. PICK f : /\ \A i, k \in Upto : f[<<i, k>>] = EndOf(f, i, k)
               /\ \A x : ElementEnd(x) = f[<<x, 1>>]
  BY ElementEnds
<1>7. OpenAt(f, begin, p, 0)
  <2>1. begin.r = r /\ begin.todo = 1
    OBVIOUS
  <2>2. 1 \in Upto
    BY <1>0 DEF Upto
  <2>3. Coming(f, p, 1, p)
    BY <2>2 DEF Coming
  <2>4. p >= p + 0
    OBVIOUS
  <2>. HIDE DEF begin
  <2>. QED  BY <1>2, <2>1, <2>3, <2>4 DEF OpenAt, Sound
<1>8. OpenAt(f, after[full], p, full)
  <2>. DEFINE T == {k \in 0..full : OpenAt(f, after[k], p, k)}
  <2>1. 0 \in T
    <3>1. after[0] = begin /\ 0 \in 0..full
      BY <1>0, <1>5
    <3>. HIDE DEF begin
    <3>. QED  BY <1>7, <3>1
  <2>2. ASSUME NEW k \in 0..full - 1, k \in T PROVE k + 1 \in T
    <3>1. k + 1 \in 0..full /\ k + 1 # 0 /\ k + 1 - 1 = k /\ k \in Nat
      BY <1>0
    <3>2. after[k + 1] = Turn(after[k])
      <4>. HIDE DEF begin
      <4>. QED  BY <1>5, <3>1
    <3>3. OpenAt(f, after[k], p, k)
      BY <2>2
    <3>4. OpenAt(f, Turn(after[k]), p, k + 1)
      BY <1>6, <3>1, <3>3, TurnStaysOpen
    <3>. QED  BY <3>1, <3>2, <3>4
  <2>3. 0..full \subseteq T
    <3>. HIDE DEF T
    <3>. QED  BY <1>0, <2>1, <2>2, InductionUpTo
  <2>4. full \in 0..full
    BY <1>0
  <2>. QED  BY <2>3, <2>4
<1>9. PICK q : q = after[full] /\ OpenAt(f, q, p, full)
  BY <1>8
<1>10. PICK e : e = [q.r EXCEPT !.got = <<>>] /\ Discard(r) = e
  BY <1>1, <1>9
<1>11. Inbound(q.r) /\ q.r \in Readers
  BY <1>9 DEF OpenAt, Inbound
<1>12. /\ e \in Readers /\ e.data = q.r.data /\ e.end = q.r.end /\ e.mem = q.r.mem /\ e.src = q.r.src
       /\ e.edge = q.r.edge /\ e.err = q.r.err /\ e.got = <<>>
  <2>1. <<>> \in Seq(Int)
    OBVIOUS
  <2>. QED  BY <1>10, <1>11, <2>1 DEF Readers
<1>13. Inbound(e)
  BY <1>11, <1>12 DEF Inbound
<1>14. ASSUME e.err = "ok" PROVE At(e, ElementEnd(p)) /\ ElementEnd(p) \in Nat
  <2>1. PICK at \in Nat : /\ At(q.r, at) /\ Coming(f, p, q.todo, at)
                          /\ q.todo = 0 \/ at >= p + full
    BY <1>9, <1>12, <1>14 DEF OpenAt
  <2>2. at <= Len(stream)
    <3>1. 0 \in Nat /\ 0 <= InBuffer(q.r)
      BY <1>11, EmptiedWindow
    <3>2. at + 0 <= Len(stream)
      BY <1>11, <2>1, <3>1, InStream
    <3>. QED  BY <3>2
  <2>3. q.todo = 0
    BY <1>0, <2>1, <2>2
  <2>4. f[<<at, 0>>] = f[<<p, 1>>]
    <3>1. ~(0 > Len(stream) - at)
      BY <1>0, <2>2
    <3>. QED  BY <2>1, <2>3, <3>1 DEF Coming
  <2>5. f[<<at, 0>>] = at
    <3>1. at \in Upto /\ 0 \in Upto
      BY <1>0, <2>2 DEF Upto
    <3>2. f[<<at, 0>>] = EndOf(f, at, 0)
      BY <1>6, <3>1
    <3>. QED  BY <3>2 DEF EndOf
  <2>6. ElementEnd(p) = at
    BY <1>6, <2>4, <2>5
  <2>7. At(e, at)
    BY <1>12, <2>1 DEF At
  <2>. QED  BY <2>6, <2>7
<1>. QED  BY <1>10, <1>12, <1>13, <1>14 DEF Discards

-----------------------------------------------------------------------------
(* The inductive invariant: besides what ReaderInv says, what a reader was   *)
(* set up with is well formed, its buffer is as long as it was said to be,   *)
(* and a call has not been asked for less than no bytes.                     *)
ReaderIInv ==
    /\ SetupOK
    /\ \A c \in Nat \ {0} : Inbound(Reader(c))
    /\ pos \in Nat /\ left \in Nat
    /\ WindowFollowsStream /\ GivesNextBytes

(* The reader of a call is the state.                                        *)
LEMMA ReaderIs ==
  ASSUME NEW c
  PROVE  /\ Reader(c).mem = mem /\ Reader(c).data = data /\ Reader(c).end = end /\ Reader(c).src = src
         /\ Reader(c).err = err /\ Reader(c).edge = edge /\ Reader(c).chunk = c /\ Reader(c).got = <<>>
  BY DEF Reader

(* WindowFollowsStream says that the reader is at pos.                       *)
LEMMA WindowIsAt ==
  ASSUME NEW c
  PROVE  WindowFollowsStream <=> (err = "ok" => At(Reader(c), pos))
  BY ReaderIs, Zenon DEF WindowFollowsStream, At

(* A call begins with a sound reader.                                        *)
LEMMA ReaderIsSoundNow ==
  ASSUME ReaderIInv, NEW c \in Chunks
  PROVE  Sound(Reader(c), pos) /\ Reader(c).got = <<>> /\ c \in Nat \ {0} /\ pos \in Nat
<1>1. c \in Nat \ {0}
  BY ReaderAssumption
<1>2. Inbound(Reader(c)) /\ WindowFollowsStream /\ pos \in Nat
  BY <1>1 DEF ReaderIInv
<1>. QED  BY <1>1, <1>2, WindowIsAt, ReaderIs, Zenon DEF Sound

(* What is strengthened implies what is promised.                            *)
LEMMA ReaderInvHolds ==
  ASSUME ReaderIInv
  PROVE  ReaderInv
<1>1. Inbound(Reader(1)) /\ SetupOK
  BY DEF ReaderIInv
<1>2. PICK r : r = Reader(1)
  OBVIOUS
<1>3. /\ r.mem = mem /\ r.data = data /\ r.end = end /\ r.src = src /\ r.err = err /\ r.edge = edge
  BY <1>2, ReaderIs
<1>4. r \in Readers
  BY <1>1, <1>2 DEF Inbound
<1>5. /\ err \in Errors /\ data \in Nat /\ src \in Nat /\ Len(stream) \in Nat
  BY <1>1, <1>3, <1>4 DEF Readers, SetupOK
<1>6. data <= end /\ end <= Len(mem) /\ src <= Len(stream) /\ edge <= size
  BY <1>1, <1>2, <1>3 DEF Inbound
<1>7. ReaderTypeOK
  BY <1>1, <1>5, <1>6 DEF ReaderTypeOK, Errors, SetupOK
<1>. QED  BY <1>6, <1>7 DEF ReaderIInv, ReaderInv, FillsInsideBuffer

(* The state becomes that of the reader an operation leaves.                 *)
LEMMA BecomesInbound ==
  ASSUME UNCHANGED setup, NEW e, Becomes(e), Inbound(e), NEW c \in Nat \ {0}
  PROVE  Inbound(Reader(c))' /\ err' = e.err /\ \A p : At(e, p) => At(Reader(c), p)'
<1>1. PICK f : f = Reader(c)'
  OBVIOUS
<1>2. f = [mem |-> e.mem, data |-> e.data, end |-> e.end, src |-> e.src, err |-> e.err,
           edge |-> e.edge, chunk |-> c, got |-> <<>>]
  BY <1>1 DEF Becomes, Reader
<1>3. e \in Readers /\ <<>> \in Seq(Int)
  BY DEF Inbound
<1>4. /\ f \in Readers /\ f.mem = e.mem /\ f.data = e.data /\ f.end = e.end /\ f.src = e.src
      /\ f.err = e.err /\ f.edge = e.edge
  BY <1>2, <1>3 DEF Readers
<1>5. Inbound(f)
  BY <1>4 DEF Inbound
<1>6. Inbound(Reader(c))'
  BY <1>1, <1>4, <1>5 DEF Inbound, setup
<1>7. \A p : At(e, p) => At(f, p)
  BY <1>4 DEF At
<1>. QED  BY <1>1, <1>6, <1>7 DEF Becomes, At

(* No call changes what the reader was set up with.                          *)
LEMMA SetupStays ==
  ASSUME SetupOK, UNCHANGED setup
  PROVE  SetupOK'
  BY DEF SetupOK, setup

(* A call gives what stands at place p, or flags an error.                   *)
Answers(e, call, p, to) ==
    /\ Inbound(e)
    /\ e.err = "ok" =>
          LET text == IF call = "cstr" THEN Text(e) ELSE e.got
          IN  At(e, to) /\ to \in Nat /\ text = Places(p, Len(text))

(* A call that answers keeps the invariant.                                  *)
LEMMA AskedKeeps ==
  ASSUME ReaderIInv, NEW call, NEW to, NEW e, Asks(call, to, e), Answers(e, call, pos, to),
         left' \in Nat
  PROVE  ReaderIInv'
<1>1. Becomes(e) /\ UNCHANGED setup /\ Inbound(e)
  BY DEF Asks, Answers
<1>2. SetupOK'
  BY <1>1, SetupStays DEF ReaderIInv
<1>3. \A c \in Nat \ {0} : Inbound(Reader(c))'
  BY <1>1, BecomesInbound
<1>4. err' = e.err
  BY <1>1 DEF Becomes
<1>5. last' = [call |-> call, from |-> pos, to |-> to, got |-> e.got]
  BY DEF Asks
<1>6. CASE e.err # "ok"
  <2>1. pos' = pos /\ pos' \in Nat
    BY <1>6 DEF Asks, ReaderIInv
  <2>2. WindowFollowsStream' /\ GivesNextBytes'
    BY <1>4, <1>6 DEF WindowFollowsStream, GivesNextBytes
  <2>. QED  BY <1>2, <1>3, <2>1, <2>2 DEF ReaderIInv
<1>7. CASE e.err = "ok"
  <2>1. pos' = to /\ to \in Nat /\ At(e, to)
    BY <1>7 DEF Asks, Answers
  <2>2. WindowFollowsStream'
    <3>1. At(Reader(1), to)'
      BY <1>1, <2>1, BecomesInbound
    <3>. QED  BY <1>1, <2>1 DEF At, Becomes, WindowFollowsStream
  <2>3. GivesNextBytes'
    <3>1. last'.call = call /\ last'.from = pos /\ last'.got = e.got
      BY <1>5
    <3>2. Text(last') = Text(e)
      BY <3>1 DEF Text
    <3>3. PICK text : text = IF call = "cstr" THEN Text(e) ELSE e.got
      OBVIOUS
    <3>4. text = Places(pos, Len(text))
      BY <1>7, <3>3 DEF Answers
    <3>5. (IF last'.call = "cstr" THEN Text(last') ELSE last'.got) = text
      BY <3>1, <3>2, <3>3
    <3>. QED  BY <3>1, <3>4, <3>5 DEF GivesNextBytes
  <2>. QED  BY <1>2, <1>3, <2>1, <2>2, <2>3 DEF ReaderIInv
<1>. QED  BY <1>6, <1>7

(* A call that reads answers.                                                *)
LEMMA ReadsAnswers ==
  ASSUME NEW e, NEW p \in Nat, NEW n \in Nat, ReadsAt(e, p, n), NEW call, call # "cstr"
  PROVE  Answers(e, call, p, p + n)
<1>1. Inbound(e) /\ (e.err = "ok" => At(e, p + n) /\ e.got = Places(p, n))
  BY DEF ReadsAt, Sound
<1>2. Len(Places(p, n)) = n /\ p + n \in Nat
  BY PlacesAre
<1>. QED  BY <1>1, <1>2 DEF Answers

(* mpack_read_tag                                                            *)
LEMMA NextTagKeeps ==
  ASSUME ReaderIInv, NEW c \in Chunks, ReadNextTag(c)
  PROVE  ReaderIInv'
<1>1. PICK e : e = ReadTagBytes(Reader(c)) /\ ReadsTag(e, pos)
  BY ReaderIsSoundNow, ReadTagReads DEF ReaderIInv
<1>2. /\ Asks("tag", TagEnd(pos), e)
      /\ left' = IF e.err = "ok" THEN Payload(ParseTag(Bytes(e.got))) ELSE 0
  BY <1>1 DEF ReadNextTag, TagRead
<1>3. CASE e.err # "ok"
  <2>1. Answers(e, "tag", pos, TagEnd(pos))
    BY <1>1, <1>3 DEF Answers, ReadsTag
  <2>2. left' \in Nat
    BY <1>2, <1>3
  <2>. QED  BY <1>2, <2>1, <2>2, AskedKeeps
<1>4. CASE e.err = "ok"
  <2>1. SetupOK /\ pos \in Nat
    BY DEF ReaderIInv
  <2>2. PICK n \in Nat \ {0} : WholeTag(pos, n) /\ ReadsAt(e, pos, n)
    BY <1>1, <1>4 DEF ReadsTag
  <2>3. TagEnd(pos) = pos + n
    BY <2>1, <2>2, TagEndIs
  <2>4. Answers(e, "tag", pos, pos + n)
    BY <2>1, <2>2, ReadsAnswers
  <2>5. e.got = Places(pos, n)
    BY <1>4, <2>2 DEF ReadsAt
  <2>6. Worded(ParseTag(Bytes(Places(pos, n))))
    BY <2>1, <2>2, ParsedTag
  <2>7. left' \in Nat
    BY <1>2, <1>4, <2>5, <2>6, PayloadIs
  <2>. QED  BY <1>2, <2>3, <2>4, <2>7, AskedKeeps
<1>. QED  BY <1>3, <1>4

(* mpack_peek_tag                                                            *)
LEMMA PeekKeeps ==
  ASSUME ReaderIInv, NEW c \in Chunks, PeekTag(c)
  PROVE  ReaderIInv'
<1>1. PICK e : e = PeekTagBytes(Reader(c)) /\ ShowsTag(e, pos)
  BY ReaderIsSoundNow, PeekTagShows DEF ReaderIInv
<1>2. /\ Becomes(e) /\ UNCHANGED setup /\ pos' = pos /\ left' = left
      /\ last' = [call |-> "peek", from |-> pos, to |-> TagEnd(pos), got |-> e.got]
  BY <1>1 DEF PeekTag, TagPeeked, Plain
<1>3. Sound(e, pos) /\ Inbound(e) /\ pos \in Nat /\ left \in Nat
  BY <1>1 DEF ShowsTag, Sound, ReaderIInv
<1>4. SetupOK'
  BY <1>2, SetupStays DEF ReaderIInv
<1>5. \A x \in Nat \ {0} : Inbound(Reader(x))'
  BY <1>2, <1>3, BecomesInbound
<1>6. WindowFollowsStream'
  BY <1>2, <1>3 DEF Sound, At, Becomes, WindowFollowsStream
<1>7. GivesNextBytes'
  <2>1. last'.call = "peek" /\ last'.from = pos /\ last'.got = e.got
    BY <1>2
  <2>2. CASE e.err # "ok"
    BY <1>2, <2>2 DEF GivesNextBytes, Becomes
  <2>3. CASE e.err = "ok"
    <3>1. PICK n \in Nat \ {0} : e.got = Places(pos, n)
      BY <1>1, <2>3 DEF ShowsTag, Shows
    <3>2. Len(Places(pos, n)) = n
      BY <1>3, PlacesAre
    <3>. QED  BY <2>1, <3>1, <3>2 DEF GivesNextBytes
  <2>. QED  BY <2>2, <2>3
<1>. QED  BY <1>2, <1>3, <1>4, <1>5, <1>6, <1>7 DEF ReaderIInv

(* A call that hands out nothing answers.                                    *)
LEMMA NothingAnswers ==
  ASSUME NEW e, NEW p \in Nat, NEW to, Inbound(e), NEW call, call # "cstr",
         e.err = "ok" => At(e, to) /\ to \in Nat /\ e.got = <<>>
  PROVE  Answers(e, call, p, to)
<1>1. Places(p, 0) = <<>> /\ Len(<<>>) = 0
  BY DEF Places
<1>. QED  BY <1>1 DEF Answers

(* mpack_discard                                                             *)
LEMMA DiscardKeeps ==
  ASSUME ReaderIInv, NEW c \in Chunks, DiscardElement(c)
  PROVE  ReaderIInv'
<1>0. SetupOK /\ pos \in Nat /\ left \in Nat
  BY DEF ReaderIInv
<1>1. PICK e : e = Discard(Reader(c)) /\ Discards(e, pos)
  BY <1>0, ReaderIsSoundNow, DiscardDiscards
<1>2. Answers(e, "discard", pos, ElementEnd(pos))
  <2>1. Inbound(e) /\ (e.err = "ok" => At(e, ElementEnd(pos)) /\ ElementEnd(pos) \in Nat /\ e.got = <<>>)
    BY <1>1 DEF Discards
  <2>. QED  BY <1>0, <2>1, NothingAnswers
<1>3. Asks("discard", ElementEnd(pos), e) /\ left' \in Nat
  BY <1>0, <1>1 DEF DiscardElement, Plain
<1>. QED  BY <1>2, <1>3, AskedKeeps

(* A part of an open string leaves a rest.                                   *)
LEMMA InsideLeft ==
  ASSUME ReaderIInv, NEW n \in Nat, Inside(n)
  PROVE  left' \in Nat
  BY DEF ReaderIInv, Inside

(* mpack_skip_bytes                                                          *)
LEMMA SkipKeeps ==
  ASSUME ReaderIInv, NEW c \in Chunks, NEW n \in Nat, SkipSome(c, n)
  PROVE  ReaderIInv'
<1>0. SetupOK /\ pos \in Nat /\ left' \in Nat
  BY InsideLeft DEF ReaderIInv, SkipSome
<1>1. PICK e : e = SkipBytes(Reader(c), n) /\ Skips(Reader(c), e, pos, n)
  BY <1>0, ReaderIsSoundNow, SkipBytesSkips
<1>2. Answers(e, "skip", pos, pos + n)
  <2>1. Inbound(e) /\ (e.err = "ok" => At(e, pos + n) /\ pos + n \in Nat /\ e.got = <<>>)
    BY <1>0, <1>1, ReaderIs DEF Skips, Sound
  <2>. QED  BY <1>0, <2>1, NothingAnswers
<1>3. Asks("skip", pos + n, e)
  BY <1>1 DEF SkipSome
<1>. QED  BY <1>0, <1>2, <1>3, AskedKeeps

(* mpack_read_bytes                                                          *)
LEMMA ReadKeeps ==
  ASSUME ReaderIInv, NEW c \in Chunks, NEW n \in Nat, ReadBytes(c, n)
  PROVE  ReaderIInv'
<1>0. SetupOK /\ pos \in Nat /\ left' \in Nat
  BY InsideLeft DEF ReaderIInv, ReadBytes
<1>1. PICK e : e = ReadNative(Reader(c), n) /\ ReadsAt(e, pos, n)
  BY <1>0, ReaderIsSoundNow, ReadNativeReads
<1>2. Answers(e, "bytes", pos, pos + n)
  BY <1>0, <1>1, ReadsAnswers
<1>3. Asks("bytes", pos + n, e)
  BY <1>1 DEF ReadBytes
<1>. QED  BY <1>0, <1>2, <1>3, AskedKeeps

(* mpack_read_bytes_inplace                                                  *)
LEMMA InplaceKeeps ==
  ASSUME ReaderIInv, NEW c \in Chunks, NEW n \in Nat, ReadBytesInplace(c, n)
  PROVE  ReaderIInv'
<1>0. SetupOK /\ pos \in Nat /\ left' \in Nat
  BY InsideLeft DEF ReaderIInv, ReadBytesInplace
<1>1. PICK e : e = ReadInplace(Reader(c), n) /\ ReadsAt(e, pos, n)
  BY <1>0, ReaderIsSoundNow, ReadInplaceReads
<1>2. Answers(e, "inplace", pos, pos + n)
  BY <1>0, <1>1, ReadsAnswers
<1>3. Asks("inplace", pos + n, e)
  BY <1>1 DEF ReadBytesInplace
<1>. QED  BY <1>0, <1>2, <1>3, AskedKeeps

-----------------------------------------------------------------------------
(* An error is flagged, and what is handed out is replaced.                  *)
Replaced(r, code, g, e) == e = [FlagError(r, code) EXCEPT !.got = g]

(* The reader is as sound as it was, with an error.                          *)
LEMMA RefusedIs ==
  ASSUME NEW r, Inbound(r), NEW code \in Errors \ {"ok"}, NEW g \in Seq(Int),
         NEW e, Replaced(r, code, g, e)
  PROVE  Inbound(e) /\ e.err # "ok"
<1>1. PICK f : f = FlagError(r, code) /\ Inbound(f) /\ f.err # "ok" /\ f \in Readers
  BY FlagErrorKeeps DEF Inbound
<1>2. e = [f EXCEPT !.got = g]
  BY <1>1 DEF Replaced
<1>3. /\ e \in Readers /\ e.data = f.data /\ e.end = f.end /\ e.mem = f.mem /\ e.src = f.src
      /\ e.edge = f.edge /\ e.err = f.err
  BY <1>1, <1>2 DEF Readers
<1>4. Inbound(e)
  BY <1>1, <1>3 DEF Inbound
<1>. QED  BY <1>1, <1>3, <1>4

(* A text that is refused is an error as well.                               *)
LEMMA CheckedReads ==
  ASSUME NEW r, NEW p \in Nat, NEW n \in Nat, ReadsAt(r, p, n), NEW g \in Seq(Int)
  PROVE  ReadsAt(CheckUtf8(r, g), p, n)
<1>1. PICK e : e = CheckUtf8(r, g) /\ (e = r \/ Replaced(r, "type", g, e))
  BY DEF CheckUtf8, Replaced
<1>2. CASE Replaced(r, "type", g, e)
  <2>1. "type" \in Errors \ {"ok"} /\ Inbound(r)
    BY DEF Errors, ReadsAt, Sound
  <2>2. Inbound(e) /\ e.err # "ok"
    BY <1>2, <2>1, RefusedIs
  <2>. QED  BY <1>1, <2>2 DEF ReadsAt, Sound
<1>. QED  BY <1>1, <1>2

(* A call that takes the rest of the string keeps the invariant.             *)
LEMMA TextKeeps ==
  ASSUME ReaderIInv, NEW call, NEW e, AsksForText(call, e), Answers(e, call, pos, pos + left)
  PROVE  ReaderIInv'
<1>1. Asks(call, pos + left, e) /\ left' \in Nat
  BY DEF AsksForText
<1>. QED  BY <1>1, AskedKeeps

(* mpack_read_utf8                                                           *)
LEMMA Utf8Keeps ==
  ASSUME ReaderIInv, NEW c \in Chunks, ReadUtf8(c)
  PROVE  ReaderIInv'
<1>0. SetupOK /\ pos \in Nat /\ left \in Nat
  BY DEF ReaderIInv
<1>1. PICK r : r = ReadNative(Reader(c), left) /\ ReadsAt(r, pos, left)
  BY <1>0, ReaderIsSoundNow, ReadNativeReads
<1>2. r.got \in Seq(Int)
  BY <1>1 DEF ReadsAt, Sound, Inbound, Readers
<1>3. PICK e : e = CheckUtf8(r, r.got) /\ ReadsAt(e, pos, left)
  BY <1>0, <1>1, <1>2, CheckedReads
<1>4. Answers(e, "utf8", pos, pos + left)
  BY <1>0, <1>3, ReadsAnswers
<1>5. AsksForText("utf8", e)
  BY <1>1, <1>3 DEF ReadUtf8, KeepUtf8
<1>. QED  BY <1>4, <1>5, TextKeeps

(* mpack_read_utf8_inplace                                                   *)
LEMMA Utf8InplaceKeeps ==
  ASSUME ReaderIInv, NEW c \in Chunks, ReadUtf8Inplace(c)
  PROVE  ReaderIInv'
<1>0. SetupOK /\ pos \in Nat /\ left \in Nat
  BY DEF ReaderIInv
<1>1. PICK r : r = ReadInplace(Reader(c), left) /\ ReadsAt(r, pos, left)
  BY <1>0, ReaderIsSoundNow, ReadInplaceReads
<1>2. <<>> \in Seq(Int)
  OBVIOUS
<1>3. PICK e : e = CheckUtf8(r, <<>>) /\ ReadsAt(e, pos, left)
  BY <1>0, <1>1, <1>2, CheckedReads
<1>4. Answers(e, "inplace", pos, pos + left)
  BY <1>0, <1>3, ReadsAnswers
<1>5. AsksForText("inplace", e)
  BY <1>1, <1>3 DEF ReadUtf8Inplace
<1>. QED  BY <1>4, <1>5, TextKeeps

(* A C string is the text with a terminator behind it.                       *)
LEMMA TextIs ==
  ASSUME NEW g \in Seq(Int)
  PROVE  /\ g \o <<NUL>> \in Seq(Int)
         /\ SubSeq(g \o <<NUL>>, 1, Len(g \o <<NUL>>) - 1) = g
<1>1. PICK z \in Seq(Int) : z = <<NUL>> /\ Len(z) = 1
  <2>1. NUL \in Int
    BY DEF NUL
  <2>2. <<NUL>> \in Seq(Int) /\ Len(<<NUL>>) = 1
    BY <2>1
  <2>. QED  BY <2>2
<1>2. PICK s : s = g \o z
  OBVIOUS
<1>3. /\ s \in Seq(Int) /\ Len(s) = Len(g) + 1
      /\ \A i \in 1..Len(g) + Len(z) : s[i] = IF i <= Len(g) THEN g[i] ELSE z[i - Len(g)]
  BY <1>1, <1>2, ConcatProperties
<1>4. PICK n \in Nat : n = Len(g)
  OBVIOUS
<1>5. PICK t : t = SubSeq(s, 1, n)
  OBVIOUS
<1>6. t \in Seq(Int) /\ Len(t) = n /\ \A i \in 1..n : t[i] = s[i]
  <2>1. n \in 0..Len(s) /\ 1 \in 1..Len(s) + 1
    BY <1>3, <1>4
  <2>2. \A i \in 1..n : s[i] \in Int
    BY <1>3, <1>4
  <2>. QED  BY <1>3, <1>4, <1>5, <2>1, <2>2, SubSeqProperties
<1>7. \A i \in 1..n : s[i] = g[i]
  BY <1>1, <1>3, <1>4
<1>8. t = g
  <2>1. g = [i \in 1..n |-> g[i]] /\ t = [i \in 1..n |-> t[i]]
    BY <1>4, <1>6
  <2>. QED  BY <1>6, <1>7, <2>1
<1>. QED  BY <1>1, <1>2, <1>3, <1>4, <1>5, <1>8

Terminates(e, p, n) ==
    Sound(e, p + n) /\ (e.err = "ok" => Text(e) = Places(p, n))

(* mpack_read_cstr_unchecked gives the text with its terminator.             *)
LEMMA TerminatedReads ==
  ASSUME SetupOK, NEW r, NEW p \in Nat, Sound(r, p), NEW n \in Nat, NEW room \in Nat
  PROVE  Terminates(ReadTerminated(r, n, room), p, n)
<1>0. <<NUL>> \in Seq(Int) /\ Inbound(r) /\ r \in Readers
  BY DEF NUL, Sound, Inbound
<1>1. CASE r.err # "ok"
  <2>1. PICK e : e = [r EXCEPT !.got = <<NUL>>] /\ e = ReadTerminated(r, n, room)
    BY <1>1 DEF ReadTerminated
  <2>2. /\ e \in Readers /\ e.data = r.data /\ e.end = r.end /\ e.mem = r.mem /\ e.src = r.src
        /\ e.edge = r.edge /\ e.err = r.err
    BY <1>0, <2>1 DEF Readers
  <2>3. Inbound(e)
    BY <1>0, <2>2 DEF Inbound
  <2>. QED  BY <1>1, <2>1, <2>2, <2>3 DEF Terminates, Sound
<1>2. CASE r.err = "ok" /\ n > room - 1
  <2>1. PICK e : e = ReadTerminated(r, n, room) /\ Replaced(r, "too_big", <<NUL>>, e)
    BY <1>2 DEF ReadTerminated, Replaced
  <2>2. "too_big" \in Errors \ {"ok"}
    BY DEF Errors
  <2>3. Inbound(e) /\ e.err # "ok"
    BY <1>0, <2>1, <2>2, RefusedIs
  <2>. QED  BY <2>1, <2>3 DEF Terminates, Sound
<1>3. CASE r.err = "ok" /\ ~(n > room - 1)
  <2>1. PICK t : t = ReadNative(r, n) /\ ReadsAt(t, p, n)
    BY ReadNativeReads
  <2>2. PICK g \in Seq(Int) : g = t.got
    BY <2>1 DEF ReadsAt, Sound, Inbound, Readers
  <2>3. PICK h \in Seq(Int) : h = g \o <<NUL>>
    BY TextIs
  <2>4. PICK e : e = [t EXCEPT !.got = h]
    OBVIOUS
  <2>5. ReadTerminated(r, n, room) = e
    BY <1>3, <2>1, <2>2, <2>3, <2>4 DEF ReadTerminated, Terminate
  <2>6. t \in Readers /\ Sound(t, p + n) /\ Inbound(t)
    BY <2>1 DEF ReadsAt, Sound, Inbound
  <2>7. /\ e \in Readers /\ e.data = t.data /\ e.end = t.end /\ e.mem = t.mem /\ e.src = t.src
        /\ e.edge = t.edge /\ e.err = t.err /\ e.got = h
    BY <2>4, <2>6 DEF Readers
  <2>8. Inbound(e) /\ (At(t, p + n) => At(e, p + n))
    BY <2>6, <2>7 DEF Inbound, At
  <2>9. Text(e) = g
    <3>1. SubSeq(h, 1, Len(h) - 1) = g
      BY <2>3, TextIs
    <3>. QED  BY <2>7, <3>1 DEF Text
  <2>. QED  BY <2>1, <2>2, <2>5, <2>6, <2>7, <2>8, <2>9 DEF Terminates, Sound, ReadsAt
<1>. QED  BY <1>1, <1>2, <1>3

(* What mpack_read_cstr and mpack_read_utf8_cstr make of it.                 *)
Accepted(r, e) == e = r \/ Replaced(r, "type", <<NUL>>, e)

(* Text that is accepted is what stands in the stream.                       *)
LEMMA AcceptedAnswers ==
  ASSUME NEW r, NEW p \in Nat, NEW n \in Nat, Terminates(r, p, n), NEW e, Accepted(r, e)
  PROVE  Answers(e, "cstr", p, p + n)
<1>1. CASE e = r
  <2>1. Inbound(e) /\ (e.err = "ok" => At(e, p + n) /\ Text(e) = Places(p, n))
    BY <1>1 DEF Terminates, Sound
  <2>2. Len(Places(p, n)) = n /\ p + n \in Nat
    BY PlacesAre
  <2>. QED  BY <2>1, <2>2 DEF Answers
<1>2. CASE Replaced(r, "type", <<NUL>>, e)
  <2>1. "type" \in Errors \ {"ok"} /\ Inbound(r) /\ <<NUL>> \in Seq(Int)
    BY DEF Errors, Terminates, Sound, NUL
  <2>2. Inbound(e) /\ e.err # "ok"
    BY <1>2, <2>1, RefusedIs
  <2>. QED  BY <2>2 DEF Answers
<1>. QED  BY <1>1, <1>2 DEF Accepted

(* mpack_read_cstr and mpack_read_utf8_cstr                                  *)
LEMMA CstrKeeps ==
  ASSUME ReaderIInv, NEW c \in Chunks, NEW room \in TargetSizes,
         ReadCstr(c, room) \/ ReadUtf8Cstr(c, room)
  PROVE  ReaderIInv'
<1>0. SetupOK /\ pos \in Nat /\ left \in Nat /\ room \in Nat
  BY ReaderAssumption DEF ReaderIInv
<1>1. PICK r : r = ReadTerminated(Reader(c), left, room) /\ Terminates(r, pos, left)
  BY <1>0, ReaderIsSoundNow, TerminatedReads
<1>2. PICK e : Accepted(r, e) /\ AsksForText("cstr", e)
  <2>1. Accepted(r, Accept(r, NoNull)) /\ Accepted(r, Accept(r, CheckNoNull))
    BY DEF Accept, Accepted, Replaced
  <2>2. AsksForText("cstr", Accept(r, NoNull)) \/ AsksForText("cstr", Accept(r, CheckNoNull))
    BY <1>1 DEF ReadCstr, ReadUtf8Cstr
  <2>. QED  BY <2>1, <2>2
<1>3. Answers(e, "cstr", pos, pos + left)
  BY <1>0, <1>1, <1>2, AcceptedAnswers
<1>. QED  BY <1>2, <1>3, TextKeeps

-----------------------------------------------------------------------------
(* What does not touch the buffer.                                           *)
LEMMA StaysInbound ==
  ASSUME ReaderIInv, UNCHANGED <<stream, size, mem, data, end, src, err, edge, pos>>, NEW c \in Nat \ {0}
  PROVE  Inbound(Reader(c))' /\ WindowFollowsStream'
<1>1. Inbound(Reader(c)) /\ WindowFollowsStream
  BY DEF ReaderIInv
<1>2. Reader(c)' = Reader(c)
  BY DEF Reader
<1>3. PICK r : r = Reader(c) /\ r = Reader(c)' /\ Inbound(r)
  BY <1>1, <1>2
<1>4. Inbound(Reader(c))'
  BY <1>3 DEF Inbound
<1>. QED  BY <1>1, <1>4 DEF WindowFollowsStream

(* mpack_reader_remaining                                                    *)
LEMMA RemainingKeeps ==
  ASSUME ReaderIInv, Remaining
  PROVE  ReaderIInv'
<1>1. UNCHANGED <<stream, size, fill, skip, mem, data, end, src, err, edge, pos, left>>
  BY DEF Remaining, setup
<1>2. SetupOK' /\ pos' \in Nat /\ left' \in Nat
  BY <1>1 DEF ReaderIInv, SetupOK
<1>3. (\A c \in Nat \ {0} : Inbound(Reader(c))') /\ WindowFollowsStream'
  BY <1>1, StaysInbound
<1>4. GivesNextBytes'
  <2>1. CASE err # "ok"
    BY <1>1, <2>1 DEF GivesNextBytes
  <2>2. CASE err = "ok"
    <3>1. last'.call = "remaining" /\ last'.from = pos /\ last'.got = SubSeq(mem, data + 1, end)
      BY <2>2 DEF Remaining
    <3>2. Inbound(Reader(1)) /\ At(Reader(1), pos) /\ pos \in Nat
      BY <2>2, WindowIsAt DEF ReaderIInv
    <3>3. PICK r : r = Reader(1) /\ r.mem = mem /\ r.data = data /\ r.end = end
      BY ReaderIs
    <3>4. PICK n \in Nat : n = InBuffer(r) /\ n = end - data
      BY <3>2, <3>3, EmptiedWindow DEF InBuffer
    <3>5. Window(r, n) = Places(pos, n)
      BY <3>2, <3>3, <3>4, WindowIs
    <3>6. data + n = end
      <4>1. data \in Nat /\ end \in Nat
        BY <3>2, <3>3 DEF Inbound, Readers
      <4>. QED  BY <3>4, <4>1
    <3>7. last'.got = Places(pos, n)
      BY <3>1, <3>3, <3>5, <3>6 DEF Window
    <3>8. Len(Places(pos, n)) = n
      BY <3>2, PlacesAre
    <3>. QED  BY <3>1, <3>7, <3>8 DEF GivesNextBytes
  <2>. QED  BY <2>1, <2>2
<1>. QED  BY <1>2, <1>3, <1>4 DEF ReaderIInv

(* mpack_reader_set_fill                                                     *)
LEMMA SetFillKeeps ==
  ASSUME ReaderIInv, SetFill
  PROVE  ReaderIInv'
<1>0. /\ UNCHANGED <<stream, size, skip, pos, left, last>>
      /\ SetupOK /\ pos' \in Nat /\ left' \in Nat
  BY DEF SetFill, ReaderIInv
<1>1. CASE size < MinimumSize
  <2>1. PICK e : e = FlagError(Reader(1), "bug") /\ Becomes(e) /\ UNCHANGED fill
    BY <1>1 DEF SetFill
  <2>2. Inbound(e) /\ e.err # "ok"
    <3>1. "bug" \in Errors \ {"ok"} /\ Inbound(Reader(1))
      BY DEF Errors, ReaderIInv
    <3>. QED  BY <2>1, <3>1, FlagErrorKeeps
  <2>3. UNCHANGED setup
    BY <1>0, <2>1 DEF setup
  <2>4. \A c \in Nat \ {0} : Inbound(Reader(c))'
    BY <2>1, <2>2, <2>3, BecomesInbound
  <2>5. WindowFollowsStream' /\ GivesNextBytes'
    BY <2>1, <2>2 DEF Becomes, WindowFollowsStream, GivesNextBytes
  <2>6. SetupOK'
    BY <1>0, <2>3, SetupStays
  <2>. QED  BY <1>0, <2>4, <2>5, <2>6 DEF ReaderIInv
<1>2. CASE ~(size < MinimumSize)
  <2>1. fill' = TRUE /\ UNCHANGED <<mem, data, end, src, err, edge>>
    BY <1>2 DEF SetFill
  <2>2. size > 0
    BY <1>0, <1>2, ReaderAssumption DEF SetupOK
  <2>3. SetupOK'
    BY <1>0, <2>1, <2>2 DEF SetupOK
  <2>4. (\A c \in Nat \ {0} : Inbound(Reader(c))') /\ WindowFollowsStream'
    BY <1>0, <2>1, StaysInbound
  <2>5. GivesNextBytes'
    BY <1>0, <2>1 DEF ReaderIInv, GivesNextBytes, Text
  <2>. QED  BY <1>0, <2>3, <2>4, <2>5 DEF ReaderIInv
<1>. QED  BY <1>1, <1>2

(* mpack_reader_set_skip, and steps of others.                               *)
LEMMA QuietKeeps ==
  ASSUME ReaderIInv, SetSkip \/ UNCHANGED vars
  PROVE  ReaderIInv'
<1>1. UNCHANGED <<stream, size, fill, mem, data, end, src, err, edge, pos, left, last>>
      /\ skip' \in BOOLEAN
  BY DEF SetSkip, vars, setup, ReaderIInv, SetupOK
<1>2. SetupOK' /\ pos' \in Nat /\ left' \in Nat
  BY <1>1 DEF ReaderIInv, SetupOK
<1>3. (\A c \in Nat \ {0} : Inbound(Reader(c))') /\ WindowFollowsStream'
  BY <1>1, StaysInbound
<1>4. GivesNextBytes'
  BY <1>1 DEF ReaderIInv, GivesNextBytes, Text
<1>. QED  BY <1>2, <1>3, <1>4 DEF ReaderIInv

(* A reader begins with what it is given, or with an error.                  *)
LEMMA BeginsSound ==
  ASSUME Init
  PROVE  ReaderIInv
<1>0. /\ stream \in Seq(0..255) /\ src = end /\ data = 0 /\ edge = 0 /\ fill = FALSE /\ skip = FALSE
      /\ pos = 0 /\ left = 0 /\ last = [call |-> "none", from |-> 0, to |-> 0, got |-> <<>>]
  BY ReaderAssumption DEF Init
<1>1. PICK l \in Nat : l = Len(stream)
  BY <1>0
<1>2. /\ mem \in Seq(Int) /\ end \in Nat /\ end <= Len(mem) /\ end <= l /\ size \in Nat
      /\ size > 0 => Len(mem) = size
      /\ err \in {"ok", "io"}
      /\ err = "ok" => \A i \in 1..end : mem[i] = i
  <2>1. CASE InitData
    <3>1. mem = Places(0, l) /\ end = l /\ size = 0 /\ err = "ok" /\ 0 \in Nat
      BY <1>1, <2>1 DEF InitData
    <3>2. mem \in Seq(Int) /\ Len(mem) = l /\ \A i \in 1..l : mem[i] = 0 + i
      BY <3>1, PlacesAre
    <3>3. \A i \in 1..l : 0 + i = i
      OBVIOUS
    <3>. QED  BY <3>1, <3>2, <3>3
  <2>2. CASE InitBuffer
    <3>1. /\ size \in Nat \ {0} /\ err = "ok"
          /\ end \in {0, Least(size, Least(3, l))}
          /\ mem = [i \in 1..size |-> IF i <= end THEN i ELSE Junk]
      BY <1>1, <2>2, ReaderAssumption DEF InitBuffer
    <3>2. end \in Nat /\ end <= size /\ end <= l
      BY <3>1 DEF Least
    <3>3. mem \in Seq(Int) /\ Len(mem) = size /\ \A i \in 1..end : mem[i] = i
      <4>1. mem \in Seq(Int) /\ Len(mem) = size
        BY <3>1 DEF Junk
      <4>2. \A i \in 1..end : i \in 1..size /\ i <= end
        BY <3>1, <3>2
      <4>. QED  BY <3>1, <4>1, <4>2
    <3>. QED  BY <3>1, <3>2, <3>3
  <2>3. CASE InitError
    <3>1. mem = <<>> /\ end = 0 /\ size = 0 /\ err = "io"
      BY <2>3 DEF InitError
    <3>. QED  BY <1>1, <3>1
  <2>. QED  BY <2>1, <2>2, <2>3 DEF Init
<1>3. SetupOK
  BY <1>0, <1>2 DEF SetupOK
<1>4. ASSUME NEW c \in Nat \ {0} PROVE Inbound(Reader(c))
  <2>1. PICK r : r = Reader(c)
    OBVIOUS
  <2>2. r = [mem |-> mem, data |-> 0, end |-> end, src |-> end, err |-> err,
             edge |-> 0, chunk |-> c, got |-> <<>>]
    BY <1>0, <2>1 DEF Reader
  <2>3. /\ r \in Readers /\ r.mem = mem /\ r.data = 0 /\ r.end = end /\ r.src = end /\ r.edge = 0
    <3>1. err \in Errors /\ <<>> \in Seq(Int) /\ 0 \in Nat
      BY <1>2 DEF Errors
    <3>. QED  BY <1>2, <2>2, <3>1 DEF Readers
  <2>. QED  BY <1>1, <1>2, <2>1, <2>3 DEF Inbound
<1>5. WindowFollowsStream
  <2>1. end - data = end /\ src - end = pos
    BY <1>0, <1>2
  <2>2. \A i \in 1..end : data + i = i /\ pos + i = i
    BY <1>0, <1>2
  <2>. QED  BY <1>2, <2>1, <2>2 DEF WindowFollowsStream
<1>6. GivesNextBytes
  <2>1. last.call = "none" /\ last.from = 0 /\ last.got = <<>>
    BY <1>0
  <2>2. Places(0, 0) = <<>> /\ Len(<<>>) = 0
    BY DEF Places
  <2>. QED  BY <2>1, <2>2 DEF GivesNextBytes
<1>. QED  BY <1>0, <1>3, <1>4, <1>5, <1>6 DEF ReaderIInv

(* Every step keeps the invariant.                                           *)
LEMMA ReaderStep ==
  ASSUME ReaderIInv, [Next]_vars
  PROVE  ReaderIInv'
<1>0. \A n \in Counts : n \in Nat
  BY ReaderAssumption DEF Counts, ReaderIInv
<1>1. ASSUME NEW c \in Chunks, ReadNextTag(c) PROVE ReaderIInv'
  BY <1>1, NextTagKeeps
<1>2. ASSUME NEW c \in Chunks, PeekTag(c) PROVE ReaderIInv'
  BY <1>2, PeekKeeps
<1>3. ASSUME NEW c \in Chunks, DiscardElement(c) PROVE ReaderIInv'
  BY <1>3, DiscardKeeps
<1>4. ASSUME NEW c \in Chunks, ReadUtf8(c) PROVE ReaderIInv'
  BY <1>4, Utf8Keeps
<1>5. ASSUME NEW c \in Chunks, ReadUtf8Inplace(c) PROVE ReaderIInv'
  BY <1>5, Utf8InplaceKeeps
<1>6. ASSUME NEW c \in Chunks, NEW n \in Counts, SkipSome(c, n) PROVE ReaderIInv'
  BY <1>0, <1>6, SkipKeeps
<1>7. ASSUME NEW c \in Chunks, NEW n \in Counts, ReadBytes(c, n) PROVE ReaderIInv'
  BY <1>0, <1>7, ReadKeeps
<1>8. ASSUME NEW c \in Chunks, NEW n \in Counts, ReadBytesInplace(c, n) PROVE ReaderIInv'
  BY <1>0, <1>8, InplaceKeeps
<1>9. ASSUME NEW c \in Chunks, NEW room \in TargetSizes, ReadCstr(c, room) \/ ReadUtf8Cstr(c, room)
      PROVE  ReaderIInv'
  BY <1>9, CstrKeeps
<1>10. CASE Remaining
  BY <1>10, RemainingKeeps
<1>11. CASE SetFill
  BY <1>11, SetFillKeeps
<1>12. CASE SetSkip \/ UNCHANGED vars
  BY <1>12, QuietKeeps
<1>. QED  BY <1>1, <1>2, <1>3, <1>4, <1>5, <1>6, <1>7, <1>8, <1>9, <1>10, <1>11, <1>12, Zenon DEF Next

(* The inductive invariant holds in every state of a reader.                 *)
THEOREM ReaderInvariant == Spec => []ReaderIInv
<1>1. Init => ReaderIInv
  BY BeginsSound
<1>2. ReaderIInv /\ [Next]_vars => ReaderIInv'
  BY ReaderStep
<1>. QED  BY <1>1, <1>2, PTL DEF Spec

(* The window is where the calls are, and stays inside the buffer.           *)
THEOREM ReaderIsSound == Spec => []ReaderInv
<1>1. ReaderIInv => ReaderInv
  BY ReaderInvHolds
<1>. QED  BY <1>1, ReaderInvariant, PTL
=============================================================================

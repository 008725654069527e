-------------------------------- MODULE Lemmas --------------------------------
(* What several proofs need: induction over a set of numbers, the existence  *)
(* of a function that is given by recursion, sequences that are put together *)
(* from pieces, and the numbers in a message.                                *)
EXTENDS MsgPack, Utf8, SequencesExt, SequenceTheorems, WellFoundedInduction, TLAPS

(* A set of numbers with 0 and with every successor holds all.              *)
LEMMA Induction ==
  ASSUME NEW T, 0 \in T, \A i \in Nat : i \in T => i + 1 \in T
  PROVE  Nat \subseteq T
<1>. DEFINE Bad == Nat \ T
<1>. SUFFICES ASSUME Bad # {} PROVE FALSE
  OBVIOUS
<1>1. PICK i \in Bad : \A j \in Bad : ~(<<j, i>> \in OpToRel(<, Nat))
  BY WFMin, NatLessThanWellFounded
<1>2. \A j \in Bad : ~(j < i)
  BY <1>1 DEF OpToRel
<1>3. i \in Nat /\ i # 0 /\ i - 1 \in Nat /\ i - 1 < i /\ i - 1 + 1 = i
  OBVIOUS
<1>4. i - 1 \in T
  BY <1>2, <1>3
<1>. QED  BY <1>3, <1>4

(* The same up to a number.                                                 *)
LEMMA InductionUpTo ==
  ASSUME NEW n \in Nat, NEW T, 0 \in T, \A i \in 0..n - 1 : i \in T => i + 1 \in T
  PROVE  0..n \subseteq T
<1>. DEFINE U == {i \in Nat : i <= n => i \in T}
<1>1. 0 \in U
  OBVIOUS
<1>2. \A i \in Nat : i \in U => i + 1 \in U
  OBVIOUS
<1>. HIDE DEF U
<1>3. Nat \subseteq U
  BY <1>1, <1>2, Induction
<1>. QED  BY <1>3 DEF U

(* f begins with b and goes on as step says.                                *)
Follows(f, n, b, step) ==
    /\ f[0] = b
    /\ \A i \in 0..n - 1 : f[i + 1] = step[i + 1][f[i]]

(* There is such a function.                                                *)
LEMMA RecursiveFunction ==
  ASSUME NEW S, NEW b \in S, NEW n \in Nat, NEW step \in [1..n -> [S -> S]]
  PROVE  \E f \in [0..n -> S] : Follows(f, n, b, step)
<1>. DEFINE Is(f, k) == f \in [0..k -> S] /\ f = [i \in 0..k |-> IF i = 0 THEN b ELSE step[i][f[i - 1]]]
            T == {k \in Nat : k <= n => \E f : Is(f, k)}
<1>1. Is([i \in 0..0 |-> b], 0)
  OBVIOUS
<1>2. ASSUME NEW k \in Nat, k + 1 <= n, NEW f, Is(f, k)
      PROVE  \E g : Is(g, k + 1)
  <2>. DEFINE g == [i \in 0..k + 1 |-> IF i = k + 1 THEN step[k + 1][f[k]] ELSE f[i]]
  <2>2. step[k + 1][f[k]] \in S
    <3>1. f[k] \in S /\ k + 1 \in 1..n
      BY <1>2
    <3>. QED  BY <3>1
  <2>3. g \in [0..k + 1 -> S]
    BY <1>2, <2>2
  <2>4. ASSUME NEW i \in 0..k + 1
        PROVE  g[i] = IF i = 0 THEN b ELSE step[i][g[i - 1]]
    <3>1. CASE i = k + 1
      <4>1. g[i - 1] = f[k] /\ g[i] = step[k + 1][f[k]] /\ i # 0
        BY <3>1
      <4>. QED  BY <3>1, <4>1
    <3>2. CASE i \in 0..k
      <4>1. g[i] = f[i] /\ (i # 0 => g[i - 1] = f[i - 1])
        BY <3>2
      <4>2. f[i] = IF i = 0 THEN b ELSE step[i][f[i - 1]]
        BY <1>2, <3>2
      <4>. QED  BY <4>1, <4>2
    <3>. QED  BY <3>1, <3>2
  <2>. HIDE DEF g
  <2>5. Is(g, k + 1)
    BY <2>3, <2>4
  <2>. QED  BY <2>5
<1>. HIDE DEF Is
<1>3. 0 \in T
  BY <1>1
<1>4. \A k \in Nat : k \in T => k + 1 \in T
  BY <1>2
<1>. HIDE DEF T
<1>5. n \in T
  BY <1>3, <1>4, Induction
<1>6. PICK f : Is(f, n)
  BY <1>5 DEF T
<1>7. f \in [0..n -> S] /\ f[0] = b
  BY <1>6 DEF Is
<1>8. ASSUME NEW i \in 0..n - 1
      PROVE  f[i + 1] = step[i + 1][f[i]]
  <2>1. i + 1 \in 0..n /\ i + 1 # 0 /\ i + 1 - 1 = i
    OBVIOUS
  <2>. QED  BY <1>6, <2>1 DEF Is
<1>. QED  BY <1>7, <1>8 DEF Follows

(* What step takes at a place of D are the values at places of lower rank.   *)
Ranked(D, S, step, rank, m) ==
    \A i \in D :
        /\ rank[i] \in Nat /\ rank[i] < m
        /\ \A f, g \in [D -> S] :
              (\A j \in D : rank[j] < rank[i] => f[j] = g[j]) => step[i][f] = step[i][g]

Recursive(f, D, step) == f = [i \in D |-> step[i][f]]

(* Then there is a function with these values: going over all the places     *)
(* again and again settles them rank by rank.                                *)
LEMMA RecursionByRank ==
  ASSUME NEW D, NEW S, S # {}, NEW m \in Nat, NEW rank,
         NEW step \in [D -> [[D -> S] -> S]], Ranked(D, S, step, rank, m)
  PROVE  \E f \in [D -> S] : Recursive(f, D, step)
<1>. DEFINE F == [D -> S]
            round == [k \in 1..m + 1 |-> [f \in F |-> [i \in D |-> step[i][f]]]]
<1>1. PICK b : b \in F
  <2>1. PICK x \in S : TRUE
    OBVIOUS
  <2>2. [i \in D |-> x] \in F
    OBVIOUS
  <2>. QED  BY <2>2
<1>2. \A f \in F : [i \in D |-> step[i][f]] \in F
  OBVIOUS
<1>3. round \in [1..m + 1 -> [F -> F]]
  BY <1>2
<1>4. PICK h \in [0..m + 1 -> F] : Follows(h, m + 1, b, round)
  <2>1. m + 1 \in Nat
    OBVIOUS
  <2>. HIDE DEF F, round
  <2>. QED  BY <1>1, <1>3, <2>1, RecursiveFunction
<1>5. ASSUME NEW k \in 0..m
      PROVE  /\ h[k] \in F /\ h[k + 1] \in F
             /\ h[k + 1] = [i \in D |-> step[i][h[k]]]
             /\ \A i \in D : h[k + 1][i] = step[i][h[k]]
  <2>1. k \in 0..m + 1 /\ k + 1 \in 0..m + 1 /\ k \in 0..m + 1 - 1 /\ k + 1 \in 1..m + 1
    OBVIOUS
  <2>2. h[k] \in F /\ h[k + 1] \in F
    BY <2>1
  <2>3. h[k + 1] = round[k + 1][h[k]]
    <3>1. k \in 0..(m + 1) - 1
      BY <2>1
    <3>. HIDE DEF round
    <3>. QED  BY <1>4, <3>1 DEF Follows
  <2>4. h[k + 1] = [i \in D |-> step[i][h[k]]]
    BY <2>1, <2>2, <2>3
  <2>. QED  BY <2>2, <2>4
<1>. DEFINE T == {k \in 0..m : \A i \in D : rank[i] < k => h[k + 1][i] = h[k][i]}
<1>6. 0 \in T
  BY DEF Ranked
<1>7. ASSUME NEW k \in 0..m - 1, k \in T
      PROVE  k + 1 \in T
  <2>1. k \in 0..m /\ k + 1 \in 0..m
    OBVIOUS
  <2>2. ASSUME NEW i \in D, rank[i] < k + 1
        PROVE  h[k + 1 + 1][i] = h[k + 1][i]
    <3>1. h[k + 1 + 1][i] = step[i][h[k + 1]] /\ h[k + 1][i] = step[i][h[k]]
      BY <1>5, <2>1
    <3>2. \A j \in D : rank[j] < rank[i] => h[k + 1][j] = h[k][j]
      BY <1>7, <2>2 DEF Ranked
    <3>3. h[k] \in [D -> S] /\ h[k + 1] \in [D -> S]
      BY <1>5, <2>1
    <3>4. step[i][h[k + 1]] = step[i][h[k]]
      <4>. HIDE DEF F, round, T
      <4>. QED  BY <3>2, <3>3 DEF Ranked
    <3>. QED  BY <3>1, <3>4
  <2>. QED  BY <2>1, <2>2
<1>. HIDE DEF T
<1>8. m \in T
  <2>1. 0..m \subseteq T
    BY <1>6, <1>7, InductionUpTo
  <2>2. m \in 0..m
    OBVIOUS
  <2>. QED  BY <2>1, <2>2
<1>9. \A i \in D : h[m + 1][i] = h[m][i]
  BY <1>8 DEF T, Ranked
<1>10. h[m] = [i \in D |-> step[i][h[m]]]
  <2>1. m \in 0..m
    OBVIOUS
  <2>2. h[m] \in [D -> S] /\ h[m + 1] \in [D -> S] /\ h[m + 1] = [i \in D |-> step[i][h[m]]]
    BY <1>5, <2>1
  <2>3. h[m + 1] = h[m]
    <3>. HIDE DEF F, round
    <3>. QED  BY <1>9, <2>2
  <2>. QED  BY <2>2, <2>3, Zenon
<1>11. h[m] \in [D -> S]
  BY <1>5
<1>. QED  BY <1>10, <1>11 DEF Recursive

-----------------------------------------------------------------------------
(* A set of places has a last one.                                           *)
LEMMA LastPlace ==
  ASSUME NEW n \in Nat, NEW s \in SUBSET (1..n), s # {}
  PROVE  Max(s) \in s /\ \A x \in s : x <= Max(s)
<1>. DEFINE Left == {k \in Nat : n - k \in s}
<1>1. PICK x : x \in s
  OBVIOUS
<1>2. n - x \in Left
  <2>1. x \in 1..n /\ n - x \in Nat /\ n - (n - x) = x
    BY <1>1
  <2>. QED  BY <1>1, <2>1
<1>3. PICK k \in Left : \A j \in Left : ~(<<j, k>> \in OpToRel(<, Nat))
  BY <1>2, WFMin, NatLessThanWellFounded
<1>4. \A j \in Left : ~(j < k)
  BY <1>3 DEF OpToRel
<1>5. n - k \in s
  OBVIOUS
<1>6. \A y \in s : y <= n - k
  <2>. TAKE y \in s
  <2>1. y \in 1..n /\ n - y \in Nat /\ n - (n - y) = y
    OBVIOUS
  <2>2. ~(n - y < k)
    BY <1>4, <2>1
  <2>. QED  BY <2>1, <2>2
<1>. HIDE DEF Left
<1>7. \E m \in s : \A y \in s : m >= y
  BY <1>5, <1>6
<1>8. Max(s) \in s /\ \A y \in s : Max(s) >= y
  BY <1>7, Zenon DEF Max
<1>9. \A y \in s : y \in Int
  OBVIOUS
<1>. QED  BY <1>8, <1>9

(* What FoldLeft makes of a sequence: base and steps as the places of s say,  *)
(* the last one outermost.                                                   *)
FoldsPlaces(f, n, b, step) ==
    \A s \in SUBSET (1..n) : f[s] = IF s = {} THEN b ELSE step[Max(s)][f[s \ {Max(s)}]]

LEMMA FoldExists ==
  ASSUME NEW S, NEW b \in S, NEW n \in Nat, NEW step \in [1..n -> [S -> S]]
  PROVE  \E f \in [SUBSET (1..n) -> S] : FoldsPlaces(f, n, b, step)
<1>. DEFINE D == SUBSET (1..n)
            rank == [s \in D |-> IF s = {} THEN 0 ELSE Max(s)]
            turn == [s \in D |-> [f \in [D -> S] |->
                        IF s = {} THEN b ELSE step[Max(s)][f[s \ {Max(s)}]]]]
<1>1. ASSUME NEW s \in D, s # {}
      PROVE  /\ Max(s) \in 1..n /\ s \ {Max(s)} \in D
             /\ rank[s] = Max(s) /\ rank[s \ {Max(s)}] < rank[s]
  <2>1. Max(s) \in s /\ \A x \in s : x <= Max(s)
    BY <1>1, LastPlace
  <2>2. PICK r : r = s \ {Max(s)}
    OBVIOUS
  <2>3. r \in D /\ Max(s) \in 1..n /\ rank[s] = Max(s)
    BY <1>1, <2>1, <2>2
  <2>4. r = {} => rank[r] = 0
    BY <2>3
  <2>5. r # {} => rank[r] = Max(r) /\ Max(r) \in r
    BY <2>3, LastPlace
  <2>6. rank[r] < Max(s)
    BY <2>1, <2>2, <2>3, <2>4, <2>5
  <2>. QED  BY <2>2, <2>3, <2>6
<1>2. \A s \in D : rank[s] \in Nat /\ rank[s] < n + 1
  <2>. TAKE s \in D
  <2>1. CASE s = {}
    BY <2>1
  <2>2. CASE s # {}
    <3>. HIDE DEF D, rank
    <3>1. rank[s] = Max(s) /\ Max(s) \in 1..n
      BY <1>1, <2>2
    <3>. QED  BY <3>1
  <2>. QED  BY <2>1, <2>2
<1>3. turn \in [D -> [[D -> S] -> S]]
  <2>1. ASSUME NEW s \in D, NEW f \in [D -> S]
        PROVE  (IF s = {} THEN b ELSE step[Max(s)][f[s \ {Max(s)}]]) \in S
    <3>1. CASE s = {}
      BY <3>1
    <3>2. CASE s # {}
      <4>1. Max(s) \in 1..n /\ f[s \ {Max(s)}] \in S
        BY <1>1, <3>2
      <4>. QED  BY <3>2, <4>1
    <3>. QED  BY <3>1, <3>2
  <2>. HIDE DEF D
  <2>. QED  BY <2>1
<1>4. ASSUME NEW s \in D, NEW f \in [D -> S], NEW g \in [D -> S],
             \A r \in D : rank[r] < rank[s] => f[r] = g[r]
      PROVE  turn[s][f] = turn[s][g]
  <2>1. CASE s = {}
    BY <2>1
  <2>2. CASE s # {}
    <3>1. f[s \ {Max(s)}] = g[s \ {Max(s)}]
      BY <1>1, <1>4, <2>2
    <3>. QED  BY <2>2, <3>1
  <2>. QED  BY <2>1, <2>2
<1>5. PICK f \in [D -> S] : Recursive(f, D, turn)
  <2>1. PICK m \in Nat : m = n + 1
    OBVIOUS
  <2>. HIDE DEF D, rank, turn
  <2>2. Ranked(D, S, turn, rank, m)
    BY <1>2, <1>4, <2>1 DEF Ranked
  <2>. QED  BY <1>3, <2>2, RecursionByRank
<1>6. ASSUME NEW s \in D
      PROVE  f[s] = IF s = {} THEN b ELSE step[Max(s)][f[s \ {Max(s)}]]
  <2>1. f[s] = turn[s][f]
    <3>. HIDE DEF turn, D
    <3>. QED  BY <1>5 DEF Recursive
  <2>2. turn[s][f] = IF s = {} THEN b ELSE step[Max(s)][f[s \ {Max(s)}]]
    <3>. HIDE DEF D
    <3>. QED  OBVIOUS
  <2>. QED  BY <2>1, <2>2, Zenon
<1>. QED  BY <1>6 DEF FoldsPlaces

(* The first places, without the last of them.                               *)
LEMMA FirstPlaces ==
  ASSUME NEW n \in Nat, NEW i \in 0..n - 1
  PROVE  /\ 1..i + 1 \in SUBSET (1..n) /\ 1..i + 1 # {} /\ Max(1..i + 1) = i + 1
         /\ (1..i + 1) \ {i + 1} = 1..i
<1>1. 1..i + 1 \in SUBSET (1..n) /\ i + 1 \in 1..i + 1
  OBVIOUS
<1>2. PICK s : s = 1..i + 1
  OBVIOUS
<1>3. Max(s) \in s /\ \A x \in s : x <= Max(s)
  BY <1>1, <1>2, LastPlace
<1>4. Max(s) = i + 1
  BY <1>1, <1>2, <1>3
<1>5. (1..i + 1) \ {i + 1} = 1..i
  OBVIOUS
<1>. QED  BY <1>1, <1>2, <1>4, <1>5

-----------------------------------------------------------------------------
(* f collects the pieces of s one by one.                                   *)
Collects(f, s) ==
    /\ f[0] = <<>>
    /\ \A i \in 0..Len(s) - 1 : f[i + 1] = f[i] \o s[i + 1]

(* Two that do so agree as far as their pieces do.                          *)
LEMMA CollectsAlike ==
  ASSUME NEW s, NEW r, Len(s) \in Nat, Len(r) \in Nat, Len(s) <= Len(r),
         \A i \in 1..Len(s) : s[i] = r[i],
         NEW f, NEW g, Collects(f, s), Collects(g, r)
  PROVE  \A i \in 0..Len(s) : f[i] = g[i]
<1>0. PICK n : n = Len(s)
  OBVIOUS
<1>. DEFINE T == {i \in 0..n : f[i] = g[i]}
<1>1. 0 \in T
  BY <1>0 DEF Collects
<1>2. ASSUME NEW i \in 0..n - 1, i \in T
      PROVE  i + 1 \in T
  <2>1. i \in 0..Len(s) - 1 /\ i \in 0..Len(r) - 1 /\ i + 1 \in 1..n /\ i + 1 \in 0..n
    BY <1>0
  <2>2. f[i + 1] = f[i] \o s[i + 1] /\ g[i + 1] = g[i] \o r[i + 1]
    BY <2>1, Zenon DEF Collects
  <2>3. f[i] = g[i] /\ s[i + 1] = r[i + 1]
    BY <1>0, <1>2, <2>1
  <2>4. f[i + 1] = g[i + 1]
    BY <2>2, <2>3, Zenon
  <2>. QED  BY <2>1, <2>4
<1>. HIDE DEF T
<1>3. 0..n \subseteq T
  BY <1>0, <1>1, <1>2, InductionUpTo
<1>. QED  BY <1>0, <1>3 DEF T

(* There is one.                                                            *)
LEMMA Collector ==
  ASSUME NEW X, NEW s \in Seq(Seq(X))
  PROVE  \E f \in [0..Len(s) -> Seq(X)] : Collects(f, s)
<1>. DEFINE n == Len(s)
            step == [i \in 1..n |-> [q \in Seq(X) |-> q \o s[i]]]
<1>0. n \in Nat /\ <<>> \in Seq(X) /\ \A i \in 1..n : s[i] \in Seq(X)
  OBVIOUS
<1>1. step \in [1..n -> [Seq(X) -> Seq(X)]]
  BY <1>0, ConcatProperties
<1>2. PICK f \in [0..n -> Seq(X)] : Follows(f, n, <<>>, step)
  <2>. HIDE DEF n, step
  <2>. QED  BY <1>0, <1>1, RecursiveFunction
<1>3. f[0] = <<>>
  BY <1>2 DEF Follows
<1>4. ASSUME NEW i \in 0..n - 1
      PROVE  f[i + 1] = f[i] \o s[i + 1]
  <2>1. i + 1 \in 1..n /\ i \in 0..n
    BY <1>0
  <2>2. f[i + 1] = step[i + 1][f[i]]
    <3>. HIDE DEF step, n
    <3>. QED  BY <1>2 DEF Follows
  <2>3. f[i] \in Seq(X)
    BY <2>1
  <2>. QED  BY <2>1, <2>2, <2>3
<1>. QED  BY <1>3, <1>4 DEF Collects

(* FlattenSeq is the last of what a collector has.                          *)
LEMMA FlattenCollects ==
  ASSUME NEW X, NEW s \in Seq(Seq(X)), NEW f \in [0..Len(s) -> Seq(X)], Collects(f, s)
  PROVE  FlattenSeq(s) = f[Len(s)]
<1>. DEFINE n == Len(s)
            Is(g) == g = [i \in 1..n |-> IF i = 1 THEN s[i] ELSE g[i - 1] \o s[i]]
<1>0. n \in Nat /\ <<>> \in Seq(X) /\ \A i \in 1..n : s[i] \in Seq(X)
  OBVIOUS
<1>1. f[0] = <<>> /\ \A i \in 0..n - 1 : f[i + 1] = f[i] \o s[i + 1]
  BY DEF Collects
<1>2. CASE n = 0
  <2>1. s = <<>> /\ FlattenSeq(s) = s
    BY <1>2 DEF FlattenSeq
  <2>. QED  BY <1>1, <1>2, <2>1
<1>3. CASE n # 0
  <2>. DEFINE h == [i \in 1..n |-> f[i]]
              g == CHOOSE c : Is(c)
  <2>1. f[1] = s[1] /\ 1 \in 1..n /\ n \in 1..n
    <3>1. 0 \in 0..n - 1 /\ 0 + 1 = 1 /\ 1 \in 1..n /\ n \in 1..n
      BY <1>0, <1>3
    <3>2. f[1] = f[0] \o s[1] /\ s[1] \in Seq(X)
      <4>1. f[0 + 1] = f[0] \o s[0 + 1]
        <5>. HIDE DEF n
        <5>. QED  BY <1>1, <3>1, Zenon
      <4>. QED  BY <1>0, <3>1, <4>1
    <3>3. <<>> \o s[1] = s[1]
      BY <3>2, ConcatEmptySeq
    <3>. QED  BY <1>1, <3>1, <3>2, <3>3
  <2>2. Is(h)
    <3>1. ASSUME NEW i \in 1..n
          PROVE  h[i] = IF i = 1 THEN s[i] ELSE h[i - 1] \o s[i]
      <4>1. CASE i = 1
        BY <2>1, <4>1
      <4>2. CASE i # 1
        <5>1. PICK j : j = i - 1
          OBVIOUS
        <5>2. j \in 0..n - 1 /\ j + 1 = i /\ j \in 1..n
          BY <1>0, <4>2, <5>1
        <5>3. f[j + 1] = f[j] \o s[j + 1]
          <6>. HIDE DEF n
          <6>. QED  BY <1>1, <5>2, Zenon
        <5>. QED  BY <4>2, <5>1, <5>2, <5>3
      <4>. QED  BY <4>1, <4>2
    <3>. HIDE DEF n
    <3>. QED  BY <3>1
  <2>3. Is(g)
    <3>. HIDE DEF h, Is
    <3>. QED  BY <2>2
  <2>4. FlattenSeq(s) = g[n]
    BY <1>3 DEF FlattenSeq
  <2>5. ASSUME NEW i \in 1..n
        PROVE  g[i] = IF i = 1 THEN s[i] ELSE g[i - 1] \o s[i]
    <3>. HIDE DEF g, n
    <3>. QED  BY <2>3
  <2>. HIDE DEF g, h, Is
  <2>6. \A i \in 1..n : g[i] = f[i]
    <3>. DEFINE T == {i \in 0..n : i # 0 => g[i] = f[i]}
    <3>1. 0 \in T
      BY <1>0
    <3>2. ASSUME NEW i \in 0..n - 1, i \in T
          PROVE  i + 1 \in T
      <4>1. PICK j : j = i + 1
        OBVIOUS
      <4>2. j \in 1..n /\ j \in 0..n /\ j - 1 = i /\ (i = 0 <=> j = 1)
        BY <1>0, <4>1
      <4>3. f[j] = f[i] \o s[j]
        <5>. HIDE DEF n
        <5>. QED  BY <1>1, <4>1, Zenon
      <4>4. g[j] = IF j = 1 THEN s[j] ELSE g[j - 1] \o s[j]
        <5>. HIDE DEF n
        <5>. QED  BY <2>5, <4>2, Zenon
      <4>5. g[j] = f[j]
        <5>1. CASE i = 0
          BY <2>1, <4>2, <4>4, <5>1
        <5>2. CASE i # 0
          <6>1. g[i] = f[i]
            BY <3>2, <5>2
          <6>2. g[j] = g[i] \o s[j]
            BY <4>2, <4>4, <5>2
          <6>. QED  BY <4>3, <6>1, <6>2, Zenon
        <5>. QED  BY <5>1, <5>2
      <4>. QED  BY <4>1, <4>2, <4>5
    <3>. HIDE DEF T, n
    <3>3. 0..n \subseteq T
      BY <1>0, <3>1, <3>2, InductionUpTo
    <3>4. \A i \in 1..n : i \in 0..n /\ i # 0
      BY <1>0
    <3>. QED  BY <3>3, <3>4 DEF T
  <2>. QED  BY <2>1, <2>4, <2>6
<1>. QED  BY <1>0, <1>2, <1>3

(* Pieces of a set give a sequence over it.                                 *)
LEMMA FlattenType ==
  ASSUME NEW X, NEW s \in Seq(Seq(X))
  PROVE  FlattenSeq(s) \in Seq(X)
<1>1. PICK f \in [0..Len(s) -> Seq(X)] : Collects(f, s)
  BY Collector
<1>2. FlattenSeq(s) = f[Len(s)]
  BY <1>1, FlattenCollects
<1>3. Len(s) \in 0..Len(s)
  BY LenProperties
<1>. QED  BY <1>2, <1>3

(* A further piece is put behind what the others give.                      *)
LEMMA FlattenAppend ==
  ASSUME NEW X, NEW s \in Seq(Seq(X)), NEW p \in Seq(X)
  PROVE  FlattenSeq(Append(s, p)) = FlattenSeq(s) \o p
<1>0. PICK r : r = Append(s, p)
  OBVIOUS
<1>1. r \in Seq(Seq(X)) /\ Len(r) = Len(s) + 1 /\ r[Len(s) + 1] = p /\ Len(s) \in Nat
      /\ Len(r) \in Nat /\ \A i \in 1..Len(s) : s[i] = r[i]
  BY <1>0
<1>2. PICK f \in [0..Len(s) -> Seq(X)] : Collects(f, s)
  BY Collector
<1>3. PICK g \in [0..Len(r) -> Seq(X)] : Collects(g, r)
  BY <1>1, Collector
<1>4. FlattenSeq(s) = f[Len(s)]
  BY <1>2, FlattenCollects
<1>5. FlattenSeq(r) = g[Len(r)]
  BY <1>1, <1>3, FlattenCollects
<1>6. Len(s) <= Len(r) /\ Len(s) \in 0..Len(s) /\ Len(s) \in 0..Len(r) - 1
  BY <1>1
<1>7. \A i \in 0..Len(s) : f[i] = g[i]
  <2>1. \A i \in 1..Len(s) : s[i] = r[i]
    BY <1>1
  <2>. QED  BY <1>1, <1>2, <1>3, <1>6, <2>1, CollectsAlike
<1>8. g[Len(s) + 1] = g[Len(s)] \o r[Len(s) + 1]
  BY <1>3, <1>6, Zenon DEF Collects
<1>9. FlattenSeq(r) = f[Len(s)] \o p
  BY <1>1, <1>5, <1>6, <1>7, <1>8
<1>. QED  BY <1>0, <1>4, <1>9

(* Nothing gives nothing.                                                   *)
LEMMA FlattenEmpty == FlattenSeq(<<>>) = <<>>
  BY DEF FlattenSeq

(* Whatever is collected stays in front: f ends with every piece in its place.*)
LEMMA CollectedInFront ==
  ASSUME NEW X, NEW s \in Seq(Seq(X)), NEW f \in [0..Len(s) -> Seq(X)], Collects(f, s)
  PROVE  \A k \in 0..Len(s) - 1 : \E rest \in Seq(X) : f[Len(s)] = f[k] \o (s[k + 1] \o rest)
<1>. DEFINE n == Len(s)
            T == {m \in 0..n : \A k \in 0..m : \E rest \in Seq(X) : f[m] = f[k] \o rest}
<1>0. n \in Nat /\ <<>> \in Seq(X) /\ \A i \in 1..n : s[i] \in Seq(X)
  OBVIOUS
<1>. HIDE DEF n
<1>1. \A i \in 0..n : f[i] \in Seq(X) /\ f[i] \o <<>> = f[i]
  BY ConcatEmptySeq DEF n
<1>2. \A i \in 0..n - 1 : f[i + 1] = f[i] \o s[i + 1]
  BY DEF Collects, n
<1>3. 0 \in T
  <2>1. 0 \in 0..n /\ f[0] = f[0] \o <<>>
    BY <1>0, <1>1
  <2>2. \A k \in 0..0 : \E rest \in Seq(X) : f[0] = f[k] \o rest
    <3>1. \A k \in 0..0 : k = 0
      OBVIOUS
    <3>. QED  BY <1>0, <2>1, <3>1, Zenon
  <2>. QED  BY <2>1, <2>2
<1>4. ASSUME NEW m \in 0..n - 1, m \in T
      PROVE  m + 1 \in T
  <2>1. m + 1 \in 0..n /\ m + 1 \in 1..n /\ m \in 0..n
    BY <1>0
  <2>2. ASSUME NEW k \in 0..m + 1
        PROVE  \E rest \in Seq(X) : f[m + 1] = f[k] \o rest
    <3>1. CASE k = m + 1
      <4>1. f[k] = f[k] \o <<>>
        BY <1>1, <2>1, <3>1
      <4>. QED  BY <1>0, <3>1, <4>1
    <3>2. CASE k \in 0..m
      <4>1. PICK rest \in Seq(X) : f[m] = f[k] \o rest
        BY <1>4, <3>2
      <4>2. k \in 0..n
        BY <1>0, <2>1, <3>2
      <4>3. f[k] \in Seq(X) /\ s[m + 1] \in Seq(X) /\ f[m + 1] = f[m] \o s[m + 1]
        BY <1>0, <1>1, <1>2, <2>1, <4>2
      <4>4. PICK a \in Seq(X), b \in Seq(X) : a = f[k] /\ b = s[m + 1]
        BY <4>3
      <4>5. (a \o rest) \o b = a \o (rest \o b)
        BY ConcatAssociative
      <4>7. rest \o b \in Seq(X)
        BY ConcatProperties
      <4>6. f[m + 1] = f[k] \o (rest \o b)
        BY <4>1, <4>3, <4>4, <4>5, Zenon
      <4>. QED  BY <4>6, <4>7, Zenon
    <3>3. k \in 0..m \/ k = m + 1
      BY <1>0
    <3>. QED  BY <3>1, <3>2, <3>3
  <2>. QED  BY <2>1, <2>2
<1>. HIDE DEF T
<1>5. n \in T
  <2>1. 0..n \subseteq T
    BY <1>0, <1>3, <1>4, InductionUpTo
  <2>. QED  BY <1>0, <2>1
<1>6. ASSUME NEW k \in 0..n - 1
      PROVE  \E rest \in Seq(X) : f[n] = f[k] \o (s[k + 1] \o rest)
  <2>1. k + 1 \in 0..n /\ k + 1 \in 1..n /\ k \in 0..n
    BY <1>0
  <2>2. PICK rest \in Seq(X) : f[n] = f[k + 1] \o rest
    BY <1>5, <2>1 DEF T
  <2>3. f[k + 1] = f[k] \o s[k + 1] /\ f[k] \in Seq(X) /\ s[k + 1] \in Seq(X)
    BY <1>0, <1>1, <1>2, <2>1
  <2>4. PICK a \in Seq(X), b \in Seq(X) : a = f[k] /\ b = s[k + 1]
    BY <2>3
  <2>5. (a \o b) \o rest = a \o (b \o rest)
    BY ConcatAssociative
  <2>. QED  BY <2>2, <2>3, <2>4, <2>5, Zenon
<1>. QED  BY <1>6 DEF n

-----------------------------------------------------------------------------
(* Induction from the last place to the first, and from the first on.       *)
LEMMA FromTheEnd ==
  ASSUME NEW n \in Nat, NEW P, n + 1 \in P,
         \A i \in 1..n : (\A j \in i + 1..n + 1 : j \in P) => i \in P
  PROVE  1..n + 1 \subseteq P
<1>. DEFINE U == {k \in 0..n : \A j \in n + 1 - k..n + 1 : j \in P}
<1>1. 0 \in U
  <2>1. n + 1 - 0..n + 1 = {n + 1}
    OBVIOUS
  <2>. QED  BY <2>1
<1>2. ASSUME NEW k \in 0..n - 1, k \in U
      PROVE  k + 1 \in U
  <2>1. PICK i \in 1..n : i = n - k
    OBVIOUS
  <2>2. i + 1 = n + 1 - k /\ i = n + 1 - (k + 1) /\ k + 1 \in 0..n
    BY <2>1
  <2>3. \A j \in i + 1..n + 1 : j \in P
    BY <1>2, <2>2
  <2>4. i \in P
    BY <2>3
  <2>5. \A j \in i..n + 1 : j = i \/ j \in i + 1..n + 1
    OBVIOUS
  <2>6. \A j \in i..n + 1 : j \in P
    BY <2>3, <2>4, <2>5
  <2>. QED  BY <2>2, <2>6
<1>. HIDE DEF U
<1>3. 0..n \subseteq U
  BY <1>1, <1>2, InductionUpTo
<1>4. n \in U
  BY <1>3
<1>5. n + 1 - n = 1
  OBVIOUS
<1>. QED  BY <1>4, <1>5 DEF U

LEMMA FromTheStart ==
  ASSUME NEW n \in Nat, NEW P,
         \A i \in 1..n : (\A j \in 1..i - 1 : j \in P) => i \in P
  PROVE  1..n \subseteq P
<1>. DEFINE U == {k \in 0..n : \A j \in 1..k : j \in P}
<1>1. 0 \in U
  OBVIOUS
<1>2. ASSUME NEW k \in 0..n - 1, k \in U
      PROVE  k + 1 \in U
  <2>1. PICK i \in 1..n : i = k + 1
    OBVIOUS
  <2>2. i - 1 = k /\ i \in 0..n
    BY <2>1
  <2>3. i \in P
    BY <1>2, <2>2
  <2>4. \A j \in 1..i : j = i \/ j \in 1..k
    BY <2>2
  <2>5. \A j \in 1..i : j \in P
    BY <1>2, <2>3, <2>4
  <2>. QED  BY <2>1, <2>2, <2>5
<1>. HIDE DEF U
<1>3. 0..n \subseteq U
  BY <1>1, <1>2, InductionUpTo
<1>4. n \in U
  BY <1>3
<1>. QED  BY <1>4 DEF U

(* A function over places whose values depend on what lies behind, or in    *)
(* front.                                                                   *)
LEMMA RecursionFromTheEnd ==
  ASSUME NEW n \in Nat, NEW S, S # {},
         NEW step \in [1..n -> [[1..n -> S] -> S]],
         \A i \in 1..n : \A f, g \in [1..n -> S] :
            (\A j \in 1..n : i < j => f[j] = g[j]) => step[i][f] = step[i][g]
  PROVE  \E f \in [1..n -> S] : Recursive(f, 1..n, step)
<1>1. PICK D : D = 1..n
  OBVIOUS
<1>2. PICK rank : rank = [i \in D |-> n - i]
  OBVIOUS
<1>3. \A i \in D : rank[i] = n - i /\ rank[i] \in Nat /\ rank[i] < n + 1
  BY <1>1, <1>2
<1>4. \A i, j \in D : i < j => rank[j] < rank[i]
  BY <1>1, <1>3
<1>5. n + 1 \in Nat
  OBVIOUS
<1>6. ASSUME NEW i \in D, NEW f \in [D -> S], NEW g \in [D -> S],
             \A j \in D : rank[j] < rank[i] => f[j] = g[j]
      PROVE  step[i][f] = step[i][g]
  <2>1. \A j \in D : i < j => f[j] = g[j]
    BY <1>4, <1>6
  <2>. QED  BY <1>1, <2>1
<1>7. Ranked(D, S, step, rank, n + 1)
  BY <1>3, <1>6 DEF Ranked
<1>. QED  BY <1>1, <1>5, <1>7, RecursionByRank

LEMMA RecursionFromTheStart ==
  ASSUME NEW n \in Nat, NEW S, S # {},
         NEW step \in [1..n -> [[1..n -> S] -> S]],
         \A i \in 1..n : \A f, g \in [1..n -> S] :
            (\A j \in 1..n : j < i => f[j] = g[j]) => step[i][f] = step[i][g]
  PROVE  \E f \in [1..n -> S] : Recursive(f, 1..n, step)
<1>1. PICK D : D = 1..n
  OBVIOUS
<1>2. PICK rank : rank = [i \in D |-> i]
  OBVIOUS
<1>3. \A i \in D : rank[i] = i /\ rank[i] \in Nat /\ rank[i] < n + 1
  BY <1>1, <1>2
<1>5. n + 1 \in Nat
  OBVIOUS
<1>6. ASSUME NEW i \in D, NEW f \in [D -> S], NEW g \in [D -> S],
             \A j \in D : rank[j] < rank[i] => f[j] = g[j]
      PROVE  step[i][f] = step[i][g]
  <2>1. \A j \in D : j < i => f[j] = g[j]
    BY <1>3, <1>6
  <2>. QED  BY <1>1, <2>1
<1>7. Ranked(D, S, step, rank, n + 1)
  BY <1>3, <1>6 DEF Ranked
<1>. QED  BY <1>1, <1>5, <1>7, RecursionByRank

-----------------------------------------------------------------------------
(* A tag's word is made of numbers, and so it has a number itself.           *)
LEMMA NumberIsNat ==
  ASSUME NEW w \in Seq(Nat)
  PROVE  Number(w) \in Nat
<1>. DEFINE n == Len(w)
            step == [k \in 1..n |-> [v \in Nat |-> 256 * v + w[k]]]
            Is(f) == f = [i \in 0..n |-> IF i = 0 THEN 0 ELSE 256 * f[i - 1] + w[i]]
            sum == CHOOSE f : Is(f)
<1>1. n \in Nat /\ \A k \in 1..n : w[k] \in Nat
  OBVIOUS
<1>2. PICK f \in [0..n -> Nat] : Follows(f, n, 0, step)
  <2>1. step \in [1..n -> [Nat -> Nat]] /\ 0 \in Nat
    BY <1>1
  <2>. HIDE DEF step, n
  <2>. QED  BY <1>1, <2>1, RecursiveFunction
<1>3. Is(f)
  <2>1. ASSUME NEW i \in 0..n PROVE f[i] = IF i = 0 THEN 0 ELSE 256 * f[i - 1] + w[i]
    <3>1. CASE i = 0
      BY <1>2, <3>1 DEF Follows
    <3>2. CASE i # 0
      <4>1. PICK j \in 0..n - 1 : j = i - 1 /\ j + 1 = i /\ j + 1 \in 1..n /\ j \in 0..n
        BY <1>1, <3>2
      <4>2. f[j + 1] = step[j + 1][f[j]] /\ f[j] \in Nat
        <5>. HIDE DEF step, n
        <5>. QED  BY <1>2, <4>1 DEF Follows
      <4>. QED  BY <3>2, <4>1, <4>2
    <3>. QED  BY <3>1, <3>2
  <2>. QED  BY <1>2, <2>1
<1>4. Is(sum)
  <2>. HIDE DEF Is
  <2>. QED  BY <1>3
<1>5. Number(w) = sum[n]
  BY DEF Number
<1>. HIDE DEF sum
<1>6. \A i \in 0..n : sum[i] = IF i = 0 THEN 0 ELSE 256 * sum[i - 1] + w[i]
  BY <1>4
<1>. DEFINE T == {i \in 0..n : sum[i] \in Nat}
<1>7. 0..n \subseteq T
  <2>1. 0 \in T
    BY <1>1, <1>6
  <2>2. ASSUME NEW i \in 0..n - 1, i \in T PROVE i + 1 \in T
    <3>1. i + 1 \in 0..n /\ i + 1 # 0 /\ i + 1 - 1 = i /\ i + 1 \in 1..n
      BY <1>1
    <3>2. sum[i + 1] = 256 * sum[i] + w[i + 1] /\ sum[i] \in Nat /\ w[i + 1] \in Nat
      BY <1>1, <1>6, <2>2, <3>1
    <3>. QED  BY <3>1, <3>2
  <2>. HIDE DEF T, n
  <2>. QED  BY <1>1, <2>1, <2>2, InductionUpTo
<1>. QED  BY <1>1, <1>5, <1>7

(* A word that is widened is made of numbers still.                          *)
LEMMA TagWords ==
  ASSUME NEW w \in Seq(Nat), NEW m \in Nat
  PROVE  Unsigned(w, m) \in Seq(Nat) /\ Signed(w, m) \in Seq(Nat)
<1>1. [i \in 1..m - Len(w) |-> 0] \in Seq(Nat)
  OBVIOUS
<1>2. [i \in 1..m - Len(w) |-> IF Negative(w) THEN 255 ELSE 0] \in Seq(Nat)
  OBVIOUS
<1>. QED  BY <1>1, <1>2, ConcatProperties DEF Unsigned, Signed

(* A tag of the table, with a word that is one of numbers.                   *)
Worded(t) == t.v \in Seq(Nat)

(* So the tags have words of numbers.                                        *)
LEMMA MadeTags ==
  ASSUME NEW w \in Seq(Nat)
  PROVE  /\ Worded(Nil) /\ \A a \in BOOLEAN : Worded(Bool(a))
         /\ Worded(SInt(w)) /\ Worded(UInt(w)) /\ Worded(Str(w)) /\ Worded(Bin(w))
         /\ Worded(Array(w)) /\ Worded(Map(w))
<1>1. /\ Signed(w, 8) \in Seq(Nat) /\ Unsigned(w, 8) \in Seq(Nat) /\ Unsigned(w, 4) \in Seq(Nat)
  BY TagWords
<1>2. <<0>> \in Seq(Nat) /\ <<1>> \in Seq(Nat) /\ <<>> \in Seq(Nat)
  OBVIOUS
<1>. QED  BY <1>1, <1>2 DEF Worded, Nil, Bool, SInt, UInt, Str, Bin, Array, Map, Tag

(* The tags of one byte.                                                     *)
LEMMA FixTags ==
  ASSUME NEW b \in Byte
  PROVE  /\ b \in 0..127 => ReadsFix(b) = UInt(<<b>>)
         /\ b \in 224..255 => ReadsFix(b) = SInt(<<b>>)
         /\ b \in 128..143 => ReadsFix(b) = Map(<<b % 16>>)
         /\ b \in 144..159 => ReadsFix(b) = Array(<<b % 16>>)
         /\ b \in 160..191 => ReadsFix(b) = Str(<<b % 32>>)
<1>2. b \in 0..127 => ReadsFix(b) = UInt(<<b>>)
  BY DEF ReadsFix
<1>3. b \in 224..255 => ReadsFix(b) = SInt(<<b>>)
  BY DEF ReadsFix
<1>4. b \in 128..143 => ReadsFix(b) = Map(<<b % 16>>)
  BY DEF ReadsFix
<1>5. b \in 144..159 => ReadsFix(b) = Array(<<b % 16>>)
  BY DEF ReadsFix
<1>6. b \in 160..191 => ReadsFix(b) = Str(<<b % 32>>)
  BY DEF ReadsFix
<1>. QED  BY <1>2, <1>3, <1>4, <1>5, <1>6

(* So has every tag of the table.                                            *)
LEMMA ReadTagWorded ==
  ASSUME NEW b \in Byte, Refusal(b) = "ok", NEW w \in Seq(Nat)
  PROVE  Worded(ReadTag(b, w))
<1>1. b \notin {193} /\ b \notin 199..203 /\ b \notin 212..216
  BY DEF Refusal, Reserved, Extensions, Floats
<1>2. CASE b = 192
  <2>1. ReadTag(b, w) = Nil
    BY <1>2 DEF ReadTag
  <2>. QED  BY <2>1, MadeTags
<1>3. CASE b \in {194, 195}
  <2>0. b # 192 /\ b \in 192..223 /\ b \notin 204..211 /\ b \notin 196..198 \cup 217..223
    BY <1>3
  <2>1. ReadTag(b, w) = Bool(b % 2 = 1)
    BY <1>3, <2>0 DEF ReadTag
  <2>. QED  BY <2>1, MadeTags
<1>4. CASE b \notin 192..223
  <2>1. ReadTag(b, w) = ReadsFix(b)
    BY <1>4 DEF ReadTag, Byte
  <2>2. <<b>> \in Seq(Nat) /\ <<b % 16>> \in Seq(Nat) /\ <<b % 32>> \in Seq(Nat)
    BY DEF Byte
  <2>3. /\ b \in 0..127 => ReadsFix(b) = UInt(<<b>>)
        /\ b \in 224..255 => ReadsFix(b) = SInt(<<b>>)
        /\ b \in 128..143 => ReadsFix(b) = Map(<<b % 16>>)
        /\ b \in 144..159 => ReadsFix(b) = Array(<<b % 16>>)
        /\ b \in 160..191 => ReadsFix(b) = Str(<<b % 32>>)
    BY FixTags
  <2>4. Worded(UInt(<<b>>)) /\ Worded(SInt(<<b>>)) /\ Worded(Map(<<b % 16>>))
        /\ Worded(Array(<<b % 16>>)) /\ Worded(Str(<<b % 32>>))
    BY <2>2, MadeTags
  <2>5. b \in 0..127 \/ b \in 224..255 \/ b \in 128..143 \/ b \in 144..159 \/ b \in 160..191
    BY <1>4 DEF Byte
  <2>6. CASE b \in 0..127
    BY <2>1, <2>3, <2>4, <2>6
  <2>7. CASE b \in 224..255
    BY <2>1, <2>3, <2>4, <2>7
  <2>8. CASE b \in 128..143
    BY <2>1, <2>3, <2>4, <2>8
  <2>9. CASE b \in 144..159
    BY <2>1, <2>3, <2>4, <2>9
  <2>10. CASE b \in 160..191
    BY <2>1, <2>3, <2>4, <2>10
  <2>. QED  BY <2>5, <2>6, <2>7, <2>8, <2>9, <2>10
<1>5. CASE b \in 204..211
  <2>0. b # 192 /\ b \notin {194, 195} /\ b \in 192..223 /\ b \notin 196..198 \cup 217..223
    BY <1>5
  <2>1. ReadTag(b, w) = ReadsInteger(b, w)
    BY <1>5, <2>0 DEF ReadTag
  <2>. QED  BY <2>1, MadeTags DEF ReadsInteger
<1>6. CASE b \in 196..198 \cup 217..223
  <2>1. ReadTag(b, w) = ReadsCount(b, w)
    BY <1>6 DEF ReadTag, Byte
  <2>2. \/ ReadsCount(b, w) = Bin(w) \/ ReadsCount(b, w) = Str(w)
        \/ ReadsCount(b, w) = Array(w) \/ ReadsCount(b, w) = Map(w)
    BY <1>6 DEF ReadsCount
  <2>. QED  BY <2>1, <2>2, MadeTags
<1>7. \/ b \in {193} \/ b \in 199..203 \/ b \in 212..216 \/ b = 192 \/ b \in {194, 195}
      \/ b \in 204..211 \/ b \in 196..198 \cup 217..223 \/ b \notin 192..223
  BY DEF Byte
<1>. QED  BY <1>1, <1>2, <1>3, <1>4, <1>5, <1>6, <1>7

(* A tag has a byte.                                                         *)
LEMMA TagSizeIs ==
  ASSUME NEW b
  PROVE  TagSize(b) \in Nat \ {0}
<1>1. WordSize(b) \in {0, 1, 2, 4, 8}
  BY DEF WordSize
<1>. QED  BY <1>1 DEF TagSize
=============================================================================

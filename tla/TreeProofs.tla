------------------------------ MODULE TreeProofs ------------------------------
(* Proofs about Tree and Nodes: the parser neither loses nor shares a node   *)
(* or a byte, whatever the data, the pool, the limits and the depth.         *)
EXTENDS Nodes, Lemmas

Level == [child : Nat \ {0}, left : Nat]

(* f adds up what is left on the levels.                                     *)
Adds(f, s) == f[0] = 0 /\ \A i \in 0..Len(s) - 1 : f[i + 1] = f[i] + s[i + 1].left

(* What is left on all levels is a sum.                                      *)
LEMMA LeftIsSum ==
  ASSUME NEW s \in Seq(Level)
  PROVE  \E f \in [0..Len(s) -> Nat] : Adds(f, s) /\ LeftIn(s) = f[Len(s)]
<1>. DEFINE n == Len(s)
            step == [k \in 1..n |-> [v \in Nat |-> v + s[k].left]]
            Is(f) == f = [i \in 0..n |-> IF i = 0 THEN 0 ELSE f[i - 1] + s[i].left]
            sum == CHOOSE f : Is(f)
<1>1. n \in Nat /\ \A k \in 1..n : s[k].left \in Nat
  <2>1. n \in Nat /\ \A k \in 1..n : s[k] \in Level
    OBVIOUS
  <2>. QED  BY <2>1 DEF Level
<1>2. PICK f \in [0..n -> Nat] : Follows(f, n, 0, step)
  <2>1. step \in [1..n -> [Nat -> Nat]] /\ 0 \in Nat
    BY <1>1
  <2>. HIDE DEF step, n
  <2>. QED  BY <1>1, <2>1, RecursiveFunction
<1>3. f[0] = 0 /\ \A j \in 0..n - 1 : f[j + 1] = f[j] + s[j + 1].left
  <2>1. f[0] = 0
    BY <1>2 DEF Follows
  <2>2. ASSUME NEW j \in 0..n - 1 PROVE f[j + 1] = f[j] + s[j + 1].left
    <3>1. j + 1 \in 1..n /\ j \in 0..n
      BY <1>1
    <3>2. f[j + 1] = step[j + 1][f[j]] /\ f[j] \in Nat
      <4>. HIDE DEF step, n
      <4>. QED  BY <1>2, <3>1 DEF Follows
    <3>. QED  BY <3>1, <3>2
  <2>. QED  BY <2>1, <2>2
<1>4. Is(f)
  <2>1. ASSUME NEW i \in 0..n PROVE f[i] = IF i = 0 THEN 0 ELSE f[i - 1] + s[i].left
    <3>1. CASE i = 0
      BY <1>3, <3>1
    <3>2. CASE i # 0
      <4>1. i - 1 \in 0..n - 1 /\ i - 1 + 1 = i
        BY <1>1, <3>2
      <4>. QED  BY <1>3, <3>2, <4>1
    <3>. QED  BY <3>1, <3>2
  <2>. QED  BY <1>2, <2>1
<1>5. Is(sum)
  <2>. HIDE DEF Is
  <2>. QED  BY <1>4
<1>6. LeftIn(s) = sum[n]
  BY DEF LeftIn
<1>. HIDE DEF sum
<1>7. \A i \in 0..n : sum[i] = IF i = 0 THEN 0 ELSE sum[i - 1] + s[i].left
  BY <1>5
<1>. DEFINE Same == {i \in 0..n : sum[i] = f[i]}
<1>8. 0..n \subseteq Same
  <2>1. 0 \in Same
    BY <1>1, <1>3, <1>7
  <2>2. ASSUME NEW i \in 0..n - 1, i \in Same PROVE i + 1 \in Same
    <3>1. i + 1 \in 0..n /\ i + 1 # 0 /\ i + 1 - 1 = i
      BY <1>1
    <3>. QED  BY <1>3, <1>7, <2>2, <3>1
  <2>. HIDE DEF Same, n
  <2>. QED  BY <1>1, <2>1, <2>2, InductionUpTo
<1>. QED  BY <1>1, <1>3, <1>6, <1>8 DEF Adds

(* The same is left on the first m levels.                                   *)
LeftAlike(s, r, m) == \A i \in 1..m : s[i].left = r[i].left

(* Sums over levels that begin alike.                                        *)
AlikeSums(f, s, g, r, m) ==
    /\ m \in Nat /\ Len(s) \in Nat /\ Len(r) \in Nat /\ m <= Len(s) /\ m <= Len(r)
    /\ LeftAlike(s, r, m) /\ Adds(f, s) /\ Adds(g, r)

(* They are alike that far.                                                  *)
LEMMA AddAlike ==
  ASSUME NEW f, NEW s, NEW g, NEW r, NEW m \in Nat, AlikeSums(f, s, g, r, m)
  PROVE  f[m] = g[m]
<1>0. /\ m \in Nat /\ Len(s) \in Nat /\ Len(r) \in Nat /\ m <= Len(s) /\ m <= Len(r)
      /\ LeftAlike(s, r, m) /\ Adds(f, s) /\ Adds(g, r)
  BY DEF AlikeSums
<1>. DEFINE Same == {i \in 0..m : f[i] = g[i]}
<1>1. 0 \in Same
  BY <1>0 DEF Adds
<1>2. ASSUME NEW i \in 0..m - 1, i \in Same PROVE i + 1 \in Same
  <2>1. i \in 0..Len(s) - 1 /\ i \in 0..Len(r) - 1 /\ i + 1 \in 1..m /\ i + 1 \in 0..m
    BY <1>0
  <2>. QED  BY <1>0, <1>2, <2>1 DEF Adds, LeftAlike
<1>. HIDE DEF Same
<1>3. 0..m \subseteq Same
  BY <1>1, <1>2, InductionUpTo
<1>4. m \in 0..m
  OBVIOUS
<1>. QED  BY <1>3, <1>4 DEF Same

(* What is left on levels is counted by a natural number.                  *)
LEMMA LeftIsNat ==
  ASSUME NEW s \in Seq(Level)
  PROVE  LeftIn(s) \in Nat
<1>1. PICK f \in [0..Len(s) -> Nat] : Adds(f, s) /\ LeftIn(s) = f[Len(s)]
  BY LeftIsSum
<1>. QED  BY <1>1

(* Without levels nothing is left.                                         *)
LEMMA LeftEmpty == LeftIn(<<>>) = 0
<1>1. <<>> \in Seq(Level) /\ Len(<<>>) = 0
  OBVIOUS
<1>2. PICK f \in [0..0 -> Nat] : Adds(f, <<>>) /\ LeftIn(<<>>) = f[0]
  BY <1>1, LeftIsSum
<1>. QED  BY <1>2 DEF Adds

(* A level more adds what is left on it.                                     *)
LEMMA LeftAppend ==
  ASSUME NEW s \in Seq(Level), NEW x \in Level
  PROVE  LeftIn(Append(s, x)) = LeftIn(s) + x.left
<1>0. PICK n \in Nat : n = Len(s)
  OBVIOUS
<1>a. PICK r : r = Append(s, x)
  OBVIOUS
<1>1. r \in Seq(Level) /\ Len(r) = n + 1 /\ r[n + 1] = x /\ \A i \in 1..n : r[i] = s[i]
  BY <1>0, <1>a
<1>2. PICK f : Adds(f, s) /\ LeftIn(s) = f[n]
  BY <1>0, <1>1, LeftIsSum
<1>3. PICK g : Adds(g, r) /\ LeftIn(r) = g[n + 1]
  BY <1>0, <1>1, LeftIsSum
<1>4. f[n] = g[n]
  <2>1. LeftAlike(s, r, n)
    BY <1>1 DEF LeftAlike
  <2>2. n \in Nat /\ n <= Len(s) /\ n <= Len(r) /\ Len(s) \in Nat /\ Len(r) \in Nat
    BY <1>0, <1>1
  <2>3. AlikeSums(f, s, g, r, n)
    BY <1>2, <1>3, <2>1, <2>2 DEF AlikeSums
  <2>. QED  BY <2>2, <2>3, AddAlike
<1>5. g[n + 1] = g[n] + r[n + 1].left
  BY <1>0, <1>1, <1>3 DEF Adds
<1>. QED  BY <1>0, <1>a, <1>1, <1>2, <1>3, <1>4, <1>5

(* Levels are those before the last and the last.                            *)
LEMMA Levelled ==
  ASSUME NEW s \in Seq(Level), s # <<>>
  PROVE  \E r \in Seq(Level), x \in Level :
           /\ s = Append(r, x) /\ x = Last(s) /\ Len(s) = Len(r) + 1
           /\ \A i \in 1..Len(r) : r[i] = s[i]
<1>1. PICK n \in Nat : n = Len(s) - 1 /\ n + 1 = Len(s)
  OBVIOUS
<1>2. PICK r : r = SubSeq(s, 1, n)
  OBVIOUS
<1>3. r \in Seq(Level) /\ Len(r) = n /\ \A i \in 1..n : r[i] = s[i]
  BY <1>1, <1>2
<1>4. PICK x \in Level : x = s[n + 1]
  BY <1>1
<1>5. PICK q : q = Append(r, x)
  OBVIOUS
<1>6. q \in Seq(Level) /\ Len(q) = n + 1 /\ q[n + 1] = x /\ \A i \in 1..n : q[i] = r[i]
  BY <1>3, <1>5
<1>7. \A i \in 1..n + 1 : q[i] = s[i]
  BY <1>3, <1>4, <1>6
<1>8. q = s
  BY <1>1, <1>6, <1>7
<1>. QED  BY <1>1, <1>3, <1>4, <1>5, <1>8 DEF Last

(* Levels without anything left do not count.                                *)
LEMMA LeftBeginning ==
  ASSUME NEW s \in Seq(Level), NEW m \in Nat, m <= Len(s), \A i \in m + 1..Len(s) : s[i].left = 0
  PROVE  LeftIn(SubSeq(s, 1, m)) = LeftIn(s)
<1>0. PICK n \in Nat : n = Len(s) /\ m <= n
  OBVIOUS
<1>a. PICK r : r = SubSeq(s, 1, m)
  OBVIOUS
<1>1. r \in Seq(Level) /\ Len(r) = m /\ \A i \in 1..m : r[i] = s[i]
  BY <1>0, <1>a
<1>2. PICK f : Adds(f, s) /\ LeftIn(s) = f[n] /\ \A i \in 0..n : f[i] \in Nat
  BY <1>0, <1>1, LeftIsSum
<1>3. PICK g : Adds(g, r) /\ LeftIn(r) = g[m]
  BY <1>0, <1>1, LeftIsSum
<1>4. f[m] = g[m]
  <2>1. LeftAlike(s, r, m)
    BY <1>1 DEF LeftAlike
  <2>2. m \in Nat /\ m <= Len(s) /\ m <= Len(r) /\ Len(s) \in Nat /\ Len(r) \in Nat
    BY <1>0, <1>1
  <2>3. AlikeSums(f, s, g, r, m)
    BY <1>2, <1>3, <2>1, <2>2 DEF AlikeSums
  <2>. QED  BY <2>2, <2>3, AddAlike
<1>. DEFINE Stays == {k \in 0..n - m : f[m + k] = f[m]}
<1>5. 0..n - m \subseteq Stays
  <2>1. 0 \in Stays /\ n - m \in Nat
    BY <1>0, <1>1
  <2>2. ASSUME NEW k \in 0..n - m - 1, k \in Stays PROVE k + 1 \in Stays
    <3>1. m + k \in 0..n - 1 /\ m + k + 1 = m + (k + 1) /\ m + k + 1 \in m + 1..n /\ k + 1 \in 0..n - m
          /\ m + k \in 0..n
      BY <1>0, <1>1
    <3>2. f[m + k + 1] = f[m + k] + s[m + k + 1].left
      BY <1>0, <1>1, <1>2, <3>1 DEF Adds
    <3>3. s[m + k + 1].left = 0 /\ f[m + k] \in Nat
      BY <1>0, <1>1, <1>2, <3>1
    <3>. QED  BY <2>2, <3>1, <3>2, <3>3
  <2>. HIDE DEF Stays
  <2>. QED  BY <2>1, <2>2, InductionUpTo
<1>6. f[n] = f[m]
  <2>1. n - m \in 0..n - m /\ m + (n - m) = n
    BY <1>0
  <2>2. n - m \in Stays
    <3>. HIDE DEF Stays
    <3>. QED  BY <1>5, <2>1
  <2>. QED  BY <2>1, <2>2
<1>. QED  BY <1>0, <1>a, <1>1, <1>2, <1>3, <1>4, <1>6

-----------------------------------------------------------------------------
(* No node waits on two levels.                                              *)
Apart(s) == \A i, j \in 1..Len(s) : i # j => Waiting(s[i]) \cap Waiting(s[j]) = {}

(* Without its last levels, on which nothing waits, s is p.                  *)
Cuts(p, s, m) ==
    /\ m \in Nat /\ m <= Len(s) /\ p = SubSeq(s, 1, m)
    /\ \A i \in m + 1..Len(s) : s[i].left = 0
    /\ m # 0 => s[m].left > 0

(* What is popped is what is done.                                           *)
LEMMA PoppedCuts ==
  ASSUME NEW s \in Seq(Level)
  PROVE  \E m \in Nat : Cuts(Popped(s), s, m)
<1>0. PICK n \in Nat : n = Len(s)
  OBVIOUS
<1>1. \A i \in 1..n : s[i].left \in Nat
  <2>1. \A i \in 1..n : s[i] \in Level
    BY <1>0
  <2>. QED  BY <2>1 DEF Level
<1>2. PICK open : open = {i \in 1..n : s[i].left > 0}
  OBVIOUS
<1>3. PICK m : m = Max({0} \cup open)
  OBVIOUS
<1>4. m \in {0} \cup open /\ \A i \in {0} \cup open : i <= m
  <2>1. CASE open = {}
    <3>1. {0} \cup open = {0}
      BY <2>1
    <3>2. \A x \in {0} : x >= x
      OBVIOUS
    <3>. QED  BY <1>3, <3>1, <3>2 DEF Max
  <2>2. CASE open # {}
    <3>1. open \in SUBSET (1..n)
      BY <1>2
    <3>2. PICK l : l = Max(open)
      OBVIOUS
    <3>3. l \in open /\ \A x \in open : x <= l
      BY <2>2, <3>1, <3>2, LastPlace
    <3>4. l \in {0} \cup open /\ l \in 1..n /\ \A x \in {0} \cup open : l >= x
      BY <3>1, <3>3
    <3>5. m \in {0} \cup open /\ \A x \in {0} \cup open : m >= x
      BY <1>3, <3>4 DEF Max
    <3>6. \A x \in {0} \cup open : x \in Int
      BY <3>1
    <3>. QED  BY <3>5, <3>6
  <2>. QED  BY <2>1, <2>2
<1>5. Popped(s) = SubSeq(s, 1, m)
  BY <1>0, <1>2, <1>3 DEF Popped
<1>6. m \in Nat /\ m <= n
  BY <1>2, <1>4
<1>7. ASSUME NEW i \in m + 1..n PROVE s[i].left = 0
  <2>1. i \notin open /\ i \in 1..n
    BY <1>4, <1>6
  <2>. QED  BY <1>1, <1>2, <2>1
<1>8. m # 0 => s[m].left > 0
  BY <1>2, <1>4
<1>. QED  BY <1>0, <1>5, <1>6, <1>7, <1>8 DEF Cuts

(* On p there waits what waits on s, and p ends with a level that is open.   *)
Pops(p, s) ==
    /\ p \in Seq(Level) /\ Len(p) <= Len(s) /\ LeftIn(p) = LeftIn(s)
    /\ WaitingIn(p) = WaitingIn(s) /\ (Apart(s) => Apart(p))
    /\ p # <<>> => Last(p).left > 0

(* Popping the done levels leaves what waits and what is left as it was.   *)
LEMMA CutsPops ==
  ASSUME NEW s \in Seq(Level), NEW p, NEW m, Cuts(p, s, m)
  PROVE  Pops(p, s)
<1>0. PICK n \in Nat : n = Len(s)
  OBVIOUS
<1>1. m \in Nat /\ m <= n /\ p = SubSeq(s, 1, m)
  BY <1>0 DEF Cuts
<1>2. p \in Seq(Level) /\ Len(p) = m /\ \A i \in 1..m : p[i] = s[i]
  BY <1>0, <1>1
<1>3. \A i \in m + 1..n : s[i].left = 0
  BY <1>0 DEF Cuts
<1>4. LeftIn(p) = LeftIn(s)
  BY <1>0, <1>1, <1>3, LeftBeginning
<1>5. \A i \in m + 1..n : Waiting(s[i]) = {}
  <2>1. ASSUME NEW i \in m + 1..n PROVE Waiting(s[i]) = {}
    <3>1. i \in 1..Len(s)
      BY <1>0, <1>1
    <3>2. s[i] \in Level
      BY <3>1
    <3>3. s[i].child \in Nat /\ s[i].left = 0
      BY <1>3, <3>2 DEF Level
    <3>. QED  BY <3>3 DEF Waiting
  <2>. QED  BY <2>1
<1>6. WaitingIn(p) = WaitingIn(s)
  <2>1. \A x : x \in WaitingIn(p) <=> \E i \in 1..m : x \in Waiting(s[i])
    BY <1>2 DEF WaitingIn
  <2>2. \A x : x \in WaitingIn(s) <=> \E i \in 1..n : x \in Waiting(s[i])
    BY <1>0 DEF WaitingIn
  <2>3. \A i \in 1..n : i \in 1..m \/ i \in m + 1..n
    BY <1>1
  <2>4. \A i \in 1..m : i \in 1..n
    BY <1>1
  <2>5. ASSUME NEW x PROVE x \in WaitingIn(p) <=> x \in WaitingIn(s)
    BY <1>5, <2>1, <2>2, <2>3, <2>4, Zenon
  <2>. QED  BY <2>5
<1>7. ASSUME Apart(s) PROVE Apart(p)
  <2>1. \A i \in 1..m : i \in 1..n
    BY <1>1
  <2>. QED  BY <1>0, <1>2, <1>7, <2>1 DEF Apart
<1>8. ASSUME p # <<>> PROVE Last(p).left > 0
  <2>1. m # 0 /\ m \in 1..m
    BY <1>1, <1>2, <1>8
  <2>2. Last(p) = s[m]
    BY <1>2, <2>1 DEF Last
  <2>. QED  BY <2>1, <2>2 DEF Cuts
<1>. QED  BY <1>0, <1>1, <1>2, <1>4, <1>6, <1>7, <1>8 DEF Pops

(* n is s when its next node has been taken.                                 *)
Takes(n, s) ==
    /\ n \in Seq(Level) /\ Len(n) = Len(s) /\ LeftIn(n) = LeftIn(s) - 1
    /\ Last(s).child \in WaitingIn(s)
    /\ WaitingIn(n) = WaitingIn(s) \ {Last(s).child} /\ Apart(n)

(* Going on in a level takes the node at its top from what waits.          *)
LEMMA NextInLevelTakes ==
  ASSUME NEW s \in Seq(Level), s # <<>>, Last(s).left > 0, Apart(s)
  PROVE  Takes(NextInLevel(s), s)
<1>1. PICK r \in Seq(Level), x \in Level :
         /\ s = Append(r, x) /\ x = Last(s) /\ Len(s) = Len(r) + 1
         /\ \A i \in 1..Len(r) : r[i] = s[i]
  BY Levelled
<1>2. PICK m \in Nat : m = Len(r) /\ Len(s) = m + 1
  BY <1>1
<1>3. PICK c \in Nat \ {0}, l \in Nat \ {0} : c = x.child /\ l = x.left
  BY <1>1 DEF Level
<1>4. PICK y : y = [child |-> c + 1, left |-> l - 1]
  OBVIOUS
<1>5. y \in Level /\ y.child = c + 1 /\ y.left = l - 1
  BY <1>4 DEF Level
<1>6. PICK n : n = NextInLevel(s)
  OBVIOUS
<1>7. n = [s EXCEPT ![m + 1] = y]
  <2>1. s[m + 1] = x
    BY <1>1, <1>2
  <2>. QED  BY <1>2, <1>3, <1>4, <1>6, <2>1 DEF NextInLevel
<1>8. n \in Seq(Level) /\ Len(n) = m + 1 /\ n[m + 1] = y /\ \A i \in 1..m : n[i] = s[i]
  BY <1>2, <1>5, <1>7
<1>9. n = Append(r, y)
  <2>1. PICK q : q = Append(r, y)
    OBVIOUS
  <2>2. q \in Seq(Level) /\ Len(q) = m + 1 /\ q[m + 1] = y /\ \A i \in 1..m : q[i] = r[i]
    BY <1>2, <1>5, <2>1
  <2>3. \A i \in 1..m + 1 : q[i] = n[i]
    BY <1>1, <1>2, <1>8, <2>2
  <2>. QED  BY <1>8, <2>1, <2>2, <2>3
<1>10. LeftIn(n) = LeftIn(s) - 1
  <2>1. LeftIn(s) = LeftIn(r) + l /\ LeftIn(n) = LeftIn(r) + (l - 1)
    BY <1>1, <1>3, <1>5, <1>9, LeftAppend
  <2>. QED  BY <2>1, LeftIsNat
<1>11. Waiting(x) = c..c + l - 1 /\ Waiting(y) = c + 1..c + l - 1
  <2>1. c + 1 + (l - 1) - 1 = c + l - 1
    OBVIOUS
  <2>. QED  BY <1>3, <1>5, <2>1 DEF Waiting
<1>12. c \in Waiting(x) /\ Waiting(y) = Waiting(x) \ {c}
  BY <1>11
<1>13. \A i \in 1..m + 1 : i # m + 1 => Waiting(s[i]) \cap Waiting(x) = {}
  <2>1. s[m + 1] = x /\ m + 1 \in 1..Len(s)
    BY <1>1, <1>2
  <2>. QED  BY <1>2, <2>1 DEF Apart
<1>14. WaitingIn(n) = WaitingIn(s) \ {c} /\ c \in WaitingIn(s)
  <2>1. \A z : z \in WaitingIn(n) <=> \E i \in 1..m + 1 : z \in Waiting(n[i])
    BY <1>8 DEF WaitingIn
  <2>2. \A z : z \in WaitingIn(s) <=> \E i \in 1..m + 1 : z \in Waiting(s[i])
    BY <1>2 DEF WaitingIn
  <2>3. m + 1 \in 1..m + 1 /\ s[m + 1] = x /\ n[m + 1] = y
    BY <1>1, <1>2, <1>8
  <2>4. \A i \in 1..m + 1 : i # m + 1 => n[i] = s[i]
    BY <1>8
  <2>5. c \in WaitingIn(s)
    BY <1>12, <2>2, <2>3
  <2>6. ASSUME NEW z PROVE z \in WaitingIn(n) <=> z \in WaitingIn(s) \ {c}
    <3>1. ASSUME NEW i \in 1..m + 1, z \in Waiting(n[i]) PROVE z \in Waiting(s[i]) /\ z # c
      BY <1>12, <1>13, <2>3, <2>4, <3>1
    <3>2. ASSUME NEW i \in 1..m + 1, z \in Waiting(s[i]), z # c PROVE z \in Waiting(n[i])
      BY <1>12, <2>3, <2>4, <3>2
    <3>. QED  BY <2>1, <2>2, <3>1, <3>2, Zenon
  <2>. QED  BY <2>5, <2>6
<1>15. Apart(n)
  <2>1. \A i \in 1..m + 1 : Waiting(n[i]) \subseteq Waiting(s[i])
    BY <1>1, <1>2, <1>8, <1>12
  <2>2. \A i, j \in 1..m + 1 : i # j => Waiting(s[i]) \cap Waiting(s[j]) = {}
    BY <1>2 DEF Apart
  <2>. QED  BY <1>8, <2>1, <2>2 DEF Apart
<1>. QED  BY <1>1, <1>2, <1>3, <1>6, <1>8, <1>10, <1>14, <1>15 DEF Takes

(* n is s with a new level.                                                  *)
Opens(n, s, b, k) ==
    /\ n \in Seq(Level) /\ Len(n) = Len(s) + 1 /\ LeftIn(n) = LeftIn(s) + k
    /\ WaitingIn(n) = WaitingIn(s) \cup b..b + k - 1 /\ Apart(n)

(* A new level adds its nodes to what waits.                               *)
LEMMA AppendOpens ==
  ASSUME NEW s \in Seq(Level), NEW b \in Nat \ {0}, NEW k \in Nat, Apart(s), WaitingIn(s) \subseteq 1..b - 1
  PROVE  Opens(Append(s, [child |-> b, left |-> k]), s, b, k)
<1>0. PICK m \in Nat : m = Len(s)
  OBVIOUS
<1>1. PICK x : x = [child |-> b, left |-> k]
  OBVIOUS
<1>2. x \in Level /\ x.child = b /\ x.left = k
  BY <1>1 DEF Level
<1>3. PICK n : n = Append(s, x)
  OBVIOUS
<1>4. n \in Seq(Level) /\ Len(n) = m + 1 /\ n[m + 1] = x /\ \A i \in 1..m : n[i] = s[i]
  BY <1>0, <1>2, <1>3
<1>5. LeftIn(n) = LeftIn(s) + k
  BY <1>2, <1>3, LeftAppend
<1>6. Waiting(x) = b..b + k - 1
  BY <1>2 DEF Waiting
<1>7. \A z : z \in WaitingIn(s) <=> \E i \in 1..m : z \in Waiting(s[i])
  BY <1>0 DEF WaitingIn
<1>8. WaitingIn(n) = WaitingIn(s) \cup Waiting(x)
  <2>1. \A z : z \in WaitingIn(n) <=> \E i \in 1..m + 1 : z \in Waiting(n[i])
    BY <1>4 DEF WaitingIn
  <2>2. \A i \in 1..m + 1 : i = m + 1 \/ i \in 1..m
    OBVIOUS
  <2>3. m + 1 \in 1..m + 1 /\ \A i \in 1..m : i \in 1..m + 1
    OBVIOUS
  <2>4. ASSUME NEW z PROVE z \in WaitingIn(n) <=> z \in WaitingIn(s) \cup Waiting(x)
    BY <1>4, <1>7, <2>1, <2>2, <2>3, Zenon
  <2>. QED  BY <2>4
<1>9. Apart(n)
  <2>1. ASSUME NEW i \in 1..m PROVE Waiting(n[i]) \cap Waiting(n[m + 1]) = {}
    <3>1. \A z \in Waiting(n[i]) : z \in 1..b - 1
      BY <1>4, <1>7
    <3>. QED  BY <1>4, <1>6, <3>1
  <2>2. ASSUME NEW i \in 1..m, NEW j \in 1..m, i # j PROVE Waiting(n[i]) \cap Waiting(n[j]) = {}
    BY <1>0, <1>4, <2>2 DEF Apart
  <2>3. \A i \in 1..m + 1 : i = m + 1 \/ i \in 1..m
    OBVIOUS
  <2>4. ASSUME NEW i \in 1..m + 1, NEW j \in 1..m + 1, i # j PROVE Waiting(n[i]) \cap Waiting(n[j]) = {}
    <3>1. i \in 1..m \/ j \in 1..m
      BY <2>3, <2>4
    <3>2. CASE i \in 1..m /\ j \in 1..m
      BY <2>2, <2>4, <3>2
    <3>3. CASE i = m + 1
      BY <2>1, <2>3, <2>4, <3>3
    <3>4. CASE j = m + 1
      BY <2>1, <2>3, <2>4, <3>4
    <3>. QED  BY <2>3, <3>2, <3>3, <3>4
  <2>. QED  BY <1>4, <2>4 DEF Apart
<1>. QED  BY <1>0, <1>1, <1>3, <1>4, <1>5, <1>6, <1>8, <1>9 DEF Opens

-----------------------------------------------------------------------------
(* What NodesPlacedOnce says, for any pool, nodes that wait and next node.   *)
Kids(n) == n.at..n.at + Total(n.tag) - 1

Placed(p, w, f) ==
    /\ w \subseteq 1..f - 1
    /\ \A i \in 1..f - 1 \ w : Kids(p[i]) \subseteq i + 1..f - 1
    /\ UNION {Kids(p[i]) : i \in 1..f - 1 \ w} = 2..f - 1
    /\ \A i, j \in 1..f - 1 \ w : i # j => Kids(p[i]) \cap Kids(p[j]) = {}

(* A node that waited is parsed, and the next nodes become its children.     *)
LEMMA PlacedNode ==
  ASSUME NEW p, NEW w, NEW f \in Nat \ {0}, Placed(p, w, f), NEW c \in w, NEW n \in Nat,
         NEW q, NEW x, q[c] = x, \A i \in 1..f - 1 : i # c => q[i] = p[i],
         Kids(x) = f..f + n - 1
  PROVE  Placed(q, (w \ {c}) \cup f..f + n - 1, f + n)
<1>. DEFINE old == 1..f - 1 \ w
            v == (w \ {c}) \cup f..f + n - 1
            new == 1..f + n - 1 \ v
<1>1. w \subseteq 1..f - 1 /\ c \in 1..f - 1 /\ c \notin old
  BY DEF Placed
<1>2. new = old \cup {c}
  BY <1>1
<1>3. v \subseteq 1..f + n - 1
  BY <1>1
<1>4. \A i \in old : q[i] = p[i] /\ Kids(q[i]) = Kids(p[i])
  BY <1>1
<1>5. Kids(q[c]) = f..f + n - 1
  OBVIOUS
<1>6. \A i \in old : Kids(p[i]) \subseteq i + 1..f - 1
  BY DEF Placed
<1>7. UNION {Kids(p[i]) : i \in old} = 2..f - 1
  BY DEF Placed
<1>8. \A i, j \in old : i # j => Kids(p[i]) \cap Kids(p[j]) = {}
  BY DEF Placed
<1>9. \A i \in old : i \in 1..f - 1
  OBVIOUS
<1>. HIDE DEF old, new, v
<1>10. \A i \in new : Kids(q[i]) \subseteq i + 1..f + n - 1
  <2>1. ASSUME NEW i \in old PROVE Kids(q[i]) \subseteq i + 1..f + n - 1
    BY <1>4, <1>6, <1>9
  <2>2. Kids(q[c]) \subseteq c + 1..f + n - 1
    BY <1>1, <1>5
  <2>. QED  BY <1>2, <2>1, <2>2
<1>11. UNION {Kids(q[i]) : i \in new} = 2..f + n - 1
  <2>1. PICK u : u = UNION {Kids(q[i]) : i \in new}
    OBVIOUS
  <2>2. PICK v0 : v0 = UNION {Kids(p[i]) : i \in old}
    OBVIOUS
  <2>3. \A z : z \in u <=> \E i \in new : z \in Kids(q[i])
    BY <2>1
  <2>4. \A z : z \in v0 <=> \E i \in old : z \in Kids(p[i])
    BY <2>2
  <2>5. \A i : i \in new <=> i \in old \/ i = c
    BY <1>2
  <2>6. ASSUME NEW z PROVE z \in u <=> z \in v0 \/ z \in Kids(q[c])
    BY <1>4, <2>3, <2>4, <2>5, Zenon
  <2>7. v0 = 2..f - 1
    BY <1>7, <2>2
  <2>8. \A z : z \in u <=> z \in 2..f - 1 \/ z \in f..f + n - 1
    BY <1>5, <2>6, <2>7
  <2>9. 2..f - 1 \cup f..f + n - 1 = 2..f + n - 1
    BY <1>1
  <2>10. u = 2..f - 1 \cup f..f + n - 1
    BY <2>8
  <2>. QED  BY <2>1, <2>9, <2>10
<1>12. \A i, j \in new : i # j => Kids(q[i]) \cap Kids(q[j]) = {}
  <2>1. ASSUME NEW i \in old PROVE Kids(q[i]) \cap Kids(q[c]) = {}
    <3>1. Kids(q[i]) \subseteq 1..f - 1
      BY <1>4, <1>6, <1>9
    <3>2. 1..f - 1 \cap f..f + n - 1 = {}
      OBVIOUS
    <3>. QED  BY <1>5, <3>1, <3>2
  <2>2. ASSUME NEW i \in old, NEW j \in old, i # j PROVE Kids(q[i]) \cap Kids(q[j]) = {}
    BY <1>4, <1>8, <2>2
  <2>. QED  BY <1>2, <2>1, <2>2
<1>13. PICK g : g = f + n
  OBVIOUS
<1>14. new = 1..g - 1 \ v
  BY <1>13 DEF new
<1>15. Placed(q, v, g)
  <2>1. f + n - 1 = g - 1
    BY <1>13
  <2>2. /\ v \subseteq 1..g - 1
        /\ \A i \in new : Kids(q[i]) \subseteq i + 1..g - 1
        /\ UNION {Kids(q[i]) : i \in new} = 2..g - 1
        /\ \A i, j \in new : i # j => Kids(q[i]) \cap Kids(q[j]) = {}
    BY <1>3, <1>10, <1>11, <1>12, <2>1, Zenon
  <2>. QED  BY <1>14, <2>2, Zenon DEF Placed
<1>. QED  BY <1>13, <1>15 DEF v

-----------------------------------------------------------------------------
(* The inductive invariant.                                                  *)
SetupOK ==
    /\ data \in Seq(Byte) /\ poolSize \in Nat /\ limit \in Nat \ {0}
    /\ error = "ok" => poolSize > 0
    /\ call # "none" => error = "ok"
    /\ count \in Nat

PoolOK ==
    /\ DOMAIN pool = 1..poolSize
    /\ \A i \in 1..poolSize : Worded(pool[i].tag) /\ pool[i].at \in Nat

StackOK ==
    /\ stack \in Seq(Level)
    /\ stack # <<>> <=> state = "in_progress"
    /\ stack # <<>> => Last(stack).left > 0

TreeIInv ==
    /\ SetupOK /\ PoolOK /\ TreeTypeOK /\ BytesAccounted
    /\ state \in {"in_progress", "parsed"} => StackOK
    /\ state \in {"in_progress", "parsed"} /\ error = "ok" =>
         Apart(stack) /\ Placed(pool, WaitingIn(stack), free)

(* The inductive invariant implies the invariant of the tree.              *)
LEMMA TreeIsSoundNow ==
  ASSUME TreeIInv
  PROVE  TreeInv
<1>1. ASSUME state \in {"in_progress", "parsed"}, error = "ok"
      PROVE  NodesPlacedOnce
  <2>1. Apart(stack) /\ Placed(pool, WaitingIn(stack), free)
    BY <1>1 DEF TreeIInv
  <2>2. \A i : ChildrenOf(i) = Kids(pool[i])
    BY DEF ChildrenOf, Kids
  <2>. QED  BY <2>1, <2>2 DEF NodesPlacedOnce, Placed, Apart
<1>2. ~(state \in {"in_progress", "parsed"} /\ error = "ok") => NodesPlacedOnce
  BY DEF NodesPlacedOnce
<1>. QED  BY <1>1, <1>2 DEF TreeIInv, TreeInv

(* The parser is sound before its first call.                              *)
LEMMA BeginsSound ==
  ASSUME Init
  PROVE  TreeIInv
<1>1. SetupOK
  <2>1. data \in Seq(Byte)
    BY TreeAssumption DEF Init, Byte
  <2>2. poolSize \in Nat /\ limit \in Nat \ {0}
    BY TreeAssumption DEF Init
  <2>3. error = "ok" => poolSize > 0
    BY <2>2 DEF Init
  <2>. QED  BY <2>1, <2>2, <2>3 DEF Init, SetupOK
<1>2. PoolOK
  <2>1. Worded(Unset.tag) /\ Unset.at \in Nat
    <3>1. <<>> \in Seq(Nat) /\ Unset.tag.v = <<>> /\ Unset.at = 0
      BY DEF Unset, Node, Tag
    <3>. QED  BY <3>1 DEF Worded
  <2>2. pool = [i \in 1..poolSize |-> Unset]
    BY DEF Init
  <2>. QED  BY <2>1, <2>2 DEF PoolOK
<1>3. TreeTypeOK
  <2>1. Len(data) \in Nat /\ Len(stack) = 0 /\ poolSize \in Nat
    BY <1>1 DEF SetupOK, Init
  <2>2. Depth \in Nat \ {0}
    BY TreeAssumption
  <2>. QED  BY <2>1, <2>2 DEF Init, TreeTypeOK
<1>. QED  BY <1>1, <1>2, <1>3 DEF Init, TreeIInv, BytesAccounted

-----------------------------------------------------------------------------
(* A parse begins with the root.                                             *)
LEMMA RootIsPlaced ==
  ASSUME NEW s, s = <<[child |-> 1, left |-> 1]>>
  PROVE  /\ s \in Seq(Level) /\ Len(s) = 1 /\ s # <<>> /\ Last(s).left > 0
         /\ LeftIn(s) = 1 /\ Apart(s) /\ \A p : Placed(p, WaitingIn(s), 2)
<1>1. PICK x : x = [child |-> 1, left |-> 1]
  OBVIOUS
<1>2. x \in Level /\ x.child = 1 /\ x.left = 1
  BY <1>1 DEF Level
<1>3. s = <<x>> /\ s \in Seq(Level) /\ Len(s) = 1 /\ s[1] = x
  BY <1>1, <1>2
<1>4. LeftIn(s) = 1
  <2>1. <<>> \in Seq(Level) /\ s = Append(<<>>, x)
    BY <1>3
  <2>2. LeftIn(Append(<<>>, x)) = LeftIn(<<>>) + x.left
    BY <1>2, <2>1, LeftAppend
  <2>. QED  BY <1>2, <2>1, <2>2, LeftEmpty
<1>5. Apart(s)
  BY <1>3 DEF Apart
<1>6. WaitingIn(s) = {1}
  <2>1. Waiting(x) = {1}
    BY <1>2 DEF Waiting
  <2>2. \A z : z \in WaitingIn(s) <=> \E i \in 1..1 : z \in Waiting(s[i])
    BY <1>3 DEF WaitingIn
  <2>. QED  BY <1>3, <2>1, <2>2
<1>7. ASSUME NEW p PROVE Placed(p, {1}, 2)
  <2>1. 1..2 - 1 = {1} /\ 2..2 - 1 = {}
    OBVIOUS
  <2>2. 1..2 - 1 \ {1} = {}
    BY <2>1
  <2>. QED  BY <2>1, <2>2 DEF Placed
<1>. QED  BY <1>2, <1>3, <1>4, <1>5, <1>6, <1>7 DEF Last

(* Starting a parse (mpack_tree_parse_start) keeps the invariant.          *)
LEMMA StartKeeps ==
  ASSUME TreeIInv, NEW c \in {"parse", "try"}, Start(c)
  PROVE  TreeIInv'
<1>1. /\ base' = base + size /\ length' = length - size /\ size' = 0
      /\ UNCHANGED <<data, poolSize, limit, sizeLimit, pool, nth>> /\ call = "none" /\ error = "ok"
  BY DEF Start, Idle, given
<1>2. /\ base \in Nat /\ length \in Nat /\ base + length <= Len(data) /\ size \in 0..length
      /\ possible \in 0..length /\ free \in 1..poolSize + 1 /\ Len(stack) \in 0..Depth
      /\ state \in {"not_started", "in_progress", "parsed", "undefined"}
  BY DEF TreeIInv, TreeTypeOK
<1>3. /\ data \in Seq(Byte) /\ poolSize \in Nat /\ limit \in Nat \ {0} /\ poolSize > 0 /\ count \in Nat
  BY <1>1 DEF TreeIInv, SetupOK
<1>4. PoolOK'
  BY <1>1 DEF PoolOK, TreeIInv
<1>5. PICK l \in Nat : l = length - size
  BY <1>2
<1>6. Depth \in Nat \ {0} /\ Len(data) \in Nat
  BY <1>3, TreeAssumption
<1>7. base' \in Nat /\ length' = l /\ base' + length' <= Len(data') /\ size' \in 0..length'
  BY <1>1, <1>2, <1>5, <1>6
<1>8. CASE l > 0
  <2>1. /\ state' = "in_progress" /\ call' = c /\ possible' = l - 1 /\ count' = 1 /\ free' = 2
        /\ stack' = <<[child |-> 1, left |-> 1]>> /\ error' = error
    BY <1>5, <1>8 DEF Start
  <2>2. /\ stack' \in Seq(Level) /\ Len(stack') = 1 /\ stack' # <<>> /\ Last(stack').left > 0
        /\ LeftIn(stack') = 1 /\ Apart(stack') /\ \A p : Placed(p, WaitingIn(stack'), 2)
    BY <2>1, RootIsPlaced
  <2>3. SetupOK'
    BY <1>1, <1>3, <2>1 DEF SetupOK
  <2>4. TreeTypeOK'
    BY <1>1, <1>3, <1>6, <1>7, <1>8, <2>1, <2>2 DEF TreeTypeOK
  <2>5. BytesAccounted'
    BY <1>1, <1>7, <2>1, <2>2 DEF BytesAccounted, Pending
  <2>6. StackOK'
    BY <2>1, <2>2 DEF StackOK
  <2>7. (Apart(stack) /\ Placed(pool, WaitingIn(stack), free))'
    BY <2>1, <2>2
  <2>. QED  BY <1>4, <2>3, <2>4, <2>5, <2>6, <2>7 DEF TreeIInv
<1>9. CASE ~(l > 0)
  <2>1. /\ state' = "not_started" /\ call' = call /\ possible' = 0 /\ UNCHANGED <<free, stack>>
        /\ count' = IF size > 0 THEN 0 ELSE count
    BY <1>5, <1>9 DEF Start
  <2>2. SetupOK'
    BY <1>1, <1>3, <2>1 DEF SetupOK
  <2>3. TreeTypeOK'
    BY <1>1, <1>2, <1>6, <1>7, <2>1 DEF TreeTypeOK
  <2>. QED  BY <1>4, <2>1, <2>2, <2>3 DEF TreeIInv, BytesAccounted
<1>. QED  BY <1>5, <1>8, <1>9

(* Going on with a parse that lacked bytes keeps the invariant.            *)
LEMMA ResumeKeeps ==
  ASSUME TreeIInv, NEW c \in {"parse", "try"}, Resume(c)
  PROVE  TreeIInv'
<1>1. /\ UNCHANGED <<data, poolSize, limit, sizeLimit, base, length, size, count, pool, free,
                     possible, stack, state, error, nth>>
      /\ call' = c /\ error = "ok" /\ state = "in_progress"
  BY DEF Resume, Idle, given
<1>2. SetupOK' /\ PoolOK' /\ TreeTypeOK' /\ BytesAccounted'
  BY <1>1 DEF TreeIInv, SetupOK, PoolOK, TreeTypeOK, BytesAccounted, Pending
<1>3. StackOK /\ Apart(stack) /\ Placed(pool, WaitingIn(stack), free)
  BY <1>1 DEF TreeIInv
<1>4. StackOK'
  BY <1>1, <1>3 DEF StackOK
<1>5. (Apart(stack) /\ Placed(pool, WaitingIn(stack), free))'
  BY <1>1, <1>3
<1>. QED  BY <1>2, <1>4, <1>5 DEF TreeIInv

-----------------------------------------------------------------------------
(* Where the parser stands while it runs: a node waits, and a byte for it.   *)
Runs ==
    /\ error = "ok" /\ state = "in_progress" /\ StackOK /\ stack # <<>>
    /\ Apart(stack) /\ Placed(pool, WaitingIn(stack), free)
    /\ Pending \in Nat \ {0} /\ length = size + possible + Pending
    /\ size \in Nat /\ possible \in Nat /\ base \in Nat /\ length \in Nat
    /\ base + length <= Len(data) /\ Len(data) \in Nat
    /\ free \in Nat \ {0} /\ free <= poolSize + 1 /\ poolSize \in Nat /\ First \in Byte

(* While a parse runs, a node waits at the top of the stack.               *)
LEMMA CallRuns ==
  ASSUME TreeIInv, call # "none"
  PROVE  Runs
<1>1. error = "ok" /\ state = "in_progress"
  BY DEF TreeIInv, SetupOK, TreeTypeOK
<1>2. StackOK /\ Apart(stack) /\ Placed(pool, WaitingIn(stack), free) /\ stack # <<>>
  BY <1>1 DEF TreeIInv, StackOK
<1>3. Pending \in Nat \ {0}
  <2>1. stack \in Seq(Level) /\ Last(stack).left > 0
    BY <1>2 DEF StackOK
  <2>2. PICK r \in Seq(Level), x \in Level : stack = Append(r, x) /\ x = Last(stack)
    BY <1>2, <2>1, Levelled
  <2>3. LeftIn(stack) = LeftIn(r) + x.left
    BY <2>2, LeftAppend
  <2>4. LeftIn(r) \in Nat /\ x.left \in Nat
    BY LeftIsNat DEF Level
  <2>. QED  BY <2>1, <2>2, <2>3, <2>4 DEF Pending
<1>4. length = size + possible + Pending
  BY <1>1 DEF TreeIInv, BytesAccounted
<1>5. /\ base \in Nat /\ length \in Nat /\ base + length <= Len(data) /\ size \in 0..length
      /\ possible \in 0..length /\ free \in 1..poolSize + 1 /\ data \in Seq(Byte) /\ poolSize \in Nat
  BY DEF TreeIInv, TreeTypeOK, SetupOK
<1>6. Len(data) \in Nat
  BY <1>5
<1>7. First \in Byte
  <2>1. base + size + 1 \in 1..Len(data)
    BY <1>3, <1>4, <1>5, <1>6
  <2>. QED  BY <1>5, <2>1 DEF First
<1>. QED  BY <1>1, <1>2, <1>3, <1>4, <1>5, <1>6, <1>7 DEF Runs

(* What follows the tag has a length.                                        *)
LEMMA TagCounts ==
  ASSUME NEW t, Worded(t)
  PROVE  Holds(t) \in Nat /\ Total(t) \in Nat
<1>1. PICK m \in Nat : m = Number(t.v)
  BY NumberIsNat DEF Worded
<1>. QED  BY <1>1 DEF Holds, Total

(* A node whose tag is wholly there has its bytes in the data.             *)
LEMMA TagIsHere ==
  ASSUME TreeIInv, HasWord
  PROVE  /\ Worded(TagHere) /\ Holds(TagHere) \in Nat /\ Total(TagHere) \in Nat
         /\ WordSize(First) \in Nat /\ TagSize(First) = 1 + WordSize(First)
         /\ WordSize(First) <= possible
<1>1. Runs /\ Refusal(First) = "ok" /\ WordSize(First) <= possible
  BY CallRuns DEF HasWord, IsTag, Reaches
<1>2. WordSize(First) \in Nat
  BY DEF WordSize
<1>3. TagSize(First) = 1 + WordSize(First)
  BY DEF TagSize
<1>4. WordHere \in Seq(Nat)
  <2>1. data \in Seq(Byte) /\ Len(data) \in Nat
    BY DEF TreeIInv, SetupOK
  <2>2. \A b \in Byte : b \in Nat
    BY DEF Byte
  <2>3. data \in Seq(Nat)
    <3>. HIDE DEF Byte
    <3>. QED  BY <2>1, <2>2
  <2>4. PICK w \in Nat : w = WordSize(First) /\ w <= possible /\ TagSize(First) = 1 + w
    BY <1>1, <1>2, <1>3
  <2>5. PICK at \in Nat : at = base + size /\ at + (1 + w) <= Len(data)
    <3>1. /\ base \in Nat /\ size \in Nat /\ possible \in Nat /\ Pending \in Nat \ {0} /\ length \in Nat
          /\ length = size + possible + Pending /\ base + length <= Len(data)
      BY <1>1 DEF Runs
    <3>. QED  BY <2>1, <2>4, <3>1
  <2>6. \A i \in at + 2..at + (1 + w) : data[i] \in Nat
    <3>1. \A i \in at + 2..at + (1 + w) : i \in 1..Len(data)
      BY <2>1, <2>5
    <3>. QED  BY <2>3, <3>1
  <2>7. SubSeq(data, at + 2, at + (1 + w)) \in Seq(Nat)
    <3>1. at + 2 \in Int /\ at + (1 + w) \in Int
      OBVIOUS
    <3>. QED  BY <2>6, <3>1, SubSeqProperties
  <2>. QED  BY <2>4, <2>5, <2>7 DEF WordHere
<1>5. Worded(TagHere)
  <2>1. First \in Byte
    BY <1>1 DEF Runs
  <2>. QED  BY <1>1, <1>4, <2>1, ReadTagWorded DEF TagHere
<1>. QED  BY <1>1, <1>2, <1>3, <1>5, TagCounts

-----------------------------------------------------------------------------
(* A parse that returns, with or without an error, leaves the nodes as they  *)
(* are; with an error they may be counted.                                   *)
Quiet ==
    /\ Returns
    /\ count' \in Nat /\ free' \in 1..poolSize + 1
    /\ error' = "ok" => free' = free

(* A step that leaves the tree alone, or stops the parse, keeps the invariant. *)
LEMMA QuietKeeps ==
  ASSUME TreeIInv, call # "none", Quiet
  PROVE  TreeIInv'
<1>1. /\ UNCHANGED <<data, poolSize, limit, sizeLimit, base, length, size, pool, possible, stack, state>>
      /\ call' = "none" /\ count' \in Nat /\ free' \in 1..poolSize + 1 /\ (error' = "ok" => free' = free)
  BY DEF Quiet, Returns, given
<1>2. error = "ok" /\ state = "in_progress" /\ StackOK /\ Apart(stack) /\ Placed(pool, WaitingIn(stack), free)
  BY CallRuns DEF Runs
<1>3. SetupOK'
  BY <1>1, <1>2 DEF TreeIInv, SetupOK
<1>4. PoolOK' /\ TreeTypeOK' /\ BytesAccounted'
  BY <1>1 DEF TreeIInv, PoolOK, TreeTypeOK, BytesAccounted, Pending
<1>5. StackOK'
  BY <1>1, <1>2 DEF StackOK
<1>6. error' = "ok" => (Apart(stack) /\ Placed(pool, WaitingIn(stack), free))'
  BY <1>1, <1>2
<1>. QED  BY <1>3, <1>4, <1>5, <1>6 DEF TreeIInv

(* The ways out of a parse keep the invariant.                             *)
LEMMA LeaveSwitchKeeps ==
  ASSUME TreeIInv, LeaveSwitch
  PROVE  TreeIInv'
<1>1. /\ UNCHANGED <<data, poolSize, limit, sizeLimit, base, length, size, pool, possible, stack, free,
                     count, error>>
      /\ call' = "none" /\ state' = "undefined"
  BY DEF LeaveSwitch, given
<1>. QED  BY <1>1 DEF TreeIInv, SetupOK, PoolOK, TreeTypeOK, BytesAccounted

(* Why a parse returns.                                                      *)
LEMMA StoppingIsQuiet ==
  ASSUME TreeIInv,
         \/ RefuseNode \/ MissWord \/ MissBytes \/ ExceedLimit \/ MissChildren \/ ExceedPool \/ ExceedStack
  PROVE  Quiet /\ call # "none"
<1>0. free \in 1..poolSize + 1 /\ count \in Nat /\ poolSize \in Nat
  BY DEF TreeIInv, TreeTypeOK, SetupOK
<1>1. CASE RefuseNode
  BY <1>0, <1>1 DEF RefuseNode, Fails, Quiet
<1>2. CASE MissWord \/ MissBytes
  BY <1>0, <1>2 DEF MissWord, MissBytes, IsLeaf, HasWord, IsTag, Stops, Quiet
<1>3. ASSUME IsBranch, Counts PROVE count' \in Nat /\ call # "none" /\ Total(TagHere) \in Nat
  <2>1. HasWord /\ call # "none"
    BY <1>3 DEF IsBranch, HasWord, IsTag
  <2>2. Total(TagHere) \in Nat
    BY <2>1, TagIsHere
  <2>. QED  BY <1>0, <1>3, <2>1, <2>2 DEF Counts
<1>4. CASE ExceedLimit \/ ExceedPool \/ MissChildren
  <2>1. IsBranch /\ Counts /\ Returns /\ free' = free
    BY <1>4 DEF ExceedLimit, ExceedPool, MissChildren, Fails, Stops
  <2>. QED  BY <1>0, <1>3, <2>1 DEF Quiet
<1>5. CASE ExceedStack
  <2>1. /\ IsBranch /\ Counts /\ Returns /\ free' = free + Total(TagHere) /\ InPool /\ FlagError("too_big")
    BY <1>5 DEF ExceedStack, Fails
  <2>2. error = "ok"
    BY <1>3, <2>1, CallRuns DEF Runs
  <2>3. error' # "ok"
    BY <2>1, <2>2 DEF FlagError
  <2>4. free' \in 1..poolSize + 1
    BY <1>0, <1>3, <2>1 DEF InPool
  <2>. QED  BY <1>3, <2>1, <2>3, <2>4 DEF Quiet
<1>. QED  BY <1>1, <1>2, <1>4, <1>5

-----------------------------------------------------------------------------
(* The stack when a node has been parsed whose children are the next n nodes.*)
Grown(s, n) ==
    /\ s \in Seq(Level) /\ Len(s) \in 0..Depth /\ Apart(s)
    /\ LeftIn(s) = Pending - 1 + n
    /\ WaitingIn(s) = (WaitingIn(stack) \ {Top.child}) \cup free..free + n - 1

(* A parsed node, with or without children, keeps the invariant.           *)
LEMMA NodeKeeps ==
  ASSUME TreeIInv, call # "none", NEW s, NEW x, NEW n \in Nat, NEW k \in Nat,
         k + n <= possible, n <= poolSize - free + 1, Grown(s, n),
         Top.child \in WaitingIn(stack), Worded(x.tag), x.at \in Nat, Kids(x) = free..free + n - 1,
         pool' = [pool EXCEPT ![Top.child] = x], free' = free + n,
         possible' = possible - k - n, size' = size + 1 + k, count' \in Nat, Goes(s)
  PROVE  TreeIInv'
<1>1. Runs
  BY CallRuns
<1>2. /\ error = "ok" /\ state = "in_progress" /\ Apart(stack) /\ Placed(pool, WaitingIn(stack), free)
      /\ Pending \in Nat \ {0} /\ length = size + possible + Pending
      /\ size \in Nat /\ possible \in Nat /\ base \in Nat /\ length \in Nat
      /\ base + length <= Len(data) /\ Len(data) \in Nat
      /\ free \in Nat \ {0} /\ free <= poolSize + 1 /\ poolSize \in Nat
  BY <1>1 DEF Runs
<1>3. PICK c : c = Top.child /\ c \in WaitingIn(stack)
  OBVIOUS
<1>4. c \in 1..free - 1 /\ c \in 1..poolSize
  BY <1>2, <1>3 DEF Placed
<1>5. /\ UNCHANGED <<data, poolSize, limit, sizeLimit, base, length, error>> /\ stack' = Popped(s)
      /\ IF Popped(s) = <<>> THEN state' = "parsed" /\ call' = "none" ELSE UNCHANGED <<state, call>>
  BY DEF Goes, given
<1>6. PICK m \in Nat : Cuts(Popped(s), s, m)
  BY PoppedCuts DEF Grown
<1>7. Pops(stack', s)
  BY <1>5, <1>6, CutsPops DEF Grown
<1>8. /\ stack' \in Seq(Level) /\ Len(stack') \in 0..Depth /\ Apart(stack')
      /\ LeftIn(stack') = Pending - 1 + n
      /\ WaitingIn(stack') = (WaitingIn(stack) \ {c}) \cup free..free + n - 1
      /\ stack' # <<>> => Last(stack').left > 0
  <2>1. Depth \in Nat
    BY TreeAssumption
  <2>2. /\ stack' \in Seq(Level) /\ Len(stack') <= Len(s) /\ LeftIn(stack') = LeftIn(s)
        /\ WaitingIn(stack') = WaitingIn(s) /\ (Apart(s) => Apart(stack'))
        /\ stack' # <<>> => Last(stack').left > 0
    BY <1>7 DEF Pops
  <2>3. /\ s \in Seq(Level) /\ Len(s) \in 0..Depth /\ Apart(s) /\ LeftIn(s) = Pending - 1 + n
        /\ WaitingIn(s) = (WaitingIn(stack) \ {c}) \cup free..free + n - 1
    BY <1>3 DEF Grown
  <2>4. Len(stack') \in 0..Depth
    BY <2>1, <2>2, <2>3
  <2>. QED  BY <2>2, <2>3, <2>4, Zenon
<1>9. /\ DOMAIN pool = 1..poolSize /\ \A i \in 1..poolSize : Worded(pool[i].tag) /\ pool[i].at \in Nat
  BY DEF TreeIInv, PoolOK
<1>10. DOMAIN pool' = 1..poolSize /\ pool'[c] = x /\ \A i \in 1..poolSize : i # c => pool'[i] = pool[i]
  BY <1>3, <1>4, <1>9
<1>11. PoolOK'
  <2>1. \A i \in 1..poolSize : Worded(pool'[i].tag) /\ pool'[i].at \in Nat
    BY <1>9, <1>10, Zenon
  <2>. QED  BY <1>5, <1>10, <2>1 DEF PoolOK
<1>12. Placed(pool', WaitingIn(stack'), free')
  <2>1. \A i \in 1..free - 1 : i # c => pool'[i] = pool[i]
    BY <1>2, <1>10
  <2>2. PICK q : q = pool'
    OBVIOUS
  <2>3. PICK w : w = WaitingIn(stack)
    OBVIOUS
  <2>4. Placed(q, (w \ {c}) \cup free..free + n - 1, free + n)
    <3>1. free \in Nat \ {0} /\ Placed(pool, w, free) /\ c \in w
      BY <1>2, <1>3, <2>3
    <3>2. q[c] = x /\ \A i \in 1..free - 1 : i # c => q[i] = pool[i]
      BY <1>10, <2>1, <2>2
    <3>. QED  BY <3>1, <3>2, PlacedNode
  <2>. QED  BY <1>8, <2>2, <2>3, <2>4
<1>13. SetupOK'
  <2>1. call' # "none" => call # "none"
    OBVIOUS
  <2>. QED  BY <1>2, <1>5 DEF TreeIInv, SetupOK
<1>14. stack' # <<>> <=> state' = "in_progress"
  BY <1>2, <1>5
<1>15. StackOK'
  BY <1>8, <1>14 DEF StackOK
<1>16. length' = size' + possible' + Pending'
  <2>1. Pending' = Pending - 1 + n
    BY <1>8 DEF Pending
  <2>. QED  BY <1>2, <1>5, <2>1
<1>17. size' \in 0..length' /\ possible' \in 0..length' /\ free' \in 1..poolSize' + 1
  BY <1>2, <1>5
<1>18. TreeTypeOK'
  <2>1. /\ base' \in Nat /\ length' \in Nat /\ base' + length' <= Len(data')
        /\ state' \in {"not_started", "in_progress", "parsed", "undefined"}
        /\ call' \in {"none", "parse", "try"} /\ (call' # "none" => state' = "in_progress")
    BY <1>2, <1>5 DEF TreeIInv, TreeTypeOK
  <2>. QED  BY <1>8, <1>17, <2>1 DEF TreeTypeOK
<1>19. BytesAccounted'
  BY <1>16 DEF BytesAccounted
<1>. QED  BY <1>8, <1>11, <1>12, <1>13, <1>15, <1>18, <1>19 DEF TreeIInv

(* The stack has an open level at its top.                                   *)
LEMMA TopTakes ==
  ASSUME Runs
  PROVE  Takes(NextInLevel(stack), stack) /\ Top = Last(stack)
<1>1. stack \in Seq(Level) /\ stack # <<>> /\ Last(stack).left > 0 /\ Apart(stack)
  BY DEF Runs, StackOK
<1>. QED  BY <1>1, NextInLevelTakes DEF Top

(* Parsing a node without children keeps the invariant.                    *)
LEMMA ParseLeafKeeps ==
  ASSUME TreeIInv, ParseLeaf
  PROVE  TreeIInv'
<1>1. /\ IsLeaf /\ Reaches(WordSize(First) + Holds(TagHere))
      /\ pool' = [pool EXCEPT ![Top.child] = Node(TagHere, size + TagSize(First))]
      /\ possible' = possible - WordSize(First) - Holds(TagHere)
      /\ size' = size + TagSize(First) + Holds(TagHere)
      /\ Goes(NextInLevel(stack)) /\ count' = count /\ free' = free
  BY DEF ParseLeaf
<1>2. HasWord /\ call # "none" /\ TagHere.type \notin {"array", "map"}
  BY <1>1 DEF IsLeaf, HasWord, IsTag
<1>3. Runs
  BY <1>2, CallRuns
<1>4. /\ Worded(TagHere) /\ Holds(TagHere) \in Nat
      /\ WordSize(First) \in Nat /\ TagSize(First) = 1 + WordSize(First)
  BY <1>2, TagIsHere
<1>5. PICK s : s = NextInLevel(stack)
  OBVIOUS
<1>6. Takes(s, stack) /\ Top = Last(stack)
  BY <1>3, <1>5, TopTakes
<1>7. PICK k \in Nat : k = WordSize(First) + Holds(TagHere)
  BY <1>4
<1>8. PICK x : x = Node(TagHere, size + TagSize(First))
  OBVIOUS
<1>9. /\ free \in Nat \ {0} /\ free <= poolSize + 1 /\ poolSize \in Nat /\ size \in Nat
      /\ possible \in Nat /\ Pending \in Nat \ {0} /\ count \in Nat
  BY <1>3 DEF Runs, TreeIInv, SetupOK
<1>10. free..free + 0 - 1 = {}
  BY <1>9
<1>11. Grown(s, 0)
  <2>1. /\ s \in Seq(Level) /\ Len(s) = Len(stack) /\ LeftIn(s) = LeftIn(stack) - 1
        /\ WaitingIn(s) = WaitingIn(stack) \ {Top.child} /\ Apart(s)
    BY <1>6 DEF Takes
  <2>2. Len(stack) \in 0..Depth
    BY DEF TreeIInv, TreeTypeOK
  <2>3. LeftIn(s) = Pending - 1 + 0
    BY <1>9, <2>1 DEF Pending
  <2>4. WaitingIn(s) = (WaitingIn(stack) \ {Top.child}) \cup free..free + 0 - 1
    BY <1>10, <2>1
  <2>. QED  BY <2>1, <2>2, <2>3, <2>4 DEF Grown
<1>12. Top.child \in WaitingIn(stack)
  BY <1>6 DEF Takes
<1>13. x.tag = TagHere /\ x.at = size + TagSize(First)
  BY <1>8 DEF Node
<1>14. Worded(x.tag) /\ x.at \in Nat
  BY <1>4, <1>9, <1>13
<1>15. Kids(x) = free..free + 0 - 1
  <2>1. Total(x.tag) = 0
    BY <1>2, <1>13 DEF Total
  <2>2. PICK a \in Nat : a = x.at
    BY <1>14
  <2>3. a..a + 0 - 1 = {}
    OBVIOUS
  <2>. QED  BY <1>10, <2>1, <2>2, <2>3, Zenon DEF Kids
<1>16. k + 0 <= possible /\ 0 <= poolSize - free + 1
  BY <1>1, <1>7, <1>9 DEF Reaches
<1>17. pool' = [pool EXCEPT ![Top.child] = x] /\ Goes(s)
  BY <1>1, <1>5, <1>8
<1>18. free' = free + 0 /\ possible' = possible - k - 0 /\ size' = size + 1 + k /\ count' \in Nat
  BY <1>1, <1>4, <1>7, <1>9
<1>. QED  BY <1>2, <1>11, <1>12, <1>14, <1>15, <1>16, <1>17, <1>18, NodeKeeps

(* Parsing an array or a map keeps the invariant.                          *)
LEMMA ParseBranchKeeps ==
  ASSUME TreeIInv, ParseBranch
  PROVE  TreeIInv'
<1>1. /\ IsBranch /\ Counts /\ HasBytes /\ InPool /\ InStack
      /\ pool' = [pool EXCEPT ![Top.child] = Node(TagHere, free)]
      /\ free' = free + Total(TagHere)
      /\ possible' = possible - WordSize(First) - Total(TagHere)
      /\ size' = size + TagSize(First)
      /\ Goes(IF Total(TagHere) = 0 THEN NextInLevel(stack)
              ELSE Append(NextInLevel(stack), [child |-> free, left |-> Total(TagHere)]))
  BY DEF ParseBranch
<1>2. HasWord /\ call # "none"
  BY <1>1 DEF IsBranch, HasWord, IsTag
<1>3. Runs
  BY <1>2, CallRuns
<1>4. /\ Worded(TagHere) /\ TagSize(First) = 1 + WordSize(First)
  BY <1>2, TagIsHere
<1>5. PICK n \in Nat, k \in Nat : n = Total(TagHere) /\ k = WordSize(First)
  BY <1>2, TagIsHere
<1>6. PICK r : r = NextInLevel(stack)
  OBVIOUS
<1>7. Takes(r, stack) /\ Top = Last(stack)
  BY <1>3, <1>6, TopTakes
<1>8. /\ r \in Seq(Level) /\ Len(r) = Len(stack) /\ LeftIn(r) = LeftIn(stack) - 1
      /\ WaitingIn(r) = WaitingIn(stack) \ {Top.child} /\ Apart(r) /\ Top.child \in WaitingIn(stack)
  BY <1>7 DEF Takes
<1>9. /\ free \in Nat \ {0} /\ free <= poolSize + 1 /\ poolSize \in Nat /\ size \in Nat
      /\ possible \in Nat /\ Pending \in Nat \ {0} /\ count \in Nat
      /\ WaitingIn(stack) \subseteq 1..free - 1
  BY <1>3 DEF Runs, TreeIInv, SetupOK, Placed
<1>10. Len(stack) \in 0..Depth /\ Depth \in Nat
  BY TreeAssumption DEF TreeIInv, TreeTypeOK
<1>11. PICK x : x = Node(TagHere, free)
  OBVIOUS
<1>12. x.tag = TagHere /\ x.at = free
  BY <1>11 DEF Node
<1>13. Worded(x.tag) /\ x.at \in Nat
  BY <1>4, <1>9, <1>12
<1>14. Kids(x) = free..free + n - 1
  BY <1>5, <1>12 DEF Kids
<1>15. k + n <= possible /\ n <= poolSize - free + 1
  BY <1>1, <1>5 DEF HasBytes, Reaches, InPool
<1>16. free' = free + n /\ possible' = possible - k - n /\ size' = size + 1 + k /\ count' \in Nat
  BY <1>1, <1>4, <1>5, <1>9 DEF Counts
<1>17. pool' = [pool EXCEPT ![Top.child] = x]
  BY <1>1, <1>11
<1>18. CASE n = 0
  <2>1. free..free + n - 1 = {}
    BY <1>9, <1>18
  <2>2. Goes(r)
    BY <1>1, <1>5, <1>6, <1>18
  <2>3. LeftIn(r) = Pending - 1 + n
    BY <1>8, <1>9, <1>18 DEF Pending
  <2>4. WaitingIn(r) = (WaitingIn(stack) \ {Top.child}) \cup free..free + n - 1
    BY <1>8, <2>1
  <2>5. Grown(r, n)
    BY <1>8, <1>10, <2>3, <2>4 DEF Grown
  <2>. QED  BY <1>2, <1>8, <1>13, <1>14, <1>15, <1>16, <1>17, <2>2, <2>5, NodeKeeps
<1>19. CASE n # 0
  <2>1. PICK s : s = Append(r, [child |-> free, left |-> n])
    OBVIOUS
  <2>2. Goes(s)
    BY <1>1, <1>5, <1>6, <1>19, <2>1
  <2>3. WaitingIn(r) \subseteq 1..free - 1
    BY <1>8, <1>9
  <2>4. Opens(s, r, free, n)
    BY <1>8, <1>9, <2>1, <2>3, AppendOpens
  <2>5. /\ s \in Seq(Level) /\ Len(s) = Len(r) + 1 /\ LeftIn(s) = LeftIn(r) + n
        /\ WaitingIn(s) = WaitingIn(r) \cup free..free + n - 1 /\ Apart(s)
    BY <2>4 DEF Opens
  <2>6. Len(s) \in 0..Depth
    BY <1>1, <1>5, <1>8, <1>10, <1>19, <2>5 DEF InStack
  <2>7. LeftIn(s) = Pending - 1 + n
    BY <1>8, <1>9, <2>5 DEF Pending
  <2>8. Grown(s, n)
    BY <1>8, <2>5, <2>6, <2>7 DEF Grown
  <2>. QED  BY <1>2, <1>8, <1>13, <1>14, <1>15, <1>16, <1>17, <2>2, <2>8, NodeKeeps
<1>. QED  BY <1>18, <1>19

-----------------------------------------------------------------------------
(* A call on a node changes of the tree only the error.                      *)
Looks ==
    /\ call = "none" /\ UNCHANGED treeButError
    /\ error' = "ok" => error = "ok"

(* A call on a node changes the error only, and keeps the invariant.       *)
LEMMA LooksKeeps ==
  ASSUME TreeIInv, Looks
  PROVE  TreeIInv'
<1>1. /\ UNCHANGED <<data, poolSize, limit, sizeLimit, base, length, size, count, pool, free, possible,
                     stack, state, call>>
      /\ call = "none" /\ (error' = "ok" => error = "ok")
  BY DEF Looks, treeButError, given
<1>2. SetupOK' /\ PoolOK' /\ TreeTypeOK' /\ BytesAccounted'
  BY <1>1 DEF TreeIInv, SetupOK, PoolOK, TreeTypeOK, BytesAccounted, Pending
<1>3. state' \in {"in_progress", "parsed"} => StackOK'
  BY <1>1 DEF TreeIInv, StackOK
<1>4. state' \in {"in_progress", "parsed"} /\ error' = "ok" =>
        (Apart(stack) /\ Placed(pool, WaitingIn(stack), free))'
  BY <1>1 DEF TreeIInv
<1>. QED  BY <1>2, <1>3, <1>4 DEF TreeIInv

(* Asking a node for its value changes the error only.                     *)
LEMMA AsksLooks ==
  ASSUME NEW op, NEW arg, NEW refusal, NEW value, NEW none, Asks(op, arg, refusal, value, none)
  PROVE  Looks
  BY DEF Asks, Looks, Outcome

(* Going to a child of a node changes the error only.                      *)
LEMMA WalksLooks ==
  ASSUME NEW op, NEW arg, NEW refusal, NEW to, NEW toPlace, Walks(op, arg, refusal, to, toPlace)
  PROVE  Looks
  BY DEF Walks, Looks, Outcome

(* Every call on a node changes the error only.                            *)
LEMMA CallsLook ==
  ASSUME \/ NumberOf \/ SimpleOf \/ TagOf \/ LengthIn \/ PointerTo \/ CheckText \/ CopyText \/ EnumOf
         \/ WalkToIndex \/ WalkToKey \/ WalkToRoot
  PROVE  Looks
<1>1. CASE NumberOf
  BY <1>1, AsksLooks DEF NumberOf
<1>2. CASE SimpleOf
  BY <1>2, AsksLooks DEF SimpleOf
<1>3. CASE TagOf
  BY <1>3, AsksLooks DEF TagOf
<1>4. CASE LengthIn
  BY <1>4, AsksLooks DEF LengthIn
<1>5. CASE PointerTo
  BY <1>5, AsksLooks DEF PointerTo
<1>6. CASE CheckText
  BY <1>6, AsksLooks DEF CheckText
<1>7. CASE CopyText
  BY <1>7, AsksLooks DEF CopyText
<1>8. CASE EnumOf
  BY <1>8, AsksLooks DEF EnumOf
<1>9. CASE WalkToIndex
  BY <1>9, WalksLooks DEF WalkToIndex
<1>10. CASE WalkToKey
  BY <1>10, WalksLooks, AsksLooks DEF WalkToKey
<1>11. CASE WalkToRoot
  BY <1>11 DEF WalkToRoot, Looks, Outcome
<1>. QED  BY <1>1, <1>2, <1>3, <1>4, <1>5, <1>6, <1>7, <1>8, <1>9, <1>10, <1>11

-----------------------------------------------------------------------------
(* Every step of the parser, and every call on its nodes, keeps the invariant. *)
LEMMA TreeStep ==
  ASSUME TreeIInv, [NodesNext]_nodeVars
  PROVE  TreeIInv'
<1>1. CASE \/ NumberOf \/ SimpleOf \/ TagOf \/ LengthIn \/ PointerTo \/ CheckText \/ CopyText \/ EnumOf
           \/ WalkToIndex \/ WalkToKey \/ WalkToRoot
  BY <1>1, CallsLook, LooksKeeps
<1>2. CASE Parses
  BY <1>2, StartKeeps, ResumeKeeps DEF Parses
<1>3. CASE ParsesNode
  <2>1. CASE \/ RefuseNode \/ MissWord \/ MissBytes \/ ExceedLimit \/ MissChildren \/ ExceedPool \/ ExceedStack
    BY <2>1, StoppingIsQuiet, QuietKeeps
  <2>2. CASE LeaveSwitch
    BY <2>2, LeaveSwitchKeeps
  <2>3. CASE ParseLeaf
    BY <2>3, ParseLeafKeeps
  <2>4. CASE ParseBranch
    BY <2>4, ParseBranchKeeps
  <2>. QED  BY <1>3, <2>1, <2>2, <2>3, <2>4, Zenon DEF ParsesNode, ParseNode
<1>4. CASE UNCHANGED nodeVars
  <2>1. /\ UNCHANGED <<data, poolSize, limit, sizeLimit, base, length, size, count, pool, free, possible,
                       stack, state, call, error>>
    BY <1>4 DEF nodeVars, vars, given
  <2>2. SetupOK' /\ PoolOK' /\ TreeTypeOK' /\ BytesAccounted'
    BY <2>1 DEF TreeIInv, SetupOK, PoolOK, TreeTypeOK, BytesAccounted, Pending
  <2>3. state' \in {"in_progress", "parsed"} => StackOK'
    BY <2>1 DEF TreeIInv, StackOK
  <2>4. state' \in {"in_progress", "parsed"} /\ error' = "ok" =>
          (Apart(stack) /\ Placed(pool, WaitingIn(stack), free))'
    BY <2>1 DEF TreeIInv
  <2>. QED  BY <2>2, <2>3, <2>4 DEF TreeIInv
<1>. QED  BY <1>1, <1>2, <1>3, <1>4, Zenon DEF NodesNext

(* For all data, pool sizes, depths and limits, the parser of mpack_tree_parse *)
(* keeps its inductive invariant: the levels of the stack hold nodes of the    *)
(* pool, each node waits on one level only, and bytes are left for each.       *)
THEOREM TreeInvariant == NodesSpec => []TreeIInv
<1>1. NodesInit => TreeIInv
  BY BeginsSound DEF NodesInit
<1>2. TreeIInv /\ [NodesNext]_nodeVars => TreeIInv'
  BY TreeStep
<1>. QED  BY <1>1, <1>2, PTL DEF NodesSpec

(* Hence the parser never places a node twice or outside the pool, and keeps   *)
(* within its limits, whatever the data and whatever calls follow the parse.   *)
THEOREM TreeIsSound == NodesSpec => []TreeInv
<1>1. TreeIInv => TreeInv
  BY TreeIsSoundNow
<1>. QED  BY <1>1, TreeInvariant, PTL
=============================================================================

------------------------------- MODULE Basics -------------------------------
(***************************************************************************)
(* Lemmas the proofs about several components share.  Induction over       *)
(* natural numbers is stated without operator parameters so that the       *)
(* provers can use it: a set of natural numbers has a least element, and a *)
(* value computed turn by turn exists.  And what an insertion makes of a   *)
(* list.                                                                   *)
(***************************************************************************)
EXTENDS Integers, SequencesExt, SequenceTheorems, WellFoundedInduction, TLAPS

\* Every set of natural numbers that is not empty has a least element.
LEMMA LeastNat ==
  ASSUME NEW T \in SUBSET Nat, T # {}
  PROVE  \E x \in T : \A y \in T : x <= y
<1> DEFINE R == OpToRel(<, Nat)
<1>1. IsWellFoundedOn(R, Nat)
  BY NatLessThanWellFounded
<1> HIDE DEF R
<1>2. \E x \in T : \A y \in T : ~ (<<y, x>> \in R)
  BY <1>1, WFMin
<1>3. ASSUME NEW x \in T, NEW y \in T, ~(<<y, x>> \in R)
      PROVE  x <= y
  BY <1>3, SMT DEF R, OpToRel
<1>4. QED
  BY <1>2, <1>3

\* Induction: a set that has 0 and with every element its successor has all numbers up to n.
LEMMA UpTo ==
  ASSUME NEW n \in Nat, NEW T, 0 \in T, \A k \in 0..n-1 : k \in T => k + 1 \in T
  PROVE  \A k \in 0..n : k \in T
<1> DEFINE Bad == {k \in 0..n : k \notin T}
<1>1. SUFFICES ASSUME Bad # {} PROVE FALSE
  OBVIOUS
<1>2. PICK k \in Bad : \A j \in Bad : k <= j
  <2> Bad \in SUBSET Nat
    OBVIOUS
  <2> HIDE DEF Bad
  <2> QED BY <1>1, LeastNat
<1>3. k # 0 /\ k - 1 \in 0..n-1
  OBVIOUS
<1>4. k - 1 \in T
  BY <1>2, <1>3
<1>5. QED
  BY <1>3, <1>4

---------------------------------------------------------------------------
\* A computation in n turns on the values of S, and the record of such a computation.
Turns(n, S, base, turn) == n \in Nat /\ base \in S /\ turn \in [1..n -> [S -> S]]

Run(n, S, base, turn, g) ==
  g \in [0..n -> S] /\ g[0] = base /\ \A k \in 1..n : g[k] = turn[k][g[k-1]]

\* There is such a record.
HasRun(n, S, base, turn) == \E g : Run(n, S, base, turn, g)

\* A value computed in n turns exists, and stays in the set its turns stay in.
LEMMA TurnsExist ==
  ASSUME NEW n, NEW S, NEW base, NEW turn, Turns(n, S, base, turn)
  PROVE  HasRun(n, S, base, turn)
<1> USE DEF Turns
<1> DEFINE Goes(g, m) == g[0] = base /\ \A k \in 1..m : g[k] = turn[k][g[k-1]]
           Has(m) == \E g \in [0..m -> S] : Goes(g, m)
           T == {m \in 0..n : Has(m)}
<1>1. Has(0)
  <2> DEFINE g == [k \in 0..0 |-> base]
  <2>1. g \in [0..0 -> S] /\ Goes(g, 0)
    OBVIOUS
  <2> HIDE DEF g, Goes
  <2> QED BY <2>1
<1>2. ASSUME NEW m \in 0..n-1, Has(m)
      PROVE  Has(m + 1)
  <2>1. PICK g \in [0..m -> S] : Goes(g, m)
    BY <1>2
  <2> DEFINE h == [k \in 0..m+1 |-> IF k = m + 1 THEN turn[m+1][g[m]] ELSE g[k]]
  <2>2. h \in [0..m+1 -> S]
    BY <2>1
  <2>3. ASSUME NEW k \in 1..m+1
        PROVE  h[k] = turn[k][h[k-1]]
    <3>1. CASE k = m + 1
      BY <3>1
    <3>2. CASE k # m + 1
      <4>1. k \in 1..m /\ h[k] = g[k] /\ h[k-1] = g[k-1]
        BY <3>2
      <4> QED BY <2>1, <4>1
    <3> QED BY <3>1, <3>2
  <2>4. Goes(h, m + 1)
    BY <2>1, <2>3
  <2> HIDE DEF h, Goes
  <2> QED BY <2>2, <2>4
<1>3. n \in T
  <2>1. 0 \in T /\ \A m \in 0..n-1 : m \in T => m + 1 \in T
    <3> HIDE DEF Has
    <3> QED BY <1>1, <1>2
  <2> HIDE DEF T
  <2>2. \A m \in 0..n : m \in T
    BY <2>1, UpTo
  <2> QED BY <2>2
<1>4. QED
  BY <1>3 DEF HasRun, Run

\* The running sums of n numbers exist.
LEMMA SumsExist ==
  ASSUME NEW n \in Nat, NEW a \in [1..n -> Int]
  PROVE  \E g \in [0..n -> Int] : g[0] = 0 /\ \A k \in 1..n : g[k] = g[k-1] + a[k]
<1> DEFINE turn == [k \in 1..n |-> [x \in Int |-> x + a[k]]]
<1>1. Turns(n, Int, 0, turn)
  BY DEF Turns
<1>2. \A k \in 1..n : \A x \in Int : turn[k][x] = x + a[k]
  OBVIOUS
<1> HIDE DEF turn
<1>3. PICK g : Run(n, Int, 0, turn, g)
  <2>1. HasRun(n, Int, 0, turn)
    BY <1>1, TurnsExist
  <2> QED BY <2>1 DEF HasRun
<1>4. g \in [0..n -> Int] /\ g[0] = 0
  BY <1>3 DEF Run
<1>5. ASSUME NEW k \in 1..n PROVE g[k] = g[k-1] + a[k]
  <2>1. g[k-1] \in Int
    BY <1>4
  <2> QED BY <1>2, <1>3, <2>1 DEF Run
<1>6. QED
  BY <1>4, <1>5

---------------------------------------------------------------------------
\* An entry put into a list: what is before its place stays, what was behind moves up by one.
Inserted(s, n, at, e) ==
  [k \in 1..n + 1 |-> IF k < at THEN s[k] ELSE IF k = at THEN e ELSE s[k-1]]

\* The insertion of append_a_lemma gives that list.
LEMMA InsertAtSpec ==
  ASSUME NEW V, NEW n \in Nat, NEW s \in [1..n -> V], NEW at \in 1..n + 1, NEW e \in V
  PROVE  /\ InsertAt(s, at, e) = Inserted(s, n, at, e)
         /\ Inserted(s, n, at, e) \in [1..n + 1 -> V]
<1> DEFINE a == SubSeq(s, 1, at - 1)
           b == SubSeq(s, at, n)
<1>1. s \in Seq(V) /\ Len(s) = n
  OBVIOUS
<1>2. /\ a \in Seq(V) /\ Len(a) = at - 1
      /\ \A k \in 1..at - 1 : a[k] = s[k]
  BY <1>1
<1>3. /\ b \in Seq(V) /\ Len(b) = n - at + 1
      /\ \A k \in 1..n - at + 1 : b[k] = s[at + k - 1]
  BY <1>1
<1>4. InsertAt(s, at, e) = a \o <<e>> \o b
  BY <1>1 DEF InsertAt
<1> HIDE DEF a, b
<1>5. /\ a \o <<e>> \in Seq(V) /\ Len(a \o <<e>>) = at
      /\ \A k \in 1..at - 1 : (a \o <<e>>)[k] = a[k]
      /\ (a \o <<e>>)[at] = e
  BY <1>2
<1> DEFINE c == a \o <<e>>
<1>6. c \in Seq(V) /\ Len(c) = at /\ (\A k \in 1..at - 1 : c[k] = a[k]) /\ c[at] = e
  BY <1>5
<1> HIDE DEF c
<1>7. /\ c \o b \in Seq(V) /\ Len(c \o b) = n + 1
      /\ \A k \in 1..at : (c \o b)[k] = c[k]
      /\ \A k \in at + 1..n + 1 : (c \o b)[k] = b[k - at]
  <2>1. /\ c \o b \in Seq(V) /\ Len(c \o b) = Len(c) + Len(b)
        /\ \A k \in 1..Len(c) + Len(b) :
             (c \o b)[k] = IF k <= Len(c) THEN c[k] ELSE b[k - Len(c)]
    BY <1>3, <1>6, ConcatProperties
  <2>2. Len(c) + Len(b) = n + 1
    BY <1>3, <1>6
  <2> HIDE DEF c
  <2>3. \A k \in 1..n + 1 : (c \o b)[k] = IF k <= at THEN c[k] ELSE b[k - at]
    BY <1>6, <2>1, <2>2
  <2>4. ASSUME NEW k \in 1..at PROVE (c \o b)[k] = c[k]
    <3>1. k \in 1..n + 1 /\ k <= at
      OBVIOUS
    <3> QED BY <2>3, <3>1
  <2>5. ASSUME NEW k \in at + 1..n + 1 PROVE (c \o b)[k] = b[k - at]
    <3>1. k \in 1..n + 1 /\ ~(k <= at)
      OBVIOUS
    <3> QED BY <2>3, <3>1
  <2> QED BY <2>1, <2>2, <2>4, <2>5
<1>8. \A k \in 1..n + 1 :
        (c \o b)[k] = IF k < at THEN s[k] ELSE IF k = at THEN e ELSE s[k-1]
  <2> SUFFICES ASSUME NEW k \in 1..n + 1
               PROVE  (c \o b)[k] = IF k < at THEN s[k] ELSE IF k = at THEN e ELSE s[k-1]
    OBVIOUS
  <2>1. CASE k < at
    BY <1>2, <1>6, <1>7, <2>1
  <2>2. CASE k = at
    BY <1>6, <1>7, <2>2
  <2>3. CASE k > at
    <3>1. k - at \in 1..n - at + 1 /\ at + (k - at) - 1 = k - 1
      BY <2>3
    <3>2. b[k - at] = s[k - 1]
      BY <1>3, <3>1
    <3>3. k \in at + 1..n + 1
      BY <2>3
    <3>4. (c \o b)[k] = b[k - at]
      BY <1>7, <3>3
    <3> QED BY <2>3, <3>2, <3>4
  <2>4. k < at \/ k = at \/ k > at
    OBVIOUS
  <2> QED BY <2>1, <2>2, <2>3, <2>4
<1>9. c \o b = Inserted(s, n, at, e)
  <2> DEFINE t == c \o b
  <2>1. t \in Seq(V) /\ Len(t) = n + 1
    BY <1>7
  <2>2. t = [k \in 1..n + 1 |-> t[k]]
    <3> HIDE DEF t
    <3> QED BY <2>1
  <2>3. \A k \in 1..n + 1 :
          t[k] = IF k < at THEN s[k] ELSE IF k = at THEN e ELSE s[k-1]
    BY <1>8
  <2> HIDE DEF t
  <2>4. t = Inserted(s, n, at, e)
    BY <2>2, <2>3 DEF Inserted
  <2> QED BY <2>4 DEF t
<1>10. InsertAt(s, at, e) = c \o b
  BY <1>4 DEF c
<1>11. \A k \in 1..n + 1 : (c \o b)[k] \in V
  BY <1>7
<1>12. Inserted(s, n, at, e) \in [1..n + 1 -> V]
  BY <1>9, <1>11 DEF Inserted
<1> QED
  BY <1>9, <1>10, <1>12
=============================================================================

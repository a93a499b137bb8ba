------------------------- MODULE UserDictIndexProofs -------------------------
(***************************************************************************)
(* What the operations on the image of a user dictionary preserve, for     *)
(* images of any size.  First the operators they are built from: the       *)
(* binary search, the bytes before a position, blocks that fill the lemma  *)
(* block and what defragmentation makes of them.  Then, for each operator  *)
(* of UserDictIndex, the fields it leaves alone and the parts of the       *)
(* inductive invariant that hold of the image it returns.                  *)
(***************************************************************************)
EXTENDS UserDict, Basics, FiniteSetTheorems, SequenceTheorems

---------------------------------------------------------------------------
\* The search returns 0 or an index that is a hit (locate_first_in_offsets and its two sisters).
LEMMA BisectType ==
  ASSUME NEW n \in Nat, NEW below, NEW hits
  PROVE  /\ Bisect(n, below, hits) \in 0..n
         /\ Bisect(n, below, hits) # 0 => Bisect(n, below, hits) \in hits
<1> DEFINE Mid(s) == (s.begin + s.end) \div 2
           Turn(s) == IF s.begin > s.end THEN s
                      ELSE [begin |-> IF Mid(s) \in below THEN Mid(s) + 1 ELSE s.begin,
                            end   |-> IF Mid(s) \in below THEN s.end ELSE Mid(s) - 1,
                            last  |-> IF Mid(s) \in hits THEN Mid(s) ELSE s.last]
           start == [begin |-> 1, end |-> n, last |-> 0]
           f == CHOOSE f : f = [k \in 0..n |-> IF k = 0 THEN start ELSE Turn(f[k-1])]
           S == [begin : 1..n + 1, end : 0..n, last : {0} \cup (hits \cap (1..n))]
           turn == [k \in 1..n |-> [s \in S |-> Turn(s)]]
<1>1. Bisect(n, below, hits) = f[n].last
  BY DEF Bisect
<1>2. start \in S
  OBVIOUS
<1>3. ASSUME NEW s \in S PROVE Turn(s) \in S
  <2>1. CASE s.begin > s.end
    BY <2>1
  <2>2. CASE ~(s.begin > s.end)
    <3>1. Mid(s) \in s.begin..s.end
      BY <2>2
    <3>2. /\ Mid(s) \in 1..n /\ s.begin \in 1..n + 1 /\ s.end \in 0..n
          /\ s.last \in {0} \cup (hits \cap (1..n))
      BY <3>1
    <3> HIDE DEF Mid
    <3> QED BY <2>2, <3>2
  <2> QED BY <2>1, <2>2
<1> HIDE DEF start, Turn
<1>4. PICK g : Run(n, S, start, turn, g)
  <2>1. turn \in [1..n -> [S -> S]]
    BY <1>3
  <2> HIDE DEF turn, S
  <2>2. HasRun(n, S, start, turn)
    BY <1>2, <2>1, TurnsExist DEF Turns
  <2> QED BY <2>2 DEF HasRun
<1>5. g \in [0..n -> S] /\ g[0] = start /\ \A k \in 1..n : g[k] = Turn(g[k-1])
  <2>1. \A k \in 1..n : \A s \in S : turn[k][s] = Turn(s)
    OBVIOUS
  <2> HIDE DEF turn, S
  <2>2. ASSUME NEW k \in 1..n PROVE g[k] = Turn(g[k-1])
    <3>1. g[k-1] \in S /\ g[k] = turn[k][g[k-1]]
      BY <1>4 DEF Run
    <3> QED BY <2>1, <3>1
  <2> QED BY <1>4, <2>2 DEF Run
<1>6. g = [k \in 0..n |-> IF k = 0 THEN start ELSE Turn(g[k-1])]
  <2> HIDE DEF S
  <2> QED BY <1>5
<1>7. f = [k \in 0..n |-> IF k = 0 THEN start ELSE Turn(f[k-1])]
  BY <1>6
<1> HIDE DEF f
<1>8. f[n] \in S
  <2> DEFINE T == {k \in 0..n : f[k] \in S}
  <2>1. 0 \in T
    BY <1>2, <1>7
  <2>2. ASSUME NEW k \in 0..n-1, k \in T PROVE k + 1 \in T
    <3>1. k + 1 \in 0..n /\ f[k+1] = Turn(f[k])
      BY <1>7
    <3> HIDE DEF S
    <3> QED BY <1>3, <2>2, <3>1
  <2> HIDE DEF T, S
  <2>3. \A k \in 0..n : k \in T
    BY <2>1, <2>2, UpTo
  <2> QED BY <2>3 DEF T
<1> QED
  BY <1>1, <1>8

---------------------------------------------------------------------------
\* The bytes before a position grow by a block where one of those counted begins.
LEMMA SumStep ==
  ASSUME NEW bytes, NEW R, \A r \in R : bytes[r] \in Nat, NEW x \in Nat
  PROVE  /\ SumBefore(bytes, R, 0) = 0
         /\ SumBefore(bytes, R, x) \in Nat
         /\ x \in R => SumBefore(bytes, R, x + 1) = SumBefore(bytes, R, x) + bytes[x]
         /\ x \notin R => SumBefore(bytes, R, x + 1) = SumBefore(bytes, R, x)
<1> DEFINE a(p) == IF p \in R THEN bytes[p] ELSE 0
           F(y) == CHOOSE f : f = [p \in 0..y |-> IF p = 0 THEN 0 ELSE f[p-1] + a(p-1)]
<1>1. \A p : a(p) \in Nat
  OBVIOUS
<1>2. \A y : SumBefore(bytes, R, y) = F(y)[y]
  BY DEF SumBefore
<1> HIDE DEF a
<1>3. ASSUME NEW y \in Nat
      PROVE  /\ F(y)[0] = 0 /\ \A p \in 1..y : F(y)[p] = F(y)[p-1] + a(p-1)
             /\ \A p \in 0..y : F(y)[p] \in Nat
  <2> DEFINE b == [p \in 1..y |-> a(p-1)]
             f == F(y)
  <2>1. PICK g \in [0..y -> Int] : g[0] = 0 /\ \A p \in 1..y : g[p] = g[p-1] + b[p]
    <3>1. b \in [1..y -> Int]
      BY <1>1
    <3> HIDE DEF b
    <3> QED BY <3>1, SumsExist
  <2>2. g = [p \in 0..y |-> IF p = 0 THEN 0 ELSE g[p-1] + a(p-1)]
    BY <2>1
  <2>3. f = [p \in 0..y |-> IF p = 0 THEN 0 ELSE f[p-1] + a(p-1)]
    BY <2>2
  <2> HIDE DEF f
  <2>4. f[0] = 0 /\ \A p \in 1..y : f[p] = f[p-1] + a(p-1)
    BY <2>3
  <2> DEFINE T == {p \in 0..y : f[p] \in Nat}
  <2>5. 0 \in T
    BY <2>4
  <2>6. ASSUME NEW p \in 0..y-1, p \in T PROVE p + 1 \in T
    <3>1. f[p+1] = f[p] + a(p) /\ a(p) \in Nat /\ f[p] \in Nat
      BY <1>1, <2>4, <2>6
    <3> QED BY <3>1
  <2>7. \A p \in 0..y : p \in T
    <3> HIDE DEF T
    <3> QED BY <2>5, <2>6, UpTo
  <2> QED BY <2>4, <2>7 DEF f
<1> HIDE DEF F
<1>4. \A p \in 0..x : F(x+1)[p] = F(x)[p]
  <2> DEFINE T == {p \in 0..x : F(x+1)[p] = F(x)[p]}
  <2>1. 0 \in T
    BY <1>3
  <2>2. ASSUME NEW p \in 0..x-1, p \in T PROVE p + 1 \in T
    <3>1. F(x+1)[p+1] = F(x+1)[p] + a(p) /\ F(x)[p+1] = F(x)[p] + a(p)
      BY <1>3
    <3> QED BY <2>2, <3>1
  <2>3. \A p \in 0..x : p \in T
    <3> HIDE DEF T
    <3> QED BY <2>1, <2>2, UpTo
  <2> QED BY <2>3
<1>5. SumBefore(bytes, R, 0) = 0
  BY <1>2, <1>3
<1>6. F(x+1)[x+1] = F(x+1)[x] + a(x) /\ F(x+1)[x] = F(x)[x] /\ F(x)[x] \in Nat
  BY <1>3, <1>4
<1> QED
  BY <1>2, <1>5, <1>6 DEF a

\* Where no block counted begins between two positions, the same bytes are before both.
LEMMA SumSkips ==
  ASSUME NEW bytes, NEW R, \A r \in R : bytes[r] \in Nat, NEW x \in Nat, NEW y \in Nat, x <= y,
         \A r \in R : ~(x <= r /\ r < y)
  PROVE  SumBefore(bytes, R, y) = SumBefore(bytes, R, x)
<1> DEFINE n == y - x
           T == {k \in 0..n : SumBefore(bytes, R, x + k) = SumBefore(bytes, R, x)}
<1>1. n \in Nat /\ x + n = y /\ 0 \in T
  OBVIOUS
<1>2. ASSUME NEW k \in 0..n-1, k \in T PROVE k + 1 \in T
  <2>1. x + k \in Nat /\ x + k \notin R /\ k + 1 \in 0..n
    OBVIOUS
  <2>2. SumBefore(bytes, R, x + k + 1) = SumBefore(bytes, R, x + k)
    BY <2>1, SumStep
  <2>3. x + k + 1 = x + (k + 1)
    OBVIOUS
  <2> QED BY <1>2, <2>1, <2>2, <2>3
<1>3. \A k \in 0..n : k \in T
  <2> HIDE DEF T, n
  <2> QED BY <1>1, <1>2, UpTo
<1> QED
  BY <1>1, <1>3

\* The sum looks at what begins before the position only.
LEMMA SumSame ==
  ASSUME NEW b1, NEW R1, \A r \in R1 : b1[r] \in Nat, NEW b2, NEW R2, \A r \in R2 : b2[r] \in Nat,
         NEW x \in Nat
  PROVE  (\A p \in 0..x-1 : (p \in R1 <=> p \in R2) /\ (p \in R1 => b1[p] = b2[p]))
           => SumBefore(b1, R1, x) = SumBefore(b2, R2, x)
<1> DEFINE T == {k \in 0..x : SumBefore(b1, R1, k) = SumBefore(b2, R2, k)}
<1>1. 0 \in T
  BY SumStep
<1>2. ASSUME NEW k \in Nat
      PROVE  /\ k \in R1 => SumBefore(b1, R1, k + 1) = SumBefore(b1, R1, k) + b1[k]
             /\ k \notin R1 => SumBefore(b1, R1, k + 1) = SumBefore(b1, R1, k)
             /\ k \in R2 => SumBefore(b2, R2, k + 1) = SumBefore(b2, R2, k) + b2[k]
             /\ k \notin R2 => SumBefore(b2, R2, k + 1) = SumBefore(b2, R2, k)
  BY SumStep
<1> HAVE \A p \in 0..x-1 : (p \in R1 <=> p \in R2) /\ (p \in R1 => b1[p] = b2[p])
<1>3. ASSUME NEW k \in 0..x-1, k \in T PROVE k + 1 \in T
  <2>1. k \in Nat /\ k + 1 \in 0..x /\ SumBefore(b1, R1, k) = SumBefore(b2, R2, k)
    BY <1>3
  <2> QED BY <1>2, <2>1
<1>4. \A k \in 0..x : k \in T
  <2> HIDE DEF T
  <2> QED BY <1>1, <1>3, UpTo
<1> QED
  BY <1>4

\* One more block counted.
LEMMA SumAdds ==
  ASSUME NEW bytes, NEW R, \A r \in R : bytes[r] \in Nat, NEW q \in Nat, q \notin R,
         bytes[q] \in Nat, NEW x \in Nat
  PROVE  SumBefore(bytes, R \cup {q}, x) =
           SumBefore(bytes, R, x) + (IF q < x THEN bytes[q] ELSE 0)
<1> DEFINE Q == R \cup {q}
           T == {k \in 0..x : SumBefore(bytes, Q, k) =
                                SumBefore(bytes, R, k) + (IF q < k THEN bytes[q] ELSE 0)}
<1>1. \A r \in Q : bytes[r] \in Nat
  OBVIOUS
<1>2. 0 \in T
  <2>1. SumBefore(bytes, Q, 0) = 0 /\ SumBefore(bytes, R, 0) = 0
    <3> HIDE DEF Q
    <3> QED BY <1>1, SumStep
  <2> QED BY <2>1
<1>3. ASSUME NEW k \in 0..x-1, k \in T PROVE k + 1 \in T
  <2> k \in Nat
    OBVIOUS
  <2>1. /\ SumBefore(bytes, R, k) \in Nat
        /\ k \in R => SumBefore(bytes, R, k + 1) = SumBefore(bytes, R, k) + bytes[k]
        /\ k \notin R => SumBefore(bytes, R, k + 1) = SumBefore(bytes, R, k)
    BY SumStep
  <2>2. /\ k \in Q => SumBefore(bytes, Q, k + 1) = SumBefore(bytes, Q, k) + bytes[k]
        /\ k \notin Q => SumBefore(bytes, Q, k + 1) = SumBefore(bytes, Q, k)
    <3> HIDE DEF Q
    <3> QED BY <1>1, SumStep
  <2>3. SumBefore(bytes, Q, k) = SumBefore(bytes, R, k) + (IF q < k THEN bytes[q] ELSE 0)
    BY <1>3
  <2>4. k \in Q <=> k \in R \/ k = q
    OBVIOUS
  <2> HIDE DEF Q
  <2>5. SumBefore(bytes, Q, k + 1) =
          SumBefore(bytes, R, k + 1) + (IF q < k + 1 THEN bytes[q] ELSE 0)
    <3>1. CASE k = q
      BY <2>1, <2>2, <2>3, <2>4, <3>1
    <3>2. CASE k # q /\ k \in R
      BY <2>1, <2>2, <2>3, <2>4, <3>2
    <3>3. CASE k # q /\ k \notin R
      BY <2>1, <2>2, <2>3, <2>4, <3>3
    <3> QED BY <3>1, <3>2, <3>3
  <2> QED BY <2>5
<1>4. \A k \in 0..x : k \in T
  <2> HIDE DEF T
  <2> QED BY <1>2, <1>3, UpTo
<1> QED
  BY <1>4

\* No fewer bytes are before a later position.
LEMMA SumGrows ==
  ASSUME NEW bytes, NEW R, \A r \in R : bytes[r] \in Nat, NEW x \in Nat, NEW y \in Nat, x <= y
  PROVE  SumBefore(bytes, R, x) <= SumBefore(bytes, R, y)
<1> DEFINE n == y - x
           T == {k \in 0..n : SumBefore(bytes, R, x) <= SumBefore(bytes, R, x + k)}
<1>1. n \in Nat /\ x + n = y
  OBVIOUS
<1>2. SumBefore(bytes, R, x) \in Nat
  BY SumStep
<1>3. 0 \in T
  BY <1>1, <1>2
<1>4. ASSUME NEW k \in 0..n-1, k \in T PROVE k + 1 \in T
  <2>1. x + k \in Nat /\ k + 1 \in 0..n /\ x + (k + 1) = (x + k) + 1
    BY <1>1
  <2>2. /\ SumBefore(bytes, R, x + k) \in Nat
        /\ x + k \in R =>
             SumBefore(bytes, R, (x + k) + 1) = SumBefore(bytes, R, x + k) + bytes[x + k]
        /\ x + k \notin R => SumBefore(bytes, R, (x + k) + 1) = SumBefore(bytes, R, x + k)
    BY <2>1, SumStep
  <2>3. SumBefore(bytes, R, x) <= SumBefore(bytes, R, x + k)
    BY <1>4
  <2> QED BY <1>2, <2>1, <2>2, <2>3
<1>5. \A k \in 0..n : k \in T
  <2> HIDE DEF T, n
  <2> QED BY <1>1, <1>3, <1>4, UpTo
<1> QED
  BY <1>1, <1>5

\* What is counted in two disjoint sets is counted in their union.
LEMMA SumSplits ==
  ASSUME NEW bytes, NEW L, NEW R, NEW A, \A r \in A : bytes[r] \in Nat, NEW x \in Nat,
         A = L \cup R, L \cap R = {}
  PROVE  SumBefore(bytes, A, x) = SumBefore(bytes, L, x) + SumBefore(bytes, R, x)
<1> DEFINE T == {k \in 0..x : SumBefore(bytes, A, k) =
                                SumBefore(bytes, L, k) + SumBefore(bytes, R, k)}
<1>1. (\A r \in L : bytes[r] \in Nat) /\ (\A r \in R : bytes[r] \in Nat)
  OBVIOUS
<1>2. ASSUME NEW k \in Nat
      PROVE  /\ SumBefore(bytes, A, k) \in Nat
             /\ k \in A => SumBefore(bytes, A, k + 1) = SumBefore(bytes, A, k) + bytes[k]
             /\ k \notin A => SumBefore(bytes, A, k + 1) = SumBefore(bytes, A, k)
             /\ SumBefore(bytes, A, 0) = 0
  BY SumStep
<1>3. ASSUME NEW k \in Nat
      PROVE  /\ SumBefore(bytes, L, k) \in Nat
             /\ k \in L => SumBefore(bytes, L, k + 1) = SumBefore(bytes, L, k) + bytes[k]
             /\ k \notin L => SumBefore(bytes, L, k + 1) = SumBefore(bytes, L, k)
             /\ SumBefore(bytes, L, 0) = 0
  BY <1>1, SumStep, ZenonT(60)
<1>4. ASSUME NEW k \in Nat
      PROVE  /\ SumBefore(bytes, R, k) \in Nat
             /\ k \in R => SumBefore(bytes, R, k + 1) = SumBefore(bytes, R, k) + bytes[k]
             /\ k \notin R => SumBefore(bytes, R, k + 1) = SumBefore(bytes, R, k)
             /\ SumBefore(bytes, R, 0) = 0
  BY <1>1, SumStep, ZenonT(60)
<1>5. 0 \in T
  <2>1. /\ SumBefore(bytes, A, 0) = 0
        /\ SumBefore(bytes, L, 0) = 0 /\ SumBefore(bytes, R, 0) = 0
    BY <1>2, <1>3, <1>4, 0 \in Nat
  <2> QED BY <2>1
<1>6. ASSUME NEW k \in 0..x-1, k \in T PROVE k + 1 \in T
  <2>1. k \in Nat /\ k + 1 \in 0..x
    OBVIOUS
  <2>2. SumBefore(bytes, A, k) = SumBefore(bytes, L, k) + SumBefore(bytes, R, k)
    BY <1>6
  <2>3. k \in A => bytes[k] \in Nat
    OBVIOUS
  <2>4. SumBefore(bytes, A, k + 1) = SumBefore(bytes, L, k + 1) + SumBefore(bytes, R, k + 1)
    <3>1. /\ SumBefore(bytes, A, k) \in Nat
          /\ SumBefore(bytes, L, k) \in Nat /\ SumBefore(bytes, R, k) \in Nat
      BY <1>2, <1>3, <1>4, <2>1
    <3>2. CASE k \in L
      <4>1. k \in A /\ k \notin R
        BY <3>2
      <4>2. /\ SumBefore(bytes, A, k + 1) = SumBefore(bytes, A, k) + bytes[k]
            /\ SumBefore(bytes, L, k + 1) = SumBefore(bytes, L, k) + bytes[k]
            /\ SumBefore(bytes, R, k + 1) = SumBefore(bytes, R, k)
        BY <1>2, <1>3, <1>4, <2>1, <3>2, <4>1
      <4> QED BY <2>2, <2>3, <3>1, <4>1, <4>2
    <3>3. CASE k \in R
      <4>1. k \in A /\ k \notin L
        BY <3>3
      <4>2. /\ SumBefore(bytes, A, k + 1) = SumBefore(bytes, A, k) + bytes[k]
            /\ SumBefore(bytes, L, k + 1) = SumBefore(bytes, L, k)
            /\ SumBefore(bytes, R, k + 1) = SumBefore(bytes, R, k) + bytes[k]
        BY <1>2, <1>3, <1>4, <2>1, <3>3, <4>1
      <4> QED BY <2>2, <2>3, <3>1, <4>1, <4>2
    <3>4. CASE k \notin L /\ k \notin R
      <4>1. /\ SumBefore(bytes, A, k + 1) = SumBefore(bytes, A, k)
            /\ SumBefore(bytes, L, k + 1) = SumBefore(bytes, L, k)
            /\ SumBefore(bytes, R, k + 1) = SumBefore(bytes, R, k)
        BY <1>2, <1>3, <1>4, <2>1, <3>4
      <4> QED BY <2>2, <3>1, <4>1
    <3> QED BY <3>2, <3>3, <3>4
  <2> QED BY <2>1, <2>4
<1>7. \A k \in 0..x : k \in T
  <2> HIDE DEF T
  <2> QED BY <1>5, <1>6, UpTo
<1> QED
  BY <1>7

---------------------------------------------------------------------------
\* Blocks that fill the lemma block: where each begins and how many bytes it takes.
Blocks(bytes, size) ==
  /\ DOMAIN bytes \subseteq Nat /\ size \in Nat /\ bytes \in [DOMAIN bytes -> Nat]
  /\ Tiled(bytes, size)

\* Where blocks begin, and where the last one ends.
Cuts(bytes, size) == DOMAIN bytes \cup {size}

\* Induction over the blocks from the first one up.
LEMMA CutsFromBelow ==
  ASSUME NEW bytes, NEW size, Blocks(bytes, size), NEW P, 0 \in P,
         \A p \in DOMAIN bytes : p \in P => p + bytes[p] \in P
  PROVE  \A q \in Cuts(bytes, size) : q \in P
<1> DEFINE Bad == {q \in Cuts(bytes, size) : q \notin P}
<1>1. SUFFICES ASSUME Bad # {} PROVE FALSE
  OBVIOUS
<1>2. Bad \in SUBSET Nat
  BY DEF Blocks, Cuts
<1>3. PICK q \in Bad : \A r \in Bad : q <= r
  <2> HIDE DEF Bad
  <2> QED BY <1>1, <1>2, LeastNat
<1>4. PICK p \in DOMAIN bytes : p + bytes[p] = q
  BY <1>3 DEF Blocks, Tiled, Cuts
<1>5. bytes[p] > 0 /\ bytes[p] \in Nat /\ p \in Nat
  BY DEF Blocks, Tiled
<1>6. p \in Bad
  BY <1>3, <1>4 DEF Cuts
<1>7. p < q
  BY <1>4, <1>5
<1> QED
  BY <1>2, <1>3, <1>5, <1>6, <1>7

\* Induction over the blocks from the end down.
LEMMA CutsFromAbove ==
  ASSUME NEW bytes, NEW size, Blocks(bytes, size), NEW P, size \in P,
         \A p \in DOMAIN bytes : p + bytes[p] \in P => p \in P
  PROVE  \A q \in Cuts(bytes, size) : q \in P
<1> DEFINE Bad == {q \in Cuts(bytes, size) : q \notin P}
           From == {size - q : q \in Bad}
<1>1. SUFFICES ASSUME Bad # {} PROVE FALSE
  OBVIOUS
<1>2. ASSUME NEW q \in Cuts(bytes, size) PROVE q \in Nat /\ size \in Nat /\ size - q \in Nat
  BY DEF Blocks, Tiled, Cuts
<1>3. From \in SUBSET Nat /\ From # {}
  BY <1>1, <1>2
<1>4. PICK x \in From : \A y \in From : x <= y
  <2> HIDE DEF From, Bad
  <2> QED BY <1>3, LeastNat
<1>5. PICK q \in Bad : x = size - q
  OBVIOUS
<1>6. q \in DOMAIN bytes
  BY DEF Cuts
<1>7. bytes[q] > 0 /\ bytes[q] \in Nat /\ q + bytes[q] \in Cuts(bytes, size)
  BY <1>6 DEF Blocks, Tiled, Cuts
<1>8. q + bytes[q] \in Bad
  BY <1>6, <1>7
<1>9. size - (q + bytes[q]) \in From
  BY <1>8
<1>10. q \in Nat /\ size \in Nat
  BY <1>2
<1>11. size - (q + bytes[q]) < size - q
  BY <1>7, <1>10
<1>12. size - q <= size - (q + bytes[q])
  BY <1>4, <1>5, <1>9
<1> HIDE DEF From, Bad
<1> QED
  BY <1>7, <1>10, <1>11, <1>12

\* Over one block the sum grows by its bytes if it is counted, and not otherwise.
LEMMA SumOverBlock ==
  ASSUME NEW bytes, NEW size, Blocks(bytes, size), NEW L, L \subseteq DOMAIN bytes,
         NEW p \in DOMAIN bytes
  PROVE  /\ p \in Nat /\ bytes[p] \in Nat /\ bytes[p] > 0 /\ p + bytes[p] \in Nat
         /\ p + bytes[p] <= size /\ p + bytes[p] \in Cuts(bytes, size)
         /\ SumBefore(bytes, L, p) \in Nat
         /\ p \in L => SumBefore(bytes, L, p + bytes[p]) = SumBefore(bytes, L, p) + bytes[p]
         /\ p \notin L => SumBefore(bytes, L, p + bytes[p]) = SumBefore(bytes, L, p)
<1>1. /\ p \in Nat /\ bytes[p] \in Nat /\ bytes[p] > 0 /\ p + bytes[p] <= size
      /\ p + bytes[p] \in Cuts(bytes, size)
  BY DEF Blocks, Tiled, Cuts
<1>2. \A r \in L : bytes[r] \in Nat
  BY DEF Blocks
<1>3. \A r \in L : ~(p + 1 <= r /\ r < p + bytes[p])
  <2>1. \A r \in DOMAIN bytes : p < r => p + bytes[p] <= r
    BY DEF Blocks, Tiled
  <2>2. \A r \in L : r \in Nat /\ r \in DOMAIN bytes
    BY DEF Blocks
  <2> QED BY <1>1, <2>1, <2>2
<1>4. p + 1 \in Nat /\ p + bytes[p] \in Nat /\ p + 1 <= p + bytes[p]
  BY <1>1
<1>5. SumBefore(bytes, L, p + bytes[p]) = SumBefore(bytes, L, p + 1)
  BY <1>2, <1>3, <1>4, SumSkips
<1>6. /\ SumBefore(bytes, L, p) \in Nat
      /\ p \in L => SumBefore(bytes, L, p + 1) = SumBefore(bytes, L, p) + bytes[p]
      /\ p \notin L => SumBefore(bytes, L, p + 1) = SumBefore(bytes, L, p)
  BY <1>1, <1>2, SumStep
<1> QED
  BY <1>1, <1>4, <1>5, <1>6

\* The blocks before a cut are as many bytes as the cut is far from the beginning.
LEMMA SumIsCut ==
  ASSUME NEW bytes, NEW size, Blocks(bytes, size)
  PROVE  \A q \in Cuts(bytes, size) : q \in Nat /\ SumBefore(bytes, DOMAIN bytes, q) = q
<1> DEFINE P == {q \in Nat : SumBefore(bytes, DOMAIN bytes, q) = q}
<1>1. \A r \in DOMAIN bytes : bytes[r] \in Nat
  BY DEF Blocks
<1>2. 0 \in P
  BY <1>1, SumStep, 0 \in Nat
<1>3. ASSUME NEW p \in DOMAIN bytes, p \in P PROVE p + bytes[p] \in P
  <2>1. /\ p + bytes[p] \in Nat
        /\ SumBefore(bytes, DOMAIN bytes, p + bytes[p]) = SumBefore(bytes, DOMAIN bytes, p) + bytes[p]
    BY SumOverBlock
  <2> QED BY <1>3, <2>1
<1>4. \A q \in Cuts(bytes, size) : q \in P
  <2> HIDE DEF P
  <2> QED BY <1>2, <1>3, CutsFromBelow
<1> QED
  BY <1>4

\* The block stays filled when one more block is put at its end.
LEMMA AppendBlock ==
  ASSUME NEW bytes, NEW size, Blocks(bytes, size), NEW b \in Nat, b > 0, NEW more,
         more = [p \in DOMAIN bytes \cup {size} |-> IF p = size THEN b ELSE bytes[p]]
  PROVE  /\ size \notin DOMAIN bytes
         /\ Blocks(more, size + b)
<1>1. /\ DOMAIN bytes \subseteq Nat /\ size \in Nat
      /\ \A p \in DOMAIN bytes : bytes[p] \in Nat /\ bytes[p] > 0 /\ p + bytes[p] <= size
  BY DEF Blocks, Tiled
<1>2. size \notin DOMAIN bytes
  BY <1>1
<1>3. /\ DOMAIN more = DOMAIN bytes \cup {size} /\ more[size] = b
      /\ \A p \in DOMAIN bytes : more[p] = bytes[p]
  BY <1>2
<1>4. more \in [DOMAIN more -> Nat]
  BY <1>1
<1>5. Tiled(more, size + b)
  <2>1. 0 \in DOMAIN more \cup {size + b}
    BY <1>3 DEF Blocks, Tiled
  <2>2. ASSUME NEW p \in DOMAIN more
        PROVE  /\ more[p] > 0 /\ p + more[p] \in DOMAIN more \cup {size + b}
               /\ p + more[p] <= size + b
    <3>1. CASE p = size
      BY <1>1, <1>3, <3>1
    <3>2. CASE p \in DOMAIN bytes
      <4>1. p + bytes[p] \in DOMAIN bytes \cup {size}
        BY <3>2 DEF Blocks, Tiled
      <4> QED BY <1>1, <1>3, <3>2, <4>1
    <3> QED BY <1>3, <3>1, <3>2
  <2>3. ASSUME NEW q \in DOMAIN more \cup {size + b}
        PROVE  q = 0 \/ \E p \in DOMAIN more : p + more[p] = q
    <3>1. CASE q = size + b
      BY <1>3, <3>1
    <3>2. CASE q \in DOMAIN bytes \cup {size}
      <4>1. q = 0 \/ \E p \in DOMAIN bytes : p + bytes[p] = q
        BY <3>2 DEF Blocks, Tiled
      <4> QED BY <1>3, <4>1
    <3> QED BY <1>3, <3>1, <3>2
  <2>4. ASSUME NEW p \in DOMAIN more, NEW q \in DOMAIN more, p < q
        PROVE  p + more[p] <= q
    <3>1. CASE p = size
      BY <1>1, <1>3, <2>4, <3>1
    <3>2. CASE p \in DOMAIN bytes /\ q = size
      BY <1>1, <1>3, <3>2
    <3>3. CASE p \in DOMAIN bytes /\ q \in DOMAIN bytes
      <4>1. p + bytes[p] <= q
        BY <2>4, <3>3 DEF Blocks, Tiled
      <4> QED BY <1>3, <3>3, <4>1
    <3> QED BY <1>3, <3>1, <3>2, <3>3
  <2> QED BY <2>1, <2>2, <2>3, <2>4 DEF Tiled
<1> QED
  BY <1>1, <1>2, <1>3, <1>4, <1>5 DEF Blocks

\* What defragment does to the block: closed up over the blocks that are not kept, the kept ones
\* fill it, each at the number of kept bytes that were before it, and no two at the same place.
LEMMA CloseUp ==
  ASSUME NEW bytes, NEW size, Blocks(bytes, size), NEW L, L \subseteq DOMAIN bytes,
         NEW closed \in [{SumBefore(bytes, L, p) : p \in L} -> Nat],
         \A p \in L : closed[SumBefore(bytes, L, p)] = bytes[p]
  PROVE  /\ Blocks(closed, SumBefore(bytes, L, size))
         /\ \A p, q \in L : SumBefore(bytes, L, p) = SumBefore(bytes, L, q) => p = q
<1> DEFINE S(x) == SumBefore(bytes, L, x)
<1>1. /\ DOMAIN bytes \subseteq Nat /\ size \in Nat
      /\ \A p \in L : p \in Nat /\ p \in DOMAIN bytes /\ bytes[p] \in Nat /\ bytes[p] > 0
  BY DEF Blocks, Tiled
<1>2. ASSUME NEW x \in Nat PROVE S(x) \in Nat
  BY <1>1, SumStep
<1>3. ASSUME NEW x \in Nat, NEW y \in Nat, x <= y PROVE S(x) <= S(y)
  BY <1>1, <1>3, SumGrows
<1>4. ASSUME NEW p \in DOMAIN bytes
      PROVE  /\ p + bytes[p] \in Nat /\ p + bytes[p] <= size
             /\ p \in L => S(p + bytes[p]) = S(p) + bytes[p]
             /\ p \notin L => S(p + bytes[p]) = S(p)
  BY SumOverBlock
<1>5. S(0) = 0
  BY <1>1, SumStep, 0 \in Nat
<1>6. ASSUME NEW q \in Cuts(bytes, size) PROVE q \in Nat
  BY DEF Blocks, Cuts
<1> DEFINE Places == {S(p) : p \in L} \cup {S(size)}
<1> HIDE DEF S
<1>7. \A q \in Cuts(bytes, size) : S(q) \in Places
  <2> DEFINE P == {q \in Nat : S(q) \in Places}
  <2>1. size \in P
    BY <1>1
  <2>2. ASSUME NEW p \in DOMAIN bytes, p + bytes[p] \in P PROVE p \in P
    <3>1. CASE p \in L
      BY <1>1, <3>1
    <3>2. CASE p \notin L
      BY <1>1, <1>4, <2>2, <3>2
    <3> QED BY <3>1, <3>2
  <2>3. \A q \in Cuts(bytes, size) : q \in P
    <3> HIDE DEF P
    <3> QED BY <2>1, <2>2, CutsFromAbove
  <2> QED BY <2>3
<1>8. \A q \in Cuts(bytes, size) : S(q) = 0 \/ \E p \in L : S(p) + bytes[p] = S(q)
  <2> DEFINE P == {q \in Nat : S(q) = 0 \/ \E p \in L : S(p) + bytes[p] = S(q)}
  <2>1. 0 \in P
    BY <1>5
  <2>2. ASSUME NEW p \in DOMAIN bytes, p \in P PROVE p + bytes[p] \in P
    <3>1. p + bytes[p] \in Nat
      BY <1>4
    <3>2. CASE p \in L
      BY <1>4, <3>1, <3>2
    <3>3. CASE p \notin L
      BY <1>4, <2>2, <3>1, <3>3
    <3> QED BY <3>2, <3>3
  <2>3. \A q \in Cuts(bytes, size) : q \in P
    <3> HIDE DEF P
    <3> QED BY <2>1, <2>2, CutsFromBelow
  <2> QED BY <2>3
<1>9. ASSUME NEW p \in L, NEW q \in L, p < q PROVE S(p) + bytes[p] <= S(q) /\ S(p) < S(q)
  <2>1. p + bytes[p] <= q
    BY <1>1, <1>9 DEF Blocks, Tiled
  <2>2. S(p + bytes[p]) <= S(q)
    BY <1>1, <1>3, <1>4, <2>1
  <2>3. S(p + bytes[p]) = S(p) + bytes[p] /\ S(p) \in Nat /\ S(q) \in Nat
    BY <1>1, <1>2, <1>4
  <2> QED BY <1>1, <2>2, <2>3
<1>10. \A p, q \in L : S(p) = S(q) => p = q
  <2>1. ASSUME NEW p \in L, NEW q \in L, S(p) = S(q), p # q PROVE FALSE
    <3>1. p < q \/ q < p
      BY <1>1, <2>1
    <3>2. S(p) < S(q) \/ S(q) < S(p)
      BY <1>9, <3>1
    <3> QED BY <1>1, <1>2, <2>1, <3>2
  <2> QED BY <2>1
<1>11. DOMAIN closed = {S(p) : p \in L} /\ \A p \in L : closed[S(p)] = bytes[p]
  BY DEF S
<1>12. S(size) \in Nat /\ DOMAIN closed \subseteq Nat /\ \A x \in DOMAIN closed : closed[x] \in Nat
  BY <1>1, <1>2, <1>11
<1>13. Tiled(closed, S(size))
  <2>1. 0 \in DOMAIN closed \cup {S(size)}
    <3>1. 0 \in Cuts(bytes, size)
      BY DEF Blocks, Tiled, Cuts
    <3> QED BY <1>5, <1>7, <1>11, <3>1
  <2>2. ASSUME NEW x \in DOMAIN closed
        PROVE  /\ closed[x] > 0 /\ x + closed[x] \in DOMAIN closed \cup {S(size)}
               /\ x + closed[x] <= S(size)
    <3>1. PICK p \in L : x = S(p) /\ closed[x] = bytes[p]
      BY <1>11
    <3>2. p + bytes[p] \in Cuts(bytes, size)
      BY <1>1, SumOverBlock
    <3>3. S(p + bytes[p]) = S(p) + bytes[p] /\ S(p + bytes[p]) <= S(size)
      BY <1>1, <1>3, <1>4
    <3> QED BY <1>1, <1>7, <1>11, <3>1, <3>2, <3>3
  <2>3. ASSUME NEW y \in DOMAIN closed \cup {S(size)}
        PROVE  y = 0 \/ \E x \in DOMAIN closed : x + closed[x] = y
    <3>1. PICK q \in Cuts(bytes, size) : y = S(q)
      BY <1>1, <1>11 DEF Cuts
    <3>2. y = 0 \/ \E p \in L : S(p) + bytes[p] = y
      BY <1>8, <3>1
    <3> QED BY <1>11, <3>2
  <2>4. ASSUME NEW x \in DOMAIN closed, NEW y \in DOMAIN closed, x < y
        PROVE  x + closed[x] <= y
    <3>1. PICK p \in L : x = S(p) /\ closed[x] = bytes[p]
      BY <1>11
    <3>2. PICK q \in L : y = S(q)
      BY <1>11
    <3>3. p \in Nat /\ q \in Nat /\ S(p) \in Nat /\ S(q) \in Nat
      BY <1>1, <1>2
    <3>4. p # q /\ ~(q < p)
      BY <1>1, <1>9, <2>4, <3>1, <3>2, <3>3
    <3> QED BY <1>9, <3>1, <3>2, <3>3, <3>4
  <2> QED BY <2>1, <2>2, <2>3, <2>4 DEF Tiled
<1>14. closed \in [DOMAIN closed -> Nat]
  OBVIOUS
<1> QED
  BY <1>10, <1>12, <1>13, <1>14 DEF S, Blocks

\* Blocks of at most M bytes hold at most M bytes each.
LEMMA SumBounded ==
  ASSUME NEW bytes, NEW L \in SUBSET Nat, NEW M \in Nat, \A p \in L : bytes[p] \in 0..M,
         NEW x \in Nat, IsFiniteSet(L)
  PROVE  SumBefore(bytes, L, x) <= M * Cardinality(L)
<1> DEFINE Below(k) == L \cap (0..k-1)
           T == {k \in 0..x : SumBefore(bytes, L, k) <= M * Cardinality(Below(k))}
<1>1. ASSUME NEW k \in Nat
      PROVE  /\ SumBefore(bytes, L, k) \in Nat
             /\ k \in L => SumBefore(bytes, L, k + 1) = SumBefore(bytes, L, k) + bytes[k]
             /\ k \notin L => SumBefore(bytes, L, k + 1) = SumBefore(bytes, L, k)
             /\ SumBefore(bytes, L, 0) = 0
  <2>1. \A r \in L : bytes[r] \in Nat
    OBVIOUS
  <2> QED BY <2>1, SumStep
<1>2. ASSUME NEW k \in Nat
      PROVE  /\ IsFiniteSet(Below(k)) /\ Cardinality(Below(k)) \in Nat
             /\ Cardinality(Below(k)) <= Cardinality(L)
  BY FS_Subset, FS_CardinalityType
<1>3. Cardinality(L) \in Nat
  BY FS_CardinalityType
<1>4. 0 \in T
  <2>1. SumBefore(bytes, L, 0) = 0 /\ Cardinality(Below(0)) \in Nat
    BY <1>1, <1>2, 0 \in Nat
  <2>2. 0 <= M * Cardinality(Below(0))
    BY <2>1
  <2> QED BY <2>1, <2>2
<1>5. ASSUME NEW k \in 0..x-1, k \in T PROVE k + 1 \in T
  <2> k \in Nat /\ k + 1 \in Nat /\ k + 1 \in 0..x
    OBVIOUS
  <2>1. SumBefore(bytes, L, k) <= M * Cardinality(Below(k))
    BY <1>5
  <2>2. /\ Cardinality(Below(k)) \in Nat /\ Cardinality(Below(k + 1)) \in Nat
        /\ IsFiniteSet(Below(k)) /\ SumBefore(bytes, L, k) \in Nat
    BY <1>1, <1>2
  <2>3. CASE k \in L
    <3>1. Below(k + 1) = Below(k) \cup {k} /\ k \notin Below(k)
      BY <2>3
    <3>2. Cardinality(Below(k + 1)) = Cardinality(Below(k)) + 1
      <4> HIDE DEF Below
      <4> QED BY <2>2, <3>1, FS_AddElement
    <3>3. SumBefore(bytes, L, k + 1) = SumBefore(bytes, L, k) + bytes[k] /\ bytes[k] \in 0..M
      BY <1>1, <2>3
    <3> HIDE DEF Below
    <3>4. M * (Cardinality(Below(k)) + 1) = M * Cardinality(Below(k)) + M
      BY <2>2
    <3>5. M * Cardinality(Below(k)) \in Nat
      BY <2>2
    <3> QED BY <2>1, <2>2, <3>2, <3>3, <3>4, <3>5
  <2>4. CASE k \notin L
    <3>1. Below(k + 1) = Below(k)
      BY <2>4
    <3>2. SumBefore(bytes, L, k + 1) = SumBefore(bytes, L, k)
      BY <1>1, <2>4
    <3> HIDE DEF Below
    <3> QED BY <2>1, <3>1, <3>2
  <2> QED BY <2>3, <2>4
<1>6. x \in T
  <2> HIDE DEF T
  <2>1. \A k \in 0..x : k \in T
    BY <1>4, <1>5, UpTo
  <2> QED BY <2>1
<1>7. Cardinality(Below(x)) \in 0..Cardinality(L)
  BY <1>2, <1>3
<1>8. SumBefore(bytes, L, x) <= M * Cardinality(Below(x))
  BY <1>6
<1>9. M * Cardinality(Below(x)) <= M * Cardinality(L)
  <2> HIDE DEF Below
  <2>1. PICK c \in Nat : Cardinality(Below(x)) = c
    BY <1>7
  <2>2. PICK e \in Nat : Cardinality(L) = c + e
    BY <1>3, <1>7, <2>1
  <2>3. M * (c + e) = M * c + M * e /\ M * e \in Nat /\ M * c \in Nat
    OBVIOUS
  <2> QED BY <2>1, <2>2, <2>3
<1>10. /\ SumBefore(bytes, L, x) \in Nat /\ M * Cardinality(Below(x)) \in Nat
       /\ M * Cardinality(L) \in Nat
  BY <1>1, <1>3, <1>7
<1> HIDE DEF Below
<1> QED
  BY <1>8, <1>9, <1>10

---------------------------------------------------------------------------
\* LiveEntries lists the entries without the removed flag, each once and in the order
\* of the index: entry k of it is entry at[k].
Lists(at, m, n, s, live) ==
  /\ m \in 0..n /\ at \in [1..m -> live]
  /\ live = {i \in 1..n : ~s[i].removed}
  /\ \A k, l \in 1..m : at[k] = at[l] => k = l
  /\ \A k, l \in 1..m : k < l => at[k] < at[l]
  /\ \A i \in live : \E k \in 1..m : at[k] = i

\* The list of the live entries exists: it has one entry for each, in the order of the index.
LEMMA LiveEntriesListed ==
  ASSUME NEW n \in Nat, NEW s, Len(s) = n
  PROVE  \E at, m, live : /\ Lists(at, m, n, s, live)
                          /\ LiveEntries(s) = [k \in 1..m |-> s[at[k]]]
<1> DEFINE live == {i \in 1..n : ~s[i].removed}
           Upto(i) == live \cap (1..i)
           Rank(i) == Cardinality(Upto(i))
           m == Cardinality(live)
           at == [k \in 1..m |-> CHOOSE i \in live : Rank(i) = k]
           rank == [i \in live |-> Rank(i)]
<1>1. LiveEntries(s) = [k \in 1..m |-> s[at[k]]]
  BY DEF LiveEntries
<1>2. IsFiniteSet(live) /\ m \in 0..n
  <2>1. IsFiniteSet(1..n) /\ Cardinality(1..n) = n
    BY FS_Interval
  <2>2. live \in SUBSET (1..n)
    OBVIOUS
  <2> HIDE DEF live
  <2>3. IsFiniteSet(live) /\ Cardinality(live) <= n
    BY <2>1, <2>2, FS_Subset
  <2>4. Cardinality(live) \in Nat
    BY <2>3, FS_CardinalityType
  <2> QED BY <2>3, <2>4
<1>3. live \subseteq 1..n
  OBVIOUS
<1> HIDE DEF live
<1>4. ASSUME NEW i \in live
      PROVE  i \in Upto(i) /\ IsFiniteSet(Upto(i)) /\ Rank(i) \in 1..m
  <2>1. i \in Upto(i) /\ Upto(i) \in SUBSET live
    BY <1>3
  <2> HIDE DEF Upto
  <2>2. IsFiniteSet(Upto(i)) /\ Cardinality(Upto(i)) <= m /\ Cardinality(Upto(i)) \in Nat
    BY <1>2, <2>1, FS_Subset, FS_CardinalityType
  <2>3. Cardinality(Upto(i)) # 0
    BY <2>1, <2>2, FS_EmptySet
  <2> QED BY <1>2, <2>1, <2>2, <2>3
<1>5. ASSUME NEW i \in live, NEW j \in live, i < j PROVE Rank(i) < Rank(j)
  <2>1. Upto(i) \in SUBSET Upto(j) /\ j \notin Upto(i) /\ j \in Upto(j)
    BY <1>3, <1>5
  <2>2. IsFiniteSet(Upto(j))
    BY <1>4
  <2>3. Rank(i) \in 1..m /\ Rank(j) \in 1..m
    BY <1>4
  <2> HIDE DEF Upto
  <2>4. Cardinality(Upto(i)) <= Cardinality(Upto(j))
    BY <2>1, <2>2, FS_Subset
  <2>5. Cardinality(Upto(i)) # Cardinality(Upto(j))
    BY <2>1, <2>2, FS_Subset
  <2> HIDE DEF m
  <2> QED BY <1>2, <2>3, <2>4, <2>5
<1>6. rank \in Injection(live, 1..m)
  <2>1. ASSUME NEW i \in live, NEW j \in live, Rank(i) = Rank(j) PROVE i = j
    <3>1. i < j \/ j < i \/ i = j
      BY <1>3
    <3> HIDE DEF Rank, m
    <3>2. Rank(i) \in 1..m /\ Rank(j) \in 1..m
      BY <1>4, Zenon
    <3>3. m \in Nat
      BY <1>2
    <3> QED BY <1>5, <2>1, <3>1, <3>2, <3>3
  <2>2. rank \in [live -> 1..m]
    BY <1>4
  <2>3. \A i \in live : rank[i] = Rank(i)
    OBVIOUS
  <2> HIDE DEF rank, Rank
  <2> QED BY <2>1, <2>2, <2>3 DEF Injection, IsInjective
<1>7. rank \in Surjection(live, 1..m)
  <2>1. IsFiniteSet(1..m) /\ Cardinality(1..m) = m
    BY <1>2, FS_Interval
  <2> HIDE DEF rank
  <2> QED BY <1>6, <2>1, FS_Injection
<1>8. ASSUME NEW k \in 1..m PROVE \E i \in live : Rank(i) = k
  <2>1. \E i \in live : rank[i] = k
    BY <1>7 DEF Surjection
  <2> QED BY <2>1
<1>9. ASSUME NEW k \in 1..m PROVE at[k] \in live /\ Rank(at[k]) = k
  <2> HIDE DEF Rank
  <2> QED BY <1>8
<1>10. ASSUME NEW i \in live PROVE Rank(i) \in 1..m /\ at[Rank(i)] = i
  <2>1. Rank(i) \in 1..m
    BY <1>4
  <2>2. at[Rank(i)] \in live /\ Rank(at[Rank(i)]) = Rank(i)
    <3> HIDE DEF Rank, at
    <3> QED BY <1>9, <2>1
  <2>3. rank[at[Rank(i)]] = rank[i]
    BY <2>2
  <2> HIDE DEF Rank, at, rank
  <2> QED BY <1>6, <2>1, <2>2, <2>3 DEF Injection, IsInjective
<1>11. Lists(at, m, n, s, live)
  <2>1. at \in [1..m -> live]
    BY <1>9
  <2>2. live = {i \in 1..n : ~s[i].removed}
    BY DEF live
  <2>3. ASSUME NEW k \in 1..m, NEW l \in 1..m, at[k] = at[l] PROVE k = l
    <3> HIDE DEF at, Rank
    <3> QED BY <1>9, <2>3
  <2>4. \A i \in live : \E k \in 1..m : at[k] = i
    <3> HIDE DEF at, Rank
    <3> QED BY <1>10
  <2>5. ASSUME NEW k \in 1..m, NEW l \in 1..m, k < l PROVE at[k] < at[l]
    <3>1. at[k] \in live /\ at[l] \in live /\ Rank(at[k]) = k /\ Rank(at[l]) = l
      BY <1>9
    <3> HIDE DEF at, Rank, m
    <3>2. at[k] \in 1..n /\ at[l] \in 1..n
      BY <1>3, <3>1, Zenon
    <3>4. k \in Int /\ l \in Int
      BY <1>2
    <3>3. at[l] < at[k] => Rank(at[l]) < Rank(at[k])
      BY <1>5, <3>1
    <3> QED BY <2>5, <3>1, <3>2, <3>3, <3>4
  <2> HIDE DEF at, m
  <2> QED BY <1>2, <2>1, <2>2, <2>3, <2>4, <2>5 DEF Lists
<1> HIDE DEF at, m
<1> QED
  BY <1>1, <1>11

---------------------------------------------------------------------------
\* A round of shift_down swaps places of the heap and stays in it.
ShiftStates(n, P) ==
  {h \in [heap : [1..n -> P], par : Nat \ {0}, done : BOOLEAN] : h.done \/ h.par <= n}

\* A round of shift_down leads from a heap to a heap of the same values.
LEMMA ShiftStepType ==
  ASSUME NEW n \in Nat, NEW P, NEW h \in ShiftStates(n, P)
  PROVE  ShiftStep(h) \in ShiftStates(n, P)
<1> DEFINE c == CHOOSE c \in Down(h) : TRUE
           swapped == Swap(h.heap, h.par, c)
<1>1. h.heap \in [1..n -> P] /\ Len(h.heap) = n /\ h.par \in Nat \ {0} /\ h.done \in BOOLEAN
  BY DEF ShiftStates
<1>2. ShiftStep(h) = IF h.done \/ Down(h) = {} THEN [h EXCEPT !.done = TRUE]
                     ELSE [heap |-> swapped, par |-> c, done |-> FALSE]
  BY DEF ShiftStep
<1>3. CASE h.done \/ Down(h) = {}
  <2>1. [h EXCEPT !.done = TRUE] \in ShiftStates(n, P)
    BY DEF ShiftStates
  <2> QED BY <1>2, <1>3, <2>1
<1>4. CASE ~h.done /\ Down(h) # {}
  <2>1. c \in Down(h)
    BY <1>4
  <2>2. c \in {2 * h.par, 2 * h.par + 1} /\ c <= n
    BY <1>1, <2>1 DEF Down
  <2> HIDE DEF c
  <2>3. c \in 1..n /\ h.par \in 1..n
    BY <1>1, <1>4, <2>2 DEF ShiftStates
  <2>4. swapped \in [1..n -> P]
    BY <1>1, <2>3 DEF Swap
  <2> HIDE DEF swapped
  <2>5. [heap |-> swapped, par |-> c, done |-> FALSE] \in ShiftStates(n, P)
    BY <2>3, <2>4 DEF ShiftStates
  <2> QED BY <1>2, <1>4, <2>5
<1> QED
  BY <1>3, <1>4

\* shift_down keeps a heap a heap of the same entries' kind.
LEMMA ShiftDownType ==
  ASSUME NEW n \in Nat, NEW P, NEW heap \in [1..n -> P], NEW i \in Nat \ {0}
  PROVE  ShiftDown(heap, i) \in [1..n -> P]
<1> DEFINE S == ShiftStates(n, P)
           start == [heap |-> heap, par |-> i, done |-> i > n]
           f == CHOOSE f : f = [k \in 0..n |-> IF k = 0 THEN start ELSE ShiftStep(f[k-1])]
           turn == [k \in 1..n |-> [s \in S |-> ShiftStep(s)]]
<1>1. ShiftDown(heap, i) = f[n].heap
  <2>1. Len(heap) = n
    OBVIOUS
  <2> QED BY <2>1 DEF ShiftDown
<1>2. start \in S
  <2>1. CASE i > n
    BY <2>1 DEF ShiftStates
  <2>2. CASE ~(i > n)
    <3>1. i <= n
      BY <2>2
    <3> QED BY <2>2, <3>1 DEF ShiftStates
  <2> QED BY <2>1, <2>2
<1>3. \A s \in S : ShiftStep(s) \in S
  BY ShiftStepType
<1> HIDE DEF start
<1>4. PICK g : Run(n, S, start, turn, g)
  <2>1. turn \in [1..n -> [S -> S]]
    BY <1>3
  <2> HIDE DEF turn, S
  <2>2. HasRun(n, S, start, turn)
    BY <1>2, <2>1, TurnsExist DEF Turns
  <2> QED BY <2>2 DEF HasRun
<1>5. g \in [0..n -> S] /\ g[0] = start /\ \A k \in 1..n : g[k] = ShiftStep(g[k-1])
  <2>1. \A k \in 1..n : \A s \in S : turn[k][s] = ShiftStep(s)
    OBVIOUS
  <2> HIDE DEF turn, S
  <2>2. ASSUME NEW k \in 1..n PROVE g[k] = ShiftStep(g[k-1])
    <3>1. g[k-1] \in S /\ g[k] = turn[k][g[k-1]]
      BY <1>4 DEF Run
    <3> QED BY <2>1, <3>1
  <2> QED BY <1>4, <2>2 DEF Run
<1>6. g = [k \in 0..n |-> IF k = 0 THEN start ELSE ShiftStep(g[k-1])]
  <2> HIDE DEF S
  <2> QED BY <1>5
<1>7. f = [k \in 0..n |-> IF k = 0 THEN start ELSE ShiftStep(f[k-1])]
  BY <1>6
<1> HIDE DEF f, S
<1>8. f[n] \in S
  <2> DEFINE T == {k \in 0..n : f[k] \in S}
  <2>1. 0 \in T
    BY <1>2, <1>7
  <2>2. ASSUME NEW k \in 0..n-1, k \in T PROVE k + 1 \in T
    <3>1. k + 1 \in 0..n /\ f[k+1] = ShiftStep(f[k])
      BY <1>7
    <3> QED BY <1>3, <2>2, <3>1
  <2> HIDE DEF T
  <2>3. \A k \in 0..n : k \in T
    BY <2>1, <2>2, UpTo
  <2> QED BY <2>3 DEF T
<1> QED
  BY <1>1, <1>8 DEF S, ShiftStates

\* What reclaim selects are entries of the index.
LEMMA SelectedType ==
  ASSUME NEW d, NEW n \in Nat, Len(d.offsets) = n, NEW rc \in 1..n
  PROVE  Selected(d, rc) \in [1..rc -> 1..n]
<1> DEFINE Pair(i) == [score |-> d.offsets[i].score, index |-> i]
           P == {Pair(i) : i \in 1..n}
           H == [1..rc -> P]
           half == (rc + 1) \div 2 + 1
           start == [i \in 1..rc |-> Pair(i)]
           h == CHOOSE h : h = [k \in 0..half |-> IF k = 0 THEN start
                                                  ELSE ShiftDown(h[k-1], half + 1 - k)]
           Offer(heap, i) == IF ScoreLess(d.offsets[i].score, heap[1].score)
                             THEN ShiftDown([heap EXCEPT ![1] = Pair(i)], 1) ELSE heap
           o == CHOOSE o : o = [k \in 0..n - rc |-> IF k = 0 THEN h[half]
                                                    ELSE Offer(o[k-1], rc + k)]
<1>1. Selected(d, rc) = [i \in 1..rc |-> o[n - rc][i].index]
  BY DEF Selected
<1>2. half \in Nat /\ n - rc \in Nat /\ rc \in Nat /\ start \in H
  OBVIOUS
<1> HIDE DEF half, start
<1>3. \A p \in P : p.index \in 1..n
  OBVIOUS
<1>4. ASSUME NEW heap \in H, NEW k \in 1..half PROVE ShiftDown(heap, half + 1 - k) \in H
  <2>1. half + 1 - k \in Nat \ {0}
    BY <1>2
  <2> HIDE DEF P
  <2> QED BY <1>2, <2>1, ShiftDownType
<1>5. ASSUME NEW heap \in H, NEW k \in 1..n - rc PROVE Offer(heap, rc + k) \in H
  <2>1. rc + k \in 1..n /\ Pair(rc + k) \in P
    OBVIOUS
  <2> HIDE DEF P, Pair
  <2>2. [heap EXCEPT ![1] = Pair(rc + k)] \in H
    BY <2>1
  <2>3. ShiftDown([heap EXCEPT ![1] = Pair(rc + k)], 1) \in H
    BY <1>2, <2>2, ShiftDownType, 1 \in Nat \ {0}
  <2> QED BY <2>3
<1> HIDE DEF H, Offer
<1>6. h[half] \in H
  <2> DEFINE turn == [k \in 1..half |-> [s \in H |-> ShiftDown(s, half + 1 - k)]]
  <2>1. PICK g : Run(half, H, start, turn, g)
    <3>1. turn \in [1..half -> [H -> H]]
      BY <1>4
    <3> HIDE DEF turn
    <3>2. HasRun(half, H, start, turn)
      BY <1>2, <3>1, TurnsExist DEF Turns
    <3> QED BY <3>2 DEF HasRun
  <2>2. /\ g \in [0..half -> H] /\ g[0] = start
        /\ \A k \in 1..half : g[k] = ShiftDown(g[k-1], half + 1 - k)
    <3>1. \A k \in 1..half : \A s \in H : turn[k][s] = ShiftDown(s, half + 1 - k)
      OBVIOUS
    <3> HIDE DEF turn
    <3>2. ASSUME NEW k \in 1..half PROVE g[k] = ShiftDown(g[k-1], half + 1 - k)
      <4>1. g[k-1] \in H /\ g[k] = turn[k][g[k-1]]
        BY <1>2, <2>1 DEF Run
      <4> QED BY <3>1, <4>1
    <3> QED BY <2>1, <3>2 DEF Run
  <2>3. g = [k \in 0..half |-> IF k = 0 THEN start ELSE ShiftDown(g[k-1], half + 1 - k)]
    BY <1>2, <2>2
  <2>4. h = [k \in 0..half |-> IF k = 0 THEN start ELSE ShiftDown(h[k-1], half + 1 - k)]
    BY <2>3
  <2> HIDE DEF h
  <2> DEFINE T == {k \in 0..half : h[k] \in H}
  <2>5. 0 \in T
    BY <1>2, <2>4
  <2>6. ASSUME NEW k \in 0..half-1, k \in T PROVE k + 1 \in T
    <3>1. k + 1 \in 1..half /\ h[k+1] = ShiftDown(h[k], half + 1 - (k + 1))
      BY <1>2, <2>4
    <3> QED BY <1>4, <2>6, <3>1
  <2> HIDE DEF T
  <2>7. \A k \in 0..half : k \in T
    BY <1>2, <2>5, <2>6, UpTo
  <2> QED BY <1>2, <2>7 DEF T
<1> HIDE DEF h
<1>7. o[n - rc] \in H
  <2> DEFINE m == n - rc
             turn == [k \in 1..m |-> [s \in H |-> Offer(s, rc + k)]]
  <2> m \in Nat
    BY <1>2
  <2>0. \A heap \in H, k \in 1..m : Offer(heap, rc + k) \in H
    BY <1>5
  <2>1. o = CHOOSE x : x = [k \in 0..m |-> IF k = 0 THEN h[half] ELSE Offer(x[k-1], rc + k)]
    OBVIOUS
  <2> HIDE DEF o, m
  <2>2. PICK g : Run(m, H, h[half], turn, g)
    <3>1. turn \in [1..m -> [H -> H]]
      BY <2>0
    <3> HIDE DEF turn
    <3>2. HasRun(m, H, h[half], turn)
      BY <1>6, <3>1, TurnsExist DEF Turns
    <3> QED BY <3>2 DEF HasRun
  <2>3. /\ g \in [0..m -> H] /\ g[0] = h[half]
        /\ \A k \in 1..m : g[k] = Offer(g[k-1], rc + k)
    <3>1. \A k \in 1..m : \A s \in H : turn[k][s] = Offer(s, rc + k)
      OBVIOUS
    <3> HIDE DEF turn
    <3>2. ASSUME NEW k \in 1..m PROVE g[k] = Offer(g[k-1], rc + k)
      <4>1. g[k-1] \in H /\ g[k] = turn[k][g[k-1]]
        BY <2>2 DEF Run
      <4> QED BY <3>1, <4>1
    <3> QED BY <2>2, <3>2 DEF Run
  <2>4. g = [k \in 0..m |-> IF k = 0 THEN h[half] ELSE Offer(g[k-1], rc + k)]
    BY <2>3
  <2>5. o = [k \in 0..m |-> IF k = 0 THEN h[half] ELSE Offer(o[k-1], rc + k)]
    BY <2>1, <2>4
  <2> DEFINE T == {k \in 0..m : o[k] \in H}
  <2>6. 0 \in T
    BY <1>6, <2>5
  <2>7. ASSUME NEW k \in 0..m-1, k \in T PROVE k + 1 \in T
    <3>1. k + 1 \in 1..m /\ o[k+1] = Offer(o[k], rc + (k + 1)) /\ o[k] \in H
      BY <2>5, <2>7
    <3>2. o[k+1] \in H
      BY <2>0, <3>1
    <3> QED BY <3>1, <3>2
  <2> HIDE DEF T
  <2>8. \A k \in 0..m : k \in T
    BY <2>6, <2>7, UpTo
  <2>9. o[m] \in H
    BY <2>8 DEF T
  <2> QED BY <2>9 DEF m
<1> HIDE DEF o
<1>8. \A i \in 1..rc : o[n - rc][i].index \in 1..n
  <2> HIDE DEF P
  <2> QED BY <1>3, <1>7 DEF H
<1> QED
  BY <1>1, <1>8

---------------------------------------------------------------------------
\* Fields of an image that an operation does not change.
Keeps(d, r, changed) ==
  Fields \subseteq DOMAIN r /\ \A x \in Fields \ changed : r[x] = d[x]

---------------------------------------------------------------------------
\* The least number of a set, as the code's first index of a loop.
LEMMA MinNat ==
  ASSUME NEW S \in SUBSET Nat, S # {}
  PROVE  Min(S) \in S /\ \A x \in S : Min(S) <= x
<1>1. \E x \in S : \A y \in S : x <= y
  BY LeastNat
<1> QED
  BY <1>1 DEF Min

\* The greater of two numbers, as a dirty level is raised.
LEMMA MaxTwo ==
  ASSUME NEW a \in Int, NEW b \in Int
  PROVE  Max({a, b}) = IF a >= b THEN a ELSE b
<1>1. Max({a, b}) \in {a, b} /\ Max({a, b}) >= a /\ Max({a, b}) >= b
  <2> DEFINE S == {a, b}
  <2>1. \E x \in S : \A y \in S : x >= y
    <3>1. CASE a >= b
      BY <3>1
    <3>2. CASE ~(a >= b)
      BY <3>2
    <3> QED BY <3>1, <3>2
  <2> HIDE DEF S
  <2>2. Max(S) \in S /\ \A y \in S : Max(S) >= y
    BY <2>1 DEF Max
  <2> QED BY <2>2 DEF S
<1> QED
  BY <1>1

---------------------------------------------------------------------------
\* The fields of an image, one by one.
LEMMA KeepsField ==
  ASSUME NEW d, NEW r, NEW changed, Keeps(d, r, changed), NEW x \in Fields, x \notin changed
  PROVE  r[x] = d[x]
BY DEF Keeps

\* An image with the block of another is as sound in that respect, and counts the same bytes.
LEMMA BlockKept ==
  ASSUME NEW d, NEW r, r.lemmas = d.lemmas, r.lemma_size = d.lemma_size
  PROVE  BytesAt(r) = BytesAt(d) /\ (BlockSound(d) => BlockSound(r))
<1>1. BytesAt(r) = BytesAt(d)
  BY DEF BytesAt, BytesOf
<1> QED
  BY <1>1 DEF BlockSound

\* Raising the dirty level changes nothing else.
LEMMA DirtyKeeps ==
  ASSUME NEW d, Fields \subseteq DOMAIN d, NEW level
  PROVE  Keeps(d, Dirty(d, level), {"state"}) /\ Dirty(d, level).state = Max({d.state, level})
BY DEF Dirty, Keeps, Fields

\* Raising the dirty level of a sound image.
LEMMA DirtyState ==
  ASSUME NEW d, d.state \in USER_DICT_SYNC..USER_DICT_DEFRAGMENTED, Fields \subseteq DOMAIN d,
         NEW level \in USER_DICT_SYNC..USER_DICT_DEFRAGMENTED
  PROVE  Dirty(d, level).state = IF d.state >= level THEN d.state ELSE level
<1>1. d.state \in Int /\ level \in Int
  BY DEF USER_DICT_SYNC, USER_DICT_DEFRAGMENTED
<1> QED
  BY <1>1, DirtyKeeps, MaxTwo

---------------------------------------------------------------------------
\* The entries of an index of n lemmas.
IndexRecords(n) == [pos : Nat, removed : BOOLEAN, score : Scores, id : 1..n]

\* The number of entries of a sound index.
LEMMA IndexLen ==
  ASSUME NEW d, IndexSound(d)
  PROVE  /\ \E n \in Nat : n = Len(d.offsets) /\ n <= MaxLemmas
         /\ MaxLemmas \in Nat
<1>1. MaxLemmas \in Nat
  BY SizesAssumption
<1>2. Len(d.offsets) \in 0..MaxLemmas
  BY DEF IndexSound
<1>3. Len(d.offsets) \in Nat /\ Len(d.offsets) <= MaxLemmas
  BY <1>1, <1>2
<1> QED
  BY <1>1, <1>3, Zenon

\* Flags and scores of entries may change: the index stays sound if positions and ids do.
LEMMA IndexKept ==
  ASSUME NEW d, NEW r, IndexSound(d), r.lemmas = d.lemmas, r.by_id = d.by_id,
         r.offsets \in [Indexes(d) -> IndexRecords(Len(d.offsets))],
         \A i \in Indexes(d) : /\ r.offsets[i].pos = d.offsets[i].pos
                               /\ r.offsets[i].id = d.offsets[i].id
  PROVE  IndexSound(r) /\ Len(r.offsets) = Len(d.offsets) /\ Indexes(r) = Indexes(d)
<1>1. PICK n \in Nat : n = Len(d.offsets) /\ n <= MaxLemmas
  BY IndexLen
<1>2. Indexes(d) = 1..n
  BY <1>1 DEF Indexes
<1>3. Len(r.offsets) = n
  BY <1>1, <1>2
<1>4. Indexes(r) = 1..n
  BY <1>3 DEF Indexes
<1>5. DOMAIN r.lemmas = {r.offsets[i].pos : i \in 1..n}
  <2>1. DOMAIN d.lemmas = {d.offsets[i].pos : i \in 1..n}
    BY <1>2 DEF IndexSound
  <2> QED BY <1>2, <2>1, SMTT(30)
<1>6. r.offsets \in [1..n -> IndexRecords(n)]
  BY <1>1, <1>2
<1>7. /\ \A i, j \in 1..n : r.offsets[i].pos = r.offsets[j].pos => i = j
      /\ \A i, j \in 1..n : r.offsets[i].id = r.offsets[j].id => i = j
      /\ \A id \in 1..n : \E i \in 1..n : r.offsets[i].id = id
      /\ r.by_id \in [1..n -> Nat]
      /\ \A i \in 1..n : r.by_id[r.offsets[i].id] = r.offsets[i].pos
  <2>1. \A i \in 1..n : r.offsets[i].pos = d.offsets[i].pos /\ r.offsets[i].id = d.offsets[i].id
    BY <1>2
  <2>2. /\ \A i, j \in 1..n : d.offsets[i].pos = d.offsets[j].pos => i = j
        /\ \A i, j \in 1..n : d.offsets[i].id = d.offsets[j].id => i = j
        /\ \A id \in 1..n : \E i \in 1..n : d.offsets[i].id = id
        /\ d.by_id \in [1..n -> Nat]
        /\ \A i \in 1..n : d.by_id[d.offsets[i].id] = d.offsets[i].pos
    BY <1>2 DEF IndexSound
  <2>3. \A i, j \in 1..n : r.offsets[i].pos = r.offsets[j].pos => i = j
    BY <2>1, <2>2
  <2>4. \A i, j \in 1..n : r.offsets[i].id = r.offsets[j].id => i = j
    BY <2>1, <2>2
  <2>5. ASSUME NEW id \in 1..n PROVE \E i \in 1..n : r.offsets[i].id = id
    <3>1. PICK i \in 1..n : d.offsets[i].id = id
      BY <2>2
    <3>2. r.offsets[i].id = id
      BY <2>1, <3>1
    <3> QED BY <3>2
  <2>6. \A i \in 1..n : r.by_id[r.offsets[i].id] = r.offsets[i].pos
    BY <2>1, <2>2
  <2> QED BY <2>2, <2>3, <2>4, <2>5, <2>6
<1>8. n \in 0..MaxLemmas
  BY <1>1, IndexLen
<1> QED
  BY <1>1, <1>2, <1>3, <1>4, <1>5, <1>6, <1>7, <1>8 DEF IndexSound, IndexRecords

\* The predict list stays sound where the flags do.
LEMMA PredictsKept ==
  ASSUME NEW d, NEW r, PredictsSound(d), r.predicts = d.predicts, Indexes(r) = Indexes(d),
         \A i \in Indexes(d) : FlagOf(r.offsets[i]) = FlagOf(d.offsets[i])
  PROVE  PredictsSound(r)
<1>1. \A k \in 1..Len(d.predicts) : \E i \in Indexes(d) : d.predicts[k] = FlagOf(r.offsets[i])
  BY DEF PredictsSound
<1>2. \A i \in Indexes(d) : \E k \in 1..Len(d.predicts) : d.predicts[k] = FlagOf(r.offsets[i])
  BY DEF PredictsSound
<1> QED
  BY <1>1, <1>2 DEF PredictsSound

\* The removed positions are finitely many, and blocks begin there.
LEMMA RemovedFinite ==
  ASSUME NEW d, IndexSound(d)
  PROVE  /\ IsFiniteSet(RemovedPositions(d))
         /\ RemovedPositions(d) \subseteq DOMAIN d.lemmas
<1> DEFINE S == {i \in Indexes(d) : d.offsets[i].removed}
           f == [i \in S |-> d.offsets[i].pos]
<1>1. PICK n \in Nat : n = Len(d.offsets) /\ Indexes(d) = 1..n
  BY DEF IndexSound, Indexes
<1>2. IsFiniteSet(S)
  <2>1. IsFiniteSet(1..n) /\ S \in SUBSET (1..n)
    BY <1>1, FS_Interval
  <2> HIDE DEF S
  <2> QED BY <2>1, FS_Subset
<1>3. RemovedPositions(d) = {f[i] : i \in S}
  BY DEF RemovedPositions
<1>4. f \in Surjection(S, RemovedPositions(d))
  <2>1. f = [i \in S |-> f[i]]
    OBVIOUS
  <2> HIDE DEF f, S
  <2> QED BY <1>3, <2>1 DEF Surjection
<1>5. IsFiniteSet(RemovedPositions(d))
  <2> HIDE DEF f, S
  <2> QED BY <1>2, <1>4, FS_Surjection
<1>6. RemovedPositions(d) \subseteq DOMAIN d.lemmas
  BY DEF RemovedPositions, IndexSound
<1> QED
  BY <1>5, <1>6

\* Blocks of a sound image fill its lemma block.
LEMMA SoundBlocks ==
  ASSUME NEW d, BlockSound(d)
  PROVE  /\ Blocks(BytesAt(d), d.lemma_size) /\ DOMAIN BytesAt(d) = DOMAIN d.lemmas
         /\ \A p \in DOMAIN d.lemmas : /\ BytesAt(d)[p] = BytesOf(d, p)
                                       /\ BytesOf(d, p) \in 1..LemmaBytes(kMaxLemmaSize)
                                       /\ p \in Nat /\ p < d.lemma_size
<1>1. DOMAIN BytesAt(d) = DOMAIN d.lemmas /\ \A p \in DOMAIN d.lemmas : BytesAt(d)[p] = BytesOf(d, p)
  BY DEF BytesAt
<1>2. ASSUME NEW p \in DOMAIN d.lemmas
      PROVE  BytesOf(d, p) \in 1..LemmaBytes(kMaxLemmaSize)
  <2>1. d.lemmas[p] \in Lemmas
    BY DEF BlockSound
  <2>2. \A lemma \in Lemmas : Len(lemma.spell) \in 1..kMaxLemmaSize
    BY InputsAssumption
  <2>3. kMaxLemmaSize \in Nat
    BY SizesAssumption
  <2>4. PICK n : n = Len(d.lemmas[p].spell) /\ n \in 1..kMaxLemmaSize
    BY <2>1, <2>2, Zenon
  <2> QED BY <2>3, <2>4 DEF BytesOf, LemmaBytes
<1>3. LemmaBytes(kMaxLemmaSize) \in Nat
  BY SizesAssumption DEF LemmaBytes
<1>4. \A p \in DOMAIN BytesAt(d) : BytesAt(d)[p] \in Nat
  BY <1>1, <1>2, <1>3
<1>5. BytesAt(d) \in [DOMAIN BytesAt(d) -> Nat]
  <2>1. BytesAt(d) = [p \in DOMAIN d.lemmas |-> BytesOf(d, p)]
    BY DEF BytesAt
  <2> QED BY <1>1, <1>4, <2>1
<1>6. Blocks(BytesAt(d), d.lemma_size)
  BY <1>1, <1>5 DEF Blocks, BlockSound
<1>7. ASSUME NEW p \in DOMAIN d.lemmas PROVE p \in Nat /\ p < d.lemma_size
  <2>1. p \in Nat /\ d.lemma_size \in Nat /\ BytesAt(d)[p] > 0 /\ p + BytesAt(d)[p] <= d.lemma_size
    BY <1>1, <1>6 DEF Blocks, Tiled
  <2> QED BY <1>1, <1>4, <2>1
<1> QED
  BY <1>1, <1>2, <1>6, <1>7

---------------------------------------------------------------------------
\* What the sync list may hold: offsets, and what a read past its end finds.
SyncEntries == Int \cup {Garbage}

\* Two lists that differ in one element at most.
LeavesOut(s, t, e) == ToSet(t) \subseteq ToSet(s) /\ ToSet(s) \subseteq ToSet(t) \cup {e}

\* Taking a lemma off the sync list leaves a list that is not longer and has the others.
LEMMA SyncListShrinks ==
  ASSUME NEW d, Fields \subseteq DOMAIN d, d.syncs \in Seq(SyncEntries), NEW pos, NEW r,
         r = RemoveLemmaFromSyncList(d, pos)
  PROVE  /\ Keeps(d, r, {"syncs"})
         /\ r.syncs \in Seq(SyncEntries) /\ Len(r.syncs) <= Len(d.syncs)
         /\ LeavesOut(d.syncs, r.syncs, pos)
<1> DEFINE at == {k \in DOMAIN d.syncs : d.syncs[k] = pos}
           moved == [d.syncs EXCEPT ![Min(at)] = Last(d.syncs)]
<1>1. r = IF at = {} THEN d ELSE [d EXCEPT !.syncs = Front(moved)]
  BY DEF RemoveLemmaFromSyncList
<1>2. PICK n \in Nat : n = Len(d.syncs) /\ d.syncs \in [1..n -> SyncEntries]
  OBVIOUS
<1>3. CASE at = {}
  BY <1>1, <1>3 DEF Keeps, LeavesOut
<1>4. CASE at # {}
  <2>1. Min(at) \in 1..n /\ d.syncs[Min(at)] = pos
    <3>1. at \in SUBSET Nat /\ at \subseteq 1..n
      BY <1>2
    <3>2. \A k \in at : d.syncs[k] = pos
      OBVIOUS
    <3> HIDE DEF at
    <3> QED BY <1>4, <3>1, <3>2, MinNat
  <2>2. n \in 1..n /\ Last(d.syncs) = d.syncs[n]
    BY <1>2, <2>1 DEF Last
  <2> HIDE DEF at
  <2>3. /\ moved \in [1..n -> SyncEntries] /\ moved[Min(at)] = d.syncs[n]
        /\ \A k \in 1..n : k # Min(at) => moved[k] = d.syncs[k]
    BY <1>2, <2>1, <2>2
  <2> HIDE DEF moved
  <2>4. Front(moved) \in Seq(SyncEntries) /\ Len(Front(moved)) = n - 1
    BY <2>2, <2>3 DEF Front
  <2>7. LeavesOut(d.syncs, Front(moved), pos)
    <3>1. DOMAIN Front(moved) = 1..n - 1 /\ \A k \in 1..n - 1 : Front(moved)[k] = moved[k]
      BY <2>2, <2>3 DEF Front
    <3>2. DOMAIN d.syncs = 1..n
      BY <1>2
    <3>3. ASSUME NEW k \in 1..n - 1 PROVE Front(moved)[k] \in ToSet(d.syncs)
      BY <2>2, <2>3, <3>1, <3>2 DEF ToSet
    <3>4. ASSUME NEW k \in 1..n, d.syncs[k] # pos PROVE d.syncs[k] \in ToSet(Front(moved))
      <4>1. k # Min(at)
        BY <2>1, <3>4
      <4>2. CASE k # n
        <5>1. k \in 1..n - 1
          BY <2>2, <4>2
        <5> QED BY <2>3, <3>1, <4>1, <5>1 DEF ToSet
      <4>3. CASE k = n
        <5>1. Min(at) \in 1..n - 1
          BY <2>1, <2>2, <4>1, <4>3
        <5> QED BY <2>3, <3>1, <4>3, <5>1 DEF ToSet
      <4> QED BY <4>2, <4>3
    <3>5. ToSet(Front(moved)) \subseteq ToSet(d.syncs)
      BY <3>1, <3>3 DEF ToSet
    <3>6. ToSet(d.syncs) \subseteq ToSet(Front(moved)) \cup {pos}
      <4>1. \A e \in ToSet(d.syncs) : \E k \in 1..n : e = d.syncs[k]
        BY <3>2 DEF ToSet
      <4> QED BY <3>4, <4>1
    <3> QED BY <3>5, <3>6 DEF LeavesOut
  <2>5. Keeps(d, [d EXCEPT !.syncs = Front(moved)], {"syncs"})
    BY DEF Keeps, Fields
  <2>6. [d EXCEPT !.syncs = Front(moved)].syncs = Front(moved)
    BY DEF Fields
  <2> QED BY <1>1, <1>2, <1>4, <2>4, <2>5, <2>6, <2>7
<1> HIDE DEF at
<1> QED
  BY <1>3, <1>4

\* An entry gets the removed flag, and nothing else of the list changes.
Marked(s, m) == [s EXCEPT ![m] = [@ EXCEPT !.removed = TRUE]]

\* The entries of the predict list.
FlagRecords == [pos : Nat, removed : BOOLEAN]

\* A predict list with a mark is one, with the same positions.
LEMMA MarkedFlags ==
  ASSUME NEW n \in Nat, NEW s \in [1..n -> FlagRecords], NEW m \in 1..n
  PROVE  /\ Marked(s, m) \in [1..n -> FlagRecords]
         /\ \A k \in 1..n : k # m => Marked(s, m)[k] = s[k]
         /\ Marked(s, m)[m] = [pos |-> s[m].pos, removed |-> TRUE]
<1>1. [s[m] EXCEPT !.removed = TRUE] \in FlagRecords
  BY DEF FlagRecords
<1>2. Marked(s, m) \in [1..n -> FlagRecords]
  BY <1>1 DEF Marked
<1>3. \A k \in 1..n : k # m => Marked(s, m)[k] = s[k]
  BY DEF Marked
<1>4. Marked(s, m)[m] = [pos |-> s[m].pos, removed |-> TRUE]
  BY DEF Marked, FlagRecords
<1> QED
  BY <1>2, <1>3, <1>4

\* An index with a mark is one, with the same positions, ids and scores.
LEMMA MarkedEntries ==
  ASSUME NEW n \in Nat, NEW s \in [1..n -> IndexRecords(n)], NEW m \in 1..n
  PROVE  /\ Marked(s, m) \in [1..n -> IndexRecords(n)]
         /\ \A k \in 1..n : k # m => Marked(s, m)[k] = s[k]
         /\ Marked(s, m)[m] = [pos |-> s[m].pos, removed |-> TRUE,
                               score |-> s[m].score, id |-> s[m].id]
<1> DEFINE e == s[m]
           D == {"pos", "removed", "score", "id"}
           t == [e EXCEPT !.removed = TRUE]
<1>1. e.pos \in Nat /\ e.score \in Scores /\ e.id \in 1..n /\ e = [x \in D |-> e[x]]
  BY DEF IndexRecords
<1>2. /\ t = [x \in D |-> t[x]] /\ t.pos = e.pos /\ t.score = e.score /\ t.id = e.id
      /\ t.removed = TRUE
  <2> HIDE DEF e
  <2> QED BY <1>1
<1> HIDE DEF t, e
<1>3. t = [pos |-> t.pos, removed |-> t.removed, score |-> t.score, id |-> t.id]
  BY <1>2
<1>4. t = [pos |-> e.pos, removed |-> TRUE, score |-> e.score, id |-> e.id]
  BY <1>2, <1>3
<1>5. t \in IndexRecords(n)
  <2>1. [pos |-> e.pos, removed |-> TRUE, score |-> e.score, id |-> e.id] \in IndexRecords(n)
    BY <1>1 DEF IndexRecords
  <2> QED BY <1>4, <2>1
<1>6. Marked(s, m) = [s EXCEPT ![m] = t]
  BY DEF Marked, t, e
<1>7. Marked(s, m) \in [1..n -> IndexRecords(n)]
  BY <1>5, <1>6
<1>8. (\A k \in 1..n : k # m => Marked(s, m)[k] = s[k]) /\ Marked(s, m)[m] = t
  BY <1>6
<1> QED
  BY <1>4, <1>7, <1>8 DEF e

\* The predict list marks the entry of a removed lemma.
LEMMA PredictMarked ==
  ASSUME NEW d, Fields \subseteq DOMAIN d, PredictsSound(d), NEW i \in Indexes(d), NEW r,
         r = RemoveLemmaFromPredictList(d, d.offsets[i].pos)
  PROVE  /\ Keeps(d, r, {"predicts"})
         /\ \E m \in 1..Len(d.predicts) :
              /\ d.predicts[m].pos = d.offsets[i].pos
              /\ r.predicts = Marked(d.predicts, m)
<1> DEFINE pos == d.offsets[i].pos
           at == {k \in DOMAIN d.predicts : d.predicts[k].pos = pos}
<1>1. r = [d EXCEPT !.predicts = [@ EXCEPT ![Min(at)].removed = TRUE]]
  BY DEF RemoveLemmaFromPredictList
<1>2. Keeps(d, r, {"predicts"})
  BY <1>1 DEF Keeps, Fields
<1>3. r.predicts = Marked(d.predicts, Min(at))
  BY <1>1 DEF Fields, Marked
<1>4. PICK p \in Nat : p = Len(d.predicts) /\ DOMAIN d.predicts = 1..p
  BY DEF PredictsSound
<1>5. at # {}
  <2>1. PICK k \in 1..p : d.predicts[k] = FlagOf(d.offsets[i])
    BY <1>4 DEF PredictsSound
  <2>2. d.predicts[k].pos = pos
    BY <2>1 DEF FlagOf
  <2> QED BY <1>4, <2>1, <2>2
<1>6. Min(at) \in at
  <2>1. at \in SUBSET Nat
    BY <1>4
  <2> HIDE DEF at
  <2> QED BY <1>5, <2>1, MinNat
<1>7. Min(at) \in 1..p /\ d.predicts[Min(at)].pos = pos
  BY <1>4, <1>6
<1> HIDE DEF at
<1> QED
  BY <1>2, <1>3, <1>4, <1>7

\* What remove_lemma_by_offset_index changes.
LEMMA RemoveFields ==
  ASSUME NEW d, Sound(d), NEW i \in Indexes(d), NEW r, r = RemoveLemmaByOffsetIndex(d, i)
  PROVE  /\ Keeps(d, r, {"state", "offsets", "predicts", "syncs", "free_count", "free_size"})
         /\ r.offsets = Marked(d.offsets, i)
         /\ \E m \in 1..Len(d.predicts) :
              /\ d.predicts[m].pos = d.offsets[i].pos
              /\ r.predicts = Marked(d.predicts, m)
         /\ r.syncs \in Seq(SyncEntries) /\ Len(r.syncs) <= Len(d.syncs)
         /\ LeavesOut(d.syncs, r.syncs, d.offsets[i].pos)
         /\ r.free_count = d.free_count + 1
         /\ r.free_size = d.free_size + BytesOf(d, d.offsets[i].pos)
         /\ r.state = IF d.state >= USER_DICT_OFFSET_DIRTY THEN d.state ELSE USER_DICT_OFFSET_DIRTY
<1> DEFINE pos == d.offsets[i].pos
           d0 == RemoveLemmaFromSyncList(d, pos)
           d1 == RemoveLemmaFromPredictList(d0, pos)
           d2 == [d1 EXCEPT !.offsets[i].removed = TRUE, !.free_count = @ + 1,
                            !.free_size = @ + BytesOf(d, pos)]
<1>1. Fields \subseteq DOMAIN d /\ d.syncs \in Seq(SyncEntries)
  BY DEF Sound, CountersSound, SyncEntries
<1>2. /\ Keeps(d, d0, {"syncs"}) /\ d0.syncs \in Seq(SyncEntries) /\ Len(d0.syncs) <= Len(d.syncs)
      /\ LeavesOut(d.syncs, d0.syncs, pos)
  BY <1>1, SyncListShrinks
<1>3. r = Dirty(d2, USER_DICT_OFFSET_DIRTY)
  BY DEF RemoveLemmaByOffsetIndex
<1>4. Keeps(d0, d1, {"predicts"}) /\ \E m \in 1..Len(d.predicts) :
              /\ d.predicts[m].pos = pos
              /\ d1.predicts = Marked(d.predicts, m)
  <2> HIDE DEF d0
  <2>1. Fields \subseteq DOMAIN d0 /\ d0.offsets = d.offsets /\ d0.predicts = d.predicts
    BY <1>2 DEF Keeps, Fields
  <2>2. PredictsSound(d0) /\ i \in Indexes(d0) /\ d0.offsets[i].pos = pos
    <3>1. Indexes(d0) = Indexes(d)
      BY <2>1 DEF Indexes
    <3> QED BY <2>1, <3>1, PredictsKept DEF Sound
  <2>3. d1 = RemoveLemmaFromPredictList(d0, d0.offsets[i].pos)
    BY <2>2
  <2> HIDE DEF d1, pos
  <2> QED BY <2>1, <2>2, <2>3, PredictMarked
<1> HIDE DEF d0, d1
<1>5. /\ Keeps(d1, d2, {"offsets", "free_count", "free_size"})
      /\ d2.offsets = Marked(d1.offsets, i)
      /\ d2.free_count = d1.free_count + 1
      /\ d2.free_size = d1.free_size + BytesOf(d, pos)
  BY <1>4 DEF Keeps, Fields, Marked
<1> HIDE DEF d2
<1>6. Fields \subseteq DOMAIN d2 /\ d2.state = d.state
  BY <1>2, <1>4, <1>5 DEF Keeps, Fields
<1>7. /\ Keeps(d2, r, {"state"})
      /\ r.state = IF d.state >= USER_DICT_OFFSET_DIRTY THEN d.state ELSE USER_DICT_OFFSET_DIRTY
  <2>1. d2.state \in USER_DICT_SYNC..USER_DICT_DEFRAGMENTED
    BY <1>6 DEF Sound, CountersSound
  <2>2. USER_DICT_OFFSET_DIRTY \in USER_DICT_SYNC..USER_DICT_DEFRAGMENTED
    BY DEF USER_DICT_SYNC, USER_DICT_DEFRAGMENTED, USER_DICT_OFFSET_DIRTY
  <2>3. Keeps(d2, Dirty(d2, USER_DICT_OFFSET_DIRTY), {"state"})
    BY <1>6, DirtyKeeps
  <2> QED BY <1>3, <1>6, <2>1, <2>2, <2>3, DirtyState
<1>8. Keeps(d, r, {"state", "offsets", "predicts", "syncs", "free_count", "free_size"})
  BY <1>2, <1>4, <1>5, <1>7 DEF Keeps, Fields
<1>9. r.offsets = Marked(d.offsets, i)
  <2>1. r.offsets = d2.offsets /\ d1.offsets = d.offsets
    BY <1>2, <1>4, <1>7 DEF Keeps, Fields
  <2> QED BY <1>5, <2>1
<1>10. r.predicts = d1.predicts
  BY <1>5, <1>7 DEF Keeps, Fields
<1>11. r.syncs = d0.syncs
  BY <1>4, <1>5, <1>7 DEF Keeps, Fields
<1>12. /\ r.free_count = d.free_count + 1
       /\ r.free_size = d.free_size + BytesOf(d, pos)
  <2>1. /\ r.free_count = d2.free_count /\ r.free_size = d2.free_size
        /\ d1.free_count = d.free_count /\ d1.free_size = d.free_size
    BY <1>2, <1>4, <1>7 DEF Keeps, Fields
  <2> QED BY <1>5, <2>1
<1> QED
  BY <1>2, <1>4, <1>7, <1>8, <1>9, <1>10, <1>11, <1>12

\* Removing an entry keeps an image sound, and what it shares with the file.
LEMMA RemoveSound ==
  ASSUME NEW d, Sound(d), NEW i \in Indexes(d), NEW r, r = RemoveLemmaByOffsetIndex(d, i),
         NEW f
  PROVE  /\ Sound(r) /\ (Saved(d, f) => Saved(r, f)) /\ r.syncs_null = d.syncs_null
         /\ Len(r.offsets) = Len(d.offsets) /\ Len(r.syncs) <= Len(d.syncs)
         /\ r.limit = d.limit /\ r.lemmas = d.lemmas /\ r.lemma_size = d.lemma_size
         /\ RemovedPositions(r) = RemovedPositions(d) \cup {d.offsets[i].pos}
<1>1. /\ Keeps(d, r, {"state", "offsets", "predicts", "syncs", "free_count", "free_size"})
      /\ r.offsets = Marked(d.offsets, i)
      /\ r.syncs \in Seq(SyncEntries) /\ Len(r.syncs) <= Len(d.syncs)
      /\ r.state = IF d.state >= USER_DICT_OFFSET_DIRTY THEN d.state ELSE USER_DICT_OFFSET_DIRTY
  BY RemoveFields
<1>2. PICK m \in 1..Len(d.predicts) :
        /\ d.predicts[m].pos = d.offsets[i].pos
        /\ r.predicts = Marked(d.predicts, m)
  BY RemoveFields
<1>3. /\ Fields \subseteq DOMAIN r /\ r.lemmas = d.lemmas /\ r.lemma_size = d.lemma_size
      /\ r.by_id = d.by_id /\ r.syncs_null = d.syncs_null /\ r.count_left = d.count_left
      /\ r.size_left = d.size_left /\ r.limit = d.limit /\ r.cache = d.cache
  BY <1>1 DEF Keeps, Fields
<1>4. PICK n \in Nat : n = Len(d.offsets) /\ Indexes(d) = 1..n
  BY DEF Sound, IndexSound, Indexes
<1>5. d.offsets \in [1..n -> IndexRecords(n)]
  BY <1>4 DEF Sound, IndexSound, IndexRecords
<1>6. /\ r.offsets \in [1..n -> IndexRecords(n)]
      /\ \A j \in 1..n : j # i => r.offsets[j] = d.offsets[j]
      /\ r.offsets[i] = [pos |-> d.offsets[i].pos, removed |-> TRUE,
                         score |-> d.offsets[i].score, id |-> d.offsets[i].id]
  <2>1. i \in 1..n
    BY <1>4
  <2>2. /\ Marked(d.offsets, i) \in [1..n -> IndexRecords(n)]
        /\ \A j \in 1..n : j # i => Marked(d.offsets, i)[j] = d.offsets[j]
        /\ Marked(d.offsets, i)[i] = [pos |-> d.offsets[i].pos, removed |-> TRUE,
                                      score |-> d.offsets[i].score, id |-> d.offsets[i].id]
    BY <1>5, <2>1, MarkedEntries
  <2> QED BY <1>1, <2>2
<1>7. /\ \A j \in 1..n : /\ r.offsets[j].pos = d.offsets[j].pos
                         /\ r.offsets[j].id = d.offsets[j].id
      /\ r.offsets[i].removed = TRUE /\ \A j \in 1..n : j # i => r.offsets[j] = d.offsets[j]
  <2>1. /\ r.offsets[i].pos = d.offsets[i].pos /\ r.offsets[i].id = d.offsets[i].id
        /\ r.offsets[i].removed = TRUE
    BY <1>6
  <2> QED BY <1>6, <2>1
<1>8. IndexSound(r) /\ Len(r.offsets) = n /\ Indexes(r) = 1..n
  <2>1. IndexSound(d)
    BY DEF Sound
  <2>2. r.offsets \in [Indexes(d) -> IndexRecords(Len(d.offsets))]
    BY <1>4, <1>6
  <2>3. \A j \in Indexes(d) : /\ r.offsets[j].pos = d.offsets[j].pos
                              /\ r.offsets[j].id = d.offsets[j].id
    BY <1>4, <1>7
  <2>4. IndexSound(r) /\ Len(r.offsets) = Len(d.offsets) /\ Indexes(r) = Indexes(d)
    BY <1>3, <2>1, <2>2, <2>3, IndexKept
  <2> QED BY <1>4, <2>4
<1>9. BlockSound(r)
  BY <1>3, BlockKept DEF Sound
<1>10. PredictsSound(r)
  <2>1. PICK p \in Nat : p = Len(d.predicts)
    BY DEF Sound, PredictsSound
  <2>2. /\ d.predicts \in [1..p -> [pos : Nat, removed : BOOLEAN]]
        /\ \A k \in 1..p : \E j \in 1..n : d.predicts[k] = FlagOf(d.offsets[j])
        /\ \A j \in 1..n : \E k \in 1..p : d.predicts[k] = FlagOf(d.offsets[j])
        /\ \A k, l \in 1..p : d.predicts[k].pos = d.predicts[l].pos => k = l
    BY <1>4, <2>1, ZenonT(60) DEF Sound, PredictsSound
  <2>3. m \in 1..p
    BY <1>2, <2>1
  <2>4. /\ r.predicts \in [1..p -> [pos : Nat, removed : BOOLEAN]]
        /\ \A k \in 1..p : k # m => r.predicts[k] = d.predicts[k]
        /\ r.predicts[m] = [pos |-> d.offsets[i].pos, removed |-> TRUE]
    <3>1. d.predicts \in [1..p -> FlagRecords]
      BY <2>2 DEF FlagRecords
    <3>2. /\ Marked(d.predicts, m) \in [1..p -> FlagRecords]
          /\ \A k \in 1..p : k # m => Marked(d.predicts, m)[k] = d.predicts[k]
          /\ Marked(d.predicts, m)[m] = [pos |-> d.predicts[m].pos, removed |-> TRUE]
      BY <2>3, <3>1, MarkedFlags
    <3>3. r.predicts \in [1..p -> FlagRecords]
      BY <1>2, <3>2
    <3> QED BY <1>2, <3>2, <3>3 DEF FlagRecords
  <2>5. \A k \in 1..p : r.predicts[k].pos = d.predicts[k].pos
    <3>1. r.predicts[m].pos = d.predicts[m].pos
      BY <1>2, <2>4
    <3> QED BY <2>4, <3>1
  <2>6. i \in 1..n /\ \A j \in 1..n : d.offsets[j].pos = d.offsets[i].pos => j = i
    BY <1>4 DEF Sound, IndexSound
  <2>7. r.predicts[m] = FlagOf(r.offsets[i])
    BY <1>7, <2>4, <2>6 DEF FlagOf
  <2>8. ASSUME NEW k \in 1..p PROVE \E j \in 1..n : r.predicts[k] = FlagOf(r.offsets[j])
    <3>1. CASE k = m
      BY <2>6, <2>7, <3>1
    <3>2. CASE k # m
      <4>1. PICK j \in 1..n : d.predicts[k] = FlagOf(d.offsets[j])
        BY <2>2
      <4>2. d.predicts[k].pos = d.offsets[j].pos
        BY <4>1 DEF FlagOf
      <4>3. j # i
        <5>1. \A l \in 1..p : d.predicts[k].pos = d.predicts[l].pos => k = l
          BY <2>2
        <5> QED BY <1>2, <2>3, <3>2, <4>2, <5>1
      <4>4. r.predicts[k] = FlagOf(r.offsets[j])
        BY <1>7, <2>4, <3>2, <4>1, <4>3 DEF FlagOf
      <4> QED BY <4>4
    <3> QED BY <3>1, <3>2
  <2>9. ASSUME NEW j \in 1..n PROVE \E k \in 1..p : r.predicts[k] = FlagOf(r.offsets[j])
    <3>1. CASE j = i
      BY <2>3, <2>7, <3>1
    <3>2. CASE j # i
      <4>1. PICK k \in 1..p : d.predicts[k] = FlagOf(d.offsets[j])
        BY <2>2
      <4>2. d.predicts[k].pos = d.offsets[j].pos
        BY <4>1 DEF FlagOf
      <4>3. k # m
        BY <1>2, <2>6, <3>2, <4>2
      <4>4. r.predicts[k] = FlagOf(r.offsets[j])
        BY <1>7, <2>4, <3>2, <4>1, <4>3 DEF FlagOf
      <4> QED BY <4>4
    <3> QED BY <3>1, <3>2
  <2>10. \A k, l \in 1..p : r.predicts[k].pos = r.predicts[l].pos => k = l
    BY <2>2, <2>5
  <2>11. Len(r.predicts) = p
    BY <2>4
  <2>12. Len(r.predicts) \in Nat /\ r.predicts \in [1..Len(r.predicts) -> FlagRecords]
    BY <2>4, <2>11 DEF FlagRecords
  <2>13. \A k \in 1..Len(r.predicts) : \E j \in Indexes(r) : r.predicts[k] = FlagOf(r.offsets[j])
    BY <1>8, <2>8, <2>11
  <2>15. \A j \in Indexes(r) : \E k \in 1..Len(r.predicts) : r.predicts[k] = FlagOf(r.offsets[j])
    BY <1>8, <2>9, <2>11
  <2>14. \A k, l \in 1..Len(r.predicts) : r.predicts[k].pos = r.predicts[l].pos => k = l
    BY <2>10, <2>11
  <2> QED BY Zenon, <2>12, <2>13, <2>14, <2>15 DEF PredictsSound, FlagRecords
<1>11. CachesSound(r)
  <2>1. Len(r.offsets) = Len(d.offsets)
    BY <1>4, <1>8
  <2> QED BY <1>3, <2>1 DEF Sound, CachesSound
<1>12. CountersSound(r)
  <2>1. r.state \in USER_DICT_SYNC..USER_DICT_DEFRAGMENTED
    BY <1>1 DEF Sound, CountersSound, USER_DICT_SYNC, USER_DICT_DEFRAGMENTED, USER_DICT_OFFSET_DIRTY
  <2>2. Len(r.syncs) <= MaxSyncs
    <3>1. d.syncs \in Seq(SyncEntries) /\ Len(d.syncs) <= MaxSyncs /\ MaxSyncs \in Nat
      BY SizesAssumption DEF Sound, CountersSound, SyncEntries
    <3>2. Len(d.syncs) \in Nat /\ Len(r.syncs) \in Nat
      BY <1>1, <3>1
    <3> QED BY <1>1, <3>1, <3>2
  <2> QED BY <1>1, <1>3, <2>1, <2>2 DEF Sound, CountersSound, SyncEntries
<1>13. Saved(d, f) => Saved(r, f)
  <2>1. d.state \in Int /\ r.state >= d.state /\ r.state >= USER_DICT_OFFSET_DIRTY /\ r.state \in Int
    BY <1>1 DEF Sound, CountersSound, USER_DICT_SYNC, USER_DICT_DEFRAGMENTED,
                USER_DICT_OFFSET_DIRTY
  <2>2. /\ r.state # USER_DICT_SYNC /\ ~(r.state < USER_DICT_SCORE_DIRTY)
        /\ ~(r.state < USER_DICT_OFFSET_DIRTY)
        /\ r.state < USER_DICT_LEMMA_DIRTY => d.state < USER_DICT_LEMMA_DIRTY
        /\ r.state < USER_DICT_DEFRAGMENTED => d.state < USER_DICT_DEFRAGMENTED
    BY <2>1 DEF USER_DICT_SYNC, USER_DICT_SCORE_DIRTY, USER_DICT_OFFSET_DIRTY,
                USER_DICT_LEMMA_DIRTY, USER_DICT_DEFRAGMENTED
  <2> QED BY <1>3, <2>2 DEF Saved
<1>14. RemovedPositions(r) = RemovedPositions(d) \cup {d.offsets[i].pos}
  <2>1. RemovedPositions(r) = {r.offsets[j].pos : j \in {j \in 1..n : r.offsets[j].removed}}
    BY <1>8 DEF RemovedPositions
  <2>2. RemovedPositions(d) = {d.offsets[j].pos : j \in {j \in 1..n : d.offsets[j].removed}}
    BY <1>4 DEF RemovedPositions
  <2>3. ASSUME NEW x
        PROVE  x \in RemovedPositions(r) <=>
                 \E j \in 1..n : r.offsets[j].removed /\ x = r.offsets[j].pos
    BY <2>1
  <2>4. ASSUME NEW x
        PROVE  x \in RemovedPositions(d) <=>
                 \E j \in 1..n : d.offsets[j].removed /\ x = d.offsets[j].pos
    BY <2>2
  <2>5. i \in 1..n
    BY <1>4
  <2>6. ASSUME NEW x
        PROVE  x \in RemovedPositions(r) <=> x \in RemovedPositions(d) \/ x = d.offsets[i].pos
    BY <1>7, <2>3, <2>4, <2>5
  <2> QED BY <2>6
<1> QED
  BY <1>1, <1>3, <1>4, <1>8, <1>9, <1>10, <1>11, <1>12, <1>13, <1>14 DEF Sound

\* Removing an entry that is not removed keeps the accounts of free lemmas and bytes.
LEMMA RemoveAccounted ==
  ASSUME NEW d, Sound(d), Accounted(d), NEW i \in Indexes(d), d.offsets[i].removed = FALSE,
         NEW r, r = RemoveLemmaByOffsetIndex(d, i)
  PROVE  Accounted(r)
<1> DEFINE pos == d.offsets[i].pos
           R == RemovedPositions(d)
           bytes == BytesAt(d)
           size == d.lemma_size
<1>1. /\ r.free_count = d.free_count + 1 /\ r.free_size = d.free_size + BytesOf(d, pos)
      /\ r.lemmas = d.lemmas /\ r.lemma_size = size
      /\ RemovedPositions(r) = R \cup {pos}
  BY RemoveFields, RemoveSound
<1>2. BytesAt(r) = bytes
  BY <1>1, BlockKept
<1>3. BlockSound(d) /\ IndexSound(d)
  BY DEF Sound
<1>4. pos \in DOMAIN d.lemmas /\ \A j \in Indexes(d) : d.offsets[j].pos = pos => j = i
  BY <1>3 DEF IndexSound
<1>5. pos \notin R
  BY <1>4 DEF RemovedPositions
<1>6. IsFiniteSet(R) /\ R \subseteq DOMAIN d.lemmas
  BY <1>3, RemovedFinite
<1>7. /\ \A p \in DOMAIN d.lemmas : bytes[p] \in Nat /\ bytes[p] = BytesOf(d, p) /\ p \in Nat
      /\ pos < size /\ size \in Nat
  <2>1. LemmaBytes(kMaxLemmaSize) \in Nat
    BY SizesAssumption DEF LemmaBytes
  <2>2. \A p \in DOMAIN d.lemmas : /\ bytes[p] = BytesOf(d, p)
                                   /\ BytesOf(d, p) \in 1..LemmaBytes(kMaxLemmaSize)
                                   /\ p \in Nat /\ p < size
    BY <1>3, SoundBlocks
  <2>3. size \in Nat
    BY <1>3 DEF BlockSound
  <2> HIDE DEF bytes, size, pos
  <2> QED BY <1>4, <2>1, <2>2, <2>3
<1>8. Cardinality(R \cup {pos}) = Cardinality(R) + 1
  BY <1>5, <1>6, FS_AddElement
<1> HIDE DEF bytes, size, pos, R
<1>9. SumBefore(bytes, R \cup {pos}, size) = SumBefore(bytes, R, size) + bytes[pos]
  <2>1. pos \in Nat /\ bytes[pos] \in Nat /\ \A p \in R : bytes[p] \in Nat
    BY <1>4, <1>6, <1>7
  <2>2. SumBefore(bytes, R \cup {pos}, size) =
          SumBefore(bytes, R, size) + (IF pos < size THEN bytes[pos] ELSE 0)
    BY <1>5, <1>7, <2>1, SumAdds
  <2> QED BY <1>7, <2>2
<1>10. d.free_count = Cardinality(R) /\ d.free_size = SumBefore(bytes, R, size)
  BY DEF Accounted, R, bytes, size
<1> QED
  BY <1>1, <1>2, <1>4, <1>7, <1>8, <1>9, <1>10 DEF Accounted

---------------------------------------------------------------------------
\* An image with a new score at an entry.
Rescored(d, i, score) == Dirty([d EXCEPT !.offsets[i].score = score], USER_DICT_SCORE_DIRTY)

\* A new score for an entry (a put of a known lemma, update_lemma) keeps an image sound.
LEMMA ScoreFields ==
  ASSUME NEW d, Sound(d), NEW i \in Indexes(d), NEW score \in Scores, NEW r,
         r = Rescored(d, i, score)
  PROVE  /\ Keeps(d, r, {"state", "offsets"})
         /\ r.offsets = [d.offsets EXCEPT ![i] = [@ EXCEPT !.score = score]]
         /\ r.state = IF d.state >= USER_DICT_SCORE_DIRTY THEN d.state ELSE USER_DICT_SCORE_DIRTY
<1> DEFINE d1 == [d EXCEPT !.offsets[i].score = score]
<1>1. Fields \subseteq DOMAIN d
  BY DEF Sound
<1>2. /\ Keeps(d, d1, {"offsets"})
      /\ d1.offsets = [d.offsets EXCEPT ![i] = [@ EXCEPT !.score = score]]
  BY <1>1 DEF Keeps, Fields
<1> HIDE DEF d1
<1>3. Fields \subseteq DOMAIN d1 /\ d1.state = d.state
  BY <1>2 DEF Keeps, Fields
<1>4. /\ Keeps(d1, r, {"state"})
      /\ r.state = IF d.state >= USER_DICT_SCORE_DIRTY THEN d.state ELSE USER_DICT_SCORE_DIRTY
  <2>1. d1.state \in USER_DICT_SYNC..USER_DICT_DEFRAGMENTED
    BY <1>3 DEF Sound, CountersSound
  <2>2. USER_DICT_SCORE_DIRTY \in USER_DICT_SYNC..USER_DICT_DEFRAGMENTED
    BY DEF USER_DICT_SYNC, USER_DICT_DEFRAGMENTED, USER_DICT_SCORE_DIRTY
  <2>3. r = Dirty(d1, USER_DICT_SCORE_DIRTY)
    BY DEF d1, Rescored
  <2>4. Keeps(d1, Dirty(d1, USER_DICT_SCORE_DIRTY), {"state"})
    BY <1>3, DirtyKeeps
  <2> QED BY <1>3, <2>1, <2>2, <2>3, <2>4, DirtyState
<1>5. r.offsets = d1.offsets
  BY <1>4 DEF Keeps, Fields
<1> QED
  BY <1>2, <1>4, <1>5 DEF Keeps, Fields

\* A new score keeps an image sound, its accounts, and what it shares with the file.
LEMMA ScoreSound ==
  ASSUME NEW d, Sound(d), Accounted(d), NEW i \in Indexes(d), NEW score \in Scores, NEW r,
         r = Rescored(d, i, score), NEW f
  PROVE  /\ Sound(r) /\ Accounted(r) /\ (Saved(d, f) => Saved(r, f))
         /\ r.syncs_null = d.syncs_null /\ r.syncs = d.syncs /\ r.state # USER_DICT_SYNC
         /\ Indexes(r) = Indexes(d) /\ \A j \in Indexes(d) : r.offsets[j].id = d.offsets[j].id
<1>1. /\ Keeps(d, r, {"state", "offsets"})
      /\ r.offsets = [d.offsets EXCEPT ![i] = [@ EXCEPT !.score = score]]
      /\ r.state = IF d.state >= USER_DICT_SCORE_DIRTY THEN d.state ELSE USER_DICT_SCORE_DIRTY
  BY ScoreFields
<1>2. /\ Fields \subseteq DOMAIN r /\ r.lemmas = d.lemmas /\ r.lemma_size = d.lemma_size
      /\ r.by_id = d.by_id /\ r.syncs_null = d.syncs_null /\ r.count_left = d.count_left
      /\ r.size_left = d.size_left /\ r.limit = d.limit /\ r.cache = d.cache
      /\ r.predicts = d.predicts /\ r.syncs = d.syncs
      /\ r.free_count = d.free_count /\ r.free_size = d.free_size
  BY <1>1 DEF Keeps, Fields
<1>3. PICK n \in Nat : n = Len(d.offsets) /\ Indexes(d) = 1..n
  BY IndexLen DEF Sound, Indexes
<1>4. d.offsets \in [1..n -> IndexRecords(n)] /\ i \in 1..n
  BY <1>3 DEF Sound, IndexSound, IndexRecords
<1> DEFINE e == d.offsets[i]
           D == {"pos", "removed", "score", "id"}
           t == [e EXCEPT !.score = score]
<1>5. /\ e.pos \in Nat /\ e.removed \in BOOLEAN /\ e.id \in 1..n
      /\ e = [x \in D |-> e[x]]
  BY <1>4 DEF IndexRecords
<1>6. /\ t = [x \in D |-> t[x]] /\ t.pos = e.pos /\ t.removed = e.removed /\ t.id = e.id
      /\ t.score = score
  <2> HIDE DEF e
  <2> QED BY <1>5
<1>7. r.offsets = [d.offsets EXCEPT ![i] = t]
  BY <1>1
<1> HIDE DEF e, t
<1>8. t \in IndexRecords(n)
  <2>1. t = [pos |-> t.pos, removed |-> t.removed, score |-> t.score, id |-> t.id]
    BY <1>6
  <2>2. [pos |-> t.pos, removed |-> t.removed, score |-> t.score, id |-> t.id] \in IndexRecords(n)
    BY <1>5, <1>6 DEF IndexRecords
  <2> QED BY <2>1, <2>2
<1>9. /\ r.offsets \in [1..n -> IndexRecords(n)]
      /\ \A j \in 1..n : j # i => r.offsets[j] = d.offsets[j]
      /\ r.offsets[i] = t
  BY <1>4, <1>7, <1>8
<1>10. \A j \in 1..n : /\ r.offsets[j].pos = d.offsets[j].pos
                       /\ r.offsets[j].id = d.offsets[j].id
                       /\ r.offsets[j].removed = d.offsets[j].removed
  <2>1. /\ r.offsets[i].pos = d.offsets[i].pos /\ r.offsets[i].id = d.offsets[i].id
        /\ r.offsets[i].removed = d.offsets[i].removed
    BY <1>6, <1>9 DEF e
  <2> QED BY <1>9, <2>1
<1>11. IndexSound(r) /\ Len(r.offsets) = Len(d.offsets) /\ Indexes(r) = Indexes(d)
  <2>1. IndexSound(d)
    BY DEF Sound
  <2>2. r.offsets \in [Indexes(d) -> IndexRecords(Len(d.offsets))]
    BY <1>3, <1>9
  <2>3. \A j \in Indexes(d) : /\ r.offsets[j].pos = d.offsets[j].pos
                              /\ r.offsets[j].id = d.offsets[j].id
    BY <1>3, <1>10
  <2>4. r.lemmas = d.lemmas /\ r.by_id = d.by_id
    BY <1>2
  <2> QED BY <2>1, <2>2, <2>3, <2>4, IndexKept
<1>12. BlockSound(r) /\ BytesAt(r) = BytesAt(d)
  BY <1>2, BlockKept DEF Sound
<1>13. PredictsSound(r)
  <2>1. \A j \in Indexes(d) : FlagOf(r.offsets[j]) = FlagOf(d.offsets[j])
    BY <1>3, <1>10 DEF FlagOf
  <2> QED BY <1>2, <1>11, <2>1, PredictsKept DEF Sound
<1>14. CachesSound(r)
  BY <1>2, <1>11 DEF Sound, CachesSound
<1>15. /\ r.state \in USER_DICT_SYNC..USER_DICT_DEFRAGMENTED /\ r.state # USER_DICT_SYNC
       /\ d.state \in Int /\ r.state \in Int /\ r.state >= d.state
       /\ r.state >= USER_DICT_SCORE_DIRTY
  BY <1>1 DEF Sound, CountersSound, USER_DICT_SYNC, USER_DICT_DEFRAGMENTED, USER_DICT_SCORE_DIRTY
<1>16. CountersSound(r)
  BY <1>2, <1>15 DEF Sound, CountersSound
<1>17. RemovedPositions(r) = RemovedPositions(d)
  <2>1. RemovedPositions(r) = {r.offsets[j].pos : j \in {j \in 1..n : r.offsets[j].removed}}
    BY <1>3, <1>11 DEF RemovedPositions
  <2>2. RemovedPositions(d) = {d.offsets[j].pos : j \in {j \in 1..n : d.offsets[j].removed}}
    BY <1>3 DEF RemovedPositions
  <2> QED BY <1>10, <2>1, <2>2
<1>18. Accounted(r)
  BY <1>2, <1>12, <1>17 DEF Accounted
<1>19. Saved(d, f) => Saved(r, f)
  <2>1. /\ r.state # USER_DICT_SYNC /\ ~(r.state < USER_DICT_SCORE_DIRTY)
        /\ r.state < USER_DICT_OFFSET_DIRTY => d.state < USER_DICT_OFFSET_DIRTY
        /\ r.state < USER_DICT_LEMMA_DIRTY => d.state < USER_DICT_LEMMA_DIRTY
        /\ r.state < USER_DICT_DEFRAGMENTED => d.state < USER_DICT_DEFRAGMENTED
    BY <1>15 DEF USER_DICT_SYNC, USER_DICT_SCORE_DIRTY, USER_DICT_OFFSET_DIRTY,
                USER_DICT_LEMMA_DIRTY, USER_DICT_DEFRAGMENTED
  <2>2. FlagsOf(r) = FlagsOf(d)
    <3>1. \A j \in Indexes(d) : FlagOf(r.offsets[j]) = FlagOf(d.offsets[j])
      BY <1>3, <1>10 DEF FlagOf
    <3> QED BY <1>11, <3>1 DEF FlagsOf
  <2> QED BY <1>2, <2>1, <2>2 DEF Saved
<1>20. \A j \in Indexes(d) : r.offsets[j].id = d.offsets[j].id
  BY <1>3, <1>10
<1> QED
  BY <1>2, <1>11, <1>12, <1>13, <1>14, <1>15, <1>16, <1>18, <1>19, <1>20 DEF Sound

---------------------------------------------------------------------------
\* The predict list is as long as the index.
LEMMA PredictsLen ==
  ASSUME NEW d, IndexSound(d), PredictsSound(d)
  PROVE  Len(d.predicts) = Len(d.offsets)
<1>1. PICK n \in Nat : n = Len(d.offsets)
  BY IndexLen
<1>2. Len(d.predicts) \in Nat
  BY DEF PredictsSound
<1>3. PICK p \in Nat : p = Len(d.predicts)
  BY <1>2, Zenon
<1>4. Indexes(d) = 1..n
  BY <1>1 DEF Indexes
<1> DEFINE o(i) == d.offsets[i]
           s(k) == d.predicts[k]
           h == [k \in 1..p |-> CHOOSE i \in 1..n : s(k) = FlagOf(o(i))]
<1>5. /\ \A k \in 1..p : \E i \in 1..n : s(k) = FlagOf(o(i))
      /\ \A i \in 1..n : \E k \in 1..p : s(k) = FlagOf(o(i))
      /\ \A k, l \in 1..p : s(k).pos = s(l).pos => k = l
  BY <1>3, <1>4 DEF PredictsSound
<1>6. \A i, j \in 1..n : o(i).pos = o(j).pos => i = j
  BY <1>4 DEF IndexSound
<1> HIDE DEF o, s
<1>7. \A k \in 1..p : h[k] \in 1..n /\ s(k) = FlagOf(o(h[k]))
  BY <1>5
<1>8. h \in Injection(1..p, 1..n)
  <2>1. h \in [1..p -> 1..n]
    BY <1>5
  <2> HIDE DEF h
  <2>2. ASSUME NEW k \in 1..p, NEW l \in 1..p, h[k] = h[l] PROVE k = l
    <3>1. s(k) = s(l)
      BY <1>7, <2>2
    <3> QED BY <1>5, <3>1
  <2> QED BY <2>1, <2>2 DEF Injection, IsInjective
<1>9. h \in Surjection(1..p, 1..n)
  <2>1. h \in [1..p -> 1..n]
    BY <1>5
  <2> HIDE DEF h
  <2>2. ASSUME NEW i \in 1..n PROVE \E k \in 1..p : h[k] = i
    <3>1. PICK k \in 1..p : s(k) = FlagOf(o(i))
      BY <1>5
    <3>2. FlagOf(o(i)) = FlagOf(o(h[k])) /\ h[k] \in 1..n
      BY <1>7, <3>1
    <3>3. o(i).pos = o(h[k]).pos
      BY <3>2 DEF FlagOf
    <3> QED BY <1>6, <3>2, <3>3
  <2> QED BY <2>1, <2>2 DEF Surjection
<1>10. p = n
  <2>1. /\ IsFiniteSet(1..p) /\ Cardinality(1..p) = p
        /\ IsFiniteSet(1..n) /\ Cardinality(1..n) = n
    BY FS_Interval
  <2>2. Cardinality(1..p) = Cardinality(1..n)
    BY <1>8, <1>9, <2>1, FS_Injection
  <2> QED BY <2>1, <2>2
<1> QED
  BY <1>1, <1>3, <1>10

\* What append_a_lemma changes.
NewEntry(d, score) ==
  [pos |-> d.lemma_size, removed |-> FALSE, score |-> score, id |-> Len(d.offsets) + 1]

\* Where the index takes an entry of a lemma in: before the first one that is not below it.
InsertPlace(d, lemma) ==
  LET notBelow == {i \in 1..Len(d.offsets) :
                     FuzzyCompare(SpellOf(d, i), NcharOf(d, i), SearchFor(lemma.spell)) >= 0}
  IN Min(notBelow \cup {Len(d.offsets) + 1})

\* append_a_lemma writes the block, the index, the ids, the predict list and the counters.
LEMMA AppendFields ==
  ASSUME NEW d, Sound(d), NEW lemma, NEW score \in Scores, NEW r, r = AppendALemma(d, lemma, score)
  PROVE  \E at, j \in 1..Len(d.offsets) + 1 :
           /\ Keeps(d, r, {"state", "lemmas", "lemma_size", "offsets", "by_id", "predicts",
                           "count_left", "size_left", "cache", "miss"})
           /\ r.lemmas = WithBlock(d.lemmas, d.lemma_size, lemma)
           /\ r.lemma_size = d.lemma_size + LemmaBytes(Len(lemma.spell))
           /\ r.offsets = InsertAt(d.offsets, at, NewEntry(d, score))
           /\ r.by_id = Append(d.by_id, d.lemma_size)
           /\ r.predicts = InsertAt(d.predicts, j, FlagOf(NewEntry(d, score)))
           /\ r.count_left = d.count_left - 1
           /\ r.size_left = d.size_left - LemmaBytes(Len(lemma.spell))
           /\ r.cache = NoCache
           /\ r.state = IF d.state >= USER_DICT_LEMMA_DIRTY THEN d.state ELSE USER_DICT_LEMMA_DIRTY
           /\ at = InsertPlace(d, lemma) /\ r.miss = NoCache
<1> DEFINE n == Len(d.offsets)
           q == SearchFor(lemma.spell)
           bytes == LemmaBytes(Len(lemma.spell))
           notBelow == {i \in 1..n : FuzzyCompare(SpellOf(d, i), NcharOf(d, i), q) >= 0}
           at == Min(notBelow \cup {n + 1})
           offsets == InsertAt(d.offsets, at, NewEntry(d, score))
           d1 == [d EXCEPT
                    !.lemmas = WithBlock(@, d.lemma_size, lemma),
                    !.lemma_size = @ + bytes,
                    !.offsets = InsertAt(@, at, [pos |-> d.lemma_size, removed |-> FALSE,
                                                 score |-> score, id |-> n + 1]),
                    !.by_id = Append(@, d.lemma_size),
                    !.count_left = @ - 1,
                    !.size_left = @ - bytes]
           j == LocateWhereToInsertInPredicts(d1, lemma.word)
           flag == [pos |-> d.lemma_size, removed |-> FALSE]
           d2 == [d1 EXCEPT !.predicts = InsertAt(@, j, flag)]
           d3 == Dirty(d2, USER_DICT_LEMMA_DIRTY)
<1>1. r = CacheInit(d3)
  BY DEF AppendALemma
<1>2. Fields \subseteq DOMAIN d
  BY DEF Sound
<1>3. n \in Nat
  BY IndexLen DEF Sound
<1>4. at \in 1..n + 1
  <2> DEFINE S == notBelow \cup {n + 1}
  <2>1. S \in SUBSET Nat /\ S # {} /\ S \subseteq 1..n + 1
    BY <1>3
  <2>2. Min(S) \in S
    <3> HIDE DEF S
    <3> QED BY <2>1, MinNat
  <2> QED BY <2>1, <2>2
<1>place. at = InsertPlace(d, lemma)
  BY DEF InsertPlace
<1> HIDE DEF at, n, bytes
<1>5. /\ Keeps(d, d1, {"lemmas", "lemma_size", "offsets", "by_id", "count_left", "size_left"})
      /\ d1.lemmas = WithBlock(d.lemmas, d.lemma_size, lemma)
      /\ d1.lemma_size = d.lemma_size + bytes
      /\ d1.offsets = offsets
      /\ d1.by_id = Append(d.by_id, d.lemma_size)
      /\ d1.count_left = d.count_left - 1
      /\ d1.size_left = d.size_left - bytes
  BY <1>2 DEF Keeps, Fields, NewEntry, n
<1>6. Len(d1.offsets) = n + 1
  <2>1. d.offsets \in [1..n -> IndexRecords(n)]
    BY DEF Sound, IndexSound, IndexRecords, Indexes, n
  <2> DEFINE V == IndexRecords(n) \cup {NewEntry(d, score)}
  <2>2. d.offsets \in [1..n -> V] /\ NewEntry(d, score) \in V
    BY <2>1
  <2> HIDE DEF V
  <2>3. /\ InsertAt(d.offsets, at, NewEntry(d, score)) = Inserted(d.offsets, n, at, NewEntry(d, score))
        /\ Inserted(d.offsets, n, at, NewEntry(d, score)) \in [1..n + 1 -> V]
    BY <1>3, <1>4, <2>2, InsertAtSpec
  <2>4. d1.offsets \in [1..n + 1 -> V]
    BY <1>5, <2>3
  <2> HIDE DEF d1
  <2> QED BY <1>3, <2>4
<1> HIDE DEF d1, offsets
<1>7. j \in 1..n + 1
  <2> DEFINE below == {i \in Indexes(d1) : CompareWords(LemmaOf(d1, i).word, lemma.word) < 0}
             hits == {i \in Indexes(d1) : CompareWords(LemmaOf(d1, i).word, lemma.word) <= 0}
             last == Bisect(n + 1, below, hits)
  <2>1. j = IF last = 0 THEN n + 1 ELSE last
    BY <1>6 DEF LocateWhereToInsertInPredicts
  <2>2. last \in 0..n + 1
    <3> HIDE DEF below, hits
    <3>1. n + 1 \in Nat
      BY <1>3
    <3> QED BY <3>1, BisectType
  <2> HIDE DEF last, j
  <2> QED BY <1>3, <2>1, <2>2
<1> HIDE DEF j
<1>8. Fields \subseteq DOMAIN d1 /\ d1.predicts = d.predicts /\ d1.state = d.state
  BY <1>5 DEF Keeps, Fields
<1>9. Keeps(d1, d2, {"predicts"}) /\ d2.predicts = InsertAt(d.predicts, j, flag)
  BY <1>8 DEF Keeps, Fields
<1> HIDE DEF d2
<1>10. /\ Keeps(d2, d3, {"state"})
       /\ d3.state = IF d.state >= USER_DICT_LEMMA_DIRTY THEN d.state ELSE USER_DICT_LEMMA_DIRTY
  <2>1. d2.state = d.state /\ Fields \subseteq DOMAIN d2
    BY <1>8, <1>9 DEF Keeps, Fields
  <2>2. d2.state \in USER_DICT_SYNC..USER_DICT_DEFRAGMENTED
    BY <2>1 DEF Sound, CountersSound
  <2>3. USER_DICT_LEMMA_DIRTY \in USER_DICT_SYNC..USER_DICT_DEFRAGMENTED
    BY DEF USER_DICT_SYNC, USER_DICT_DEFRAGMENTED, USER_DICT_LEMMA_DIRTY
  <2> QED BY <2>1, <2>2, <2>3, DirtyKeeps, DirtyState
<1> HIDE DEF d3
<1>11. Keeps(d3, r, {"cache", "miss"}) /\ r.cache = NoCache /\ r.miss = NoCache
  <2>1. Fields \subseteq DOMAIN d3
    BY <1>10 DEF Keeps
  <2> QED BY <1>1, <2>1 DEF CacheInit, Keeps, Fields
<1>12. Keeps(d, r, {"state", "lemmas", "lemma_size", "offsets", "by_id", "predicts",
                    "count_left", "size_left", "cache", "miss"})
  BY <1>5, <1>9, <1>10, <1>11 DEF Keeps, Fields
<1>13. /\ r.lemmas = d1.lemmas /\ r.lemma_size = d1.lemma_size /\ r.offsets = d1.offsets
       /\ r.by_id = d1.by_id /\ r.predicts = d2.predicts /\ r.count_left = d1.count_left
       /\ r.size_left = d1.size_left /\ r.state = d3.state
  BY <1>9, <1>10, <1>11 DEF Keeps, Fields
<1>14. flag = FlagOf(NewEntry(d, score))
  BY DEF FlagOf, NewEntry
<1> HIDE DEF flag
<1> QED
  BY <1>4, <1>5, <1>7, <1>9, <1>10, <1>11, <1>12, <1>13, <1>14, <1>place DEF n, bytes, offsets

\* The list t has the entry e at a place, and elsewhere those of s, each of them once.
Grown(V, n, s, at, e, t) ==
  /\ t \in [1..n + 1 -> V] /\ t[at] = e
  /\ \A k \in 1..n + 1 : k # at => \E i \in 1..n : t[k] = s[i]
  /\ \A i \in 1..n : \E k \in 1..n + 1 : k # at /\ t[k] = s[i]
  /\ \A k, l \in 1..n + 1 : k # at /\ l # at /\ k # l =>
       \E i, j \in 1..n : i # j /\ t[k] = s[i] /\ t[l] = s[j]

\* Every entry of a list after an insertion is the new one or one of before, each of them once.
LEMMA InsertedEntries ==
  ASSUME NEW V, NEW n \in Nat, NEW s \in [1..n -> V], NEW at \in 1..n + 1, NEW e \in V, NEW t,
         t = InsertAt(s, at, e)
  PROVE  Grown(V, n, s, at, e, t)
<1>1. t = Inserted(s, n, at, e) /\ t \in [1..n + 1 -> V]
  <2>1. /\ InsertAt(s, at, e) = Inserted(s, n, at, e)
        /\ Inserted(s, n, at, e) \in [1..n + 1 -> V]
    BY InsertAtSpec, Zenon
  <2> QED BY <2>1
<1>2. t[at] = e
  BY <1>1 DEF Inserted
<1> DEFINE old(k) == IF k < at THEN k ELSE k - 1
<1>3. ASSUME NEW k \in 1..n + 1, k # at
      PROVE  old(k) \in 1..n /\ t[k] = s[old(k)]
  BY <1>1, <1>3 DEF Inserted
<1>4. ASSUME NEW i \in 1..n
      PROVE  \E k \in 1..n + 1 : k # at /\ t[k] = s[i]
  <2>1. CASE i < at
    <3>1. i \in 1..n + 1 /\ i # at /\ t[i] = s[i]
      BY <1>1, <2>1 DEF Inserted
    <3> QED BY <3>1
  <2>2. CASE ~(i < at)
    <3>1. i + 1 \in 1..n + 1 /\ i + 1 # at /\ t[i + 1] = s[i]
      BY <1>1, <2>2 DEF Inserted
    <3> QED BY <3>1
  <2> QED BY <2>1, <2>2
<1>5. ASSUME NEW k \in 1..n + 1, NEW l \in 1..n + 1, k # at, l # at, k # l
      PROVE  \E i, j \in 1..n : i # j /\ t[k] = s[i] /\ t[l] = s[j]
  <2>1. old(k) # old(l)
    BY <1>5
  <2>2. old(k) \in 1..n /\ t[k] = s[old(k)] /\ old(l) \in 1..n /\ t[l] = s[old(l)]
    BY <1>3, <1>5
  <2> HIDE DEF old
  <2> QED BY <2>1, <2>2
<1>6. ASSUME NEW k \in 1..n + 1, k # at PROVE \E i \in 1..n : t[k] = s[i]
  <2>1. old(k) \in 1..n /\ t[k] = s[old(k)]
    BY <1>3, <1>6
  <2> HIDE DEF old
  <2> QED BY <2>1
<1> QED
  BY <1>1, <1>2, <1>4, <1>5, <1>6 DEF Grown

\* The list t of numbers is s with e at its end.
Extended(n, s, e, t) ==
  /\ t \in [1..n + 1 -> Nat] /\ Len(t) = n + 1 /\ t[n + 1] = e
  /\ \A i \in 1..n : t[i] = s[i]

\* A list of numbers after Append.
LEMMA AppendedEntry ==
  ASSUME NEW n \in Nat, NEW s \in [1..n -> Nat], NEW e \in Nat, NEW t, t = Append(s, e)
  PROVE  Extended(n, s, e, t)
<1>1. s \in Seq(Nat) /\ Len(s) = n
  OBVIOUS
<1>2. t \in Seq(Nat) /\ Len(t) = n + 1
  BY <1>1
<1>3. t[n + 1] = e /\ \A i \in 1..n : t[i] = s[i]
  BY <1>1
<1>4. t \in [1..Len(t) -> Nat]
  BY <1>2, LenProperties, Zenon
<1> QED
  BY <1>2, <1>3, <1>4, Zenon DEF Extended

\* The block of r is that of d with one more lemma at its end.
BlockGrown(d, r) ==
  /\ DOMAIN r.lemmas = DOMAIN d.lemmas \cup {d.lemma_size}
  /\ \A p \in DOMAIN d.lemmas : r.lemmas[p] = d.lemmas[p]
  /\ \A p \in DOMAIN d.lemmas : BytesAt(r)[p] = BytesAt(d)[p]

\* The block after append_a_lemma.
LEMMA AppendedBlock ==
  ASSUME NEW d, BlockSound(d), NEW lemma \in Lemmas, NEW r,
         r.lemmas = WithBlock(d.lemmas, d.lemma_size, lemma),
         r.lemma_size = d.lemma_size + LemmaBytes(Len(lemma.spell))
  PROVE  /\ BlockSound(r) /\ d.lemma_size \in Nat /\ d.lemma_size \notin DOMAIN d.lemmas
         /\ LemmaBytes(Len(lemma.spell)) \in Nat
         /\ LemmaBytes(Len(lemma.spell)) <= LemmaBytes(kMaxLemmaSize)
         /\ BlockGrown(d, r)
<1> DEFINE size == d.lemma_size
           b == LemmaBytes(Len(lemma.spell))
           D == DOMAIN d.lemmas
<1>1. b \in Nat /\ b > 0 /\ b <= LemmaBytes(kMaxLemmaSize)
  <2>1. PICK n : n = Len(lemma.spell) /\ n \in 1..kMaxLemmaSize
    <3>1. \A x \in Lemmas : Len(x.spell) \in 1..kMaxLemmaSize
      BY InputsAssumption
    <3> QED BY <3>1, Zenon
  <2>2. kMaxLemmaSize \in Nat
    BY SizesAssumption
  <2> QED BY <2>1, <2>2 DEF LemmaBytes
<1>2. /\ DOMAIN r.lemmas = D \cup {size} /\ r.lemmas[size] = lemma
      /\ \A p \in D : p # size => r.lemmas[p] = d.lemmas[p]
  BY DEF WithBlock
<1>3. Blocks(BytesAt(d), size) /\ DOMAIN BytesAt(d) = D
  BY SoundBlocks
<1> DEFINE more == [p \in D \cup {size} |-> IF p = size THEN b ELSE BytesAt(d)[p]]
<1>4. size \notin D /\ Blocks(more, size + b)
  <2>1. more = [p \in DOMAIN BytesAt(d) \cup {size} |-> IF p = size THEN b ELSE BytesAt(d)[p]]
    BY <1>3
  <2> HIDE DEF more, b, size
  <2>2. size \notin DOMAIN BytesAt(d) /\ Blocks(more, size + b)
    BY <1>1, <1>3, <2>1, AppendBlock
  <2> QED BY <1>3, <2>2
<1>5. \A p \in D : r.lemmas[p] = d.lemmas[p]
  BY <1>2, <1>4
<1>6. BytesAt(r) = more
  <2>1. \A p \in D : BytesOf(r, p) = BytesAt(d)[p]
    BY <1>5 DEF BytesOf, BytesAt
  <2>2. BytesOf(r, size) = b
    BY <1>2 DEF BytesOf
  <2>3. \A p \in D \cup {size} : BytesOf(r, p) = IF p = size THEN b ELSE BytesAt(d)[p]
    BY <1>4, <2>1, <2>2
  <2>4. BytesAt(r) = [p \in D \cup {size} |-> BytesOf(r, p)]
    BY <1>2 DEF BytesAt
  <2> HIDE DEF b
  <2> QED BY <2>3, <2>4
<1>7. d.lemma_size \in Nat /\ D \subseteq Nat /\ d.lemmas \in [D -> Lemmas]
  BY DEF BlockSound
<1>8. r.lemmas \in [D \cup {size} -> Lemmas]
  <2>1. r.lemmas = [p \in D \cup {size} |-> r.lemmas[p]]
    BY DEF WithBlock
  <2>2. \A p \in D \cup {size} : r.lemmas[p] \in Lemmas
    BY <1>2, <1>5, <1>7
  <2> QED BY <2>1, <2>2
<1>9. r.lemma_size = size + b
  OBVIOUS
<1>10. \A p \in D : BytesAt(r)[p] = BytesAt(d)[p]
  BY <1>4, <1>6
<1> HIDE DEF b, size, D, more
<1>11. DOMAIN r.lemmas \subseteq Nat /\ r.lemmas \in [DOMAIN r.lemmas -> Lemmas]
  BY <1>2, <1>7, <1>8 DEF size
<1>12. r.lemma_size \in Nat /\ Tiled(BytesAt(r), r.lemma_size)
  BY <1>1, <1>4, <1>6, <1>7, <1>9 DEF Blocks, size
<1>13. BlockSound(r)
  BY <1>11, <1>12 DEF BlockSound
<1> QED
  BY <1>1, <1>2, <1>4, <1>5, <1>7, <1>10, <1>13 DEF b, size, D, BlockGrown

\* append_a_lemma writes the entry of a new lemma into the index of d at the given place.
IndexGrows(d, at, score, r) ==
  /\ r.offsets = InsertAt(d.offsets, at, NewEntry(d, score))
  /\ r.by_id = Append(d.by_id, d.lemma_size)
  /\ DOMAIN r.lemmas = DOMAIN d.lemmas \cup {d.lemma_size}
  /\ d.lemma_size \notin DOMAIN d.lemmas

\* The index after append_a_lemma: the new lemma has the next id and is not removed.
LEMMA AppendedIndex ==
  ASSUME NEW d, BlockSound(d), IndexSound(d), NEW n \in Nat, n = Len(d.offsets), n < MaxLemmas,
         NEW at \in 1..n + 1, NEW score \in Scores, NEW r, IndexGrows(d, at, score, r)
  PROVE  /\ IndexSound(r) /\ Len(r.offsets) = n + 1 /\ RemovedPositions(r) = RemovedPositions(d)
         /\ Grown(IndexRecords(n + 1), n, d.offsets, at, NewEntry(d, score), r.offsets)
<1> DEFINE e == NewEntry(d, score)
           V == IndexRecords(n + 1)
           s == d.offsets
           t == r.offsets
           size == d.lemma_size
<1>grows. /\ r.offsets = InsertAt(d.offsets, at, NewEntry(d, score))
       /\ r.by_id = Append(d.by_id, d.lemma_size)
       /\ DOMAIN r.lemmas = DOMAIN d.lemmas \cup {d.lemma_size}
       /\ d.lemma_size \notin DOMAIN d.lemmas
  BY Zenon DEF IndexGrows
<1>1. /\ s \in [1..n -> IndexRecords(n)]
      /\ DOMAIN d.lemmas = {s[i].pos : i \in 1..n}
      /\ \A i, j \in 1..n : s[i].pos = s[j].pos => i = j
      /\ \A i, j \in 1..n : s[i].id = s[j].id => i = j
      /\ \A id \in 1..n : \E i \in 1..n : s[i].id = id
      /\ d.by_id \in [1..n -> Nat]
      /\ \A i \in 1..n : d.by_id[s[i].id] = s[i].pos
  BY DEF IndexSound, Indexes, IndexRecords
<1>2. e \in V /\ e.pos = size /\ e.removed = FALSE /\ e.id = n + 1
  <2>1. size \in Nat
    BY DEF BlockSound
  <2> QED BY <2>1 DEF NewEntry, IndexRecords
<1>3. s \in [1..n -> V]
  <2>1. IndexRecords(n) \subseteq V
    BY DEF IndexRecords
  <2> HIDE DEF V
  <2> QED BY <1>1, <2>1
<1> HIDE DEF e, V, s
<1>4. t = InsertAt(s, at, e)
  BY <1>grows DEF s, e
<1> HIDE DEF t
<1>grown. Grown(V, n, s, at, e, t)
  <2>1. e \in V
    BY <1>2
  <2> QED BY <1>3, <1>4, <2>1, InsertedEntries, Zenon
<1>5. /\ t \in [1..n + 1 -> V] /\ t[at] = e
      /\ \A k \in 1..n + 1 : k # at => \E i \in 1..n : t[k] = s[i]
      /\ \A i \in 1..n : \E k \in 1..n + 1 : k # at /\ t[k] = s[i]
      /\ \A k, l \in 1..n + 1 : k # at /\ l # at /\ k # l =>
           \E i, j \in 1..n : i # j /\ t[k] = s[i] /\ t[l] = s[j]
  BY <1>grown DEF Grown
<1>6. Len(t) = n + 1
  BY <1>5
<1>7. \A i \in 1..n : s[i].id \in 1..n /\ s[i].pos \in DOMAIN d.lemmas
  BY <1>1 DEF IndexRecords
<1>8. \A k \in 1..n + 1 : k # at => t[k].id \in 1..n /\ t[k].pos \in DOMAIN d.lemmas
  <2>1. ASSUME NEW k \in 1..n + 1, k # at PROVE t[k].id \in 1..n /\ t[k].pos \in DOMAIN d.lemmas
    <3>1. PICK i \in 1..n : t[k] = s[i]
      BY <1>5, <2>1, Zenon
    <3> QED BY <1>7, <3>1, Zenon
  <2> QED BY <2>1, Zenon
<1>9. DOMAIN r.lemmas = {t[k].pos : k \in 1..n + 1}
  <2>1. ASSUME NEW p \in DOMAIN r.lemmas PROVE \E k \in 1..n + 1 : t[k].pos = p
    <3>1. CASE p = size
      BY <1>2, <1>5, <3>1
    <3>2. CASE p # size
      <4>1. p \in DOMAIN d.lemmas
        BY <1>grows, <2>1, <3>2 DEF size
      <4>2. PICK i \in 1..n : s[i].pos = p
        BY <1>1, <4>1
      <4>3. PICK k \in 1..n + 1 : t[k] = s[i]
        BY <1>5
      <4> QED BY <4>2, <4>3
    <3> QED BY <3>1, <3>2
  <2>2. ASSUME NEW k \in 1..n + 1 PROVE t[k].pos \in DOMAIN r.lemmas
    BY <1>2, <1>5, <1>8, <1>grows DEF size
  <2> QED BY <2>1, <2>2
<1>10. ASSUME NEW k \in 1..n + 1, NEW l \in 1..n + 1, k # l
       PROVE  t[k].pos # t[l].pos /\ t[k].id # t[l].id
  <2>1. CASE k = at
    <3>1. t[k].pos = size /\ t[k].id = n + 1 /\ t[l].id \in 1..n /\ t[l].pos \in DOMAIN d.lemmas
      BY <1>2, <1>5, <1>8, <1>10, <2>1
    <3> QED BY <1>grows, <3>1 DEF size
  <2>2. CASE l = at
    <3>1. t[l].pos = size /\ t[l].id = n + 1 /\ t[k].id \in 1..n /\ t[k].pos \in DOMAIN d.lemmas
      BY <1>2, <1>5, <1>8, <1>10, <2>2
    <3> QED BY <1>grows, <3>1 DEF size
  <2>3. CASE k # at /\ l # at
    <3>1. PICK i \in 1..n, j \in 1..n : i # j /\ t[k] = s[i] /\ t[l] = s[j]
      BY <1>5, <1>10, <2>3, Zenon
    <3> QED BY <1>1, <3>1
  <2> QED BY <2>1, <2>2, <2>3
<1>11. ASSUME NEW id \in 1..n + 1 PROVE \E k \in 1..n + 1 : t[k].id = id
  <2>1. CASE id = n + 1
    BY <1>2, <1>5, <2>1
  <2>2. CASE id # n + 1
    <3>1. id \in 1..n
      BY <2>2
    <3>2. PICK i \in 1..n : s[i].id = id
      BY <1>1, <3>1, Zenon
    <3>3. PICK k \in 1..n + 1 : t[k] = s[i]
      BY <1>5, Zenon
    <3> QED BY <3>2, <3>3, Zenon
  <2> QED BY <2>1, <2>2
<1>12. /\ r.by_id \in [1..n + 1 -> Nat] /\ r.by_id[n + 1] = size
       /\ \A i \in 1..n : r.by_id[i] = d.by_id[i]
  <2>1. d.by_id \in [1..n -> Nat]
    BY <1>1
  <2>2. size \in Nat
    BY DEF BlockSound
  <2>3. r.by_id = Append(d.by_id, size)
    BY <1>grows, Zenon DEF size
  <2> HIDE DEF size
  <2>4. Extended(n, d.by_id, size, r.by_id)
    BY <2>1, <2>2, <2>3, AppendedEntry, Zenon
  <2> QED BY <2>4 DEF Extended
<1>13. ASSUME NEW k \in 1..n + 1 PROVE r.by_id[t[k].id] = t[k].pos
  <2>1. CASE k = at
    BY <1>2, <1>5, <1>12, <2>1
  <2>2. CASE k # at
    <3>1. PICK i \in 1..n : t[k] = s[i]
      BY <1>5, <2>2, Zenon
    <3>2. s[i].id \in 1..n /\ d.by_id[s[i].id] = s[i].pos
      BY <1>1, <1>7
    <3>3. r.by_id[s[i].id] = d.by_id[s[i].id]
      BY <1>12, <3>2, Zenon
    <3> QED BY <3>1, <3>2, <3>3, Zenon
  <2> QED BY <2>1, <2>2
<1>14. n + 1 \in 0..MaxLemmas
  BY SizesAssumption
<1>15. IndexSound(r)
  <2>1. t = r.offsets
    BY DEF t
  <2>2. Indexes(r) = 1..n + 1 /\ Len(r.offsets) = n + 1
    BY <1>6, <2>1 DEF Indexes
  <2>3. r.offsets \in [1..n + 1 -> IndexRecords(n + 1)]
    BY <1>5, <2>1 DEF V
  <2>4. \A k, l \in 1..n + 1 : r.offsets[k].pos = r.offsets[l].pos => k = l
    BY <1>10, <2>1
  <2>5. \A k, l \in 1..n + 1 : r.offsets[k].id = r.offsets[l].id => k = l
    BY <1>10, <2>1
  <2>6. \A id \in 1..n + 1 : \E k \in 1..n + 1 : r.offsets[k].id = id
    BY <1>11, <2>1, Zenon
  <2>7. \A k \in 1..n + 1 : r.by_id[r.offsets[k].id] = r.offsets[k].pos
    BY <1>13, <2>1, Zenon
  <2>8. DOMAIN r.lemmas = {r.offsets[k].pos : k \in 1..n + 1}
    BY <1>9, <2>1, Zenon
  <2>9. r.offsets \in [Indexes(r) -> [pos : Nat, removed : BOOLEAN, score : Scores,
                                    id : Indexes(r)]]
    BY <2>2, <2>3, Zenon DEF IndexRecords
  <2>10. Len(r.offsets) \in 0..MaxLemmas
    BY <1>14, <2>2
  <2>11. r.by_id \in [1..n + 1 -> Nat]
    BY <1>12
  <2> QED BY <2>2, <2>4, <2>5, <2>6, <2>7, <2>8, <2>9, <2>10, <2>11, Zenon DEF IndexSound
<1>16. RemovedPositions(r) = RemovedPositions(d)
  <2>1. ASSUME NEW x
        PROVE  x \in RemovedPositions(r) <=> \E k \in 1..n + 1 : t[k].removed /\ x = t[k].pos
    BY <1>6 DEF RemovedPositions, Indexes, t
  <2>2. ASSUME NEW x
        PROVE  x \in RemovedPositions(d) <=> \E i \in 1..n : s[i].removed /\ x = s[i].pos
    BY DEF RemovedPositions, Indexes, s
  <2>3. ASSUME NEW x, NEW k \in 1..n + 1, t[k].removed, x = t[k].pos
        PROVE  \E i \in 1..n : s[i].removed /\ x = s[i].pos
    <3>1. k # at
      BY <1>2, <1>5, <2>3
    <3>2. PICK i \in 1..n : t[k] = s[i]
      BY <1>5, <3>1, Zenon
    <3> QED BY <2>3, <3>2, Zenon
  <2>4. ASSUME NEW x, NEW i \in 1..n, s[i].removed, x = s[i].pos
        PROVE  \E k \in 1..n + 1 : t[k].removed /\ x = t[k].pos
    <3>1. PICK k \in 1..n + 1 : t[k] = s[i]
      BY <1>5
    <3> QED BY <2>4, <3>1
  <2>5. ASSUME NEW x PROVE x \in RemovedPositions(r) <=> x \in RemovedPositions(d)
    BY <2>1, <2>2, <2>3, <2>4
  <2> QED BY <2>5
<1> QED
  BY <1>6, <1>15, <1>16, <1>grown, Zenon DEF e, s, t, V

\* The predict list after append_a_lemma.
LEMMA AppendedPredicts ==
  ASSUME NEW d, IndexSound(d), PredictsSound(d), NEW n \in Nat, n = Len(d.offsets),
         d.lemma_size \notin DOMAIN d.lemmas, d.lemma_size \in Nat,
         NEW at \in 1..n + 1, NEW j \in 1..n + 1, NEW score, NEW r,
         r.predicts = InsertAt(d.predicts, j, FlagOf(NewEntry(d, score))),
         Grown(IndexRecords(n + 1), n, d.offsets, at, NewEntry(d, score), r.offsets)
  PROVE  PredictsSound(r)
<1> DEFINE e == NewEntry(d, score)
           s == d.predicts
           t == r.predicts
           o(i) == d.offsets[i]
           c(i) == r.offsets[i]
<1>1. Len(s) = n
  BY PredictsLen
<1>2. Indexes(d) = 1..n /\ Indexes(r) = 1..n + 1
  <2>1. r.offsets \in [1..n + 1 -> IndexRecords(n + 1)]
    BY Zenon DEF Grown
  <2>2. Len(r.offsets) = n + 1
    BY <2>1
  <2> QED BY <2>2 DEF Indexes
<1>3. /\ s \in [1..n -> FlagRecords]
      /\ \A k \in 1..n : \E i \in 1..n : s[k] = FlagOf(o(i))
      /\ \A i \in 1..n : \E k \in 1..n : s[k] = FlagOf(o(i))
      /\ \A k, m \in 1..n : s[k].pos = s[m].pos => k = m
  BY <1>1, <1>2 DEF PredictsSound, FlagRecords
<1>4. /\ c(at) = e
      /\ \A k \in 1..n + 1 : k # at => \E i \in 1..n : c(k) = o(i)
      /\ \A i \in 1..n : \E k \in 1..n + 1 : c(k) = o(i)
  BY DEF Grown
<1>5. \A i \in 1..n : o(i).pos \in DOMAIN d.lemmas
  BY <1>2 DEF IndexSound
<1>6. FlagOf(e) \in FlagRecords /\ FlagOf(e).pos = d.lemma_size
  BY DEF FlagOf, FlagRecords, NewEntry
<1> HIDE DEF e, s, o, c
<1>7. t = InsertAt(s, j, FlagOf(e))
  BY DEF s, e
<1> HIDE DEF t
<1>8. /\ t \in [1..n + 1 -> FlagRecords] /\ t[j] = FlagOf(e)
      /\ \A k \in 1..n + 1 : k # j => \E i \in 1..n : t[k] = s[i]
      /\ \A i \in 1..n : \E k \in 1..n + 1 : k # j /\ t[k] = s[i]
      /\ \A k, l \in 1..n + 1 : k # j /\ l # j /\ k # l =>
           \E i, m \in 1..n : i # m /\ t[k] = s[i] /\ t[l] = s[m]
  <2>1. s \in [1..n -> FlagRecords] /\ FlagOf(e) \in FlagRecords
    BY <1>3, <1>6
  <2>2. Grown(FlagRecords, n, s, j, FlagOf(e), t)
    BY <1>7, <2>1, InsertedEntries, Zenon
  <2> QED BY <2>2 DEF Grown
<1>9. ASSUME NEW k \in 1..n + 1 PROVE \E i \in 1..n + 1 : t[k] = FlagOf(c(i))
  <2>1. CASE k = j
    BY <1>4, <1>8, <2>1
  <2>2. CASE k # j
    <3>1. PICK i \in 1..n : t[k] = s[i]
      BY <1>8, <2>2, Zenon
    <3>2. PICK h \in 1..n : s[i] = FlagOf(o(h))
      BY <1>3
    <3>3. PICK g \in 1..n + 1 : c(g) = o(h)
      BY <1>4
    <3> QED BY <3>1, <3>2, <3>3
  <2> QED BY <2>1, <2>2
<1>10. ASSUME NEW i \in 1..n + 1 PROVE \E k \in 1..n + 1 : t[k] = FlagOf(c(i))
  <2>1. CASE i = at
    BY <1>4, <1>8, <2>1
  <2>2. CASE i # at
    <3>1. PICK h \in 1..n : c(i) = o(h)
      BY <1>4, <2>2
    <3>2. PICK k \in 1..n : s[k] = FlagOf(o(h))
      BY <1>3
    <3>3. PICK g \in 1..n + 1 : t[g] = s[k]
      BY <1>8
    <3> QED BY <3>1, <3>2, <3>3
  <2> QED BY <2>1, <2>2
<1>11. \A i \in 1..n : s[i].pos \in DOMAIN d.lemmas
  <2>1. ASSUME NEW i \in 1..n PROVE s[i].pos \in DOMAIN d.lemmas
    <3>1. PICK h \in 1..n : s[i] = FlagOf(o(h))
      BY <1>3
    <3> QED BY <1>5, <3>1 DEF FlagOf
  <2> QED BY <2>1
<1>12. ASSUME NEW k \in 1..n + 1, NEW l \in 1..n + 1, t[k].pos = t[l].pos PROVE k = l
  <2>1. CASE k = j \/ l = j
    <3>1. ASSUME NEW h \in 1..n + 1, h # j PROVE t[h].pos # t[j].pos
      <4>1. PICK i \in 1..n : t[h] = s[i]
        BY <1>8, <3>1, Zenon
      <4>2. s[i].pos \in DOMAIN d.lemmas /\ t[j].pos = d.lemma_size
        BY <1>6, <1>8, <1>11
      <4> QED BY <4>1, <4>2, Zenon
    <3> QED BY <1>12, <2>1, <3>1, Zenon
  <2>2. CASE k # j /\ l # j /\ k # l
    <3>1. PICK i \in 1..n, m \in 1..n : i # m /\ t[k] = s[i] /\ t[l] = s[m]
      BY <1>8, <2>2, ZenonT(60)
    <3> QED BY <1>3, <1>12, <3>1
  <2>3. CASE k = l
    BY <2>3
  <2> QED BY <2>1, <2>2, <2>3, Zenon
<1>13. t \in Seq(FlagRecords) /\ Len(t) = n + 1
  <2>1. t \in [1..n + 1 -> FlagRecords] /\ n + 1 \in Nat
    BY <1>8
  <2> HIDE DEF FlagRecords
  <2> QED BY <2>1
<1>14. /\ Len(r.predicts) = n + 1 /\ r.predicts \in [1..n + 1 -> FlagRecords]
       /\ \A k \in 1..n + 1 : \E i \in 1..n + 1 : r.predicts[k] = FlagOf(r.offsets[i])
       /\ \A i \in 1..n + 1 : \E k \in 1..n + 1 : r.predicts[k] = FlagOf(r.offsets[i])
       /\ \A k, m \in 1..n + 1 : r.predicts[k].pos = r.predicts[m].pos => k = m
  BY <1>8, <1>9, <1>10, <1>12, <1>13 DEF t, c
<1>15. n + 1 \in Nat
  OBVIOUS
<1> HIDE DEF t, c
<1>16. /\ Indexes(r) = 1..n + 1 /\ FlagRecords = [pos : Nat, removed : BOOLEAN]
       /\ Len(r.predicts) \in Nat
  BY <1>2, <1>14, <1>15 DEF FlagRecords
<1>17. /\ r.predicts \in [1..n + 1 -> [pos : Nat, removed : BOOLEAN]]
       /\ \A k \in 1..n + 1 : \E i \in Indexes(r) : r.predicts[k] = FlagOf(r.offsets[i])
       /\ \A i \in Indexes(r) : \E k \in 1..n + 1 : r.predicts[k] = FlagOf(r.offsets[i])
       /\ \A k, m \in 1..n + 1 : r.predicts[k].pos = r.predicts[m].pos => k = m
       /\ n + 1 = Len(r.predicts)
  <2>1. ASSUME NEW N, N = 1..n + 1
        PROVE  /\ \A k \in 1..n + 1 : \E i \in N : r.predicts[k] = FlagOf(r.offsets[i])
               /\ \A i \in N : \E k \in 1..n + 1 : r.predicts[k] = FlagOf(r.offsets[i])
    BY <1>14, <2>1
  <2>2. r.predicts \in [1..n + 1 -> [pos : Nat, removed : BOOLEAN]]
    <3>1. r.predicts \in [1..n + 1 -> FlagRecords] /\ FlagRecords = [pos : Nat, removed : BOOLEAN]
      BY <1>14, <1>16, Zenon
    <3> QED BY <3>1, Zenon
  <2> QED BY <1>14, <1>16, <2>1, <2>2, Zenon
<1> QED
  BY <1>16, <1>17, Zenon DEF PredictsSound

\* Appending a lemma there is room for keeps an image sound, its accounts, and what it shares
\* with the file.
LEMMA AppendSound ==
  ASSUME NEW d, Sound(d), Accounted(d), NEW f, Saved(d, f), f.lemma_size \in Nat,
         NEW lemma \in Lemmas, NEW score \in Scores, Len(d.offsets) < MaxLemmas,
         d.count_left > 0, LemmaBytes(Len(lemma.spell)) <= d.size_left,
         NEW r, r = AppendALemma(d, lemma, score)
  PROVE  /\ Sound(r) /\ Accounted(r) /\ Saved(r, f)
         /\ r.syncs_null = d.syncs_null /\ r.syncs = d.syncs
         /\ Len(r.by_id) \in Indexes(r) /\ r.state >= USER_DICT_LEMMA_DIRTY
<1> DEFINE b == LemmaBytes(Len(lemma.spell))
           size == d.lemma_size
           R == RemovedPositions(d)
<1>1. PICK n \in Nat : n = Len(d.offsets) /\ n <= MaxLemmas
  BY IndexLen DEF Sound
<1>2. PICK at \in 1..n + 1, j \in 1..n + 1 :
           /\ Keeps(d, r, {"state", "lemmas", "lemma_size", "offsets", "by_id", "predicts",
                           "count_left", "size_left", "cache", "miss"})
           /\ r.lemmas = WithBlock(d.lemmas, size, lemma)
           /\ r.lemma_size = size + b
           /\ r.offsets = InsertAt(d.offsets, at, NewEntry(d, score))
           /\ r.by_id = Append(d.by_id, size)
           /\ r.predicts = InsertAt(d.predicts, j, FlagOf(NewEntry(d, score)))
           /\ r.count_left = d.count_left - 1
           /\ r.size_left = d.size_left - b
           /\ r.cache = NoCache
           /\ r.state = IF d.state >= USER_DICT_LEMMA_DIRTY THEN d.state ELSE USER_DICT_LEMMA_DIRTY
  <2>1. \A i \in Nat : i = Len(d.offsets) => 1..Len(d.offsets) + 1 = 1..i + 1
    OBVIOUS
  <2> QED BY <1>1, AppendFields
<1>3. /\ Fields \subseteq DOMAIN r /\ r.syncs = d.syncs /\ r.syncs_null = d.syncs_null
      /\ r.limit = d.limit /\ r.free_count = d.free_count /\ r.free_size = d.free_size
  BY <1>2 DEF Keeps, Fields
<1>4. BlockSound(d) /\ IndexSound(d) /\ PredictsSound(d) /\ CountersSound(d)
  BY DEF Sound
<1>5. /\ BlockSound(r) /\ size \in Nat /\ size \notin DOMAIN d.lemmas /\ b \in Nat
      /\ DOMAIN r.lemmas = DOMAIN d.lemmas \cup {size}
      /\ \A p \in DOMAIN d.lemmas : r.lemmas[p] = d.lemmas[p]
      /\ \A p \in DOMAIN d.lemmas : BytesAt(r)[p] = BytesAt(d)[p]
  <2>1. r.lemmas = WithBlock(d.lemmas, d.lemma_size, lemma)
    BY <1>2
  <2>2. r.lemma_size = d.lemma_size + LemmaBytes(Len(lemma.spell))
    BY <1>2
  <2>3. /\ BlockSound(r) /\ d.lemma_size \in Nat /\ d.lemma_size \notin DOMAIN d.lemmas
        /\ LemmaBytes(Len(lemma.spell)) \in Nat /\ BlockGrown(d, r)
    BY <1>4, <2>1, <2>2, AppendedBlock, Zenon
  <2> QED BY <2>3 DEF BlockGrown
<1> HIDE DEF b
<1>6. /\ IndexSound(r) /\ Len(r.offsets) = n + 1 /\ RemovedPositions(r) = RemovedPositions(d)
      /\ Grown(IndexRecords(n + 1), n, d.offsets, at, NewEntry(d, score), r.offsets)
  <2>1. n < MaxLemmas
    BY <1>1
  <2>2. IndexGrows(d, at, score, r)
    BY <1>2, <1>5 DEF IndexGrows
  <2>3. /\ n \in Nat /\ n = Len(d.offsets) /\ BlockSound(d) /\ IndexSound(d)
        /\ at \in 1..n + 1
    BY <1>1, <1>2, <1>4
  <2> QED BY <2>1, <2>2, <2>3, AppendedIndex, ZenonT(60)
<1>7. PredictsSound(r)
  <2>1. d.lemma_size \notin DOMAIN d.lemmas /\ d.lemma_size \in Nat
    BY <1>5
  <2>2. r.predicts = InsertAt(d.predicts, j, FlagOf(NewEntry(d, score)))
    BY <1>2
  <2>3. n = Len(d.offsets) /\ IndexSound(d) /\ PredictsSound(d) /\ at \in 1..n + 1
        /\ j \in 1..n + 1
    BY <1>1, <1>2, <1>4
  <2> QED BY <1>6, <2>1, <2>2, <2>3, AppendedPredicts, Zenon
<1>8. CachesSound(r)
  <2>1. r.cache \in [1..kMaxLemmaSize -> {<<>>}]
    BY <1>2 DEF NoCache
  <2> DEFINE V == [sig : {q.sig : q \in Queries}, val : [start : Nat \ {0}, count : Nat]]
  <2>2. \A m \in 1..kMaxLemmaSize : r.cache[m] = <<>> /\ Len(r.cache[m]) = 0
    <3>1. \A m \in 1..kMaxLemmaSize : r.cache[m] = <<>>
      BY <2>1, Zenon
    <3>2. Len(<<>>) = 0
      OBVIOUS
    <3> QED BY <3>1, <3>2, Zenon
  <2>3. r.cache \in [1..kMaxLemmaSize -> Seq(V)]
    <3> HIDE DEF V
    <3>1. {<<>>} \subseteq Seq(V)
      OBVIOUS
    <3> QED BY <2>1, <3>1
  <2>4. \A m \in 1..kMaxLemmaSize : 1..Len(r.cache[m]) = {}
    BY <2>2
  <2> QED BY <2>3, <2>4 DEF CachesSound
<1>9. /\ r.state \in USER_DICT_SYNC..USER_DICT_DEFRAGMENTED /\ r.state >= USER_DICT_LEMMA_DIRTY
      /\ d.state \in Int /\ r.state \in Int /\ r.state >= d.state
  BY <1>2, <1>4, SMTT(30)
  DEF CountersSound, USER_DICT_SYNC, USER_DICT_DEFRAGMENTED, USER_DICT_LEMMA_DIRTY
<1>10. CountersSound(r)
  <2>1. /\ d.count_left \in 0..kUserDictPreAlloc /\ d.size_left \in Nat
        /\ kUserDictPreAlloc \in Nat /\ b <= d.size_left
    BY <1>4, SizesAssumption DEF CountersSound, b
  <2>2. r.count_left \in 0..kUserDictPreAlloc /\ r.size_left \in Nat
    <3>1. ASSUME NEW i, i = d.count_left, NEW z, z = d.size_left
          PROVE  i - 1 \in 0..kUserDictPreAlloc /\ z - b \in Nat
      BY <1>5, <2>1, <3>1
    <3>2. r.count_left = d.count_left - 1 /\ r.size_left = d.size_left - b
      BY <1>2
    <3> QED BY <3>1, <3>2, Zenon
  <2> QED BY <1>3, <1>4, <1>9, <2>2 DEF CountersSound
<1>11. Accounted(r)
  <2>1. /\ \A p \in DOMAIN d.lemmas : p \in Nat /\ p < size /\ BytesAt(d)[p] \in Nat
        /\ R \subseteq DOMAIN d.lemmas
    <3>1. LemmaBytes(kMaxLemmaSize) \in Nat
      BY SizesAssumption DEF LemmaBytes
    <3>2. \A p \in DOMAIN d.lemmas : /\ BytesAt(d)[p] = BytesOf(d, p)
                                     /\ BytesOf(d, p) \in 1..LemmaBytes(kMaxLemmaSize)
                                     /\ p \in Nat /\ p < size
      BY <1>4, SoundBlocks
    <3>3. R \subseteq DOMAIN d.lemmas
      BY <1>4, RemovedFinite
    <3> HIDE DEF size, R
    <3> QED BY <3>1, <3>2, <3>3
  <2> HIDE DEF R, size
  <2>2. /\ \A p \in R : BytesAt(d)[p] \in Nat /\ BytesAt(r)[p] \in Nat
        /\ \A p \in R : BytesAt(r)[p] = BytesAt(d)[p]
    BY <1>5, <2>1
  <2>3. SumBefore(BytesAt(r), R, size + b) = SumBefore(BytesAt(r), R, size)
    <3>1. size + b \in Nat /\ size <= size + b /\ size \in Nat
      BY <1>5
    <3>2. \A p \in R : ~(size <= p /\ p < size + b)
      BY <1>5, <2>1
    <3>3. \A p \in R : BytesAt(r)[p] \in Nat
      BY <2>2
    <3> QED BY <3>1, <3>2, <3>3, SumSkips
  <2>4. SumBefore(BytesAt(r), R, size) = SumBefore(BytesAt(d), R, size)
    <3>1. \A p \in R : BytesAt(r)[p] \in Nat
      BY <2>2
    <3>2. \A p \in R : BytesAt(d)[p] \in Nat
      BY <2>2
    <3>3. \A p \in 0..size - 1 : (p \in R <=> p \in R)
                                   /\ (p \in R => BytesAt(r)[p] = BytesAt(d)[p])
      BY <2>2
    <3> QED BY <1>5, <3>1, <3>2, <3>3, SumSame
  <2>5. d.free_count = Cardinality(R) /\ d.free_size = SumBefore(BytesAt(d), R, size)
    BY Zenon DEF Accounted, R, size
  <2>6. /\ RemovedPositions(r) = R /\ r.lemma_size = size + b
        /\ r.free_count = d.free_count /\ r.free_size = d.free_size
    BY <1>2, <1>3, <1>6, Zenon DEF R, size
  <2> QED BY <2>3, <2>4, <2>5, <2>6, Zenon DEF Accounted
<1>12. Saved(r, f)
  <2>1. /\ r.state # USER_DICT_SYNC /\ ~(r.state < USER_DICT_SCORE_DIRTY)
        /\ ~(r.state < USER_DICT_OFFSET_DIRTY) /\ ~(r.state < USER_DICT_LEMMA_DIRTY)
        /\ r.state < USER_DICT_DEFRAGMENTED => d.state < USER_DICT_DEFRAGMENTED
    BY <1>9 DEF USER_DICT_SYNC, USER_DICT_SCORE_DIRTY, USER_DICT_OFFSET_DIRTY,
                USER_DICT_LEMMA_DIRTY, USER_DICT_DEFRAGMENTED
  <2>2. ASSUME d.state < USER_DICT_DEFRAGMENTED
        PROVE  /\ r.size_left <= PreAllocBytes
               /\ r.lemma_size = f.lemma_size + (PreAllocBytes - r.size_left)
               /\ DOMAIN f.lemmas = {pos \in DOMAIN r.lemmas : pos < f.lemma_size}
               /\ \A pos \in DOMAIN f.lemmas : f.lemmas[pos] = r.lemmas[pos]
    <3>1. /\ d.size_left <= PreAllocBytes
          /\ size = f.lemma_size + (PreAllocBytes - d.size_left)
          /\ DOMAIN f.lemmas = {pos \in DOMAIN d.lemmas : pos < f.lemma_size}
          /\ \A pos \in DOMAIN f.lemmas : f.lemmas[pos] = d.lemmas[pos]
      BY <2>2 DEF Saved
    <3>2. d.size_left \in Nat /\ PreAllocBytes \in Nat
      BY <1>4, SizesAssumption DEF CountersSound, PreAllocBytes, LemmaBytes
    <3> HIDE DEF size
    <3>3. ~(size < f.lemma_size)
      BY <1>5, <3>1, <3>2
    <3>4. DOMAIN f.lemmas = {pos \in DOMAIN r.lemmas : pos < f.lemma_size}
      BY <1>5, <3>1, <3>3
    <3>5. \A pos \in DOMAIN f.lemmas : f.lemmas[pos] = r.lemmas[pos]
      BY <1>5, <3>1
    <3>6. r.lemma_size = size + b /\ r.size_left = d.size_left - b
      BY <1>2 DEF size
    <3>7. /\ r.size_left <= PreAllocBytes
          /\ r.lemma_size = f.lemma_size + (PreAllocBytes - r.size_left)
      BY <1>5, <3>1, <3>2, <3>6
    <3> QED BY <3>4, <3>5, <3>7
  <2> QED BY <2>1, <2>2 DEF Saved
<1>13. Len(r.by_id) \in Indexes(r)
  <2>1. d.by_id \in [1..n -> Nat] /\ size \in Nat
    BY <1>1, <1>4, <1>5 DEF IndexSound, Indexes
  <2>2. n \in Nat /\ r.by_id = Append(d.by_id, size)
    BY <1>1, <1>2
  <2> HIDE DEF size
  <2>3. Extended(n, d.by_id, size, r.by_id)
    BY <2>1, <2>2, AppendedEntry, Zenon
  <2>4. Len(r.by_id) = n + 1
    BY <2>3 DEF Extended
  <2> QED BY <1>6, <2>4 DEF Indexes
<1> QED
  BY <1>3, <1>5, <1>6, <1>7, <1>8, <1>9, <1>10, <1>11, <1>12, <1>13 DEF Sound

---------------------------------------------------------------------------
\* An operation that touches the caches, the sync list, the limit or the dirty level only.  The
\* caches must still lie in the index, and a sync list that changes must ask for a write.
LEMMA FrameSound ==
  ASSUME NEW d, Sound(d), NEW r,
         Keeps(d, r, {"syncs", "syncs_null", "state", "miss", "limit", "cache"}),
         CachesSound(r), r.limit \in [count : Nat, size : Nat, ratio : 0..99],
         r.syncs \in Seq(SyncEntries), Len(r.syncs) <= MaxSyncs,
         r.state \in USER_DICT_SYNC..USER_DICT_DEFRAGMENTED, r.state >= d.state,
         r.state = USER_DICT_SYNC => r.syncs = d.syncs, NEW f
  PROVE  /\ Sound(r) /\ Indexes(r) = Indexes(d)
         /\ Accounted(d) => Accounted(r)
         /\ Saved(d, f) => Saved(r, f)
<1>1. /\ Fields \subseteq DOMAIN r /\ r.lemmas = d.lemmas /\ r.lemma_size = d.lemma_size
      /\ r.offsets = d.offsets /\ r.by_id = d.by_id /\ r.predicts = d.predicts
      /\ r.count_left = d.count_left /\ r.size_left = d.size_left
      /\ r.free_count = d.free_count /\ r.free_size = d.free_size
  BY DEF Keeps, Fields
<1>2. Indexes(r) = Indexes(d)
  BY <1>1 DEF Indexes
<1>3. BlockSound(d) /\ IndexSound(d) /\ PredictsSound(d) /\ CountersSound(d)
  BY DEF Sound
<1>4. BlockSound(r) /\ BytesAt(r) = BytesAt(d)
  BY <1>1, <1>3, BlockKept
<1>5. IndexSound(r)
  BY <1>1, <1>2, <1>3 DEF IndexSound
<1>6. PredictsSound(r)
  BY <1>1, <1>2, <1>3, PredictsKept
<1>7. CountersSound(r)
  BY <1>1, <1>3 DEF CountersSound, SyncEntries
<1>8. Accounted(d) => Accounted(r)
  BY <1>1, <1>2, <1>4 DEF Accounted, RemovedPositions
<1>9. Saved(d, f) => Saved(r, f)
  <2>1. d.state \in Int /\ r.state \in Int /\ d.state >= USER_DICT_SYNC
    BY <1>3 DEF CountersSound, USER_DICT_SYNC, USER_DICT_DEFRAGMENTED
  <2>2. /\ r.state = USER_DICT_SYNC => d.state = USER_DICT_SYNC
        /\ r.state < USER_DICT_SCORE_DIRTY => d.state < USER_DICT_SCORE_DIRTY
        /\ r.state < USER_DICT_OFFSET_DIRTY => d.state < USER_DICT_OFFSET_DIRTY
        /\ r.state < USER_DICT_LEMMA_DIRTY => d.state < USER_DICT_LEMMA_DIRTY
        /\ r.state < USER_DICT_DEFRAGMENTED => d.state < USER_DICT_DEFRAGMENTED
    BY <2>1 DEF USER_DICT_SYNC, USER_DICT_SCORE_DIRTY, USER_DICT_OFFSET_DIRTY,
                USER_DICT_LEMMA_DIRTY, USER_DICT_DEFRAGMENTED
  <2>3. FlagsOf(r) = FlagsOf(d) /\ ScoresOf(r) = ScoresOf(d)
    BY <1>1, <1>2 DEF FlagsOf, ScoresOf
  <2> QED BY <1>1, <2>2, <2>3 DEF Saved
<1> QED
  BY <1>1, <1>2, <1>4, <1>5, <1>6, <1>7, <1>8, <1>9 DEF Sound

\* A range a lookup cached lies in the index.
LEMMA CachedRange ==
  ASSUME NEW d, CachesSound(d), NEW n \in 1..kMaxLemmaSize, NEW sig,
         NEW range \in Lookup(d.cache[n], sig)
  PROVE  /\ range.start \in Nat \ {0} /\ range.count \in Nat
         /\ range.start + range.count <= Len(d.offsets) + 1
<1> DEFINE V == [sig : {q.sig : q \in Queries}, val : [start : Nat \ {0}, count : Nat]]
           s == d.cache[n]
           at == {i \in 1..Len(s) : s[i].sig = sig}
<1>1. s \in Seq(V) /\ \A k \in 1..Len(s) : s[k].val.start + s[k].val.count <= Len(d.offsets) + 1
  BY DEF CachesSound
<1> HIDE DEF V, s
<1>2. FirstOf(s, sig) # 0 /\ range = s[FirstOf(s, sig)].val
  BY DEF Lookup, s
<1>3. at # {} /\ FirstOf(s, sig) = Min(at)
  BY <1>2 DEF FirstOf
<1>4. at \in SUBSET Nat
  BY <1>1
<1>5. Min(at) \in at
  <2> HIDE DEF at
  <2> QED BY <1>3, <1>4, MinNat
<1>6. FirstOf(s, sig) \in 1..Len(s)
  BY <1>3, <1>5
<1>7. s[FirstOf(s, sig)] \in V
  BY <1>1, <1>6
<1>8. range \in [start : Nat \ {0}, count : Nat]
  BY <1>2, <1>7 DEF V
<1> QED
  BY <1>1, <1>2, <1>6, <1>8

\* The range a search looks through, cached or found by bisection, lies in the index.
RangeOf(d, n, q) ==
  IF Lookup(d.cache[n], q.sig) # {} THEN CHOOSE r \in Lookup(d.cache[n], q.sig) : TRUE
  ELSE [start |-> LocateFirstInOffsets(d, q),
        count |-> Len(d.offsets) + 1 - LocateFirstInOffsets(d, q)]

\* That range does lie in the index, whether the caches hold it or not.
LEMMA RangeInIndex ==
  ASSUME NEW d, IndexSound(d), CachesSound(d), NEW n \in 1..kMaxLemmaSize, NEW q
  PROVE  /\ RangeOf(d, n, q).start \in Nat /\ RangeOf(d, n, q).count \in Nat
         /\ RangeOf(d, n, q).start + RangeOf(d, n, q).count <= Len(d.offsets) + 1
<1> DEFINE cached == Lookup(d.cache[n], q.sig)
<1>1. CASE cached # {}
  <2>1. (CHOOSE r \in cached : TRUE) \in cached
    BY <1>1
  <2>2. RangeOf(d, n, q) \in cached
    BY <1>1, <2>1 DEF RangeOf
  <2> QED BY <2>2, CachedRange
<1>2. CASE cached = {}
  <2>1. PICK m \in Nat : m = Len(d.offsets)
    BY IndexLen
  <2> DEFINE first == LocateFirstInOffsets(d, q)
  <2>2. first \in 0..m
    <3> DEFINE below == {i \in Indexes(d) : FuzzyCompare(SpellOf(d, i), NcharOf(d, i), q) < 0}
               hits == {i \in Indexes(d) : IsFuzzyPrefix(SpellOf(d, i), q)}
    <3>1. first = Bisect(m, below, hits)
      BY <2>1 DEF LocateFirstInOffsets
    <3> HIDE DEF below, hits, first
    <3> QED BY <3>1, BisectType
  <2>3. RangeOf(d, n, q) = [start |-> first, count |-> m + 1 - first]
    BY <1>2, <2>1 DEF RangeOf
  <2> HIDE DEF first
  <2> QED BY <2>1, <2>2, <2>3
<1> QED
  BY <1>1, <1>2

\* locate_in_offsets finds an entry that is not removed, or none.
LEMMA LocateSpec ==
  ASSUME NEW d, Sound(d), NEW lemma \in Lemmas
  PROVE  LET i == LocateInOffsets(d, lemma)
         IN i = 0 \/ (i \in Indexes(d) /\ d.offsets[i].removed = FALSE)
<1> DEFINE n == Len(lemma.spell)
           q == SearchFor(lemma.spell)
           range == RangeOf(d, n, q)
           cached == Lookup(d.cache[n], q.sig)
           live == LiveIn(d, range)
           stops == {i \in live : cached = {} /\ FuzzyCompare(SpellOf(d, i), n, q) # 0}
           found == {i \in live : /\ EqualSpell(SpellOf(d, i), n, q)
                                  /\ SubSeq(LemmaOf(d, i).word, 1, n) = lemma.word
                                  /\ \A s \in stops : i < s}
<1>1. n \in 1..kMaxLemmaSize
  BY InputsAssumption
<1>2. LocateInOffsets(d, lemma) = IF range.start = 0 \/ found = {} THEN 0 ELSE Min(found)
  BY DEF LocateInOffsets, RangeOf
<1>3. IndexSound(d) /\ CachesSound(d)
  BY DEF Sound
<1>4. PICK m \in Nat : m = Len(d.offsets) /\ Indexes(d) = 1..m
  BY <1>3, IndexLen DEF Indexes
<1> HIDE DEF n, q
<1>5. range.start \in Nat /\ range.count \in Nat /\ range.start + range.count <= m + 1
  BY <1>1, <1>3, <1>4, RangeInIndex
<1> HIDE DEF range
<1>6. range.start # 0 => live \subseteq 1..m
  BY <1>5 DEF LiveIn
<1>7. \A i \in live : ~d.offsets[i].removed
  BY DEF LiveIn
<1>8. found \subseteq live
  OBVIOUS
<1> HIDE DEF found, live
<1>9. CASE range.start # 0 /\ found # {}
  <2>1. found \in SUBSET Nat
    BY <1>6, <1>8, <1>9
  <2>2. Min(found) \in found
    BY <1>9, <2>1, MinNat
  <2>3. Min(found) \in 1..m /\ ~d.offsets[Min(found)].removed
    BY <1>6, <1>7, <1>8, <1>9, <2>2
  <2>4. d.offsets[Min(found)].removed = FALSE
    BY <1>3, <1>4, <2>3 DEF IndexSound
  <2> QED BY <1>2, <1>4, <1>9, <2>3, <2>4
<1>10. CASE ~(range.start # 0 /\ found # {})
  BY <1>2, <1>10
<1> QED
  BY <1>9, <1>10

\* The queue x holds e and entries of the queue s only.
Pushed(V, s, e, x) ==
  x \in Seq(V) /\ \A k \in 1..Len(x) : x[k] = e \/ \E j \in 1..Len(s) : x[k] = s[j]

\* A queue after an entry was pushed holds that entry and some of those before.
LEMMA PushType ==
  ASSUME NEW V, NEW s \in Seq(V), NEW e \in V, NEW capacity \in Nat \ {0}
  PROVE  Pushed(V, s, e, Push(s, e, capacity))
<1> DEFINE t == IF Len(s) < capacity THEN s ELSE Tail(s)
<1>1. t \in Seq(V) /\ \A k \in 1..Len(t) : \E j \in 1..Len(s) : t[k] = s[j]
  <2>1. CASE Len(s) < capacity
    BY <2>1
  <2>2. CASE ~(Len(s) < capacity)
    <3>1. s # <<>> /\ Len(s) \in Nat /\ Len(s) > 0
      BY <2>2
    <3>2. Tail(s) \in Seq(V) /\ Len(Tail(s)) = Len(s) - 1
          /\ \A k \in 1..Len(s) - 1 : Tail(s)[k] = s[k + 1]
      BY <3>1
    <3>3. \A k \in 1..Len(s) - 1 : k + 1 \in 1..Len(s)
      BY <3>1
    <3>4. \A k \in 1..Len(s) - 1 : \E j \in 1..Len(s) : Tail(s)[k] = s[j]
      BY <3>2, <3>3
    <3>5. t = Tail(s)
      BY <2>2
    <3> HIDE DEF t
    <3> QED BY <3>2, <3>4, <3>5
  <2> QED BY <2>1, <2>2
<1>2. Push(s, e, capacity) = Append(t, e)
  BY DEF Push
<1> HIDE DEF t
<1>3. /\ Append(t, e) \in Seq(V) /\ Len(Append(t, e)) = Len(t) + 1 /\ Len(t) \in Nat
      /\ Append(t, e)[Len(t) + 1] = e
      /\ \A k \in 1..Len(t) : Append(t, e)[k] = t[k]
  BY <1>1
<1>4. ASSUME NEW k \in 1..Len(t) + 1
      PROVE  Append(t, e)[k] = e \/ \E j \in 1..Len(s) : Append(t, e)[k] = s[j]
  <2>1. CASE k = Len(t) + 1
    BY <1>3, <2>1
  <2>2. CASE k # Len(t) + 1
    <3>1. k \in 1..Len(t)
      BY <1>3, <2>2
    <3> QED BY <1>1, <1>3, <3>1
  <2> QED BY <2>1, <2>2
<1>5. Append(t, e) \in Seq(V) /\ 1..Len(Append(t, e)) = 1..Len(t) + 1
  BY <1>3
<1>6. Pushed(V, s, e, Append(t, e))
  BY <1>4, <1>5, Zenon DEF Pushed
<1> QED
  BY <1>2, <1>6

\* A lookup leaves a sound image: the range it caches lies in the index.
LEMMA LookupSound ==
  ASSUME NEW d, Sound(d), NEW q \in Queries, NEW lpi_max, NEW r,
         r = GetLpis(d, q, lpi_max).dict, NEW f
  PROVE  /\ Sound(r) /\ r.syncs_null = d.syncs_null
         /\ Accounted(d) => Accounted(r)
         /\ Saved(d, f) => Saved(r, f)
<1> DEFINE n == Len(q.sig)
           missed == Lookup(d.miss[n], q.sig) # {}
           cached == Lookup(d.cache[n], q.sig)
           range == RangeOf(d, n, q)
           end == range.start + range.count
           live == LiveIn(d, range)
           hits == {i \in live : EqualSpell(SpellOf(d, i), NcharOf(d, i), q)}
           breaks == {i \in live : \/ ~IsFuzzyPrefix(SpellOf(d, i), q)
                                   \/ cached = {} /\ FuzzyCompare(SpellOf(d, i), NcharOf(d, i), q) # 0
                                   \/ i \in hits /\ Cardinality(hits \cap (range.start..i)) = lpi_max}
           stops == {end} \cup {i + 1 : i \in breaks}
           pushed == [start |-> range.start, count |-> Min(stops) - range.start]
           found == IF missed THEN {} ELSE IF range.start = 0 THEN {}
                    ELSE hits \cap (range.start..(Min(stops) - 1))
           need == IF missed THEN FALSE ELSE IF range.start = 0 THEN FALSE
                   ELSE \E i \in live : i < Min(stops) /\ IsPrefixSpell(SpellOf(d, i), q)
<1>1. r = IF missed THEN d ELSE IF range.start = 0 THEN PushMiss(d, q)
          ELSE IF cached # {} THEN d ELSE PushRange(d, q, pushed)
  <2> DEFINE new == IF missed THEN d ELSE IF range.start = 0 THEN PushMiss(d, q)
                    ELSE IF cached # {} THEN d ELSE PushRange(d, q, pushed)
  <2>1. GetLpis(d, q, lpi_max) = [found |-> found, need |-> need, dict |-> new]
    BY DEF GetLpis, RangeOf
  <2> HIDE DEF found, need, new
  <2>2. r = new
    BY <2>1
  <2> QED BY <2>2 DEF new
<1> HIDE DEF found, need
<1>2. n \in 1..kMaxLemmaSize
  BY InputsAssumption
<1>3. IndexSound(d) /\ CachesSound(d) /\ CountersSound(d) /\ Fields \subseteq DOMAIN d
  BY DEF Sound
<1>4. PICK m \in Nat : m = Len(d.offsets)
  BY <1>3, IndexLen
<1>5. range.start \in Nat /\ range.count \in Nat /\ range.start + range.count <= m + 1
  BY <1>2, <1>3, <1>4, RangeInIndex
<1> HIDE DEF range, n, missed, cached
<1>6. Min(stops) \in Nat /\ range.start <= Min(stops) /\ Min(stops) <= m + 1
  <2>1. breaks \subseteq range.start..range.start + range.count - 1
    BY DEF LiveIn
  <2> HIDE DEF breaks
  <2>2. end \in stops /\ stops \in SUBSET Nat /\ \A x \in stops : range.start <= x
    BY <1>5, <2>1
  <2>3. end \in Nat /\ end <= m + 1
    BY <1>5
  <2> HIDE DEF stops, end
  <2>4. Min(stops) \in stops /\ \A x \in stops : Min(stops) <= x
    <3>1. stops # {}
      BY <2>2
    <3> QED BY <2>2, <3>1, MinNat, Zenon
  <2>5. Min(stops) \in Nat /\ range.start <= Min(stops) /\ Min(stops) <= end
    BY <2>2, <2>4, Zenon
  <2> QED BY <1>4, <2>3, <2>5
<1> HIDE DEF stops
<1>7. /\ r.syncs = d.syncs /\ r.limit = d.limit /\ r.state = d.state /\ r.syncs_null = d.syncs_null
      /\ Keeps(d, r, {"syncs", "syncs_null", "state", "miss", "limit", "cache"})
  <2>1. CASE r = d
    BY <1>3, <2>1 DEF Keeps
  <2>2. CASE r = PushMiss(d, q)
    BY <1>3, <2>2 DEF Keeps, Fields, PushMiss
  <2>3. CASE r = PushRange(d, q, pushed)
    BY <1>3, <2>3 DEF Keeps, Fields, PushRange
  <2> QED BY <1>1, <2>1, <2>2, <2>3
<1>8. r.offsets = d.offsets
  BY <1>7 DEF Keeps, Fields
<1>9. CachesSound(r)
  <2>1. CASE r.cache = d.cache
    BY <1>3, <1>8, <2>1 DEF CachesSound
  <2>2. CASE r = PushRange(d, q, pushed) /\ range.start # 0
    <3> DEFINE W == [sig : {p.sig : p \in Queries}, val : [start : Nat \ {0}, count : Nat]]
               s == d.cache[n]
               e == [sig |-> q.sig, val |-> pushed]
               t == Push(s, e, kUserDictCacheSize - 1)
    <3>1. e \in W
      <4>1. pushed \in [start : Nat \ {0}, count : Nat]
        BY <1>5, <1>6, <2>2
      <4> HIDE DEF pushed
      <4> QED BY <4>1
    <3>2. s \in Seq(W) /\ \A k \in 1..Len(s) : s[k].val.start + s[k].val.count <= m + 1
      BY <1>2, <1>3, <1>4 DEF CachesSound
    <3>3. kUserDictCacheSize - 1 \in Nat \ {0}
      BY SizesAssumption
    <3>4. e.val.start + e.val.count <= m + 1
      BY <1>5, <1>6
    <3>5. r.cache = [d.cache EXCEPT ![n] = t]
      BY <1>3, <2>2 DEF PushRange, Fields, n
    <3> HIDE DEF W, s, e, t
    <3>6. /\ t \in Seq(W)
          /\ \A k \in 1..Len(t) : t[k] = e \/ \E j \in 1..Len(s) : t[k] = s[j]
      <4>1. s \in Seq(W) /\ t = Push(s, e, kUserDictCacheSize - 1)
        BY <3>2 DEF t
      <4>2. Pushed(W, s, e, t)
        BY <3>1, <3>3, <4>1, PushType, Zenon
      <4> QED BY <4>2 DEF Pushed
    <3>7. \A k \in 1..Len(t) : t[k].val.start + t[k].val.count <= m + 1
      BY <3>2, <3>4, <3>6
    <3>8. /\ d.cache \in [1..kMaxLemmaSize -> Seq(W)]
          /\ \A l \in 1..kMaxLemmaSize : \A k \in 1..Len(d.cache[l]) :
               d.cache[l][k].val.start + d.cache[l][k].val.count <= m + 1
      BY <1>3, <1>4 DEF CachesSound, W
    <3>9. r.cache \in [1..kMaxLemmaSize -> Seq(W)]
      BY <3>5, <3>6, <3>8
    <3>10. ASSUME NEW l \in 1..kMaxLemmaSize, NEW k \in 1..Len(r.cache[l])
           PROVE  r.cache[l][k].val.start + r.cache[l][k].val.count <= m + 1
      <4>1. CASE l = n
        <5>1. r.cache[l] = t
          BY <1>2, <3>5, <3>8, <4>1
        <5> QED BY <3>7, <5>1
      <4>2. CASE l # n
        <5>1. r.cache[l] = d.cache[l]
          BY <3>5, <3>8, <4>2
        <5> QED BY <3>8, <5>1
      <4> QED BY <4>1, <4>2
    <3> QED BY <1>4, <1>8, <3>9, <3>10 DEF CachesSound, W
  <2>3. CASE r = PushMiss(d, q)
    <3>1. r.cache = d.cache
      BY <1>3, <2>3 DEF PushMiss, Fields
    <3> QED BY <2>1, <3>1
  <2> QED BY <1>1, <2>1, <2>2, <2>3
<1>10. /\ r.limit \in [count : Nat, size : Nat, ratio : 0..99]
       /\ r.syncs \in Seq(SyncEntries) /\ Len(r.syncs) <= MaxSyncs
       /\ r.state \in USER_DICT_SYNC..USER_DICT_DEFRAGMENTED
       /\ r.state = USER_DICT_SYNC => r.syncs = d.syncs
  BY <1>3, <1>7 DEF CountersSound, SyncEntries
<1>11. r.state >= d.state
  BY <1>7, <1>10 DEF USER_DICT_SYNC, USER_DICT_DEFRAGMENTED
<1>12. Keeps(d, r, {"syncs", "syncs_null", "state", "miss", "limit", "cache"})
  BY <1>7
<1> HIDE DEF pushed
<1> QED
  BY <1>7, <1>9, <1>10, <1>11, <1>12, FrameSound

---------------------------------------------------------------------------
\* What removing entries leaves: an image as sound, that shares as much with the file.
Trimmed(d, f, x) ==
  /\ Sound(x) /\ (Saved(d, f) => Saved(x, f)) /\ x.syncs_null = d.syncs_null
  /\ Len(x.offsets) = Len(d.offsets) /\ Len(x.syncs) <= Len(d.syncs)

\* g is the function that reclaim's recursion defines: the image after each of its removals.
Removals(d, rc, selected, g) ==
  g = [k \in 0..rc |-> IF k = 0 THEN d ELSE RemoveLemmaByOffsetIndex(g[k-1], selected[k])]

\* The images of reclaim's loop exist.
LEMMA ReclaimLoop ==
  ASSUME NEW d, NEW rc \in Nat, NEW selected
  PROVE  \E g : Removals(d, rc, selected, g)
<1> DEFINE Goes(g, m) ==
             g = [k \in 0..m |-> IF k = 0 THEN d
                                 ELSE RemoveLemmaByOffsetIndex(g[k-1], selected[k])]
           T == {m \in 0..rc : \E g : Goes(g, m)}
<1>1. 0 \in T
  <2> DEFINE g == [k \in 0..0 |-> d]
  <2>1. Goes(g, 0)
    <3>1. \A k \in 0..0 : k = 0
      OBVIOUS
    <3> QED BY <3>1, Zenon
  <2> HIDE DEF Goes, g
  <2> QED BY <2>1
<1>2. ASSUME NEW m \in 0..rc-1, m \in T PROVE m + 1 \in T
  <2>1. PICK g : Goes(g, m)
    BY <1>2
  <2> DEFINE h == [k \in 0..m+1 |-> IF k = m + 1
                                    THEN RemoveLemmaByOffsetIndex(g[m], selected[m+1]) ELSE g[k]]
             Next_(k) == RemoveLemmaByOffsetIndex(h[k-1], selected[k])
  <2>2. \A k \in 0..m : g[k] = IF k = 0 THEN d
                               ELSE RemoveLemmaByOffsetIndex(g[k-1], selected[k])
    BY <2>1
  <2>3. ASSUME NEW k \in 0..m+1
        PROVE  h[k] = IF k = 0 THEN d ELSE Next_(k)
    <3>1. CASE k = 0
      <4>1. h[0] = g[0] /\ g[0] = d
        BY <2>2
      <4> QED BY <3>1, <4>1
    <3>2. CASE k = m + 1
      <4>1. h[m+1] = RemoveLemmaByOffsetIndex(g[m], selected[m+1]) /\ h[m] = g[m]
        OBVIOUS
      <4>2. k - 1 = m /\ k # 0
        BY <3>2
      <4> HIDE DEF h
      <4> QED BY <3>2, <4>1, <4>2
    <3>3. CASE k # 0 /\ k # m + 1
      <4>1. k \in 0..m /\ k - 1 \in 0..m /\ h[k] = g[k] /\ h[k-1] = g[k-1]
        BY <3>3
      <4> HIDE DEF h
      <4> QED BY <2>2, <3>3, <4>1
    <3> QED BY <3>1, <3>2, <3>3
  <2>4. h = [k \in 0..m+1 |-> h[k]]
    OBVIOUS
  <2> HIDE DEF h
  <2>5. h = [k \in 0..m+1 |-> IF k = 0 THEN d
                              ELSE RemoveLemmaByOffsetIndex(h[k-1], selected[k])]
    BY <2>3, <2>4, Zenon
  <2>6. m + 1 \in 0..rc
    OBVIOUS
  <2> QED BY <2>5, <2>6
<1> HIDE DEF T
<1>3. \A k \in 0..rc : k \in T
  BY <1>1, <1>2, UpTo
<1>4. rc \in T
  BY <1>3
<1> QED
  BY <1>4 DEF T, Removals

\* A percentage below 100 of n.
LEMMA Percentage ==
  ASSUME NEW n \in Nat, NEW ratio \in 0..99
  PROVE  (n * ratio) \div 100 \in 0..n
<1> DEFINE z == n * ratio
<1>1. z \in Int /\ z >= 0 /\ z <= n * 99
  OBVIOUS
<1> HIDE DEF z
<1>2. z \div 100 >= 0 /\ z \div 100 <= n /\ z \div 100 \in Int
  BY <1>1
<1> QED
  BY <1>2 DEF z

\* The images reclaim goes through: rc entries are removed, one after the other.
Reclaims(d, n, rc, s, g) ==
  /\ rc \in 0..n /\ s \in [1..rc -> 1..n]
  /\ g[0] = d /\ \A k \in 0..rc-1 : g[k+1] = RemoveLemmaByOffsetIndex(g[k], s[k+1])

\* What reclaim leaves is the last of them.
LEMMA ReclaimSteps ==
  ASSUME NEW d, Sound(d), NEW n \in Nat, n = Len(d.offsets), NEW r, r = Reclaim(d)
  PROVE  \E rc, s, g : Reclaims(d, n, rc, s, g) /\ r = g[rc]
<1> DEFINE rc == (n * d.limit.ratio) \div 100
           s == Selected(d, rc)
           g == CHOOSE g : g = [k \in 0..rc |-> IF k = 0 THEN d
                                                ELSE RemoveLemmaByOffsetIndex(g[k-1], s[k])]
<1>1. r = IF rc = 0 THEN d ELSE g[rc]
  BY DEF Reclaim
<1>2. rc \in 0..n
  <2>1. d.limit.ratio \in 0..99
    BY DEF Sound, CountersSound
  <2> QED BY <2>1, Percentage
<1> HIDE DEF rc
<1>3. CASE rc = 0
  <2> DEFINE h == [k \in 0..0 |-> d]
             t == [k \in 1..0 |-> 1]
  <2>1. h[0] = d /\ t \in [1..0 -> 1..n]
    OBVIOUS
  <2> HIDE DEF h, t
  <2>2. Reclaims(d, n, 0, t, h)
    BY <2>1 DEF Reclaims
  <2>3. r = h[0]
    BY <1>1, <1>3, <2>1
  <2> QED BY <2>2, <2>3
<1>4. CASE rc # 0
  <2>1. rc \in 1..n
    BY <1>2, <1>4
  <2>2. s \in [1..rc -> 1..n]
    BY <2>1, SelectedType
  <2> HIDE DEF s
  <2>3. g = [k \in 0..rc |-> IF k = 0 THEN d ELSE RemoveLemmaByOffsetIndex(g[k-1], s[k])]
    <3>1. rc \in Nat
      BY <1>2
    <3>2. \E h : Removals(d, rc, s, h)
      BY <3>1, ReclaimLoop, Zenon
    <3> QED BY <3>2, Zenon DEF Removals
  <2> HIDE DEF g
  <2>4. ASSUME NEW k \in 0..rc-1 PROVE g[k+1] = RemoveLemmaByOffsetIndex(g[k], s[k+1])
    <3>1. k + 1 \in 0..rc /\ k + 1 # 0 /\ (k + 1) - 1 = k
      BY <2>1
    <3> QED BY <2>3, <3>1
  <2>5. g[0] = d
    <3>1. 0 \in 0..rc
      BY <2>1
    <3> QED BY <2>3, <3>1
  <2>6. Reclaims(d, n, rc, s, g)
    BY <1>2, <2>2, <2>4, <2>5 DEF Reclaims
  <2>7. r = g[rc]
    BY <1>1, <1>4
  <2> QED BY <2>6, <2>7, Zenon
<1> QED
  BY <1>3, <1>4

\* reclaim keeps an image sound; the accounts are off only when it selects an entry that is
\* removed already, and then there is something for defragment to set right.
LEMMA ReclaimSound ==
  ASSUME NEW d, Sound(d), Accounted(d), NEW f, NEW r, r = Reclaim(d)
  PROVE  /\ Trimmed(d, f, r)
         /\ Accounted(r) \/ RemovedPositions(r) # {}
<1>1. PICK n \in Nat : n = Len(d.offsets)
  BY IndexLen DEF Sound
<1>2. PICK rc, s, g : Reclaims(d, n, rc, s, g) /\ r = g[rc]
  BY <1>1, ReclaimSteps
<1>3. PICK c \in Int : Len(d.syncs) = c
  BY DEF Sound, CountersSound
<1>4. /\ rc \in Nat /\ rc \in 0..n /\ s \in [1..rc -> 1..n]
      /\ g[0] = d /\ \A k \in 0..rc-1 : g[k+1] = RemoveLemmaByOffsetIndex(g[k], s[k+1])
  BY <1>2 DEF Reclaims
<1> DEFINE T == {k \in 0..rc : Trimmed(d, f, g[k])
                               /\ (Accounted(g[k]) \/ RemovedPositions(g[k]) # {})}
<1>5. 0 \in T
  <2>1. Trimmed(d, f, d)
    BY <1>3 DEF Trimmed
  <2> QED BY <1>4, <2>1
<1>6. ASSUME NEW k \in 0..rc-1, k \in T PROVE k + 1 \in T
  <2> DEFINE x == g[k]
             i == s[k+1]
             y == g[k+1]
  <2>1. Trimmed(d, f, x)
    BY <1>6
  <2>2. k + 1 \in 1..rc /\ k + 1 \in 0..rc
    BY <1>4
  <2>3. i \in 1..n
    BY <1>4, <2>2
  <2>4. y = RemoveLemmaByOffsetIndex(x, i)
    BY <1>4
  <2> HIDE DEF x, y, i
  <2>5. Sound(x) /\ i \in Indexes(x)
    BY <1>1, <2>1, <2>3 DEF Trimmed, Indexes
  <2>6. /\ Sound(y) /\ (Saved(x, f) => Saved(y, f)) /\ y.syncs_null = x.syncs_null
        /\ Len(y.offsets) = Len(x.offsets) /\ Len(y.syncs) <= Len(x.syncs)
        /\ RemovedPositions(y) = RemovedPositions(x) \cup {x.offsets[i].pos}
    BY <2>4, <2>5, RemoveSound
  <2>7. Len(y.syncs) \in Int /\ Len(x.syncs) \in Int
    BY <2>5, <2>6 DEF Sound, CountersSound
  <2>8. Len(y.syncs) <= Len(d.syncs)
    BY <1>3, <2>1, <2>6, <2>7 DEF Trimmed
  <2>9. Trimmed(d, f, y)
    BY <2>1, <2>6, <2>8 DEF Trimmed
  <2>10. RemovedPositions(y) # {}
    BY <2>6
  <2> QED BY <2>2, <2>9, <2>10 DEF y
<1> HIDE DEF T
<1>7. \A k \in 0..rc : k \in T
  BY <1>4, <1>5, <1>6, UpTo
<1>8. rc \in T
  BY <1>4, <1>7
<1> QED
  BY <1>2, <1>8 DEF T

---------------------------------------------------------------------------
\* The lemmas defragment keeps, and where it puts what begins at a position.
Kept(d) == DOMAIN d.lemmas \ RemovedPositions(d)
\* Where a position moves to when the removed blocks before it are closed.
Closed(d, pos) == SumBefore(BytesAt(d), Kept(d), pos)

\* A position moves down by the bytes of the removed lemmas before it, which leaves the bytes of
\* the kept lemmas before it.
LEMMA MovesDown ==
  ASSUME NEW d, BlockSound(d), IndexSound(d)
  PROVE  /\ \A q \in DOMAIN d.lemmas \cup {d.lemma_size} :
              q - Gone(d, q) = Closed(d, q) /\ Closed(d, q) \in Nat
         /\ \A q \in Nat : Gone(d, q) \in Nat
<1> DEFINE bytes == BytesAt(d)
           size == d.lemma_size
           L == Kept(d)
           R == RemovedPositions(d)
           A == DOMAIN d.lemmas
<1>1. /\ Blocks(bytes, size) /\ DOMAIN bytes = A /\ size \in Nat
      /\ \A p \in A : bytes[p] \in Nat
  <2>1. Blocks(bytes, size) /\ DOMAIN bytes = A
    BY SoundBlocks
  <2>2. size \in Nat /\ \A p \in DOMAIN bytes : bytes[p] \in Nat
    <3> HIDE DEF bytes, size, A
    <3> QED BY <2>1 DEF Blocks
  <2> QED BY <2>1, <2>2
<1>2. A = L \cup R /\ L \cap R = {}
  BY RemovedFinite DEF Kept
<1> HIDE DEF bytes, size, L, R, A
<1>3. ASSUME NEW q \in Nat
      PROVE  /\ SumBefore(bytes, R, q) \in Nat /\ SumBefore(bytes, L, q) \in Nat
             /\ SumBefore(bytes, A, q) = SumBefore(bytes, L, q) + SumBefore(bytes, R, q)
  <2>1. /\ \A p \in L : bytes[p] \in Nat
        /\ \A p \in R : bytes[p] \in Nat
    BY <1>1, <1>2
  <2>2. SumBefore(bytes, A, q) = SumBefore(bytes, L, q) + SumBefore(bytes, R, q)
    BY <1>1, <1>2, SumSplits
  <2>3. \A p \in R : bytes[p] \in Nat
    BY <2>1
  <2>4. SumBefore(bytes, R, q) \in Nat
    BY <2>3, SumStep
  <2>5. \A p \in L : bytes[p] \in Nat
    BY <2>1
  <2>6. SumBefore(bytes, L, q) \in Nat
    BY <2>5, SumStep
  <2> QED BY <2>2, <2>4, <2>6
<1>4. ASSUME NEW q \in A \cup {size}
      PROVE  q \in Nat /\ q - SumBefore(bytes, R, q) = SumBefore(bytes, L, q)
  <2>1. q \in Nat /\ SumBefore(bytes, A, q) = q
    <3>1. \A x \in Cuts(bytes, size) : x \in Nat /\ SumBefore(bytes, DOMAIN bytes, x) = x
      BY <1>1, SumIsCut
    <3> QED BY <1>1, <3>1 DEF Cuts
  <2> QED BY <1>3, <2>1
<1> QED
  BY <1>3, <1>4 DEF Gone, Closed, bytes, size, L, R, A

\* An entry after defragment: moved, and in the index given a new id.
Squeezed(d, e) == [e EXCEPT !.pos = @ - Gone(d, @)]
\* An entry after defragment: moved down, with the id of its place.
Renumbered(d, e, k) == [e EXCEPT !.pos = @ - Gone(d, @), !.id = k]
\* The positions entries point at.
Starts(entries) == {e.pos : e \in ToSet(entries)}
\* The bytes of the lemmas that are not removed.
InUse(d) == UNION {e.pos..(e.pos + BytesOf(d, e.pos) - 1) : e \in ToSet(LiveEntries(d.offsets))}

\* The image r is d with its live entries moved and renumbered, and what points at them moved.
Defragmented(d, r) ==
  LET live == LiveEntries(d.offsets)
      predicted == LiveEntries(d.predicts)
  IN /\ Keeps(d, r, {"offsets", "by_id", "predicts", "lemmas", "syncs", "lemma_size",
                     "size_left", "free_count", "free_size", "state"})
     /\ r.offsets = [k \in 1..Len(live) |-> Renumbered(d, live[k], k)]
     /\ r.by_id = [k \in 1..Len(live) |-> r.offsets[k].pos]
     /\ r.predicts = [k \in 1..Len(predicted) |-> Squeezed(d, predicted[k])]
     /\ r.lemmas = [pos \in Starts(r.offsets) |->
                      d.lemmas[CHOOSE p \in Starts(live) : p - Gone(d, p) = pos]]
     /\ r.syncs = [k \in DOMAIN d.syncs |->
                     IF d.syncs[k] \in InUse(d) THEN d.syncs[k] - Gone(d, d.syncs[k])
                     ELSE d.syncs[k]]
     /\ r.lemma_size = d.lemma_size - Gone(d, d.lemma_size)
     /\ r.size_left = d.size_left + Gone(d, d.lemma_size)
     /\ r.free_count = 0 /\ r.free_size = 0 /\ r.state = USER_DICT_DEFRAGMENTED

\* What defragment changes when an entry is removed.
LEMMA DefragmentFields ==
  ASSUME NEW d, Fields \subseteq DOMAIN d, RemovedPositions(d) # {}, NEW r, r = Defragment(d)
  PROVE  Defragmented(d, r)
<1> DEFINE live == LiveEntries(d.offsets)
           predicted == LiveEntries(d.predicts)
           offsets == [k \in 1..Len(live) |-> [live[k] EXCEPT !.pos = @ - Gone(d, @), !.id = k]]
           by_id == [k \in 1..Len(live) |-> offsets[k].pos]
           predicts == [k \in 1..Len(predicted) |-> [predicted[k] EXCEPT !.pos = @ - Gone(d, @)]]
           old == [pos \in {e.pos : e \in ToSet(offsets)} |->
                     CHOOSE p \in {e.pos : e \in ToSet(live)} : p - Gone(d, p) = pos]
           lemmas == [pos \in DOMAIN old |-> d.lemmas[old[pos]]]
           inUse == UNION {e.pos..(e.pos + BytesOf(d, e.pos) - 1) : e \in ToSet(live)}
           syncs == [k \in DOMAIN d.syncs |->
                       IF d.syncs[k] \in inUse THEN d.syncs[k] - Gone(d, d.syncs[k])
                       ELSE d.syncs[k]]
           size == d.lemma_size - Gone(d, d.lemma_size)
           left == d.size_left + Gone(d, d.lemma_size)
           new == [d EXCEPT !.offsets = offsets, !.by_id = by_id, !.predicts = predicts,
                            !.lemmas = lemmas, !.syncs = syncs, !.lemma_size = size,
                            !.size_left = left, !.free_count = 0, !.free_size = 0,
                            !.state = USER_DICT_DEFRAGMENTED]
<1>1. r = new
  BY DEF Defragment
<1>2. /\ offsets = [k \in 1..Len(live) |-> Renumbered(d, live[k], k)]
      /\ predicts = [k \in 1..Len(predicted) |-> Squeezed(d, predicted[k])]
  BY DEF Renumbered, Squeezed
<1>3. lemmas = [pos \in Starts(offsets) |->
                  d.lemmas[CHOOSE p \in Starts(live) : p - Gone(d, p) = pos]]
  <2> HIDE DEF offsets, live
  <2>1. Starts(offsets) = {e.pos : e \in ToSet(offsets)} /\ Starts(live) = {e.pos : e \in ToSet(live)}
    BY Zenon DEF Starts
  <2>2. /\ DOMAIN old = Starts(offsets)
        /\ \A pos \in Starts(offsets) :
             old[pos] = CHOOSE p \in Starts(live) : p - Gone(d, p) = pos
    BY <2>1, Zenon
  <2> HIDE DEF old
  <2> QED BY <2>2, Zenon
<1>4. syncs = [k \in DOMAIN d.syncs |->
                 IF d.syncs[k] \in InUse(d) THEN d.syncs[k] - Gone(d, d.syncs[k])
                 ELSE d.syncs[k]]
  BY DEF InUse
<1> HIDE DEF lemmas, syncs, predicts, offsets, size, left
<1>5. /\ Keeps(d, new, {"offsets", "by_id", "predicts", "lemmas", "syncs", "lemma_size",
                        "size_left", "free_count", "free_size", "state"})
      /\ new.offsets = offsets /\ new.by_id = by_id /\ new.predicts = predicts
      /\ new.lemmas = lemmas /\ new.syncs = syncs /\ new.lemma_size = size
      /\ new.size_left = left /\ new.free_count = 0 /\ new.free_size = 0
      /\ new.state = USER_DICT_DEFRAGMENTED
  BY DEF Keeps, Fields
<1> HIDE DEF new, live, predicted
<1> QED
  BY <1>1, <1>2, <1>3, <1>4, <1>5 DEF size, left, live, predicted, Defragmented

\* The entries of a list of n that belong to a kept lemma are those at at[1] to at[m].
Survivors(d, entries, n, m, at) ==
  /\ m \in 0..n /\ at \in [1..m -> 1..n]
  /\ \A k, l \in 1..m : at[k] = at[l] => k = l
  /\ \A k, l \in 1..m : k < l => at[k] < at[l]
  /\ \A k \in 1..m : entries[at[k]].pos \in Kept(d) /\ entries[at[k]].removed = FALSE
  /\ \A p \in Kept(d) : \E k \in 1..m : entries[at[k]].pos = p

\* They are the live entries of the list.
LiveAt(d, entries, n, m, at) ==
  /\ Survivors(d, entries, n, m, at)
  /\ LiveEntries(entries) = [k \in 1..m |-> entries[at[k]]]
  /\ Len(LiveEntries(entries)) = m
  /\ Starts(LiveEntries(entries)) = Kept(d)

\* The index and the predict list after defragment: the survivors, moved down.
IndexSqueezed(d, n, m, at, offsets) ==
  /\ Survivors(d, d.offsets, n, m, at)
  /\ Len(LiveEntries(d.offsets)) = m /\ Starts(LiveEntries(d.offsets)) = Kept(d)
  /\ offsets = [k \in 1..m |-> [pos |-> Closed(d, d.offsets[at[k]].pos), removed |-> FALSE,
                                score |-> d.offsets[at[k]].score, id |-> k]]

PredictsSqueezed(d, n, m, at, predicts) ==
  /\ Survivors(d, d.predicts, n, m, at)
  /\ predicts = [k \in 1..m |-> [pos |-> Closed(d, d.predicts[at[k]].pos), removed |-> FALSE]]

\* The block after defragment: every kept lemma, at the place it was moved to.
BlockSqueezed(d, r) ==
  /\ DOMAIN r.lemmas = {Closed(d, p) : p \in Kept(d)}
  /\ \A p \in Kept(d) : r.lemmas[Closed(d, p)] = d.lemmas[p]

\* The kept lemmas are moved to places of their own.
ClosedApart(d) == \A p, q \in Kept(d) : Closed(d, p) = Closed(d, q) => p = q
ClosedNat(d) == \A p \in Kept(d) : Closed(d, p) \in Nat

\* The entries without the removed flag are those of the kept lemmas.
LEMMA LiveSurvive ==
  ASSUME NEW d, NEW n \in Nat, NEW entries, Len(entries) = n,
         \A i \in 1..n : /\ entries[i].removed \in BOOLEAN
                         /\ ~entries[i].removed => entries[i].pos \in Kept(d),
         \A p \in Kept(d) : \E i \in 1..n : entries[i].pos = p /\ ~entries[i].removed
  PROVE  \E m, at : LiveAt(d, entries, n, m, at)
<1>1. PICK at, m, live : /\ Lists(at, m, n, entries, live)
                         /\ LiveEntries(entries) = [k \in 1..m |-> entries[at[k]]]
  BY LiveEntriesListed
<1>2. /\ m \in 0..n /\ at \in [1..m -> live]
      /\ live = {i \in 1..n : ~entries[i].removed}
      /\ \A k, l \in 1..m : at[k] = at[l] => k = l
      /\ \A k, l \in 1..m : k < l => at[k] < at[l]
      /\ \A i \in live : \E k \in 1..m : at[k] = i
  BY <1>1 DEF Lists
<1>3. at \in [1..m -> 1..n] /\ \A k \in 1..m : at[k] \in 1..n /\ ~entries[at[k]].removed
  BY <1>2
<1>4. \A k \in 1..m : entries[at[k]].pos \in Kept(d) /\ entries[at[k]].removed = FALSE
  BY <1>3
<1>5. ASSUME NEW p \in Kept(d) PROVE \E k \in 1..m : entries[at[k]].pos = p
  <2>1. PICK i \in 1..n : entries[i].pos = p /\ ~entries[i].removed
    OBVIOUS
  <2>2. PICK k \in 1..m : at[k] = i
    BY <1>2, <2>1
  <2> QED BY <2>1, <2>2
<1>6. Survivors(d, entries, n, m, at)
  BY <1>2, <1>3, <1>4, <1>5 DEF Survivors
<1>7. Len(LiveEntries(entries)) = m
  <2>1. m \in Nat
    BY <1>2
  <2>2. LiveEntries(entries) \in [1..m -> {entries[at[k]] : k \in 1..m}]
    BY <1>1
  <2> HIDE DEF LiveEntries
  <2> QED BY <2>1, <2>2
<1>8. Starts(LiveEntries(entries)) = Kept(d)
  <2>1. ToSet(LiveEntries(entries)) = {entries[at[k]] : k \in 1..m}
    BY <1>1 DEF ToSet
  <2>2. ASSUME NEW p
        PROVE  p \in Starts(LiveEntries(entries)) <=> \E k \in 1..m : entries[at[k]].pos = p
    BY <2>1 DEF Starts
  <2>3. ASSUME NEW p PROVE p \in Starts(LiveEntries(entries)) <=> p \in Kept(d)
    BY <1>4, <1>5, <2>2
  <2> QED BY <2>3
<1>9. LiveAt(d, entries, n, m, at)
  BY <1>1, <1>6, <1>7, <1>8 DEF LiveAt
<1> QED
  BY <1>9

\* An entry without the removed flag belongs to a kept lemma, and every kept lemma has one.
LEMMA KeptEntries ==
  ASSUME NEW d, IndexSound(d)
  PROVE  /\ \A i \in Indexes(d) : ~d.offsets[i].removed <=> d.offsets[i].pos \in Kept(d)
         /\ \A p \in Kept(d) : \E i \in Indexes(d) : d.offsets[i].pos = p /\ ~d.offsets[i].removed
<1>1. /\ DOMAIN d.lemmas = {d.offsets[i].pos : i \in Indexes(d)}
      /\ \A i, j \in Indexes(d) : d.offsets[i].pos = d.offsets[j].pos => i = j
  BY DEF IndexSound
<1>2. \A p : p \in RemovedPositions(d) <=>
              \E i \in Indexes(d) : d.offsets[i].removed /\ p = d.offsets[i].pos
  BY DEF RemovedPositions
<1>3. ASSUME NEW i \in Indexes(d)
      PROVE  ~d.offsets[i].removed <=> d.offsets[i].pos \in Kept(d)
  <2>1. d.offsets[i].pos \in DOMAIN d.lemmas
    BY <1>1
  <2>2. d.offsets[i].removed <=> d.offsets[i].pos \in RemovedPositions(d)
    BY <1>1, <1>2
  <2> QED BY <2>1, <2>2 DEF Kept
<1>4. ASSUME NEW p \in Kept(d)
      PROVE  \E i \in Indexes(d) : d.offsets[i].pos = p /\ ~d.offsets[i].removed
  <2>1. PICK i \in Indexes(d) : d.offsets[i].pos = p
    BY <1>1 DEF Kept
  <2> QED BY <1>3, <2>1
<1> QED
  BY <1>3, <1>4

\* The index after defragment, entry by entry.
LEMMA SqueezedIndex ==
  ASSUME NEW d, BlockSound(d), IndexSound(d), NEW n \in Nat, n = Len(d.offsets), NEW offsets,
         offsets = [k \in 1..Len(LiveEntries(d.offsets)) |->
                      Renumbered(d, LiveEntries(d.offsets)[k], k)]
  PROVE  \E m, at : IndexSqueezed(d, n, m, at, offsets)
<1> DEFINE s == d.offsets
           live == LiveEntries(s)
<1>1. Indexes(d) = 1..n
  BY DEF Indexes
<1>2. s \in [1..n -> IndexRecords(n)]
  BY <1>1 DEF IndexSound, IndexRecords
<1>3. PICK m, at : /\ Survivors(d, s, n, m, at)
                   /\ live = [k \in 1..m |-> s[at[k]]]
                   /\ Len(live) = m
                   /\ Starts(live) = Kept(d)
  <2>1. \A i \in 1..n : /\ s[i].removed \in BOOLEAN
                        /\ ~s[i].removed => s[i].pos \in Kept(d)
    BY <1>1, <1>2, KeptEntries DEF IndexRecords
  <2>2. \A p \in Kept(d) : \E i \in 1..n : s[i].pos = p /\ ~s[i].removed
    BY <1>1, KeptEntries
  <2>3. Len(s) = n
    OBVIOUS
  <2> HIDE DEF s
  <2>4. \E m, at : LiveAt(d, s, n, m, at)
    BY <2>1, <2>2, <2>3, LiveSurvive, Zenon
  <2> QED BY <2>4, Zenon DEF LiveAt
<1> HIDE DEF live
<1>4. ASSUME NEW k \in 1..m
      PROVE  Renumbered(d, live[k], k) =
               [pos |-> Closed(d, s[at[k]].pos), removed |-> FALSE, score |-> s[at[k]].score, id |-> k]
  <2> DEFINE e == s[at[k]]
             D == {"pos", "removed", "score", "id"}
             t == [e EXCEPT !.pos = @ - Gone(d, @), !.id = k]
  <2>1. at[k] \in 1..n /\ e.pos \in Kept(d) /\ e.removed = FALSE
    BY <1>3 DEF Survivors
  <2>2. e \in IndexRecords(n)
    BY <1>2, <2>1
  <2>3. e = [x \in D |-> e[x]]
    BY <2>2 DEF IndexRecords
  <2>4. e.pos - Gone(d, e.pos) = Closed(d, e.pos)
    <3>1. e.pos \in DOMAIN d.lemmas \cup {d.lemma_size}
      BY <2>1 DEF Kept
    <3> QED BY <3>1, MovesDown
  <2> HIDE DEF e
  <2>5. /\ t = [x \in D |-> t[x]] /\ t.pos = e.pos - Gone(d, e.pos) /\ t.id = k
        /\ t.removed = e.removed /\ t.score = e.score
    BY <2>3
  <2> HIDE DEF t
  <2>6. t = [pos |-> t.pos, removed |-> t.removed, score |-> t.score, id |-> t.id]
    BY <2>5
  <2>7. t = [pos |-> Closed(d, e.pos), removed |-> FALSE, score |-> e.score, id |-> k]
    BY <2>1, <2>4, <2>5, <2>6
  <2>8. live[k] = e
    BY <1>3 DEF e
  <2>9. Renumbered(d, live[k], k) = t
    BY <2>8 DEF Renumbered, t
  <2> QED BY <2>7, <2>9 DEF e
<1>5. offsets = [k \in 1..m |-> Renumbered(d, live[k], k)]
  BY <1>3 DEF live
<1>6. offsets = [k \in 1..m |-> [pos |-> Closed(d, s[at[k]].pos), removed |-> FALSE,
                                 score |-> s[at[k]].score, id |-> k]]
  BY <1>4, <1>5
<1>7. IndexSqueezed(d, n, m, at, offsets)
  BY <1>3, <1>6 DEF live, IndexSqueezed
<1> QED
  BY <1>7

\* The predict list after defragment, entry by entry.
LEMMA SqueezedPredicts ==
  ASSUME NEW d, BlockSound(d), IndexSound(d), PredictsSound(d), NEW n \in Nat,
         n = Len(d.predicts), NEW predicts,
         predicts = [k \in 1..Len(LiveEntries(d.predicts)) |->
                       Squeezed(d, LiveEntries(d.predicts)[k])]
  PROVE  \E m, at : PredictsSqueezed(d, n, m, at, predicts)
<1> DEFINE s == d.predicts
           live == LiveEntries(s)
<1>1. /\ s \in [1..n -> FlagRecords]
      /\ \A k \in 1..n : \E i \in Indexes(d) : s[k] = FlagOf(d.offsets[i])
      /\ \A i \in Indexes(d) : \E k \in 1..n : s[k] = FlagOf(d.offsets[i])
  BY DEF PredictsSound, FlagRecords
<1>2. \A k \in 1..n : /\ s[k].removed \in BOOLEAN
                      /\ ~s[k].removed => s[k].pos \in Kept(d)
  <2>1. ASSUME NEW k \in 1..n, ~s[k].removed PROVE s[k].pos \in Kept(d)
    <3>1. PICK i \in Indexes(d) : s[k] = FlagOf(d.offsets[i])
      BY <1>1
    <3>2. s[k].pos = d.offsets[i].pos /\ s[k].removed = d.offsets[i].removed
      BY <3>1 DEF FlagOf
    <3> QED BY <2>1, <3>2, KeptEntries
  <2> QED BY <1>1, <2>1 DEF FlagRecords
<1>3. \A p \in Kept(d) : \E k \in 1..n : s[k].pos = p /\ ~s[k].removed
  <2>1. ASSUME NEW p \in Kept(d) PROVE \E k \in 1..n : s[k].pos = p /\ ~s[k].removed
    <3>1. PICK i \in Indexes(d) : d.offsets[i].pos = p /\ ~d.offsets[i].removed
      BY KeptEntries
    <3>2. PICK k \in 1..n : s[k] = FlagOf(d.offsets[i])
      BY <1>1
    <3> QED BY <3>1, <3>2 DEF FlagOf
  <2> QED BY <2>1
<1>4. PICK m, at : /\ Survivors(d, s, n, m, at)
                   /\ live = [k \in 1..m |-> s[at[k]]]
                   /\ Len(live) = m
  <2>1. Len(s) = n
    OBVIOUS
  <2> HIDE DEF s
  <2>2. \E m, at : LiveAt(d, s, n, m, at)
    BY <1>2, <1>3, <2>1, LiveSurvive, Zenon
  <2> QED BY <2>2, Zenon DEF LiveAt
<1> HIDE DEF live
<1>5. ASSUME NEW k \in 1..m
      PROVE  Squeezed(d, live[k]) = [pos |-> Closed(d, s[at[k]].pos), removed |-> FALSE]
  <2> DEFINE e == s[at[k]]
             D == {"pos", "removed"}
             t == [e EXCEPT !.pos = @ - Gone(d, @)]
  <2>1. at[k] \in 1..n /\ e.pos \in Kept(d) /\ e.removed = FALSE
    BY <1>4 DEF Survivors
  <2>2. e \in FlagRecords
    BY <1>1, <2>1
  <2>3. e = [x \in D |-> e[x]]
    BY <2>2 DEF FlagRecords
  <2>4. e.pos - Gone(d, e.pos) = Closed(d, e.pos)
    <3>1. e.pos \in DOMAIN d.lemmas \cup {d.lemma_size}
      BY <2>1 DEF Kept
    <3> QED BY <3>1, MovesDown
  <2> HIDE DEF e
  <2>5. /\ t = [x \in D |-> t[x]] /\ t.pos = e.pos - Gone(d, e.pos) /\ t.removed = e.removed
    BY <2>3
  <2> HIDE DEF t
  <2>6. t = [pos |-> t.pos, removed |-> t.removed]
    BY <2>5
  <2>7. t = [pos |-> Closed(d, e.pos), removed |-> FALSE]
    BY <2>1, <2>4, <2>5, <2>6
  <2>8. live[k] = e
    BY <1>4 DEF e
  <2>9. Squeezed(d, live[k]) = t
    BY <2>8 DEF Squeezed, t
  <2> QED BY <2>7, <2>9 DEF e
<1>6. predicts = [k \in 1..m |-> Squeezed(d, live[k])]
  BY <1>4 DEF live
<1>7. predicts = [k \in 1..m |-> [pos |-> Closed(d, s[at[k]].pos), removed |-> FALSE]]
  BY <1>5, <1>6
<1>8. PredictsSqueezed(d, n, m, at, predicts)
  BY <1>4, <1>7 DEF PredictsSqueezed
<1> QED
  BY <1>8

\* No two kept lemmas are moved to one place.
LEMMA ClosedInjective ==
  ASSUME NEW d, BlockSound(d), NEW p \in Kept(d), NEW q \in Kept(d), p < q
  PROVE  Closed(d, p) < Closed(d, q)
<1> DEFINE bytes == BytesAt(d)
           size == d.lemma_size
           L == Kept(d)
<1>1. Blocks(bytes, size) /\ DOMAIN bytes = DOMAIN d.lemmas
  BY SoundBlocks
<1>2. L \subseteq DOMAIN bytes /\ p \in L /\ q \in L
  BY <1>1 DEF Kept
<1> HIDE DEF bytes, size, L
<1>3. \A x \in L : bytes[x] \in Nat
  BY <1>1, <1>2 DEF Blocks
<1>4. p + bytes[p] <= q /\ p \in Nat /\ q \in Nat
  <2>1. p \in DOMAIN bytes /\ q \in DOMAIN bytes /\ DOMAIN bytes \subseteq Nat
    BY <1>1, <1>2 DEF Blocks
  <2>2. \A x, y \in DOMAIN bytes : x < y => x + bytes[x] <= y
    BY <1>1 DEF Blocks, Tiled
  <2> QED BY <2>1, <2>2
<1>5. /\ p + bytes[p] \in Nat /\ bytes[p] > 0 /\ bytes[p] \in Nat
      /\ SumBefore(bytes, L, p) \in Nat
      /\ SumBefore(bytes, L, p + bytes[p]) = SumBefore(bytes, L, p) + bytes[p]
  <2>1. p \in DOMAIN bytes
    BY <1>2
  <2> QED BY <1>1, <1>2, <2>1, SumOverBlock
<1>6. SumBefore(bytes, L, p + bytes[p]) <= SumBefore(bytes, L, q)
  BY <1>3, <1>4, <1>5, SumGrows
<1>7. SumBefore(bytes, L, q) \in Nat
  BY <1>3, <1>4, SumStep
<1>8. SumBefore(bytes, L, p) < SumBefore(bytes, L, q)
  BY <1>5, <1>6, <1>7
<1> QED
  BY <1>8 DEF Closed, bytes, L

\* The block after defragment: the kept lemmas, side by side.
LEMMA SqueezedBlock ==
  ASSUME NEW d, BlockSound(d), IndexSound(d), NEW n \in Nat, NEW m, NEW at,
         NEW r, IndexSqueezed(d, n, m, at, r.offsets),
         r.lemmas = [pos \in Starts(r.offsets) |->
                       d.lemmas[CHOOSE p \in Kept(d) : p - Gone(d, p) = pos]],
         r.lemma_size = d.lemma_size - Gone(d, d.lemma_size)
  PROVE  BlockSound(r) /\ ClosedApart(d) /\ BlockSqueezed(d, r)
<1> DEFINE bytes == BytesAt(d)
           size == d.lemma_size
           L == Kept(d)
           S(p) == Closed(d, p)
<1>1. /\ Blocks(bytes, size) /\ DOMAIN bytes = DOMAIN d.lemmas /\ size \in Nat
      /\ DOMAIN d.lemmas \subseteq Nat
      /\ \A p \in DOMAIN d.lemmas : bytes[p] = BytesOf(d, p) /\ d.lemmas[p] \in Lemmas
  BY SoundBlocks DEF BlockSound
<1>2. L \subseteq DOMAIN bytes /\ L \subseteq DOMAIN d.lemmas /\ L \subseteq Nat
  BY <1>1 DEF Kept
<1>3. \A p, q \in L : S(p) = S(q) => p = q
  <2>1. ASSUME NEW p \in L, NEW q \in L, p < q PROVE S(p) < S(q) /\ S(p) \in Nat /\ S(q) \in Nat
    <3>1. p \in DOMAIN d.lemmas \cup {size} /\ q \in DOMAIN d.lemmas \cup {size}
      BY <1>2
    <3> QED BY <2>1, <3>1, ClosedInjective, MovesDown
  <2> HIDE DEF S, L
  <2>2. \A p, q \in L : p < q \/ q < p \/ p = q
    BY <1>2
  <2> QED BY <2>1, <2>2
<1>4. \A p \in L : p - Gone(d, p) = S(p) /\ S(p) \in Nat
  BY <1>2, MovesDown
<1>5. r.lemma_size = S(size) /\ S(size) \in Nat
  BY MovesDown
<1>6. Starts(r.offsets) = {S(p) : p \in L}
  <2>1. /\ \A k \in 1..m : d.offsets[at[k]].pos \in L
        /\ \A p \in L : \E k \in 1..m : d.offsets[at[k]].pos = p
    BY DEF IndexSqueezed, Survivors
  <2>2. /\ DOMAIN r.offsets = 1..m
        /\ \A k \in 1..m : r.offsets[k].pos = S(d.offsets[at[k]].pos)
    BY DEF IndexSqueezed
  <2> HIDE DEF S, L
  <2>3. ASSUME NEW x PROVE x \in Starts(r.offsets) <=> \E k \in 1..m : x = r.offsets[k].pos
    <3> DEFINE t == r.offsets
    <3> HIDE DEF t
    <3>1. x \in Starts(t) <=> \E k \in DOMAIN t : x = t[k].pos
      BY DEF Starts, ToSet
    <3> QED BY <2>2, <3>1 DEF t
  <2>4. ASSUME NEW x, NEW p \in L, x = S(p) PROVE \E k \in 1..m : x = r.offsets[k].pos
    <3>1. PICK k \in 1..m : d.offsets[at[k]].pos = p
      BY <2>1
    <3> QED BY <2>2, <2>4, <3>1
  <2>5. ASSUME NEW x, NEW k \in 1..m, x = r.offsets[k].pos PROVE \E p \in L : x = S(p)
    BY <2>1, <2>2, <2>5
  <2>6. ASSUME NEW x PROVE x \in Starts(r.offsets) <=> x \in {S(p) : p \in L}
    BY <2>3, <2>4, <2>5
  <2> QED BY <2>6
<1>7. ASSUME NEW p \in L
      PROVE  r.lemmas[S(p)] = d.lemmas[p] /\ d.lemmas[p] \in Lemmas
  <2> DEFINE c == CHOOSE x \in L : x - Gone(d, x) = S(p)
  <2>1. c \in L /\ c - Gone(d, c) = S(p)
    BY <1>4
  <2>2. S(c) = S(p)
    BY <1>4, <2>1
  <2>3. c = p
    BY <1>3, <2>1, <2>2
  <2>4. r.lemmas[S(p)] = d.lemmas[c]
    BY <1>6
  <2> HIDE DEF c
  <2> QED BY <1>1, <1>2, <2>3, <2>4
<1>8. DOMAIN r.lemmas = {S(p) : p \in L}
  BY <1>6
<1> DEFINE closed == BytesAt(r)
<1>9. DOMAIN closed = {S(p) : p \in L}
  BY <1>8 DEF BytesAt
<1>10. \A p \in L : closed[S(p)] = bytes[p]
  <2>1. ASSUME NEW p \in L PROVE closed[S(p)] = bytes[p]
    <3>1. BytesOf(r, S(p)) = BytesOf(d, p)
      BY <1>7 DEF BytesOf
    <3>2. closed[S(p)] = BytesOf(r, S(p))
      BY <1>8 DEF BytesAt
    <3> QED BY <1>1, <1>2, <3>1, <3>2
  <2> QED BY <2>1
<1>11. closed \in [{S(p) : p \in L} -> Nat]
  <2>1. \A p \in L : bytes[p] \in Nat
    <3> HIDE DEF bytes, L
    <3> QED BY <1>1, <1>2 DEF Blocks
  <2>2. closed = [x \in DOMAIN r.lemmas |-> BytesOf(r, x)]
    BY DEF BytesAt
  <2> HIDE DEF bytes, L, S
  <2>3. \A x \in {S(p) : p \in L} : closed[x] \in Nat
    BY <1>10, <2>1
  <2> HIDE DEF closed
  <2> QED BY <1>8, <2>2, <2>3
<1>12. Blocks(closed, S(size))
  <2>1. closed \in [{SumBefore(bytes, L, p) : p \in L} -> Nat]
    BY <1>11 DEF Closed
  <2>2. \A p \in L : closed[SumBefore(bytes, L, p)] = bytes[p]
    BY <1>10 DEF Closed
  <2> HIDE DEF closed, bytes, L
  <2>3. Blocks(closed, SumBefore(bytes, L, size))
    BY <1>1, <1>2, <2>1, <2>2, CloseUp
  <2> QED BY <2>3 DEF Closed, bytes, L
<1>13. r.lemmas \in [DOMAIN r.lemmas -> Lemmas] /\ DOMAIN r.lemmas \subseteq Nat
  <2>1. DOMAIN r.lemmas \subseteq Nat
    BY <1>4, <1>8
  <2>2. \A x \in DOMAIN r.lemmas : r.lemmas[x] \in Lemmas
    <3>1. ASSUME NEW x \in DOMAIN r.lemmas PROVE r.lemmas[x] \in Lemmas
      <4>1. PICK p \in L : x = S(p)
        BY <1>8
      <4> QED BY <1>7, <4>1
    <3> QED BY <3>1
  <2>3. r.lemmas = [x \in DOMAIN r.lemmas |-> r.lemmas[x]]
    OBVIOUS
  <2> QED BY <2>1, <2>2, <2>3
<1>14. BlockSound(r)
  BY <1>5, <1>12, <1>13 DEF BlockSound, Blocks
<1> HIDE DEF S, L
<1> QED
  BY <1>3, <1>7, <1>8, <1>14 DEF S, L, ClosedApart, BlockSqueezed

\* The ids are given anew, in the order of the index.
Numbered(m, r) == r.by_id = [k \in 1..m |-> r.offsets[k].pos]

\* The index after defragment is sound: ids are given anew, and positions stay distinct.
LEMMA DefragmentedIndex ==
  ASSUME NEW d, IndexSound(d), NEW n \in Nat, n = Len(d.offsets), NEW m, NEW at,
         NEW r, IndexSqueezed(d, n, m, at, r.offsets), Numbered(m, r),
         ClosedNat(d), ClosedApart(d), BlockSqueezed(d, r)
  PROVE  /\ IndexSound(r) /\ Len(r.offsets) = m /\ m <= n /\ Indexes(r) = 1..m
         /\ RemovedPositions(r) = {}
<1> DEFINE s == d.offsets
           S(p) == Closed(d, p)
           L == Kept(d)
           t == r.offsets
<1>1. /\ m \in 0..n /\ at \in [1..m -> 1..n]
      /\ \A k, l \in 1..m : at[k] = at[l] => k = l
      /\ \A k \in 1..m : s[at[k]].pos \in L
      /\ \A p \in L : \E k \in 1..m : s[at[k]].pos = p
  BY DEF IndexSqueezed, Survivors
<1>2. /\ s \in [1..n -> IndexRecords(n)]
      /\ \A i, j \in 1..n : s[i].pos = s[j].pos => i = j
      /\ n <= MaxLemmas
  <2>1. Indexes(d) = 1..n
    BY DEF Indexes
  <2>2. n <= MaxLemmas
    BY SizesAssumption DEF IndexSound
  <2>3. /\ s \in [Indexes(d) -> IndexRecords(n)]
        /\ \A i, j \in Indexes(d) : s[i].pos = s[j].pos => i = j
    BY <2>1, Zenon DEF IndexSound, IndexRecords
  <2> QED BY <2>1, <2>2, <2>3
<1>3. t = [k \in 1..m |-> [pos |-> S(s[at[k]].pos), removed |-> FALSE,
                           score |-> s[at[k]].score, id |-> k]]
  BY Zenon DEF IndexSqueezed
<1>17. /\ \A p \in L : S(p) \in Nat
       /\ \A p, q \in L : S(p) = S(q) => p = q
       /\ DOMAIN r.lemmas = {S(p) : p \in L}
  BY Zenon DEF ClosedNat, ClosedApart, BlockSqueezed
<1>13. r.by_id = [k \in 1..m |-> t[k].pos]
  BY Zenon DEF Numbered
<1> HIDE DEF s, S, L, t
<1>4. DOMAIN t = 1..m /\ t = [k \in 1..m |-> t[k]]
  BY <1>3
<1>18. \A k \in 1..m : /\ t[k].pos = S(s[at[k]].pos) /\ t[k].removed = FALSE
                       /\ t[k].score = s[at[k]].score /\ t[k].id = k
  BY <1>3
<1>5. m \in Nat /\ m \in 0..MaxLemmas
  BY <1>1, <1>2, SizesAssumption
<1>6. \A k \in 1..m : t[k] \in IndexRecords(m)
  <2>1. ASSUME NEW k \in 1..m PROVE t[k] \in IndexRecords(m)
    <3>1. s[at[k]].score \in Scores
      BY <1>1, <1>2 DEF IndexRecords
    <3>2. S(s[at[k]].pos) \in Nat
      BY <1>1, <1>17
    <3> QED BY <1>3, <3>1, <3>2 DEF IndexRecords
  <2> QED BY <2>1
<1>7. t \in [1..m -> IndexRecords(m)]
  BY <1>4, <1>6
<1>8. Len(t) = m
  BY <1>5, <1>7
<1>9. Indexes(r) = 1..m
  BY <1>8 DEF Indexes, t
<1>10. ASSUME NEW k \in 1..m, NEW l \in 1..m, t[k].pos = t[l].pos PROVE k = l
  <2>1. S(s[at[k]].pos) = S(s[at[l]].pos)
    <3>1. t[k].pos = S(s[at[k]].pos) /\ t[l].pos = S(s[at[l]].pos)
      BY <1>18
    <3> QED BY <1>10, <3>1
  <2>2. s[at[k]].pos = s[at[l]].pos
    <3>1. s[at[k]].pos \in L /\ s[at[l]].pos \in L
      BY <1>1
    <3> QED BY <1>17, <2>1, <3>1
  <2>3. at[k] \in 1..n /\ at[l] \in 1..n
    BY <1>1
  <2> QED BY <1>1, <1>2, <2>2, <2>3, Zenon
<1>11. \A k \in 1..m : t[k].id = k
  BY <1>18, Zenon
<1>12. DOMAIN r.lemmas = {t[k].pos : k \in 1..m}
  <2>1. ASSUME NEW x, NEW p \in L, x = S(p) PROVE \E k \in 1..m : x = t[k].pos
    <3>1. PICK k \in 1..m : s[at[k]].pos = p
      BY <1>1, Zenon
    <3> QED BY <1>18, <2>1, <3>1, Zenon
  <2>2. ASSUME NEW x, NEW k \in 1..m, x = t[k].pos PROVE \E p \in L : x = S(p)
    <3>1. s[at[k]].pos \in L /\ x = S(s[at[k]].pos)
      BY <1>1, <1>18, <2>2
    <3> QED BY <3>1
  <2>3. ASSUME NEW x PROVE x \in DOMAIN r.lemmas <=> \E p \in L : x = S(p)
    BY <1>17
  <2>4. ASSUME NEW x PROVE x \in {t[k].pos : k \in 1..m} <=> \E k \in 1..m : x = t[k].pos
    OBVIOUS
  <2>5. ASSUME NEW x PROVE x \in DOMAIN r.lemmas <=> x \in {t[k].pos : k \in 1..m}
    BY <2>1, <2>2, <2>3, <2>4, Zenon
  <2> QED BY <2>5, Zenon
<1>14. r.by_id \in [1..m -> Nat] /\ \A k \in 1..m : r.by_id[t[k].id] = t[k].pos
  BY <1>6, <1>11, <1>13 DEF IndexRecords
<1>15. IndexSound(r)
  <2>1. \A k, l \in 1..m : t[k].id = t[l].id => k = l
    BY <1>11
  <2>2. \A id \in 1..m : \E k \in 1..m : t[k].id = id
    BY <1>11
  <2>3. t = r.offsets
    BY DEF t
  <2>4. \A k, l \in 1..m : t[k].pos = t[l].pos => k = l
    BY <1>10
  <2>5. /\ Len(r.offsets) \in 0..MaxLemmas
        /\ r.offsets \in [Indexes(r) -> [pos : Nat, removed : BOOLEAN, score : Scores,
                                         id : Indexes(r)]]
        /\ DOMAIN r.lemmas = {r.offsets[k].pos : k \in Indexes(r)}
        /\ r.by_id \in [Indexes(r) -> Nat]
    <3>1. Len(r.offsets) \in 0..MaxLemmas
      BY <1>5, <1>8, <2>3
    <3>2. t \in [1..m -> [pos : Nat, removed : BOOLEAN, score : Scores, id : 1..m]]
      BY <1>7, Zenon DEF IndexRecords
    <3>3. ASSUME NEW N, N = 1..m
          PROVE  /\ t \in [N -> [pos : Nat, removed : BOOLEAN, score : Scores, id : N]]
                 /\ DOMAIN r.lemmas = {t[k].pos : k \in N} /\ r.by_id \in [N -> Nat]
      BY <1>12, <1>14, <3>2, <3>3
    <3> QED BY <1>9, <3>1, <3>3, Zenon DEF t
  <2>6. /\ \A k, l \in Indexes(r) : r.offsets[k].pos = r.offsets[l].pos => k = l
        /\ \A k, l \in Indexes(r) : r.offsets[k].id = r.offsets[l].id => k = l
        /\ \A id \in Indexes(r) : \E k \in Indexes(r) : r.offsets[k].id = id
        /\ \A k \in Indexes(r) : r.by_id[r.offsets[k].id] = r.offsets[k].pos
    BY <1>9, <1>14, <2>1, <2>2, <2>3, <2>4, Zenon
  <2> QED BY <2>5, <2>6, Zenon DEF IndexSound
<1>16. RemovedPositions(r) = {}
  BY <1>3, <1>9 DEF RemovedPositions, t
<1> QED
  BY <1>1, <1>5, <1>8, <1>9, <1>15, <1>16 DEF t

\* The predict list after defragment is sound.
LEMMA DefragmentedPredicts ==
  ASSUME NEW d, PredictsSound(d), NEW n \in Nat, NEW m, NEW at,
         NEW pn \in Nat, pn = Len(d.predicts), NEW pm, NEW pt, NEW r, Indexes(r) = 1..m,
         IndexSqueezed(d, n, m, at, r.offsets), PredictsSqueezed(d, pn, pm, pt, r.predicts),
         ClosedNat(d), ClosedApart(d)
  PROVE  PredictsSound(r)
<1> DEFINE S(p) == Closed(d, p)
           L == Kept(d)
           o(k) == d.offsets[at[k]].pos
           s(k) == d.predicts[pt[k]].pos
           c(k) == r.offsets[k]
           t == r.predicts
<1>1. /\ \A k \in 1..m : o(k) \in L
      /\ \A p \in L : \E k \in 1..m : o(k) = p
  BY Zenon DEF Survivors, IndexSqueezed
<1>2. /\ pm \in 0..pn /\ pt \in [1..pm -> 1..pn]
      /\ \A k, l \in 1..pm : pt[k] = pt[l] => k = l
      /\ \A k \in 1..pm : s(k) \in L
      /\ \A p \in L : \E k \in 1..pm : s(k) = p
  BY Zenon DEF Survivors, PredictsSqueezed
<1>3. \A k, l \in 1..pn : d.predicts[k].pos = d.predicts[l].pos => k = l
  BY DEF PredictsSound
<1>4. ASSUME NEW k \in 1..pm, NEW l \in 1..pm, s(k) = s(l) PROVE k = l
  <2>1. pt[k] \in 1..pn /\ pt[l] \in 1..pn
    BY <1>2
  <2>2. pt[k] = pt[l]
    BY <1>3, <1>4, <2>1, Zenon
  <2> QED BY <1>2, <2>2, Zenon
<1>5. \A k \in 1..m : FlagOf(c(k)) = [pos |-> S(o(k)), removed |-> FALSE]
  <2>1. r.offsets = [k \in 1..m |-> [pos |-> Closed(d, d.offsets[at[k]].pos), removed |-> FALSE,
                                     score |-> d.offsets[at[k]].score, id |-> k]]
    BY Zenon DEF IndexSqueezed
  <2>2. ASSUME NEW k \in 1..m
        PROVE  r.offsets[k].pos = Closed(d, d.offsets[at[k]].pos) /\ r.offsets[k].removed = FALSE
    BY <2>1
  <2> QED BY <2>2, Zenon DEF FlagOf
<1>17. t = [k \in 1..pm |-> [pos |-> S(s(k)), removed |-> FALSE]]
  BY Zenon DEF PredictsSqueezed
<1>7. /\ \A p \in L : S(p) \in Nat
      /\ \A p, q \in L : S(p) = S(q) => p = q
  BY Zenon DEF ClosedNat, ClosedApart
<1> HIDE DEF t, S, L, s, o, c
<1>6. /\ DOMAIN t = 1..pm /\ t = [k \in 1..pm |-> t[k]]
      /\ \A k \in 1..pm : t[k] = [pos |-> S(s(k)), removed |-> FALSE]
  BY <1>17
<1>8. t \in [1..pm -> FlagRecords]
  <2>1. ASSUME NEW k \in 1..pm PROVE t[k] \in FlagRecords
    <3>1. S(s(k)) \in Nat
      BY <1>2, <1>7
    <3>2. t[k] = [pos |-> S(s(k)), removed |-> FALSE]
      BY <1>6
    <3>3. \A p \in Nat : [pos |-> p, removed |-> FALSE] \in FlagRecords
      BY DEF FlagRecords
    <3> QED BY <3>1, <3>2, <3>3, Zenon
  <2> QED BY <1>6, <2>1
<1>9. pm \in Nat /\ Len(t) = pm
  BY <1>2, <1>8
<1>10. ASSUME NEW k \in 1..pm PROVE \E i \in 1..m : t[k] = FlagOf(c(i))
  <2>1. PICK i \in 1..m : o(i) = s(k)
    BY <1>1, <1>2
  <2> QED BY <1>5, <1>6, <2>1
<1>11. ASSUME NEW i \in 1..m PROVE \E k \in 1..pm : t[k] = FlagOf(c(i))
  <2>1. PICK k \in 1..pm : s(k) = o(i)
    BY <1>1, <1>2
  <2> QED BY <1>5, <1>6, <2>1
<1>12. ASSUME NEW k \in 1..pm, NEW l \in 1..pm, t[k].pos = t[l].pos PROVE k = l
  <2>1. S(s(k)) = S(s(l))
    BY <1>6, <1>12
  <2> QED BY <1>2, <1>4, <1>7, <2>1
<1>13. /\ Len(r.predicts) \in Nat
       /\ r.predicts \in [1..Len(r.predicts) -> FlagRecords]
  BY <1>8, <1>9 DEF t
<1>14. \A k \in 1..Len(r.predicts) : \E i \in Indexes(r) : r.predicts[k] = FlagOf(r.offsets[i])
  BY <1>9, <1>10 DEF t, c
<1>15. \A i \in Indexes(r) : \E k \in 1..Len(r.predicts) : r.predicts[k] = FlagOf(r.offsets[i])
  BY <1>9, <1>11 DEF t, c
<1>16. \A k, l \in 1..Len(r.predicts) : r.predicts[k].pos = r.predicts[l].pos => k = l
  BY <1>9, <1>12 DEF t
<1> QED
  BY Zenon, <1>13, <1>14, <1>15, <1>16 DEF PredictsSound, FlagRecords

\* What an image must be for a write of it to be right: sound but for the caches.
Storable(d) ==
  /\ Fields \subseteq DOMAIN d /\ BlockSound(d) /\ IndexSound(d) /\ PredictsSound(d)
  /\ CountersSound(d) /\ Accounted(d)

\* The entries of the index that defragment leaves, and where it puts their lemmas.
DefragmentLists(d, n, m, at, r) ==
  /\ IndexSqueezed(d, n, m, at, r.offsets) /\ BlockSqueezed(d, r)
  /\ BlockSound(r) /\ ClosedApart(d)

\* There are such entries.
LEMMA DefragmentLeaves ==
  ASSUME NEW d, Sound(d), RemovedPositions(d) # {}, NEW n \in Nat, n = Len(d.offsets),
         NEW r, r = Defragment(d)
  PROVE  \E m, at : DefragmentLists(d, n, m, at, r)
<1> DEFINE live == LiveEntries(d.offsets)
<1>1. BlockSound(d) /\ IndexSound(d) /\ Fields \subseteq DOMAIN d
  BY DEF Sound
<1>2. /\ r.offsets = [k \in 1..Len(live) |-> Renumbered(d, live[k], k)]
      /\ r.lemmas = [pos \in Starts(r.offsets) |->
                       d.lemmas[CHOOSE p \in Starts(live) : p - Gone(d, p) = pos]]
      /\ r.lemma_size = d.lemma_size - Gone(d, d.lemma_size)
  <2>1. Defragmented(d, r)
    BY <1>1, DefragmentFields, Zenon
  <2> QED BY <2>1, Zenon DEF Defragmented
<1> HIDE DEF live
<1>3. PICK m, at : IndexSqueezed(d, n, m, at, r.offsets)
  <2>1. r.offsets = [k \in 1..Len(LiveEntries(d.offsets)) |->
                       Renumbered(d, LiveEntries(d.offsets)[k], k)]
    BY <1>2, Zenon DEF live
  <2> QED BY <1>1, <2>1, SqueezedIndex, Zenon
<1>4. Starts(live) = Kept(d)
  BY <1>3, Zenon DEF live, IndexSqueezed
<1>5. BlockSound(r) /\ ClosedApart(d) /\ BlockSqueezed(d, r)
  <2>1. r.lemmas = [pos \in Starts(r.offsets) |->
                      d.lemmas[CHOOSE p \in Kept(d) : p - Gone(d, p) = pos]]
    BY <1>2, <1>4
  <2>2. r.lemma_size = d.lemma_size - Gone(d, d.lemma_size)
    BY <1>2
  <2> QED BY <1>1, <1>3, <2>1, <2>2, SqueezedBlock, Zenon
<1> QED
  BY <1>3, <1>5, Zenon DEF DefragmentLists

\* defragment keeps an image fit to be written, and frees the bytes of every removed lemma.
LEMMA DefragmentSound ==
  ASSUME NEW d, Sound(d), Accounted(d) \/ RemovedPositions(d) # {}, NEW f, Saved(d, f),
         NEW r, r = Defragment(d)
  PROVE  /\ Storable(r) /\ Saved(r, f) /\ r.syncs_null = d.syncs_null
         /\ Len(r.offsets) <= Len(d.offsets) /\ Len(r.syncs) = Len(d.syncs)
<1>1. PICK n \in Nat : n = Len(d.offsets)
  BY IndexLen DEF Sound
<1>2. /\ BlockSound(d) /\ IndexSound(d) /\ PredictsSound(d) /\ CountersSound(d)
      /\ Fields \subseteq DOMAIN d
  BY DEF Sound
<1>3. CASE RemovedPositions(d) = {}
  <2>1. r = d
    BY <1>3 DEF Defragment
  <2>2. Len(d.offsets) <= Len(d.offsets)
    BY <1>1
  <2> QED BY <1>2, <1>3, <2>1, <2>2 DEF Storable
<1>4. CASE RemovedPositions(d) # {}
  <2> DEFINE live == LiveEntries(d.offsets)
             predicted == LiveEntries(d.predicts)
  <2>1. /\ Keeps(d, r, {"offsets", "by_id", "predicts", "lemmas", "syncs", "lemma_size",
                        "size_left", "free_count", "free_size", "state"})
        /\ r.offsets = [k \in 1..Len(live) |-> Renumbered(d, live[k], k)]
        /\ r.by_id = [k \in 1..Len(live) |-> r.offsets[k].pos]
        /\ r.predicts = [k \in 1..Len(predicted) |-> Squeezed(d, predicted[k])]
        /\ r.lemmas = [pos \in Starts(r.offsets) |->
                         d.lemmas[CHOOSE p \in Starts(live) : p - Gone(d, p) = pos]]
        /\ r.syncs = [k \in DOMAIN d.syncs |->
                        IF d.syncs[k] \in InUse(d) THEN d.syncs[k] - Gone(d, d.syncs[k])
                        ELSE d.syncs[k]]
        /\ r.lemma_size = d.lemma_size - Gone(d, d.lemma_size)
        /\ r.size_left = d.size_left + Gone(d, d.lemma_size)
        /\ r.free_count = 0 /\ r.free_size = 0 /\ r.state = USER_DICT_DEFRAGMENTED
    <3>1. Defragmented(d, r)
      BY <1>2, <1>4, DefragmentFields, Zenon
    <3> QED BY <3>1, Zenon DEF Defragmented
  <2> HIDE DEF live, predicted
  <2>2. /\ Fields \subseteq DOMAIN r /\ r.syncs_null = d.syncs_null /\ r.limit = d.limit
        /\ r.count_left = d.count_left
    BY <2>1 DEF Keeps, Fields
  <2>3. PICK m, at : DefragmentLists(d, n, m, at, r)
    BY <1>1, <1>4, DefragmentLeaves, Zenon
  <2>index. IndexSqueezed(d, n, m, at, r.offsets)
    BY <2>3, Zenon DEF DefragmentLists
  <2>live. Len(live) = m /\ Starts(live) = Kept(d)
    BY <2>index, Zenon DEF live, IndexSqueezed
  <2>4. PICK pn \in Nat : pn = Len(d.predicts)
    BY <1>2 DEF PredictsSound
  <2>5. PICK pm, pt : PredictsSqueezed(d, pn, pm, pt, r.predicts)
    <3>1. r.predicts = [k \in 1..Len(LiveEntries(d.predicts)) |->
                          Squeezed(d, LiveEntries(d.predicts)[k])]
      BY <2>1, Zenon DEF predicted
    <3> QED BY <1>2, <2>4, <3>1, SqueezedPredicts, Zenon
  <2>6. BlockSound(r) /\ ClosedApart(d) /\ BlockSqueezed(d, r)
    BY <2>3, Zenon DEF DefragmentLists
  <2>7. ClosedNat(d)
    <3>1. \A q \in DOMAIN d.lemmas \cup {d.lemma_size} : Closed(d, q) \in Nat
      BY <1>2, MovesDown
    <3> QED BY <3>1 DEF Kept, ClosedNat
  <2>8. /\ IndexSound(r) /\ Len(r.offsets) = m /\ m <= n /\ Indexes(r) = 1..m
        /\ RemovedPositions(r) = {}
    <3>1. Numbered(m, r)
      BY <2>1, <2>live, Zenon DEF Numbered
    <3>2. n \in Nat /\ n = Len(d.offsets) /\ IndexSound(d) /\ ClosedApart(d) /\ BlockSqueezed(d, r)
      BY <1>1, <1>2, <2>6
    <3> QED BY <2>index, <2>7, <3>1, <3>2, DefragmentedIndex, ZenonT(60)
  <2>9. PredictsSound(r)
    BY <1>2, <2>index, <2>4, <2>5, <2>6, <2>7, <2>8, DefragmentedPredicts, Zenon
  <2>10. \A q \in Nat : Gone(d, q) \in Nat
    BY <1>2, MovesDown
  <2>11. r.syncs \in Seq(SyncEntries) /\ Len(r.syncs) = Len(d.syncs)
    <3>1. PICK c \in Nat : c = Len(d.syncs) /\ d.syncs \in [1..c -> SyncEntries]
      BY <1>2 DEF CountersSound, SyncEntries
    <3>2. InUse(d) \subseteq Nat
      <4>1. ASSUME NEW e \in ToSet(LiveEntries(d.offsets)) PROVE e.pos \in Nat
        <5>1. e.pos \in Kept(d)
          BY <2>live DEF Starts, live
        <5> QED BY <1>2, <5>1 DEF Kept, BlockSound
      <4>2. ASSUME NEW x \in InUse(d) PROVE x \in Nat
        <5>1. PICK e \in ToSet(LiveEntries(d.offsets)) : x \in e.pos..(e.pos + BytesOf(d, e.pos) - 1)
          BY DEF InUse
        <5> QED BY <4>1, <5>1
      <4> QED BY <4>2
    <3>3. \A k \in 1..c : r.syncs[k] = IF d.syncs[k] \in InUse(d)
                                       THEN d.syncs[k] - Gone(d, d.syncs[k]) ELSE d.syncs[k]
      BY <2>1, <3>1
    <3>4. ASSUME NEW k \in 1..c PROVE r.syncs[k] \in SyncEntries
      <4>1. CASE d.syncs[k] \in InUse(d)
        <5>1. d.syncs[k] \in Nat /\ Gone(d, d.syncs[k]) \in Nat
          BY <2>10, <3>2, <4>1
        <5>2. d.syncs[k] - Gone(d, d.syncs[k]) \in Int
          BY <5>1
        <5> QED BY <3>3, <4>1, <5>2 DEF SyncEntries
      <4>2. CASE d.syncs[k] \notin InUse(d)
        BY <3>1, <3>3, <4>2
      <4> QED BY <4>1, <4>2
    <3>5. r.syncs \in [1..c -> SyncEntries]
      BY <2>1, <3>1, <3>4
    <3> QED BY <3>1, <3>5
  <2>12. CountersSound(r)
    <3>1. d.lemma_size \in Nat
      BY <1>2 DEF BlockSound
    <3>2. Gone(d, d.lemma_size) \in Nat
      BY <2>10, <3>1
    <3>3. r.size_left \in Nat
      BY <1>2, <2>1, <3>2 DEF CountersSound
    <3>4. r.state \in USER_DICT_SYNC..USER_DICT_DEFRAGMENTED
      BY <2>1 DEF USER_DICT_SYNC, USER_DICT_DEFRAGMENTED
    <3> QED BY <1>2, <2>2, <2>11, <3>3, <3>4 DEF CountersSound, SyncEntries
  <2>13. Accounted(r)
    <3>1. Cardinality({}) = 0
      BY FS_EmptySet
    <3>2. SumBefore(BytesAt(r), {}, r.lemma_size) = 0
      <4>1. r.lemma_size \in Nat /\ 0 <= r.lemma_size
        BY <2>6 DEF BlockSound
      <4>2. \A x \in {} : BytesAt(r)[x] \in Nat
        OBVIOUS
      <4>3. \A x \in {} : ~(0 <= x /\ x < r.lemma_size)
        OBVIOUS
      <4>4. SumBefore(BytesAt(r), {}, r.lemma_size) = SumBefore(BytesAt(r), {}, 0)
        BY <4>1, <4>2, <4>3, SumSkips
      <4>5. SumBefore(BytesAt(r), {}, 0) = 0
        BY <4>2, SumStep
      <4> QED BY <4>4, <4>5
    <3> QED BY <2>1, <2>8, <3>1, <3>2 DEF Accounted
  <2>14. Saved(r, f)
    BY <2>1 DEF Saved, USER_DICT_SYNC, USER_DICT_SCORE_DIRTY, USER_DICT_OFFSET_DIRTY,
                USER_DICT_LEMMA_DIRTY, USER_DICT_DEFRAGMENTED
  <2> QED BY <1>1, <2>2, <2>6, <2>8, <2>9, <2>11, <2>12, <2>13, <2>14 DEF Storable
<1> QED
  BY <1>3, <1>4
=============================================================================

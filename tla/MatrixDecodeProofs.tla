------------------------- MODULE MatrixDecodeProofs -------------------------
(***************************************************************************)
(* Proofs about MatrixDecode: a row of the matrix is kept in the order of  *)
(* the scores, within its size and within the pool, and extending it drops *)
(* nothing that is better than what it keeps, whatever the lemmas and      *)
(* their scores are.                                                       *)
(***************************************************************************)
EXTENDS MatrixDecode, Basics, FiniteSetTheorems

\* The nodes of the pool and the lemmas a row is extended by.
Nodes == [id : Int, score : Int, from : Int, dmi : Int, step : Int]
Items == [id : Int, psb : Int, len : Int]

\* The best node first.
InOrder(nodes) == \A i, j \in 1..Len(nodes) : i < j => nodes[i].score <= nodes[j].score

\* What the nodes of a row may be.
RowNodes == {nodes \in Seq(Nodes) : Len(nodes) <= kMaxNodeARow /\ InOrder(nodes)}

Has(nodes, x) == \E i \in 1..Len(nodes) : nodes[i] = x

\* A row is full of nodes that score no worse.
NoRoomFor(nodes, x) ==
  Len(nodes) = kMaxNodeARow /\ \A i \in 1..Len(nodes) : nodes[i].score <= x.score

---------------------------------------------------------------------------
\* The lesser of two numbers.
LEMMA MinOfTwo ==
  ASSUME NEW a \in Int, NEW b \in Int
  PROVE  Min({a, b}) = IF a <= b THEN a ELSE b
<1>1. Min({a, b}) \in {a, b} /\ Min({a, b}) <= a /\ Min({a, b}) <= b
  <2> DEFINE S == {a, b}
  <2>1. \E x \in S : \A y \in S : x <= y
    <3>1. CASE a <= b
      BY <3>1
    <3>2. CASE ~(a <= b)
      BY <3>2
    <3> QED BY <3>1, <3>2
  <2> HIDE DEF S
  <2>2. Min(S) \in S /\ \A y \in S : Min(S) <= y
    BY <2>1 DEF Min
  <2> QED BY <2>2 DEF S
<1> QED
  BY <1>1

\* A set of numbers from 1 to n that has with every number all below is that of the numbers up
\* to its size.
LEMMA LowerPart ==
  ASSUME NEW n \in Nat, NEW T \in SUBSET (1..n), \A i \in T : \A j \in 1..n : j < i => j \in T
  PROVE  Cardinality(T) \in 0..n /\ \A i \in 1..n : i \in T <=> i <= Cardinality(T)
<1> DEFINE Out == {i \in 1..n + 1 : i \notin T}
<1>1. PICK m \in Out : \A i \in Out : m <= i
  <2>1. Out \in SUBSET Nat /\ n + 1 \in Out
    OBVIOUS
  <2> HIDE DEF Out
  <2> QED BY <2>1, LeastNat
<1>2. \A i \in 1..n : i \in T <=> i <= m - 1
  <2>1. ASSUME NEW i \in 1..n, i < m PROVE i \in T
    BY <1>1, <2>1
  <2>2. ASSUME NEW i \in T PROVE i < m
    <3>1. i \in 1..n /\ i # m
      BY <1>1
    <3>2. ~(m < i)
      BY <1>1, <2>2, <3>1
    <3> QED BY <1>1, <3>1, <3>2
  <2> QED BY <1>1, <2>1, <2>2
<1> HIDE DEF Out
<1>m. m \in 1..n + 1
  BY <1>1 DEF Out
<1>3. T = 1..m - 1
  <2>1. \A i \in T : i \in 1..m - 1
    BY <1>2, <1>m
  <2>2. \A i \in 1..m - 1 : i \in T
    BY <1>2, <1>m
  <2> QED BY <2>1, <2>2
<1>4. Cardinality(T) = m - 1
  <2>2. Cardinality(1..m - 1) = m - 1
    BY <1>m, FS_Interval
  <2> QED BY <1>3, <2>2
<1> QED
  BY <1>m, <1>2, <1>4

\* A node put into a row: the first m nodes, which score no worse, stay before it, the others
\* move up by one, and the last of a full row is lost.
PutBehind(nodes, node, m, r) ==
  /\ m \in 0..Len(nodes)
  /\ \A i \in 1..Len(nodes) : nodes[i].score <= node.score <=> i <= m
  /\ r \in Seq(Nodes)
  /\ Len(r) = IF Len(nodes) < kMaxNodeARow THEN Len(nodes) + 1 ELSE Len(nodes)
  /\ \A k \in 1..Len(r) : r[k] = IF k <= m THEN nodes[k]
                                 ELSE IF k = m + 1 THEN node ELSE nodes[k - 1]

LEMMA InsertNodeShape ==
  ASSUME NEW nodes \in RowNodes, NEW node \in Nodes, NEW pos \in Nat,
         pos + kMaxNodeARow <= kMtrxNdPoolSize,
         NEW r, r = InsertNode(nodes, node, pos)
  PROVE  \E m : PutBehind(nodes, node, m, r)
<1> DEFINE n == Len(nodes)
           T == {i \in DOMAIN nodes : nodes[i].score <= node.score}
           m == Cardinality(T)
           longer == InsertAt(nodes, m + 1, node)
           l == Min({kMaxNodeARow, Len(longer)})
<1>1. /\ n \in Nat /\ n <= kMaxNodeARow /\ nodes \in [1..n -> Nodes] /\ DOMAIN nodes = 1..n
      /\ nodes \in Seq(Nodes) /\ \A i, j \in 1..n : i < j => nodes[i].score <= nodes[j].score
  BY LenProperties DEF RowNodes, InOrder
<1>2. /\ node.score \in Int /\ kMaxNodeARow \in Nat /\ kMaxNodeARow >= 1
      /\ kMtrxNdPoolSize \in Nat
      /\ \A i \in 1..n : nodes[i] \in Nodes /\ nodes[i].score \in Int
  <2>1. node.score \in Int /\ \A x \in Nodes : x.score \in Int
    BY DEF Nodes
  <2>2. \A i \in 1..n : nodes[i] \in Nodes
    BY <1>1
  <2> QED BY <2>1, <2>2, MatrixAssumption
<1>3. m \in 0..n /\ \A i \in 1..n : nodes[i].score <= node.score <=> i <= m
  <2>1. T \in SUBSET (1..n) /\ \A i \in T : \A j \in 1..n : j < i => j \in T
    BY <1>1, <1>2
  <2>2. \A i \in 1..n : i \in T <=> nodes[i].score <= node.score
    BY <1>1
  <2> HIDE DEF T, n
  <2> QED BY <1>1, <2>1, <2>2, LowerPart
<1>4. r = IF m + 1 > n /\ (n >= kMaxNodeARow \/ pos + n >= kMtrxNdPoolSize) THEN nodes
          ELSE SubSeq(longer, 1, l)
  BY DEF InsertNode
<1> HIDE DEF n, m, T
<1>5. longer = Inserted(nodes, n, m + 1, node) /\ longer \in [1..n + 1 -> Nodes]
  <2>1. m + 1 \in 1..n + 1
    BY <1>1, <1>3
  <2>2. nodes \in [1..n -> Nodes] /\ n \in Nat /\ m + 1 \in 1..n + 1 /\ node \in Nodes
    BY <1>1, <2>1
  <2>3. /\ longer = Inserted(nodes, n, m + 1, node)
        /\ Inserted(nodes, n, m + 1, node) \in [1..n + 1 -> Nodes]
    BY <2>2, InsertAtSpec, Zenon
  <2> QED BY <2>3
<1> HIDE DEF longer
<1>6. /\ longer \in Seq(Nodes) /\ Len(longer) = n + 1
      /\ \A k \in 1..n + 1 : longer[k] = IF k < m + 1 THEN nodes[k]
                                         ELSE IF k = m + 1 THEN node ELSE nodes[k - 1]
  BY <1>1, <1>5 DEF Inserted
<1>7. l = IF kMaxNodeARow <= n + 1 THEN kMaxNodeARow ELSE n + 1
  BY <1>1, <1>2, <1>6, MinOfTwo
<1> HIDE DEF l
<1>8. CASE m + 1 > n /\ (n >= kMaxNodeARow \/ pos + n >= kMtrxNdPoolSize)
  <2>1. r = nodes /\ n = kMaxNodeARow /\ m = n
    BY <1>1, <1>2, <1>3, <1>4, <1>8
  <2>2. PutBehind(nodes, node, m, r)
    BY <1>1, <1>3, <2>1 DEF PutBehind, n
  <2> QED BY <2>2
<1>9. CASE ~(m + 1 > n /\ (n >= kMaxNodeARow \/ pos + n >= kMtrxNdPoolSize))
  <2>1. /\ r = SubSeq(longer, 1, l) /\ l \in 0..n + 1
        /\ l = IF n < kMaxNodeARow THEN n + 1 ELSE n
    BY <1>1, <1>2, <1>4, <1>7, <1>9
  <2>2. r \in Seq(Nodes) /\ Len(r) = l /\ \A k \in 1..l : r[k] = longer[k]
    BY <1>6, <2>1
  <2>3. ASSUME NEW k \in 1..Len(r)
        PROVE  r[k] = IF k <= m THEN nodes[k] ELSE IF k = m + 1 THEN node ELSE nodes[k - 1]
    <3>1. k \in 1..n + 1 /\ r[k] = longer[k] /\ (k <= m <=> k < m + 1)
      BY <1>1, <1>3, <2>1, <2>2
    <3> QED BY <1>6, <3>1
  <2>4. PutBehind(nodes, node, m, r)
    BY <1>3, <2>1, <2>2, <2>3 DEF PutBehind, n
  <2> QED BY <2>4
<1> QED
  BY <1>8, <1>9

\* The order is kept; what is dropped, be it the new node or the last one, is no better than
\* what then fills the row, and what was dropped before stays so.
LEMMA InsertNodeKeeps ==
  ASSUME NEW nodes \in RowNodes, NEW node \in Nodes, NEW m, NEW r,
         PutBehind(nodes, node, m, r)
  PROVE  /\ r \in RowNodes /\ Len(r) >= Len(nodes) /\ Len(r) >= 1
         /\ \A i \in 1..Len(r) : r[i] = node \/ Has(nodes, r[i])
         /\ (Has(r, node) \/ NoRoomFor(r, node))
         /\ \A x \in Nodes :
              (Has(nodes, x) \/ NoRoomFor(nodes, x)) => (Has(r, x) \/ NoRoomFor(r, x))
<1> DEFINE n == Len(nodes)
           l == Len(r)
<1>1. /\ n \in Nat /\ n <= kMaxNodeARow /\ kMaxNodeARow \in Nat /\ kMaxNodeARow >= 1
      /\ \A i, j \in 1..n : i < j => nodes[i].score <= nodes[j].score
      /\ \A i \in 1..n : nodes[i] \in Nodes
  BY LenProperties, MatrixAssumption DEF RowNodes, InOrder
<1>2. /\ node.score \in Int
      /\ \A i \in 1..n : nodes[i].score \in Int
  BY <1>1 DEF Nodes
<1>3. /\ m \in 0..n
      /\ \A i \in 1..n : nodes[i].score <= node.score <=> i <= m
      /\ r \in Seq(Nodes)
      /\ l = IF n < kMaxNodeARow THEN n + 1 ELSE n
      /\ \A k \in 1..l : r[k] = IF k <= m THEN nodes[k]
                                ELSE IF k = m + 1 THEN node ELSE nodes[k - 1]
  BY DEF PutBehind
<1> HIDE DEF n, l
<1>4. l \in Nat /\ l >= n /\ l >= 1 /\ l <= kMaxNodeARow /\ l <= n + 1
  BY <1>1, <1>3
<1>5. ASSUME NEW j \in 1..l, NEW k \in 1..l, j < k PROVE r[j].score <= r[k].score
  <2>1. CASE k <= m
    BY <1>1, <1>3, <1>5, <2>1
  <2>2. CASE k = m + 1
    <3>1. j \in 1..n /\ j <= m /\ k # j /\ ~(k <= m)
      BY <1>1, <1>3, <1>4, <1>5, <2>2
    <3>2. r[j] = nodes[j] /\ r[k] = node
      BY <1>3, <2>2, <3>1
    <3> QED BY <1>3, <3>1, <3>2
  <2>3. CASE k > m + 1 /\ j <= m
    <3>1. r[j] = nodes[j] /\ r[k] = nodes[k - 1] /\ j \in 1..n /\ k - 1 \in 1..n /\ j < k - 1
      BY <1>1, <1>3, <1>4, <2>3
    <3> QED BY <1>1, <3>1
  <2>4. CASE k > m + 1 /\ j = m + 1
    <3>1. r[j] = node /\ r[k] = nodes[k - 1] /\ k - 1 \in 1..n /\ ~(k - 1 <= m)
      BY <1>1, <1>3, <1>4, <2>4
    <3> QED BY <1>2, <1>3, <3>1
  <2>5. CASE k > m + 1 /\ j > m + 1
    <3>1. r[j] = nodes[j - 1] /\ r[k] = nodes[k - 1] /\ j - 1 \in 1..n /\ k - 1 \in 1..n
          /\ j - 1 < k - 1
      BY <1>1, <1>3, <1>4, <1>5, <2>5
    <3> QED BY <1>1, <3>1
  <2> QED BY <1>1, <1>3, <2>1, <2>2, <2>3, <2>4, <2>5
<1>6. r \in RowNodes
  BY <1>3, <1>4, <1>5 DEF RowNodes, InOrder, l
<1>7. ASSUME NEW k \in 1..l PROVE r[k] = node \/ Has(nodes, r[k])
  <2>1. CASE k <= m
    BY <1>1, <1>3, <2>1 DEF Has, n
  <2>2. CASE k = m + 1
    BY <1>1, <1>3, <2>2
  <2>3. CASE k > m + 1
    <3>1. k - 1 \in 1..n /\ r[k] = nodes[k - 1]
      BY <1>1, <1>3, <1>4, <2>3
    <3> QED BY <3>1 DEF Has, n
  <2> QED BY <1>1, <1>3, <2>1, <2>2, <2>3
<1>8. ASSUME NEW x \in Nodes, l = kMaxNodeARow, x.score >= r[l].score
      PROVE  NoRoomFor(r, x)
  <2>1. ASSUME NEW i \in 1..l PROVE r[i].score <= x.score
    <3>1. r[i] \in Nodes /\ r[l] \in Nodes /\ l \in 1..l
      BY <1>3, <1>4 DEF l
    <3>2. r[i].score \in Int /\ r[l].score \in Int /\ x.score \in Int
      BY <3>1 DEF Nodes
    <3>3. r[i].score <= r[l].score
      BY <1>4, <1>5, <3>2
    <3> QED BY <1>8, <3>2, <3>3
  <2> QED BY <1>8, <2>1 DEF NoRoomFor, l
<1>9. Has(r, node) \/ NoRoomFor(r, node)
  <2>1. CASE m + 1 <= l
    <3>1. m + 1 \in 1..l /\ r[m + 1] = node
      BY <1>3, <1>4, <2>1
    <3> QED BY <3>1 DEF Has, l
  <2>2. CASE ~(m + 1 <= l)
    <3>1. m = n /\ l = n /\ l = kMaxNodeARow /\ l \in 1..l /\ r[l] = nodes[l]
      BY <1>1, <1>3, <1>4, <2>2
    <3>2. nodes[l].score <= node.score
      BY <1>3, <3>1
    <3> QED BY <1>2, <1>8, <3>1, <3>2
  <2> QED BY <2>1, <2>2
<1>10. ASSUME NEW i \in 1..n PROVE Has(r, nodes[i]) \/ NoRoomFor(r, nodes[i])
  <2>1. CASE i <= m
    <3>1. i \in 1..l /\ r[i] = nodes[i]
      BY <1>1, <1>3, <1>4, <2>1
    <3> QED BY <3>1 DEF Has, l
  <2>2. CASE ~(i <= m) /\ i + 1 <= l
    <3>1. i + 1 \in 1..l /\ r[i + 1] = nodes[i]
      BY <1>1, <1>3, <1>4, <2>2
    <3> QED BY <3>1 DEF Has, l
  <2>3. CASE ~(i <= m) /\ ~(i + 1 <= l)
    <3>1. i = n /\ l = n /\ l = kMaxNodeARow /\ l \in 1..l
      BY <1>1, <1>3, <1>4, <2>3
    <3>2. CASE l = m + 1
      <4>1. r[l] = node /\ ~(nodes[i].score <= node.score)
        BY <1>3, <2>3, <3>1, <3>2
      <4> QED BY <1>1, <1>2, <1>8, <3>1, <4>1
    <3>3. CASE l # m + 1
      <4>1. r[l] = nodes[l - 1] /\ l - 1 \in 1..n /\ l - 1 < i
        BY <1>1, <1>3, <2>3, <3>1, <3>3
      <4>2. nodes[l - 1].score <= nodes[i].score
        BY <1>1, <4>1
      <4> QED BY <1>1, <1>2, <1>8, <3>1, <4>1, <4>2
    <3> QED BY <3>2, <3>3
  <2> QED BY <1>1, <1>3, <2>1, <2>2, <2>3
<1>11. ASSUME NEW x \in Nodes, NoRoomFor(nodes, x) PROVE NoRoomFor(r, x)
  <2>1. /\ n = kMaxNodeARow /\ l = n /\ l \in 1..l /\ x.score \in Int
        /\ \A i \in 1..n : nodes[i].score <= x.score
    BY <1>1, <1>3, <1>4, <1>11 DEF NoRoomFor, n, Nodes
  <2>2. r[l].score <= x.score
    <3>1. CASE l <= m
      BY <1>3, <2>1, <3>1
    <3>2. CASE l = m + 1
      <4>1. r[l] = node /\ ~(nodes[l].score <= node.score) /\ nodes[l].score <= x.score
        BY <1>3, <2>1, <3>2
      <4> QED BY <1>2, <2>1, <4>1
    <3>3. CASE l > m + 1
      <4>1. l - 1 \in 1..n /\ r[l] = nodes[l - 1]
        BY <1>3, <2>1, <3>3
      <4> QED BY <2>1, <4>1
    <3> QED BY <1>3, <1>4, <3>1, <3>2, <3>3
  <2>3. r[l] \in Nodes
    BY <1>3, <2>1 DEF l
  <2> QED BY <1>8, <2>1, <2>2, <2>3 DEF Nodes
<1>12. ASSUME NEW x \in Nodes, Has(nodes, x) PROVE Has(r, x) \/ NoRoomFor(r, x)
  BY <1>10, <1>12 DEF Has, n
<1> QED
  BY <1>4, <1>6, <1>7, <1>9, <1>11, <1>12 DEF n, l

\* If the first q nodes score no worse than b, so do one more after a node that does not,
\* as far as the row goes.
LEMMA InsertNodeFirst ==
  ASSUME NEW nodes \in RowNodes, NEW node \in Nodes, NEW m, NEW r,
         PutBehind(nodes, node, m, r),
         NEW b \in Int, node.score <= b,
         NEW q \in Nat, \A i \in 1..q : i <= kMaxNodeARow =>
                          i <= Len(nodes) /\ nodes[i].score <= b
  PROVE  \A i \in 1..q + 1 : i <= kMaxNodeARow => i <= Len(r) /\ r[i].score <= b
<1> DEFINE n == Len(nodes)
           l == Len(r)
<1>1. /\ n \in Nat /\ n <= kMaxNodeARow /\ kMaxNodeARow \in Nat
      /\ \A i \in 1..n : nodes[i] \in Nodes
  BY LenProperties, MatrixAssumption DEF RowNodes
<1>2. /\ node.score \in Int
      /\ \A i \in 1..n : nodes[i].score \in Int
  BY <1>1 DEF Nodes
<1>3. /\ m \in 0..n
      /\ \A i \in 1..n : nodes[i].score <= node.score <=> i <= m
      /\ l = IF n < kMaxNodeARow THEN n + 1 ELSE n
      /\ \A k \in 1..l : r[k] = IF k <= m THEN nodes[k]
                                ELSE IF k = m + 1 THEN node ELSE nodes[k - 1]
  BY DEF PutBehind
<1>4. \A i \in 1..q : i <= kMaxNodeARow => i <= n /\ nodes[i].score <= b
  OBVIOUS
<1> HIDE DEF n, l
<1> SUFFICES ASSUME NEW i \in 1..q + 1, i <= kMaxNodeARow
             PROVE  i <= l /\ r[i].score <= b
  BY DEF l
<1>5. i <= l
  <2>1. CASE i <= q
    BY <1>1, <1>3, <1>4, <2>1
  <2>2. CASE i = q + 1
    <3>1. q <= n
      BY <1>1, <1>4, <2>2
    <3> QED BY <1>1, <1>3, <2>2, <3>1
  <2> QED BY <2>1, <2>2
<1>6. r[i].score <= b
  <2>1. CASE i <= m
    <3>1. r[i] = nodes[i] /\ nodes[i].score <= node.score /\ nodes[i].score \in Int
      BY <1>1, <1>2, <1>3, <1>5, <2>1
    <3> QED BY <1>2, <3>1
  <2>2. CASE i = m + 1
    BY <1>3, <1>5, <2>2
  <2>3. CASE i > m + 1
    <3>1. r[i] = nodes[i - 1] /\ i - 1 \in 1..q /\ i - 1 <= kMaxNodeARow
      BY <1>1, <1>3, <1>5, <2>3
    <3> QED BY <1>4, <3>1
  <2> QED BY <1>3, <2>1, <2>2, <2>3
<1> QED
  BY <1>5, <1>6

---------------------------------------------------------------------------
\* The nodes of a row while it is extended, and whether the loop has ended.
Works == [nodes : RowNodes, stop : BOOLEAN]

\* Worse than the best of a row by more than the code keeps.
FarWorse(nodes, x) == Len(nodes) >= 1 /\ x.score - PRUMING_SCORE > nodes[1].score

\* The nodes of the lemmas, in the order of the lemmas.
Paths(n) == {path \in [1..n -> Nodes] :
               \A i, j \in 1..n : i < j => path[i].score <= path[j].score}

\* What holds after the turns of k lemmas, whose nodes are path, in a row that had the nodes old.
Extended(old, n, path, k, w) ==
  /\ w \in Works
  /\ k >= 1 => Len(w.nodes) >= 1
  /\ \A i \in 1..Len(w.nodes) : Has(old, w.nodes[i]) \/ \E j \in 1..k : w.nodes[i] = path[j]
  /\ \A i \in 1..Len(old) : Has(w.nodes, old[i]) \/ NoRoomFor(w.nodes, old[i])
  /\ \A j \in 1..k : \/ Has(w.nodes, path[j]) \/ NoRoomFor(w.nodes, path[j])
                     \/ w.stop /\ FarWorse(w.nodes, path[j])
  /\ w.stop => \A j \in 1..n : j >= k => FarWorse(w.nodes, path[j])
  /\ ~w.stop => \A i \in 1..k : i <= kMaxNodeARow =>
                  i <= Len(w.nodes) /\ w.nodes[i].score <= path[k].score

\* The turn that ends the loop, and those after it.
LEMMA StopKeeps ==
  ASSUME NEW old \in RowNodes, NEW n \in Nat, NEW path \in Paths(n), NEW k \in 1..n,
         NEW w, Extended(old, n, path, k - 1, w),
         w.stop \/ (k > 1 /\ path[k].score - PRUMING_SCORE > w.nodes[1].score)
  PROVE  Extended(old, n, path, k, [w EXCEPT !.stop = TRUE])
<1> DEFINE t == [w EXCEPT !.stop = TRUE]
<1>1. /\ w \in Works /\ t \in Works /\ t.nodes = w.nodes /\ t.stop = TRUE
  BY DEF Extended, Works
<1>2. \A j \in 1..n : j >= k => FarWorse(w.nodes, path[j])
  <2>1. CASE w.stop
    <3>1. \A j \in 1..n : j >= k - 1 => FarWorse(w.nodes, path[j])
      BY <2>1 DEF Extended
    <3> QED BY <3>1
  <2>2. CASE k > 1 /\ path[k].score - PRUMING_SCORE > w.nodes[1].score
    <3>1. Len(w.nodes) >= 1 /\ w.nodes \in Seq(Nodes)
      BY <1>1, <2>2 DEF Extended, Works, RowNodes
    <3>2. w.nodes[1] \in Nodes
      BY <3>1
    <3>3. /\ w.nodes[1].score \in Int /\ PRUMING_SCORE \in Int
          /\ \A j \in 1..n : path[j].score \in Int
      <4>1. (\A x \in Nodes : x.score \in Int) /\ \A j \in 1..n : path[j] \in Nodes
        BY DEF Nodes, Paths
      <4> QED BY <3>2, <4>1, MatrixAssumption
    <3>4. ASSUME NEW j \in 1..n, j >= k
          PROVE  path[j].score - PRUMING_SCORE > w.nodes[1].score
      <4>1. path[k].score <= path[j].score
        BY <3>3, <3>4 DEF Paths
      <4> QED BY <2>2, <3>3, <4>1
    <3> QED BY <3>1, <3>4 DEF FarWorse
  <2> QED BY <2>1, <2>2
<1>3. Len(t.nodes) >= 1
  <2>1. k \in 1..n /\ k >= k
    OBVIOUS
  <2> QED BY <1>1, <1>2, <2>1 DEF FarWorse
<1>4. \A i \in 1..Len(t.nodes) : Has(old, t.nodes[i]) \/ \E j \in 1..k : t.nodes[i] = path[j]
  <2>1. \A i \in 1..Len(w.nodes) : Has(old, w.nodes[i])
                                   \/ \E j \in 1..k - 1 : w.nodes[i] = path[j]
    BY DEF Extended
  <2> QED BY <1>1, <2>1
<1>5. ASSUME NEW j \in 1..k
      PROVE  Has(t.nodes, path[j]) \/ NoRoomFor(t.nodes, path[j]) \/ FarWorse(t.nodes, path[j])
  <2>1. CASE j = k
    BY <1>1, <1>2, <2>1
  <2>2. CASE j # k
    <3>1. j \in 1..k - 1
      BY <2>2
    <3> QED BY <1>1, <3>1 DEF Extended
  <2> QED BY <2>1, <2>2
<1>6. \A i \in 1..Len(old) : Has(t.nodes, old[i]) \/ NoRoomFor(t.nodes, old[i])
  BY <1>1 DEF Extended
<1> HIDE DEF t
<1>7. Extended(old, n, path, k, t)
  BY <1>1, <1>2, <1>3, <1>4, <1>5, <1>6 DEF Extended
<1> QED
  BY <1>7 DEF t

\* A turn that puts the node of a lemma into the row.
LEMMA InsertKeeps ==
  ASSUME NEW old \in RowNodes, NEW n \in Nat, NEW path \in Paths(n), NEW k \in 1..n,
         NEW w, Extended(old, n, path, k - 1, w), ~w.stop,
         NEW pos \in Nat, pos + kMaxNodeARow <= kMtrxNdPoolSize
  PROVE  Extended(old, n, path, k, [w EXCEPT !.nodes = InsertNode(@, path[k], pos)])
<1> DEFINE r == InsertNode(w.nodes, path[k], pos)
           t == [w EXCEPT !.nodes = InsertNode(@, path[k], pos)]
<1>1. /\ w \in Works /\ w.nodes \in RowNodes /\ path[k] \in Nodes
      /\ path \in [1..n -> Nodes] /\ old \in Seq(Nodes)
  BY DEF Extended, Works, Paths, RowNodes
<1>2. PICK m : PutBehind(w.nodes, path[k], m, r)
  <2> HIDE DEF r
  <2>1. r = InsertNode(w.nodes, path[k], pos)
    BY DEF r
  <2> QED BY <1>1, <2>1, InsertNodeShape
<1>3. t.nodes = r /\ t.stop = w.stop /\ w.stop = FALSE
  BY <1>1 DEF Works
<1> HIDE DEF r
<1>4. /\ r \in RowNodes /\ Len(r) >= Len(w.nodes) /\ Len(r) >= 1
      /\ \A i \in 1..Len(r) : r[i] = path[k] \/ Has(w.nodes, r[i])
      /\ (Has(r, path[k]) \/ NoRoomFor(r, path[k]))
      /\ \A x \in Nodes : (Has(w.nodes, x) \/ NoRoomFor(w.nodes, x))
                          => (Has(r, x) \/ NoRoomFor(r, x))
  BY <1>1, <1>2, InsertNodeKeeps, Zenon
<1>5. t \in Works
  BY <1>1, <1>3, <1>4 DEF Works, r
<1> HIDE DEF t
<1>6. ASSUME NEW i \in 1..Len(r) PROVE Has(old, r[i]) \/ \E j \in 1..k : r[i] = path[j]
  <2>1. CASE r[i] = path[k]
    BY <2>1
  <2>2. CASE Has(w.nodes, r[i])
    <3>1. PICK h \in 1..Len(w.nodes) : w.nodes[h] = r[i]
      BY <2>2 DEF Has
    <3>2. Has(old, w.nodes[h]) \/ \E j \in 1..k - 1 : w.nodes[h] = path[j]
      BY <3>1 DEF Extended
    <3>3. \A j \in 1..k - 1 : j \in 1..k
      OBVIOUS
    <3> QED BY <3>1, <3>2, <3>3
  <2> QED BY <1>4, <2>1, <2>2
<1>7. ASSUME NEW i \in 1..Len(old) PROVE Has(r, old[i]) \/ NoRoomFor(r, old[i])
  <2>1. old[i] \in Nodes
    BY <1>1
  <2>2. Has(w.nodes, old[i]) \/ NoRoomFor(w.nodes, old[i])
    BY DEF Extended
  <2> QED BY <1>4, <2>1, <2>2
<1>8. ASSUME NEW j \in 1..k PROVE Has(r, path[j]) \/ NoRoomFor(r, path[j])
  <2>1. CASE j = k
    BY <1>4, <2>1
  <2>2. CASE j # k
    <3>1. j \in 1..k - 1 /\ path[j] \in Nodes
      BY <1>1, <2>2
    <3>2. Has(w.nodes, path[j]) \/ NoRoomFor(w.nodes, path[j])
      BY <1>3, <3>1 DEF Extended
    <3> QED BY <1>4, <3>1, <3>2
  <2> QED BY <2>1, <2>2
<1>9. \A i \in 1..k : i <= kMaxNodeARow => i <= Len(r) /\ r[i].score <= path[k].score
  <2> DEFINE b == path[k].score
             q == k - 1
  <2>1. b \in Int /\ \A j \in 1..n : path[j].score \in Int
    <3>1. (\A x \in Nodes : x.score \in Int) /\ \A j \in 1..n : path[j] \in Nodes
      BY <1>1 DEF Nodes
    <3> QED BY <1>1, <3>1
  <2>2. q \in Nat /\ path[k].score <= b
    BY <2>1
  <2>3. ASSUME NEW i \in 1..q, i <= kMaxNodeARow
        PROVE  i <= Len(w.nodes) /\ w.nodes[i].score <= b
    <3>1. i <= Len(w.nodes) /\ w.nodes[i].score <= path[q].score
      BY <1>3, <2>3 DEF Extended
    <3>2. q \in 1..n /\ q < k /\ path[q].score <= b
      BY DEF Paths
    <3>3. w.nodes[i].score \in Int
      <4>1. w.nodes \in Seq(Nodes) /\ i \in 1..Len(w.nodes)
        BY <1>1, <3>1 DEF RowNodes
      <4>2. w.nodes[i] \in Nodes
        BY <4>1
      <4> QED BY <4>2 DEF Nodes
    <3> QED BY <2>1, <3>1, <3>2, <3>3
  <2> HIDE DEF b
  <2>4. \A i \in 1..q + 1 : i <= kMaxNodeARow => i <= Len(r) /\ r[i].score <= b
    <3> HIDE DEF q
    <3> QED BY <1>1, <1>2, <2>1, <2>2, <2>3, InsertNodeFirst
  <2>5. q + 1 = k
    OBVIOUS
  <2> QED BY <2>4, <2>5 DEF b
<1>10. Extended(old, n, path, k, t)
  BY <1>3, <1>4, <1>5, <1>6, <1>7, <1>8, <1>9 DEF Extended
<1> QED
  BY <1>10 DEF t

LEMMA TurnKeeps ==
  ASSUME NEW old \in RowNodes, NEW n \in Nat, NEW path \in Paths(n), NEW k \in 1..n,
         NEW w, Extended(old, n, path, k - 1, w),
         NEW pos \in Nat, pos + kMaxNodeARow <= kMtrxNdPoolSize
  PROVE  Extended(old, n, path, k, NodeTurn(w, path[k], k, pos))
<1>1. CASE w.stop \/ (k > 1 /\ path[k].score - PRUMING_SCORE > w.nodes[1].score)
  <2>1. NodeTurn(w, path[k], k, pos) = [w EXCEPT !.stop = TRUE]
    BY <1>1 DEF NodeTurn
  <2> QED BY <1>1, <2>1, StopKeeps
<1>2. CASE ~(w.stop \/ (k > 1 /\ path[k].score - PRUMING_SCORE > w.nodes[1].score))
  <2>1. NodeTurn(w, path[k], k, pos) = [w EXCEPT !.nodes = InsertNode(@, path[k], pos)]
    BY <1>2 DEF NodeTurn
  <2> QED BY <1>2, <2>1, InsertKeeps
<1> QED
  BY <1>1, <1>2

\* The turns of the loop over the first n lemmas.
Loop(old, n, path, pos, after) ==
  after = [k \in 0..n |-> IF k = 0 THEN [nodes |-> old, stop |-> FALSE]
                          ELSE NodeTurn(after[k - 1], path[k], k, pos)]

\* There are such turns, and they keep what has to hold.
LEMMA LoopKeeps ==
  ASSUME NEW old \in RowNodes, NEW all \in Nat, NEW path \in Paths(all), NEW n \in 0..all,
         NEW pos \in Nat, pos + kMaxNodeARow <= kMtrxNdPoolSize
  PROVE  /\ \E after : Loop(old, n, path, pos, after)
         /\ \A after : Loop(old, n, path, pos, after) => Extended(old, all, path, n, after[n])
<1> DEFINE start == [nodes |-> old, stop |-> FALSE]
           Keeps(k, w) == Extended(old, all, path, k, w)
           Turn(k, w) == NodeTurn(w, path[k], k, pos)
<1>1. Keeps(0, start)
  <2>1. start \in Works /\ start.nodes = old /\ start.stop = FALSE
    BY DEF Works
  <2> HIDE DEF start
  <2>2. \A i \in 1..Len(old) : Has(old, old[i])
    BY DEF Has
  <2> QED BY <2>1, <2>2 DEF Extended
<1>2. ASSUME NEW k \in 1..n, NEW w, Keeps(k - 1, w) PROVE Keeps(k, Turn(k, w))
  <2>1. k \in 1..all
    OBVIOUS
  <2> QED BY <1>2, <2>1, TurnKeeps
<1> HIDE DEF Keeps, Turn, start
<1>3. ASSUME NEW after, Loop(old, n, path, pos, after) PROVE Keeps(n, after[n])
  <2>1. after[0] = start /\ \A k \in 1..n : after[k] = Turn(k, after[k - 1])
    <3>1. after = [k \in 0..n |-> IF k = 0 THEN start ELSE Turn(k, after[k - 1])]
      BY <1>3 DEF Loop, start, Turn
    <3>2. \A k \in 0..n : after[k] = IF k = 0 THEN start ELSE Turn(k, after[k - 1])
      BY <3>1, Zenon
    <3>3. 0 \in 0..n /\ \A k \in 1..n : k \in 0..n /\ k # 0
      OBVIOUS
    <3> QED BY <3>2, <3>3
  <2> DEFINE T == {k \in 0..n : Keeps(k, after[k])}
  <2>2. 0 \in T
    BY <1>1, <2>1
  <2>3. ASSUME NEW j \in 0..n - 1, j \in T PROVE j + 1 \in T
    <3>1. j + 1 \in 1..n /\ Keeps((j + 1) - 1, after[j])
      BY <2>3
    <3>2. after[j + 1] = Turn(j + 1, after[j])
      BY <2>1, <3>1
    <3>3. Keeps(j + 1, after[j + 1])
      BY <1>2, <3>1, <3>2
    <3> QED BY <3>1, <3>3
  <2> HIDE DEF T
  <2>4. \A k \in 0..n : k \in T
    BY <2>2, <2>3, UpTo
  <2>5. n \in T
    BY <2>4
  <2> QED BY <2>5 DEF T
<1>4. \E after : Loop(old, n, path, pos, after)
  <2> DEFINE Next(k, w) == IF Keeps(k - 1, w) THEN Turn(k, w) ELSE w
             turn == [k \in 1..n |-> [w \in Works |-> Next(k, w)]]
  <2>1. ASSUME NEW k \in 1..n, NEW w \in Works PROVE Next(k, w) \in Works
    <3>1. CASE Keeps(k - 1, w)
      <4>1. Keeps(k, Turn(k, w))
        BY <1>2, <3>1
      <4> QED BY <3>1, <4>1 DEF Keeps, Extended
    <3>2. CASE ~Keeps(k - 1, w)
      BY <3>2
    <3> QED BY <3>1, <3>2
  <2>2. start \in Works
    BY <1>1 DEF Keeps, Extended
  <2>3. PICK g : Run(n, Works, start, turn, g)
    <3>1. turn \in [1..n -> [Works -> Works]]
      BY <2>1
    <3> HIDE DEF turn
    <3>2. HasRun(n, Works, start, turn)
      BY <2>2, <3>1, TurnsExist DEF Turns
    <3> QED BY <3>2 DEF HasRun
  <2>4. /\ g \in [0..n -> Works] /\ g[0] = start
        /\ \A k \in 1..n : g[k] = Next(k, g[k - 1])
    <3>1. \A k \in 1..n : \A w \in Works : turn[k][w] = Next(k, w)
      OBVIOUS
    <3> HIDE DEF turn, Next
    <3>2. ASSUME NEW k \in 1..n PROVE g[k] = Next(k, g[k - 1])
      <4>1. g[k - 1] \in Works /\ g[k] = turn[k][g[k - 1]]
        BY <2>3 DEF Run
      <4> QED BY <3>1, <4>1
    <3> QED BY <2>3, <3>2 DEF Run
  <2> HIDE DEF turn
  <2>5. \A k \in 0..n : Keeps(k, g[k])
    <3> DEFINE T == {k \in 0..n : Keeps(k, g[k])}
    <3>1. 0 \in T
      BY <1>1, <2>4
    <3>2. ASSUME NEW j \in 0..n - 1, j \in T PROVE j + 1 \in T
      <4>1. j + 1 \in 1..n /\ Keeps((j + 1) - 1, g[j])
        BY <3>2
      <4>2. g[j + 1] = Turn(j + 1, g[j])
        BY <2>4, <4>1
      <4>3. Keeps(j + 1, g[j + 1])
        BY <1>2, <4>1, <4>2
      <4> QED BY <4>1, <4>3
    <3> HIDE DEF T
    <3>3. \A k \in 0..n : k \in T
      BY <3>1, <3>2, UpTo
    <3> QED BY <3>3 DEF T
  <2>6. \A k \in 1..n : g[k] = Turn(k, g[k - 1])
    BY <2>4, <2>5
  <2>7. g = [k \in 0..n |-> IF k = 0 THEN start ELSE Turn(k, g[k - 1])]
    BY <2>4, <2>6
  <2>8. Loop(old, n, path, pos, g)
    BY <2>7 DEF Loop, start, Turn
  <2> QED BY <2>8
<1> QED
  BY <1>3, <1>4 DEF Keeps

---------------------------------------------------------------------------
\* The rows of the matrix, the nodes of one, and a matrix with a row that is in order.
MatrixRows == [ndPos : Nat, ndNum : Nat, dmiPos : Nat, dmiNum : Nat, full : BOOLEAN, fixed : Int]

NodesIn(s, row) == SubSeq(s.nd, Row(s, row).ndPos + 1, EndOfNodes(s, row))

HoldsRow(s, row) ==
  /\ {"nd", "rows"} \subseteq DOMAIN s /\ s = [f \in DOMAIN s |-> s[f]]
  /\ s.nd \in Seq(Nodes) /\ s.rows \in Seq(MatrixRows)
  /\ row \in 0..Len(s.rows) - 1
  /\ EndOfNodes(s, row) <= Len(s.nd)
  /\ NodesIn(s, row) \in RowNodes

\* The lemmas _get_lpis and get_lpis give, the best first.
SortedItems == {lpis \in Seq(Items) :
                  \A i, j \in 1..Len(lpis) : i < j => lpis[i].psb <= lpis[j].psb}

\* The row of t is that of s with the best of its nodes and of those of the lemmas.
RowKept(s, p, lpis, dmiFr, row, t) ==
  LET new == NodesIn(t, row)
      node(k) == NodeFor(s, p, lpis[k], dmiFr, row)
  IN /\ HoldsRow(t, row) /\ EndOfNodes(t, row) = Len(t.nd) /\ Len(t.nd) <= kMtrxNdPoolSize
     /\ Row(t, row).ndPos = Row(s, row).ndPos
     /\ \A q \in 0..Row(s, row).ndPos - 1 : Node(t, q) = Node(s, q)
     /\ Len(t.rows) = Len(s.rows)
     /\ \A r \in 0..Len(s.rows) - 1 : r # row => Row(t, r) = Row(s, r)
     /\ \A i \in 1..Len(new) : Has(NodesIn(s, row), new[i])
                               \/ \E k \in 1..Len(lpis) : new[i] = node(k)
     /\ \A i \in 1..Len(NodesIn(s, row)) :
          Has(new, NodesIn(s, row)[i]) \/ NoRoomFor(new, NodesIn(s, row)[i])
     /\ \A k \in 1..Len(lpis) :
          Has(new, node(k)) \/ NoRoomFor(new, node(k)) \/ FarWorse(new, node(k))

\* The nodes of the lemmas are in the order of the lemmas.
LEMMA NodesOfLemmas ==
  ASSUME NEW s, s.nd \in Seq(Nodes), NEW p \in 0..Len(s.nd) - 1, NEW lpis \in SortedItems,
         NEW dmiFr \in Int, NEW row \in Nat
  PROVE  [k \in 1..Len(lpis) |-> NodeFor(s, p, lpis[k], dmiFr, row)] \in Paths(Len(lpis))
<1> DEFINE n == Len(lpis)
           path == [k \in 1..n |-> NodeFor(s, p, lpis[k], dmiFr, row)]
<1>1. Node(s, p).score \in Int
  <2>1. p + 1 \in 1..Len(s.nd)
    OBVIOUS
  <2>2. s.nd[p + 1] \in Nodes
    BY <2>1
  <2> QED BY <2>2 DEF Node, Nodes
<1>2. n \in Nat /\ \A k \in 1..n : lpis[k] \in Items
  BY LenProperties DEF SortedItems
<1>3. \A i, j \in 1..n : i < j => lpis[i].psb <= lpis[j].psb
  BY DEF SortedItems
<1> HIDE DEF n
<1>4. ASSUME NEW k \in 1..n
      PROVE  path[k] \in Nodes /\ path[k].score = Node(s, p).score + lpis[k].psb
             /\ lpis[k].psb \in Int
  <2>1. lpis[k] \in Items
    BY <1>2
  <2>2. path[k] = NodeFor(s, p, lpis[k], dmiFr, row)
    OBVIOUS
  <2>3. lpis[k].id \in Int /\ lpis[k].psb \in Int
    BY <2>1 DEF Items
  <2> HIDE DEF path
  <2> DEFINE score == Node(s, p).score + lpis[k].psb
  <2>4. path[k] = [id |-> lpis[k].id, score |-> score, from |-> p, dmi |-> dmiFr, step |-> row]
    BY <2>2 DEF NodeFor
  <2>5. score \in Int /\ p \in Int /\ row \in Int
    BY <1>1, <2>3
  <2> HIDE DEF score
  <2>6. path[k] \in Nodes /\ path[k].score = score
    BY <2>3, <2>4, <2>5 DEF Nodes
  <2> QED BY <2>3, <2>6 DEF score
<1>5. path \in [1..n -> Nodes]
  BY <1>4
<1> HIDE DEF path
<1>6. \A i, j \in 1..n : i < j => path[i].score <= path[j].score
  BY <1>1, <1>3, <1>4
<1> QED
  BY <1>5, <1>6 DEF Paths, path, n

\* The row with the nodes the loop leaves: nothing else of the matrix is touched.
WithNodes(s, row, nodes) ==
  [[s EXCEPT !.rows[row + 1].fixed = NoPos]
     EXCEPT !.nd = SubSeq(@, 1, Row(s, row).ndPos) \o nodes, !.rows[row + 1].ndNum = Len(nodes)]

LEMMA RowWritten ==
  ASSUME NEW s, NEW row, HoldsRow(s, row), NEW nodes \in RowNodes,
         NEW t, t = WithNodes(s, row, nodes)
  PROVE  /\ HoldsRow(t, row) /\ NodesIn(t, row) = nodes
         /\ EndOfNodes(t, row) = Row(s, row).ndPos + Len(nodes)
         /\ Len(t.nd) = Row(s, row).ndPos + Len(nodes)
         /\ Row(t, row).ndPos = Row(s, row).ndPos
         /\ \A q \in 0..Row(s, row).ndPos - 1 : Node(t, q) = Node(s, q)
         /\ Len(t.rows) = Len(s.rows)
         /\ \A r \in 0..Len(s.rows) - 1 : r # row => Row(t, r) = Row(s, r)
<1> DEFINE pos == Row(s, row).ndPos
           R == Row(s, row)
           rows == [s.rows EXCEPT ![row + 1] = [R EXCEPT !.fixed = NoPos, !.ndNum = Len(nodes)]]
           a == SubSeq(s.nd, 1, pos)
<1>1. /\ row \in Nat /\ row + 1 \in 1..Len(s.rows) /\ s.rows \in Seq(MatrixRows)
      /\ s.nd \in Seq(Nodes) /\ R \in MatrixRows
      /\ EndOfNodes(s, row) <= Len(s.nd)
  BY DEF HoldsRow, Row
<1>2. /\ pos \in Nat /\ R.ndNum \in Nat /\ pos <= Len(s.nd)
  <2>1. pos \in Nat /\ R.ndNum \in Nat
    BY <1>1 DEF MatrixRows
  <2> QED BY <1>1, <2>1 DEF EndOfNodes
<1>3. nodes \in Seq(Nodes) /\ Len(nodes) \in Nat
  BY DEF RowNodes
<1>4. t.nd = a \o nodes /\ t.rows = rows /\ DOMAIN t = DOMAIN s /\ t = [f \in DOMAIN t |-> t[f]]
  <2>1. {"nd", "rows"} \subseteq DOMAIN s /\ s = [f \in DOMAIN s |-> s[f]]
    BY DEF HoldsRow
  <2> DEFINE u == [s EXCEPT !.rows[row + 1].fixed = NoPos]
  <2>2. /\ DOMAIN u = DOMAIN s /\ u.nd = s.nd
        /\ u.rows = [s.rows EXCEPT ![row + 1] = [s.rows[row + 1] EXCEPT !.fixed = NoPos]]
        /\ u = [f \in DOMAIN u |-> u[f]]
    BY <2>1
  <2> HIDE DEF u
  <2>3. /\ DOMAIN t = DOMAIN u
        /\ t.nd = SubSeq(u.nd, 1, pos) \o nodes
        /\ t.rows = [u.rows EXCEPT ![row + 1] = [u.rows[row + 1] EXCEPT !.ndNum = Len(nodes)]]
        /\ t = [f \in DOMAIN t |-> t[f]]
    <3>1. t = [u EXCEPT !.nd = SubSeq(@, 1, pos) \o nodes, !.rows[row + 1].ndNum = Len(nodes)]
      BY DEF u, WithNodes
    <3> DEFINE nd == SubSeq(u.nd, 1, pos) \o nodes
               l == Len(nodes)
               new == [u.rows EXCEPT ![row + 1] = [u.rows[row + 1] EXCEPT !.ndNum = l]]
    <3>2. t = [u EXCEPT !.nd = nd, !.rows[row + 1].ndNum = l]
      BY <3>1
    <3> HIDE DEF nd, l
    <3>3. {"nd", "rows"} \subseteq DOMAIN u /\ u = [f \in DOMAIN u |-> u[f]]
      BY <2>1, <2>2
    <3>4. DOMAIN t = DOMAIN u /\ t.nd = nd /\ t.rows = new /\ t = [f \in DOMAIN t |-> t[f]]
      BY <3>2, <3>3
    <3> QED BY <3>4 DEF nd, l
  <2>4. t.rows = rows
    <3>1. row + 1 \in DOMAIN s.rows
      BY <1>1
    <3>2. u.rows[row + 1] = [R EXCEPT !.fixed = NoPos]
      BY <2>2, <3>1 DEF Row
    <3>3. [u.rows[row + 1] EXCEPT !.ndNum = Len(nodes)]
            = [R EXCEPT !.fixed = NoPos, !.ndNum = Len(nodes)]
      BY <3>2
    <3> HIDE DEF R
    <3> QED BY <2>2, <2>3, <3>1, <3>3
  <2> QED BY <2>2, <2>3, <2>4
<1>5. /\ a \in Seq(Nodes) /\ Len(a) = pos
      /\ \A i \in 1..pos : a[i] = s.nd[i]
  BY <1>1, <1>2
<1> HIDE DEF a
<1>6. /\ t.nd \in Seq(Nodes) /\ Len(t.nd) = pos + Len(nodes)
      /\ \A i \in 1..pos : t.nd[i] = s.nd[i]
      /\ \A i \in 1..Len(nodes) : t.nd[pos + i] = nodes[i]
  <2>1. /\ a \o nodes \in Seq(Nodes) /\ Len(a \o nodes) = Len(a) + Len(nodes)
        /\ \A i \in 1..Len(a) + Len(nodes) :
             (a \o nodes)[i] = IF i <= Len(a) THEN a[i] ELSE nodes[i - Len(a)]
    BY <1>3, <1>5, ConcatProperties
  <2>2. ASSUME NEW i \in 1..pos PROVE (a \o nodes)[i] = s.nd[i]
    <3>1. i \in 1..Len(a) + Len(nodes) /\ i <= Len(a)
      BY <1>2, <1>3, <1>5
    <3> QED BY <1>5, <2>1, <3>1
  <2>3. ASSUME NEW i \in 1..Len(nodes) PROVE (a \o nodes)[pos + i] = nodes[i]
    <3> DEFINE j == pos + i
    <3>2. j \in 1..Len(a) + Len(nodes) /\ ~(j <= Len(a)) /\ j - Len(a) = i
      BY <1>2, <1>3, <1>5
    <3> HIDE DEF j
    <3>3. (a \o nodes)[j] = nodes[j - Len(a)]
      <4> DEFINE c == a \o nodes
      <4> HIDE DEF c
      <4>1. \A h \in 1..Len(a) + Len(nodes) : c[h] = IF h <= Len(a) THEN a[h] ELSE nodes[h - Len(a)]
        BY <2>1 DEF c
      <4> QED BY <3>2, <4>1 DEF c
    <3> QED BY <3>2, <3>3 DEF j
  <2> QED BY <1>4, <1>5, <2>1, <2>2, <2>3
<1>7. /\ rows \in Seq(MatrixRows) /\ Len(rows) = Len(s.rows)
      /\ rows[row + 1] = [R EXCEPT !.fixed = NoPos, !.ndNum = Len(nodes)]
      /\ \A i \in 1..Len(s.rows) : i # row + 1 => rows[i] = s.rows[i]
  <2>1. [R EXCEPT !.fixed = NoPos, !.ndNum = Len(nodes)] \in MatrixRows
    <3>1. NoPos \in Int
      BY DEF NoPos
    <3> QED BY <1>1, <1>3, <3>1 DEF MatrixRows
  <2> DEFINE new == [R EXCEPT !.fixed = NoPos, !.ndNum = Len(nodes)]
  <2> HIDE DEF new
  <2>2. [s.rows EXCEPT ![row + 1] = new] \in Seq(MatrixRows)
        /\ Len([s.rows EXCEPT ![row + 1] = new]) = Len(s.rows)
        /\ [s.rows EXCEPT ![row + 1] = new][row + 1] = new
        /\ \A i \in 1..Len(s.rows) : i # row + 1 => [s.rows EXCEPT ![row + 1] = new][i] = s.rows[i]
    <3>1. new \in MatrixRows
      BY <2>1 DEF new
    <3> QED BY <1>1, <3>1, ExceptSeq
  <2> QED BY <2>2 DEF new
<1>8. Row(t, row).ndPos = pos /\ Row(t, row).ndNum = Len(nodes)
  <2>1. Row(t, row) = [R EXCEPT !.fixed = NoPos, !.ndNum = Len(nodes)]
    <3> HIDE DEF R, rows
    <3> QED BY <1>4, <1>7 DEF Row
  <2>2. pos = R.ndPos
    OBVIOUS
  <2> HIDE DEF R, pos
  <2> QED BY <1>1, <2>1, <2>2 DEF MatrixRows
<1>9. ASSUME NEW r \in 0..Len(s.rows) - 1, r # row PROVE Row(t, r) = Row(s, r)
  <2>1. r + 1 \in 1..Len(s.rows) /\ r + 1 # row + 1
    BY <1>1, <1>9
  <2> HIDE DEF rows
  <2> QED BY <1>4, <1>7, <2>1 DEF Row
<1> HIDE DEF pos, R, rows
<1>10. EndOfNodes(t, row) = pos + Len(nodes)
  BY <1>8 DEF EndOfNodes
<1>11. NodesIn(t, row) = nodes
  <2>1. NodesIn(t, row) = SubSeq(t.nd, pos + 1, pos + Len(nodes))
    BY <1>8, <1>10 DEF NodesIn
  <2> DEFINE b == SubSeq(t.nd, pos + 1, pos + Len(nodes))
  <2>2. /\ b \in Seq(Nodes) /\ Len(b) = Len(nodes)
        /\ \A i \in 1..Len(nodes) : b[i] = t.nd[pos + i]
    <3>1. pos + 1 \in 1..Len(t.nd) + 1 /\ pos + Len(nodes) \in pos..Len(t.nd)
      BY <1>2, <1>3, <1>6
    <3> DEFINE nd == t.nd
               last == pos + Len(nodes)
    <3>2. nd \in Seq(Nodes) /\ Len(nd) = last /\ pos + 1 <= last + 1 /\ last \in Nat
      BY <1>2, <1>3, <1>6
    <3> HIDE DEF nd
    <3>3. /\ SubSeq(nd, pos + 1, last) \in Seq(Nodes)
          /\ Len(SubSeq(nd, pos + 1, last)) = last - pos
          /\ \A i \in 1..last - pos : SubSeq(nd, pos + 1, last)[i] = nd[pos + i]
      <4> HIDE DEF last
      <4> QED BY <1>2, <3>2
    <3>4. last - pos = Len(nodes)
      BY <1>2, <1>3
    <3> QED BY <3>3, <3>4 DEF nd
  <2> HIDE DEF b
  <2>3. b = nodes
    <3>1. \A i \in 1..Len(nodes) : b[i] = nodes[i]
      BY <1>6, <2>2
    <3> QED BY <1>3, <2>2, <3>1, SeqEqual
  <2> QED BY <2>1, <2>3 DEF b
<1>12. \A q \in 0..pos - 1 : Node(t, q) = Node(s, q)
  <2> SUFFICES ASSUME NEW q \in 0..pos - 1 PROVE Node(t, q) = Node(s, q)
    OBVIOUS
  <2>1. q + 1 \in 1..pos
    BY <1>2
  <2> QED BY <1>6, <2>1 DEF Node
<1>13. HoldsRow(t, row)
  <2>1. {"nd", "rows"} \subseteq DOMAIN t
    BY <1>4 DEF HoldsRow
  <2>2. row \in 0..Len(t.rows) - 1
    BY <1>1, <1>4, <1>7
  <2>3. EndOfNodes(t, row) <= Len(t.nd)
    BY <1>2, <1>3, <1>6, <1>10
  <2> QED BY <1>4, <1>6, <1>7, <1>11, <2>1, <2>2, <2>3 DEF HoldsRow
<1> QED
  BY <1>4, <1>6, <1>7, <1>8, <1>9, <1>10, <1>11, <1>12, <1>13 DEF pos

\* What the loop leaves of the first n lemmas is as good as what it would leave of all of them,
\* if n is all or as many as a row has nodes.
LEMMA LoopSuffices ==
  ASSUME NEW old \in RowNodes, NEW all \in Nat, NEW path \in Paths(all), NEW n \in 0..all,
         n = all \/ n = kMaxNodeARow, NEW w, Extended(old, all, path, n, w)
  PROVE  /\ w.nodes \in RowNodes
         /\ \A i \in 1..Len(w.nodes) : Has(old, w.nodes[i])
                                       \/ \E k \in 1..all : w.nodes[i] = path[k]
         /\ \A i \in 1..Len(old) : Has(w.nodes, old[i]) \/ NoRoomFor(w.nodes, old[i])
         /\ \A k \in 1..all : Has(w.nodes, path[k]) \/ NoRoomFor(w.nodes, path[k])
                              \/ FarWorse(w.nodes, path[k])
<1>1. w \in Works /\ w.nodes \in RowNodes /\ w.nodes \in Seq(Nodes)
      /\ Len(w.nodes) <= kMaxNodeARow /\ kMaxNodeARow \in Nat
  BY MatrixAssumption DEF Extended, Works, RowNodes
<1>2. \A k \in 1..n : k \in 1..all
  OBVIOUS
<1>3. ASSUME NEW i \in 1..Len(w.nodes)
      PROVE  Has(old, w.nodes[i]) \/ \E k \in 1..all : w.nodes[i] = path[k]
  BY <1>2 DEF Extended
<1>4. ASSUME NEW k \in 1..all
      PROVE  Has(w.nodes, path[k]) \/ NoRoomFor(w.nodes, path[k]) \/ FarWorse(w.nodes, path[k])
  <2>1. CASE k <= n
    <3>1. k \in 1..n
      BY <2>1
    <3> QED BY <3>1 DEF Extended
  <2>2. CASE k > n /\ w.stop
    <3>1. k >= n
      BY <2>2
    <3> QED BY <2>2, <3>1 DEF Extended
  <2>3. CASE k > n /\ ~w.stop
    <3>1. n = kMaxNodeARow
      BY <2>3
    <3>2. \A i \in 1..n : i <= Len(w.nodes) /\ w.nodes[i].score <= path[n].score
      <4>1. \A i \in 1..n : i <= kMaxNodeARow => i <= Len(w.nodes)
                                                 /\ w.nodes[i].score <= path[n].score
        BY <2>3 DEF Extended
      <4>2. \A i \in 1..n : i <= kMaxNodeARow
        BY <3>1
      <4> QED BY <4>1, <4>2
    <3>3. n >= 1 /\ n \in 1..n /\ n \in 1..all
      BY <3>1, MatrixAssumption
    <3>4. Len(w.nodes) = n
      <4>1. n <= Len(w.nodes)
        BY <3>2, <3>3
      <4>2. Len(w.nodes) \in Nat
        BY <1>1
      <4> QED BY <1>1, <3>1, <4>1, <4>2
    <3>5. path[n].score <= path[k].score
      BY <2>3, <3>3 DEF Paths
    <3>6. \A j \in 1..all : path[j].score \in Int
      <4>1. (\A x \in Nodes : x.score \in Int) /\ \A j \in 1..all : path[j] \in Nodes
        BY DEF Nodes, Paths
      <4> QED BY <4>1
    <3>7. \A i \in 1..n : w.nodes[i].score \in Int
      <4>1. \A i \in 1..n : w.nodes[i] \in Nodes
        BY <1>1, <3>4
      <4>2. \A x \in Nodes : x.score \in Int
        BY DEF Nodes
      <4> QED BY <4>1, <4>2
    <3>8. \A i \in 1..n : w.nodes[i].score <= path[k].score
      BY <3>2, <3>3, <3>5, <3>6, <3>7
    <3> QED BY <3>1, <3>4, <3>8 DEF NoRoomFor
  <2> QED BY <2>1, <2>2, <2>3
<1> QED
  BY <1>1, <1>3, <1>4 DEF Extended

\* extend_mtrx_nd keeps the best: whatever the row held and the lemmas are, unless the pool is
\* used up the row holds nothing but its old nodes and those of the lemmas, in order and within
\* its room; an old node is lost only from a row then full of nodes that score no worse, and a
\* lemma is left out only from such a row or if it is worse than the best by more than
\* PRUMING_SCORE.  So the end of the loop at the first such lemma, and the taking of no more than
\* kMaxNodeARow lemmas at the start, lose nothing.  The rest of the matrix is untouched.
THEOREM RowKeepsBest ==
  ASSUME NEW s, NEW row, HoldsRow(s, row),
         NEW p \in 0..Len(s.nd) - 1, NEW lpis \in SortedItems, NEW dmiFr \in Int,
         NEW used \in Row(s, row).ndPos..kMtrxNdPoolSize - kMaxNodeARow - 1
  PROVE  RowKept(s, p, lpis, dmiFr, row, ExtendMtrxNd(s, p, lpis, dmiFr, row, used))
<1> DEFINE pos == Row(s, row).ndPos
           old == NodesIn(s, row)
           all == Len(lpis)
           n == IF Node(s, p).step = 0 THEN Min({kMaxNodeARow, all}) ELSE all
           path == [k \in 1..all |-> NodeFor(s, p, lpis[k], dmiFr, row)]
           after == CHOOSE f : f = [k \in 0..n |->
                      IF k = 0 THEN [nodes |-> SubSeq(s.nd, pos + 1, EndOfNodes(s, row)),
                                     stop |-> FALSE]
                      ELSE NodeTurn(f[k - 1], NodeFor(s, p, lpis[k], dmiFr, row), k, pos)]
           t == ExtendMtrxNd(s, p, lpis, dmiFr, row, used)
<1>1. /\ old \in RowNodes /\ row \in Nat /\ all \in Nat /\ s.nd \in Seq(Nodes)
      /\ path \in Paths(all)
  <2>1. row \in Nat /\ s.nd \in Seq(Nodes) /\ old \in RowNodes
    BY DEF HoldsRow
  <2>2. all \in Nat
    BY LenProperties DEF SortedItems
  <2>3. p \in 0..Len(s.nd) - 1 /\ lpis \in SortedItems /\ dmiFr \in Int
    OBVIOUS
  <2>4. path \in Paths(all)
    BY <2>1, <2>3, NodesOfLemmas, Zenon
  <2> QED BY <2>1, <2>2, <2>4, Zenon
<1>2. pos \in Nat /\ pos <= used /\ used < kMtrxNdPoolSize - kMaxNodeARow
      /\ kMtrxNdPoolSize \in Nat /\ kMaxNodeARow \in Nat /\ used \in Int
  <2>1. pos \in Nat
    <3>1. row + 1 \in 1..Len(s.rows) /\ s.rows \in Seq(MatrixRows)
      BY <1>1 DEF HoldsRow
    <3>2. Row(s, row) \in MatrixRows
      BY <3>1 DEF Row
    <3> QED BY <3>2 DEF MatrixRows
  <2> QED BY <2>1, MatrixAssumption
<1>3. n \in 0..all /\ (n = all \/ n = kMaxNodeARow)
  <2>1. all \in Int /\ kMaxNodeARow \in Int
    <3> HIDE DEF all
    <3> QED BY <1>1, <1>2
  <2> HIDE DEF all, path
  <2>2. Min({kMaxNodeARow, all}) = IF kMaxNodeARow <= all THEN kMaxNodeARow ELSE all
    BY <2>1, MinOfTwo, Zenon
  <2> QED BY <1>1, <1>2, <2>2
<1>4. t = WithNodes(s, row, after[n].nodes)
  <2>1. ~(used >= kMtrxNdPoolSize - kMaxNodeARow)
    BY <1>2
  <2> QED BY <2>1, Zenon DEF ExtendMtrxNd, WithNodes
<1>5. \A k \in 1..n : path[k] = NodeFor(s, p, lpis[k], dmiFr, row)
  <2>1. \A k \in 1..n : k \in 1..all
    BY <1>1, <1>3
  <2> HIDE DEF n, all
  <2> QED BY <2>1
<1>6. old = SubSeq(s.nd, pos + 1, EndOfNodes(s, row))
  BY DEF NodesIn
<1> HIDE DEF pos, old, all, n, path, t
<1>7. pos + kMaxNodeARow <= kMtrxNdPoolSize
  BY <1>2
<1>8. Loop(old, n, path, pos, after)
  <2> DEFINE Node1(k) == NodeFor(s, p, lpis[k], dmiFr, row)
  <2> HIDE DEF Node1
  <2>1. \A k \in 1..n : path[k] = Node1(k)
    BY <1>5 DEF Node1
  <2>2. PICK g : Loop(old, n, path, pos, g)
    BY <1>1, <1>2, <1>3, <1>7, LoopKeeps
  <2>3. ASSUME NEW h
        PROVE  [k \in 0..n |-> IF k = 0 THEN [nodes |-> old, stop |-> FALSE]
                               ELSE NodeTurn(h[k - 1], path[k], k, pos)]
             = [k \in 0..n |-> IF k = 0 THEN [nodes |-> old, stop |-> FALSE]
                               ELSE NodeTurn(h[k - 1], Node1(k), k, pos)]
    <3>1. \A k \in 0..n : k # 0 => k \in 1..n
      OBVIOUS
    <3>2. \A k \in 0..n : k # 0 => path[k] = Node1(k)
      BY <2>1, <3>1
    <3> QED BY <3>2
  <2>4. g = [k \in 0..n |-> IF k = 0 THEN [nodes |-> old, stop |-> FALSE]
                            ELSE NodeTurn(g[k - 1], Node1(k), k, pos)]
    BY <2>2, <2>3 DEF Loop
  <2>5. after = CHOOSE f : f = [k \in 0..n |->
                      IF k = 0 THEN [nodes |-> old, stop |-> FALSE]
                      ELSE NodeTurn(f[k - 1], Node1(k), k, pos)]
    BY <1>6, Zenon DEF Node1
  <2> HIDE DEF after
  <2>6. after = [k \in 0..n |-> IF k = 0 THEN [nodes |-> old, stop |-> FALSE]
                                ELSE NodeTurn(after[k - 1], Node1(k), k, pos)]
    BY <2>4, <2>5, Zenon
  <2> QED BY <2>3, <2>6 DEF Loop
<1> HIDE DEF after
<1>9. Extended(old, all, path, n, after[n])
  BY <1>1, <1>2, <1>3, <1>7, <1>8, LoopKeeps
<1> DEFINE new == after[n].nodes
<1>10. /\ new \in RowNodes
       /\ \A i \in 1..Len(new) : Has(old, new[i]) \/ \E k \in 1..all : new[i] = path[k]
       /\ \A i \in 1..Len(old) : Has(new, old[i]) \/ NoRoomFor(new, old[i])
       /\ \A k \in 1..all : Has(new, path[k]) \/ NoRoomFor(new, path[k]) \/ FarWorse(new, path[k])
  BY <1>1, <1>3, <1>9, LoopSuffices
<1> HIDE DEF new
<1>11. t = WithNodes(s, row, new)
  BY <1>4 DEF new
<1>12. /\ HoldsRow(t, row) /\ NodesIn(t, row) = new
       /\ EndOfNodes(t, row) = pos + Len(new) /\ Len(t.nd) = pos + Len(new)
       /\ Row(t, row).ndPos = pos
       /\ \A q \in 0..pos - 1 : Node(t, q) = Node(s, q)
       /\ Len(t.rows) = Len(s.rows)
       /\ \A r \in 0..Len(s.rows) - 1 : r # row => Row(t, r) = Row(s, r)
  BY <1>10, <1>11, RowWritten DEF pos
<1>13. Len(t.nd) <= kMtrxNdPoolSize
  <2>1. Len(new) \in Nat /\ Len(new) <= kMaxNodeARow
    BY <1>10 DEF RowNodes
  <2> QED BY <1>2, <1>7, <1>12, <2>1
<1>14. \A k \in 1..all : path[k] = NodeFor(s, p, lpis[k], dmiFr, row)
  BY DEF path
<1>15. RowKept(s, p, lpis, dmiFr, row, t)
  BY <1>10, <1>12, <1>13, <1>14 DEF RowKept, pos, old, all
<1> QED
  BY <1>15 DEF t
=============================================================================

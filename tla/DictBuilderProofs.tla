-------------------------- MODULE DictBuilderProofs --------------------------
(***************************************************************************)
(* Proofs about DictBuilder, for every lexicon and every size of the table *)
(* of spellings: the hash table loses no spelling, doubles none and finds  *)
(* every entry by its own probe, however the puts collide; and the build   *)
(* gives every lemma one id, in the order of the words.                    *)
(***************************************************************************)
EXTENDS DictBuilder, Basics, FiniteSetTheorems

\* Spellings, as sequences of letters.
Texts == Seq(Nat)

\* The places of the hash table.
Slots == 0..HashLen - 1

\* What a table of spellings may hold.
Tables == [raw : [Slots -> Texts], num : Nat, frozen : BOOLEAN]

\* The places a spelling was put in.
Occupied(tb) == {pos \in Slots : tb.raw[pos] # <<>>}

\* Whether the probe for str meets str or a free slot at its step k, and not before.
Meets(tb, str, k) == tb.raw[Probe(str, k)] \in {str, <<>>}

\* The search for str stops after k further probes: at str or at a free place.
StopsAt(tb, str, k) ==
  /\ k \in Slots /\ Meets(tb, str, k)
  /\ \A j \in 0..k - 1 : ~Meets(tb, str, j)

\* Every entry sits where its own probe finds it.
Placed(tb) ==
  \A pos \in Occupied(tb) :
    \E k \in Slots : Probe(tb.raw[pos], k) = pos /\ StopsAt(tb, tb.raw[pos], k)

\* The invariant of put_spelling: the number of places taken, and every spelling where a search
\* meets it.
TableInv(tb) ==
  /\ tb \in Tables
  /\ Placed(tb)
  /\ tb.num = Cardinality(Occupied(tb))

\* A spelling is in the table.
Holds(tb, str) == \E pos \in Slots : tb.raw[pos] = str

---------------------------------------------------------------------------
\* The sum of the first characters of a spelling is a number (get_hash_pos).
LEMMA CharSumType ==
  ASSUME NEW n \in Nat, NEW str \in [1..n -> Int]
  PROVE  CharSum(str, n) \in Int
<1> DEFINE f == CHOOSE f : f = [k \in 0..n |-> IF k = 0 THEN 0 ELSE f[k-1] + str[k]]
<1>1. PICK g \in [0..n -> Int] : g[0] = 0 /\ \A k \in 1..n : g[k] = g[k-1] + str[k]
  BY SumsExist
<1>2. g = [k \in 0..n |-> IF k = 0 THEN 0 ELSE g[k-1] + str[k]]
  BY <1>1
<1>3. f = [k \in 0..n |-> IF k = 0 THEN 0 ELSE f[k-1] + str[k]]
  BY <1>2
<1> HIDE DEF f
<1>4. \A k \in 0..n : f[k] = g[k]
  <2> DEFINE T == {k \in 0..n : f[k] = g[k]}
  <2>1. 0 \in T
    BY <1>1, <1>3
  <2>2. ASSUME NEW k \in 0..n-1, k \in T PROVE k + 1 \in T
    <3>1. f[k+1] = g[k+1]
      BY <1>1, <1>3, <2>2
    <3> QED BY <3>1
  <2> HIDE DEF T
  <2>3. \A k \in 0..n : k \in T
    BY <2>1, <2>2, UpTo
  <2> QED BY <2>3 DEF T
<1>5. f[n] \in Int
  BY <1>4
<1> QED
  BY <1>5 DEF CharSum, f

\* The hash of a spelling, and each slot its probe visits, is a slot of the table.
LEMMA ProbeType ==
  ASSUME NEW str \in Texts, NEW k \in Int
  PROVE  HashPos(str) \in Slots /\ Probe(str, k) \in Slots
<1>1. PICK n \in Nat : n = Len(str) /\ str \in [1..n -> Int]
  BY DEF Texts
<1>2. CharSum(str, Len(str)) \in Int
  BY <1>1, CharSumType
<1>3. HashPos(str) \in Slots
  BY <1>2, HashLenAssumption DEF HashPos, Slots
<1> QED
  BY <1>3, HashLenAssumption DEF Probe, Slots

\* The steps counted are those after which the probe stops, or all of them.
LEMMA StepsStop ==
  ASSUME NEW tb, NEW str
  PROVE  /\ Steps(tb, str) \in 0..HashLen
         /\ Steps(tb, str) # HashLen => StopsAt(tb, str, Steps(tb, str))
<1> DEFINE M == {k \in Slots : Meets(tb, str, k)}
           S == {HashLen} \cup M
<1>1. S \in SUBSET Nat /\ S # {} /\ \A k \in S : k \in 0..HashLen
  BY HashLenAssumption DEF Slots
<1>2. Steps(tb, str) = CHOOSE k \in S : \A j \in S : k <= j
  BY DEF Steps, Min, Meets, Slots
<1> HIDE DEF M, S
<1>3. Steps(tb, str) \in S /\ \A j \in S : Steps(tb, str) <= j
  <2>1. \E k \in S : \A j \in S : k <= j
    BY <1>1, LeastNat
  <2> QED BY <1>2, <2>1
<1>4. Steps(tb, str) \in 0..HashLen
  BY <1>1, <1>3, HashLenAssumption
<1>5. ASSUME Steps(tb, str) # HashLen PROVE StopsAt(tb, str, Steps(tb, str))
  <2>1. Steps(tb, str) \in M
    BY <1>3, <1>5 DEF S
  <2>2. ASSUME NEW j \in 0..Steps(tb, str) - 1 PROVE ~Meets(tb, str, j)
    <3>1. j \in Slots /\ ~(Steps(tb, str) <= j)
      BY <1>4, HashLenAssumption DEF Slots
    <3>2. j \notin S
      BY <1>3, <3>1
    <3> QED BY <3>1, <3>2 DEF S, M
  <2> QED BY <2>1, <2>2 DEF StopsAt, M
<1> QED
  BY <1>4, <1>5

\* There is but one step at which a probe stops.
LEMMA StopsOnce ==
  ASSUME NEW tb, NEW str, NEW k, StopsAt(tb, str, k)
  PROVE  Steps(tb, str) = k
<1>1. k \in 0..HashLen - 1 /\ Meets(tb, str, k) /\ \A j \in 0..k - 1 : ~Meets(tb, str, j)
  BY DEF StopsAt, Slots
<1> DEFINE s == Steps(tb, str)
<1>2. s \in 0..HashLen /\ (s # HashLen => StopsAt(tb, str, s))
  BY StepsStop
<1> DEFINE M == {i \in Slots : Meets(tb, str, i)}
           S == {HashLen} \cup M
<1>3. S \in SUBSET Nat /\ S # {} /\ k \in S
  BY <1>1, HashLenAssumption DEF Slots
<1>4. s = CHOOSE i \in S : \A j \in S : i <= j
  BY DEF Steps, Min, Meets, Slots
<1> HIDE DEF M, S, s
<1>5. s <= k
  <2>1. \E i \in S : \A j \in S : i <= j
    BY <1>3, LeastNat
  <2> QED BY <1>3, <1>4, <2>1
<1>6. ~(s < k)
  <2>1. SUFFICES ASSUME s < k PROVE FALSE
    OBVIOUS
  <2>2. s # HashLen /\ s \in 0..k - 1
    BY <1>1, <1>2, <2>1, HashLenAssumption
  <2> QED BY <1>1, <1>2, <2>2 DEF StopsAt
<1> QED
  <2>1. s = k
    BY <1>1, <1>2, <1>5, <1>6, HashLenAssumption
  <2> QED BY <2>1 DEF s

---------------------------------------------------------------------------
\* The table a put leaves, and that str is in it if the put says so (put_spelling).
Stored(tb, str, r) ==
  /\ r.ok \in BOOLEAN
  /\ TableInv(r.table)
  /\ r.table.frozen = tb.frozen
  /\ \A pos \in Occupied(tb) : r.table.raw[pos] = tb.raw[pos]
  /\ r.ok => Holds(r.table, str)

\* The table with a spelling in the slot its probe reaches in k steps.
Taken(tb, str, k) == [tb EXCEPT !.raw[Probe(str, k)] = str, !.num = @ + 1]

\* A spelling put into the free slot its probe stops at leaves every other entry where its
\* own probe finds it.
LEMMA FreeSlotTaken ==
  ASSUME NEW tb, TableInv(tb), NEW str \in Texts, str # <<>>, NEW k, StopsAt(tb, str, k),
         tb.raw[Probe(str, k)] # str
  PROVE  Stored(tb, str, [ok |-> TRUE, table |-> Taken(tb, str, k)])
<1> DEFINE pos == Probe(str, k)
           tc == Taken(tb, str, k)
<1>1. k \in Slots /\ k \in Int /\ pos \in Slots
  BY ProbeType, HashLenAssumption DEF StopsAt, Slots
<1>2. tb \in Tables /\ tb.raw \in [Slots -> Texts] /\ tb.num \in Nat /\ tb.frozen \in BOOLEAN
  BY DEF TableInv, Tables
<1>3. tb.raw[pos] = <<>>
  BY DEF StopsAt, Meets
<1>4. tc \in Tables /\ tc.frozen = tb.frozen /\ tc.num = tb.num + 1
  <2> DEFINE t1 == [tb EXCEPT !.raw[pos] = str]
  <2>1. [tb.raw EXCEPT ![pos] = str] \in [Slots -> Texts]
    BY <1>1, <1>2
  <2>2. t1 \in Tables /\ t1.num = tb.num /\ t1.frozen = tb.frozen
    BY <1>2, <2>1 DEF Tables
  <2>3. tc = [t1 EXCEPT !.num = @ + 1]
    BY <2>2 DEF Taken
  <2> HIDE DEF t1, tc
  <2> QED BY <1>2, <2>2, <2>3 DEF Tables
<1>5. tc.raw[pos] = str /\ \A q \in Slots : q # pos => tc.raw[q] = tb.raw[q]
  <2>1. tc.raw = [tb.raw EXCEPT ![pos] = str]
    BY <1>2 DEF Tables, Taken
  <2> HIDE DEF tc, pos
  <2> QED BY <1>1, <1>2, <2>1
<1> HIDE DEF pos, tc
<1>6. Occupied(tc) = Occupied(tb) \cup {pos} /\ pos \notin Occupied(tb)
  BY <1>1, <1>3, <1>4, <1>5 DEF Occupied
<1>7. tc.num = Cardinality(Occupied(tc))
  <2>1. IsFiniteSet(Occupied(tb))
    <3>1. IsFiniteSet(Slots)
      BY FS_Interval, HashLenAssumption DEF Slots
    <3> QED BY <3>1, FS_Subset DEF Occupied
  <2>2. Cardinality(Occupied(tc)) = Cardinality(Occupied(tb)) + 1
    BY <1>6, <2>1, FS_AddElement
  <2> QED BY <1>4, <2>2 DEF TableInv
<1>8. ASSUME NEW e \in Texts, e # <<>>, NEW j \in Slots, Meets(tb, e, j), tb.raw[Probe(e, j)] = e
      PROVE  Meets(tc, e, j)
  <2>1. Probe(e, j) \in Slots
    BY ProbeType DEF Slots
  <2>2. Probe(e, j) # pos
    BY <1>3, <1>8
  <2> QED BY <1>5, <1>8, <2>1, <2>2 DEF Meets
<1>9. ASSUME NEW e \in Texts, NEW j \in Slots, ~Meets(tb, e, j)
      PROVE  ~Meets(tc, e, j)
  <2>1. Probe(e, j) \in Slots
    BY ProbeType DEF Slots
  <2>2. Probe(e, j) # pos
    BY <1>3, <1>9 DEF Meets
  <2> QED BY <1>5, <1>9, <2>1, <2>2 DEF Meets
<1>10. ASSUME NEW q \in Occupied(tc)
       PROVE  \E j \in Slots : Probe(tc.raw[q], j) = q /\ StopsAt(tc, tc.raw[q], j)
  <2>1. CASE q = pos
    <3>1. Meets(tc, str, k)
      BY <1>5 DEF Meets, pos
    <3>2. ASSUME NEW j \in 0..k - 1 PROVE ~Meets(tc, str, j)
      <4>1. j \in Slots /\ ~Meets(tb, str, j)
        BY <1>1, HashLenAssumption DEF StopsAt, Slots
      <4> QED BY <4>1, <1>9
    <3> QED BY <1>1, <1>5, <2>1, <3>1, <3>2 DEF StopsAt, pos
  <2>2. CASE q # pos
    <3> DEFINE e == tb.raw[q]
    <3>1. q \in Occupied(tb) /\ e \in Texts /\ e # <<>> /\ tc.raw[q] = e
      BY <1>2, <1>5, <1>6, <2>2 DEF Occupied
    <3>2. PICK j \in Slots : Probe(e, j) = q /\ StopsAt(tb, e, j)
      BY <3>1 DEF TableInv, Placed
    <3>3. Meets(tc, e, j)
      BY <1>8, <3>1, <3>2 DEF StopsAt
    <3>4. ASSUME NEW i \in 0..j - 1 PROVE ~Meets(tc, e, i)
      <4>1. i \in Slots /\ ~Meets(tb, e, i)
        BY <3>2, HashLenAssumption DEF StopsAt, Slots
      <4> QED BY <4>1, <3>1, <1>9
    <3> QED BY <3>1, <3>2, <3>3, <3>4 DEF StopsAt
  <2> QED BY <2>1, <2>2
<1>11. TableInv(tc)
  BY <1>4, <1>7, <1>10 DEF TableInv, Placed
<1>12. Holds(tc, str)
  BY <1>1, <1>5 DEF Holds
<1>13. \A q \in Occupied(tb) : tc.raw[q] = tb.raw[q]
  BY <1>5, <1>6 DEF Occupied
<1> QED
  BY <1>4, <1>11, <1>12, <1>13 DEF Stored, tc, pos

\* put_spelling keeps the invariant of the table, and str is in it when the call succeeds.
LEMMA PutStores ==
  ASSUME NEW tb, TableInv(tb), NEW str \in Texts, str # <<>>
  PROVE  Stored(tb, str, PutSpelling(tb, str))
<1> DEFINE k == Steps(tb, str)
           r == PutSpelling(tb, str)
<1>1. CASE tb.frozen \/ str \in NotSupported \/ k = HashLen
  <2>1. r = [ok |-> FALSE, table |-> tb]
    BY <1>1 DEF PutSpelling
  <2> QED BY <2>1 DEF Stored
<1>2. CASE ~(tb.frozen \/ str \in NotSupported \/ k = HashLen)
  <2>1. StopsAt(tb, str, k)
    BY <1>2, StepsStop
  <2>2. CASE tb.raw[Probe(str, k)] = str
    <3>1. r = [ok |-> TRUE, table |-> tb]
      BY <1>2, <2>2 DEF PutSpelling
    <3>2. Probe(str, k) \in Slots
      BY <2>1, ProbeType DEF StopsAt, Slots
    <3>3. Holds(tb, str)
      BY <2>2, <3>2 DEF Holds
    <3> QED BY <3>1, <3>3 DEF Stored
  <2>3. CASE tb.raw[Probe(str, k)] # str
    <3>1. r = [ok |-> TRUE, table |-> Taken(tb, str, k)]
      BY <1>2, <2>3 DEF PutSpelling, Taken
    <3> HIDE DEF r, k
    <3> QED BY <2>1, <2>3, <3>1, FreeSlotTaken DEF r
  <2> QED BY <2>2, <2>3
<1> HIDE DEF k, r
<1> QED
  BY <1>1, <1>2 DEF r

---------------------------------------------------------------------------
\* What the puts of the first spellings of a line keep and store.
Kept(tb, spell, m, r) ==
  /\ r \in [ok : BOOLEAN, table : Tables]
  /\ TableInv(r.table)
  /\ r.table.frozen = tb.frozen
  /\ \A pos \in Occupied(tb) : r.table.raw[pos] = tb.raw[pos]
  /\ r.ok => \A k \in 1..m : Holds(r.table, spell[k])

\* One more put of a line, after those that went well.
NextPut(spell, k, r) == IF r.ok THEN PutSpelling(r.table, spell[k]) ELSE r

\* A spelling stays in a table whose taken places are kept.
LEMMA HeldStays ==
  ASSUME NEW tb, NEW tc, NEW str, str # <<>>, Holds(tb, str),
         \A pos \in Occupied(tb) : tc.raw[pos] = tb.raw[pos]
  PROVE  Holds(tc, str)
BY DEF Holds, Occupied

\* put_spelling returns whether it succeeded, and a table.
LEMMA PutResultType ==
  ASSUME NEW tb, TableInv(tb), NEW str \in Texts, str # <<>>
  PROVE  PutSpelling(tb, str) \in [ok : BOOLEAN, table : Tables]
<1> DEFINE r == PutSpelling(tb, str)
<1>1. r.ok \in BOOLEAN /\ r.table \in Tables
  BY PutStores DEF Stored, TableInv
<1>2. r = [ok |-> r.ok, table |-> r.table]
  BY DEF PutSpelling
<1> HIDE DEF r
<1>3. r \in [ok : BOOLEAN, table : Tables]
  BY <1>1, <1>2
<1> QED
  BY <1>3 DEF r

\* One more spelling of a line put into the table.
LEMMA NextPutKeeps ==
  ASSUME NEW tb, TableInv(tb), NEW n \in Nat, NEW spell \in [1..n -> Texts],
         \A k \in 1..n : spell[k] # <<>>,
         NEW k \in 1..n, NEW r, Kept(tb, spell, k - 1, r)
  PROVE  Kept(tb, spell, k, NextPut(spell, k, r))
<1> DEFINE x == PutSpelling(r.table, spell[k])
<1>1. CASE ~r.ok
  BY <1>1 DEF Kept, NextPut
<1>2. CASE r.ok
  <2>1. spell[k] \in Texts /\ spell[k] # <<>> /\ TableInv(r.table)
    BY DEF Kept
  <2>2. Stored(r.table, spell[k], x) /\ x \in [ok : BOOLEAN, table : Tables]
    BY <2>1, PutStores, PutResultType
  <2>3. NextPut(spell, k, r) = x
    BY <1>2 DEF NextPut
  <2> HIDE DEF x
  <2>4. ASSUME NEW pos \in Occupied(tb) PROVE x.table.raw[pos] = tb.raw[pos]
    <3>1. r.table.raw[pos] = tb.raw[pos] /\ pos \in Occupied(r.table)
      BY DEF Kept, Occupied
    <3> QED BY <2>2, <3>1 DEF Stored
  <2>5. ASSUME x.ok, NEW j \in 1..k PROVE Holds(x.table, spell[j])
    <3>1. CASE j = k
      BY <2>2, <2>5, <3>1 DEF Stored
    <3>2. CASE j # k
      <4>1. j \in 1..k - 1 /\ j \in 1..n
        BY <3>2
      <4>2. Holds(r.table, spell[j]) /\ spell[j] # <<>>
        BY <1>2, <4>1 DEF Kept
      <4>3. \A pos \in Occupied(r.table) : x.table.raw[pos] = r.table.raw[pos]
        BY <2>2 DEF Stored
      <4> QED BY <4>2, <4>3, HeldStays
    <3> QED BY <3>1, <3>2
  <2>6. Kept(tb, spell, k, x)
    BY <2>2, <2>4, <2>5 DEF Kept, Stored
  <2> QED BY <2>3, <2>6
<1> QED
  BY <1>1, <1>2

\* The puts of a line keep the table in order and store its spellings, if all went well.
LEMMA PutFirstKeeps ==
  ASSUME NEW tb, TableInv(tb), NEW n \in Nat, NEW spell \in [1..n -> Texts],
         \A k \in 1..n : spell[k] # <<>>
  PROVE  Kept(tb, spell, n, PutFirst(tb, spell, n))
<1> DEFINE start == [ok |-> TRUE, table |-> tb]
           f == CHOOSE f : f = [k \in 0..n |-> IF k = 0 THEN start
                                              ELSE IF f[k-1].ok
                                                   THEN PutSpelling(f[k-1].table, spell[k])
                                                   ELSE f[k-1]]
           S == {r \in [ok : BOOLEAN, table : Tables] : TableInv(r.table)}
           turn == [k \in 1..n |-> [r \in S |-> NextPut(spell, k, r)]]
<1>1. PutFirst(tb, spell, n) = f[n]
  BY DEF PutFirst
<1>2. start.ok = TRUE /\ start.table = tb /\ start \in [ok : BOOLEAN, table : Tables]
  BY DEF TableInv
<1> HIDE DEF start
<1>3. ASSUME NEW k \in 1..n, NEW r \in S PROVE NextPut(spell, k, r) \in S
  <2>1. TableInv(r.table) /\ spell[k] \in Texts /\ spell[k] # <<>>
    OBVIOUS
  <2>2. CASE r.ok
    BY <2>1, <2>2, PutStores, PutResultType DEF NextPut, Stored
  <2>3. CASE ~r.ok
    BY <2>3 DEF NextPut
  <2> QED BY <2>2, <2>3
<1>4. PICK g : Run(n, S, start, turn, g)
  <2>1. turn \in [1..n -> [S -> S]] /\ start \in S
    BY <1>2, <1>3
  <2> HIDE DEF turn, S
  <2>2. HasRun(n, S, start, turn)
    BY <2>1, TurnsExist DEF Turns
  <2> QED BY <2>2 DEF HasRun
<1>5. g \in [0..n -> S] /\ g[0] = start /\ \A k \in 1..n : g[k] = NextPut(spell, k, g[k-1])
  <2>1. \A k \in 1..n : \A r \in S : turn[k][r] = NextPut(spell, k, r)
    OBVIOUS
  <2> HIDE DEF turn, S
  <2>2. ASSUME NEW k \in 1..n PROVE g[k] = NextPut(spell, k, g[k-1])
    <3>1. g[k-1] \in S /\ g[k] = turn[k][g[k-1]]
      BY <1>4 DEF Run
    <3> QED BY <2>1, <3>1
  <2> QED BY <1>4, <2>2 DEF Run
<1> HIDE DEF S, turn
<1>6. g = [k \in 0..n |-> IF k = 0 THEN start
                         ELSE IF g[k-1].ok THEN PutSpelling(g[k-1].table, spell[k])
                              ELSE g[k-1]]
  <2>1. \A k \in 1..n : g[k] = IF g[k-1].ok THEN PutSpelling(g[k-1].table, spell[k])
                              ELSE g[k-1]
    BY <1>5 DEF NextPut
  <2> QED BY <1>5, <2>1
<1>7. f = [k \in 0..n |-> IF k = 0 THEN start
                         ELSE IF f[k-1].ok THEN PutSpelling(f[k-1].table, spell[k])
                              ELSE f[k-1]]
  BY <1>6
<1> HIDE DEF f
<1>8. f[0] = start /\ \A k \in 1..n : f[k] = NextPut(spell, k, f[k-1])
  BY <1>7 DEF NextPut
<1>9. \A m \in 0..n : Kept(tb, spell, m, f[m])
  <2> DEFINE T == {m \in 0..n : Kept(tb, spell, m, f[m])}
  <2>1. 0 \in T
    BY <1>2, <1>8 DEF Kept
  <2>2. ASSUME NEW m \in 0..n-1, m \in T PROVE m + 1 \in T
    <3> DEFINE k == m + 1
    <3>1. k \in 1..n /\ k - 1 = m /\ Kept(tb, spell, k - 1, f[k - 1])
      BY <2>2
    <3>2. f[k] = NextPut(spell, k, f[k-1])
      BY <1>8, <3>1
    <3> HIDE DEF k
    <3>3. Kept(tb, spell, k, f[k])
      BY <3>1, <3>2, NextPutKeeps
    <3> QED BY <3>1, <3>3 DEF k
  <2> HIDE DEF T
  <2>3. \A m \in 0..n : m \in T
    BY <2>1, <2>2, UpTo
  <2> QED BY <2>3 DEF T
<1> QED
  BY <1>1, <1>9

---------------------------------------------------------------------------
\* The lemmas as they are read: the spellings of a lemma are not empty.
Entries == {[word |-> line.word, freq |-> line.freq, spell |-> line.spell] : line \in Lines}

\* The inductive invariant: every spelling of every lemma read has a slot of its own, where
\* its probe stops.  It holds until the table is arranged, when nothing is put any more.
TableSound ==
  /\ TableInv(table)
  /\ ~table.frozen =>
       /\ lemmas \in Seq(Entries)
       /\ \A i \in 1..Len(lemmas) : \A k \in 1..Len(lemmas[i].spell) :
            Holds(table, lemmas[i].spell[k])

\* The spellings of a lemma are texts.
LEMMA EntrySpell ==
  ASSUME NEW e \in Entries
  PROVE  \E n \in Nat : /\ n = Len(e.spell) /\ e.spell \in [1..n -> Texts]
                       /\ \A k \in 1..n : e.spell[k] # <<>>
<1>1. PICK line \in Lines : e = [word |-> line.word, freq |-> line.freq, spell |-> line.spell]
  BY DEF Entries
<1>2. e.spell = line.spell
  BY <1>1
<1>3. line.spell \in Seq(Texts) /\ \A k \in 1..Len(line.spell) : line.spell[k] # <<>>
  BY LinesAssumption DEF Texts
<1>4. Len(line.spell) \in Nat /\ line.spell \in [1..Len(line.spell) -> Texts]
  BY <1>3, LenProperties
<1> QED
  BY <1>2, <1>3, <1>4

\* The free table.
LEMMA InitTableSound == TableInv(InitTable)
<1>1. InitTable.raw = [pos \in Slots |-> <<>>] /\ InitTable.num = 0
  BY DEF InitTable, Slots
<1>2. <<>> \in Texts
  BY DEF Texts
<1>3. InitTable \in Tables
  BY <1>2 DEF InitTable, Tables, Slots
<1>4. Occupied(InitTable) = {}
  BY <1>1 DEF Occupied
<1>5. Cardinality({}) = 0
  BY FS_EmptySet
<1> QED
  BY <1>1, <1>3, <1>4, <1>5 DEF TableInv, Placed

\* A line read leaves every spelling of every lemma in the table (read_raw_dict).
LEMMA ReadLineSound ==
  ASSUME TableSound, NEW line \in Lines, ReadLine(line)
  PROVE  TableSound'
<1> DEFINE put == PutSpellings(table, line.spell)
           entry == [word |-> line.word, freq |-> line.freq, spell |-> line.spell]
<1>1. PICK n \in Nat : /\ n = Len(line.spell) /\ line.spell \in [1..n -> Texts]
                      /\ \A k \in 1..n : line.spell[k] # <<>>
  <2>1. entry \in Entries /\ entry.spell = line.spell
    BY DEF Entries
  <2> QED BY <2>1, EntrySpell
<1>2. Kept(table, line.spell, n, put)
  BY <1>1, PutFirstKeeps DEF TableSound, PutSpellings
<1> HIDE DEF put
<1>3. CASE ~Accepted(line)
  <2>1. table' = table /\ lemmas' = lemmas
    BY <1>3 DEF ReadLine
  <2> QED BY <2>1 DEF TableSound
<1>4. CASE Accepted(line)
  <2>1. table' = put.table
    BY <1>4 DEF ReadLine, put
  <2>2. TableInv(table') /\ table'.frozen = table.frozen
    BY <1>2, <2>1 DEF Kept
  <2>3. ASSUME ~table.frozen, NEW e \in Entries, NEW k \in 1..Len(e.spell),
               Holds(table, e.spell[k])
        PROVE  Holds(table', e.spell[k])
    <3>1. e.spell[k] # <<>>
      BY EntrySpell
    <3>2. \A pos \in Occupied(table) : table'.raw[pos] = table.raw[pos]
      BY <1>2, <2>1 DEF Kept
    <3> QED BY <2>3, <3>1, <3>2, HeldStays
  <2>4. CASE put.ok /\ ~line.rest
    <3>1. lemmas' = Append(lemmas, entry)
      BY <1>4, <2>4 DEF ReadLine, put
    <3>2. entry \in Entries /\ entry.spell = line.spell
      BY DEF Entries
    <3> HIDE DEF entry
    <3>3. SUFFICES ASSUME ~table.frozen
                   PROVE  /\ lemmas' \in Seq(Entries)
                          /\ \A i \in 1..Len(lemmas') : \A k \in 1..Len(lemmas'[i].spell) :
                               Holds(table', lemmas'[i].spell[k])
      BY <2>2 DEF TableSound
    <3>4. lemmas \in Seq(Entries)
      BY <3>3 DEF TableSound
    <3>5. /\ lemmas' \in Seq(Entries) /\ Len(lemmas') = Len(lemmas) + 1
          /\ \A i \in 1..Len(lemmas) : lemmas'[i] = lemmas[i]
          /\ lemmas'[Len(lemmas) + 1] = entry
      BY <3>1, <3>2, <3>4, AppendProperties
    <3>6. ASSUME NEW i \in 1..Len(lemmas'), NEW k \in 1..Len(lemmas'[i].spell)
          PROVE  Holds(table', lemmas'[i].spell[k])
      <4>1. CASE i = Len(lemmas) + 1
        <5>1. lemmas'[i].spell = line.spell /\ k \in 1..n
          BY <1>1, <3>2, <3>5, <4>1
        <5>2. Holds(table', line.spell[k])
          BY <1>2, <2>1, <2>4, <5>1 DEF Kept
        <5> QED BY <5>1, <5>2
      <4>2. CASE i # Len(lemmas) + 1
        <5>1. i \in 1..Len(lemmas) /\ lemmas'[i] = lemmas[i] /\ lemmas[i] \in Entries
          BY <3>4, <3>5, <4>2
        <5>2. Holds(table, lemmas[i].spell[k])
          BY <3>3, <5>1 DEF TableSound
        <5> QED BY <2>3, <3>3, <5>1, <5>2
      <4> QED BY <4>1, <4>2
    <3> QED BY <3>5, <3>6
  <2>5. CASE ~(put.ok /\ ~line.rest)
    <3>1. lemmas' = lemmas
      BY <1>4, <2>5 DEF ReadLine, put
    <3>2. SUFFICES ASSUME ~table.frozen, NEW i \in 1..Len(lemmas),
                          NEW k \in 1..Len(lemmas[i].spell)
                   PROVE  Holds(table', lemmas[i].spell[k])
      BY <2>2, <3>1 DEF TableSound
    <3>3. lemmas[i] \in Entries /\ Holds(table, lemmas[i].spell[k])
      BY <3>2 DEF TableSound
    <3> QED BY <2>3, <3>2, <3>3
  <2> QED BY <2>4, <2>5
<1> QED
  BY <1>3, <1>4

\* The build leaves the table as it is or takes it out of use (arrange).
LEMMA BuildDictSound ==
  ASSUME TableSound, BuildDict
  PROVE  TableSound'
<1>1. CASE lemmas = <<>>
  BY <1>1 DEF BuildDict, TableSound
<1>2. CASE lemmas # <<>>
  <2>1. table' = [table EXCEPT !.frozen = TRUE]
    BY <1>2 DEF BuildDict
  <2>2. /\ table' \in Tables /\ table'.frozen = TRUE
        /\ table'.raw = table.raw /\ table'.num = table.num
    BY <2>1 DEF TableSound, TableInv, Tables
  <2>3. TableInv(table')
    BY <2>2 DEF TableSound, TableInv, Placed, Occupied, StopsAt, Meets
  <2> QED BY <2>2, <2>3 DEF TableSound
<1> QED
  BY <1>1, <1>2

\* A table in order finds what it holds (contain).
LEMMA HeldIsFound ==
  ASSUME NEW tb, TableInv(tb), ~tb.frozen, NEW str \in Texts, str # <<>>, Holds(tb, str)
  PROVE  Contain(tb, str)
<1>1. PICK pos \in Occupied(tb) : tb.raw[pos] = str
  BY DEF Holds, Occupied
<1>2. PICK k \in Slots : Probe(str, k) = pos /\ StopsAt(tb, str, k)
  BY <1>1 DEF TableInv, Placed
<1>3. Steps(tb, str) = k
  BY <1>2, StopsOnce
<1> QED
  BY <1>1, <1>2, <1>3, HashLenAssumption DEF Contain, Slots

\* A sound table finds every spelling of every lemma it was built from.
LEMMA SoundFindsAll == TableSound => TableFindsAll
<1> SUFFICES ASSUME TableSound PROVE TableFindsAll
  OBVIOUS
<1>1. DOMAIN table.raw = Slots
  BY DEF TableSound, TableInv, Tables
<1>2. ASSUME ~table.frozen, NEW i \in DOMAIN lemmas, NEW k \in DOMAIN lemmas[i].spell
      PROVE  Contain(table, lemmas[i].spell[k])
  <2>1. lemmas \in Seq(Entries) /\ i \in 1..Len(lemmas) /\ lemmas[i] \in Entries
    BY <1>2 DEF TableSound
  <2>2. PICK n \in Nat : /\ n = Len(lemmas[i].spell) /\ lemmas[i].spell \in [1..n -> Texts]
                        /\ \A j \in 1..n : lemmas[i].spell[j] # <<>>
    BY <2>1, EntrySpell
  <2>3. k \in 1..n
    BY <2>2
  <2>4. Holds(table, lemmas[i].spell[k])
    BY <1>2, <2>1, <2>2, <2>3 DEF TableSound
  <2> QED BY <1>2, <2>2, <2>3, <2>4, HeldIsFound DEF TableSound
<1>3. ASSUME NEW pos \in DOMAIN table.raw, table.raw[pos] # <<>>
      PROVE  \E k \in 0..HashLen - 1 :
               Probe(table.raw[pos], k) = pos /\ Steps(table, table.raw[pos]) = k
  <2>1. PICK k \in Slots : Probe(table.raw[pos], k) = pos /\ StopsAt(table, table.raw[pos], k)
    BY <1>1, <1>3 DEF TableSound, TableInv, Placed, Occupied
  <2> QED BY <2>1, StopsOnce DEF Slots
<1>4. table.num = Cardinality({pos \in DOMAIN table.raw : table.raw[pos] # <<>>})
  BY <1>1 DEF TableSound, TableInv, Occupied
<1> QED
  BY <1>2, <1>3, <1>4 DEF TableFindsAll

---------------------------------------------------------------------------
(* Sorting the lemmas by their words (sort_lemmas_by_hz). *)

\* A relation that puts n elements in line: of two different ones exactly one comes first.
InLine(n, L) ==
  /\ \A i \in 1..n : <<i, i>> \notin L
  /\ \A i, j \in 1..n : i # j => <<i, j>> \in L \/ <<j, i>> \in L
  /\ \A i, j, k \in 1..n : <<i, j>> \in L /\ <<j, k>> \in L => <<i, k>> \in L

\* The elements before one, and its place.
Earlier(n, L, i) == {j \in 1..n : <<j, i>> \in L}
Place(n, L, i) == Cardinality(Earlier(n, L, i)) + 1

\* The elements in line have the places from 1 to n, an earlier one the lower.
LEMMA PlacesExist ==
  ASSUME NEW n \in Nat, NEW L, InLine(n, L)
  PROVE  /\ \A i \in 1..n : Place(n, L, i) \in 1..n
         /\ \A i, j \in 1..n : <<i, j>> \in L => Place(n, L, i) < Place(n, L, j)
         /\ \A k \in 1..n : \E i \in 1..n : Place(n, L, i) = k
<1> DEFINE S == 1..n
<1>1. IsFiniteSet(S) /\ Cardinality(S) = n
  BY FS_Interval
<1>2. ASSUME NEW i \in S
      PROVE  IsFiniteSet(Earlier(n, L, i)) /\ Cardinality(Earlier(n, L, i)) \in 0..n - 1
  <2>1. Earlier(n, L, i) \in SUBSET S /\ i \notin Earlier(n, L, i)
    BY DEF InLine, Earlier
  <2>2. /\ IsFiniteSet(Earlier(n, L, i))
        /\ Cardinality(Earlier(n, L, i)) <= n /\ Cardinality(Earlier(n, L, i)) # n
    <3>1. Earlier(n, L, i) # S
      BY <2>1
    <3> HIDE DEF S
    <3> QED BY <1>1, <2>1, <3>1, FS_Subset
  <2> QED BY <2>2, FS_CardinalityType
<1>3. ASSUME NEW i \in S, NEW j \in S, <<i, j>> \in L
      PROVE  Cardinality(Earlier(n, L, i)) < Cardinality(Earlier(n, L, j))
  <2>1. /\ Earlier(n, L, i) \in SUBSET Earlier(n, L, j)
        /\ i \in Earlier(n, L, j) /\ i \notin Earlier(n, L, i)
    BY <1>3 DEF InLine, Earlier
  <2>2. Earlier(n, L, i) # Earlier(n, L, j) /\ IsFiniteSet(Earlier(n, L, j))
    BY <1>2, <2>1
  <2>3. /\ Cardinality(Earlier(n, L, i)) <= Cardinality(Earlier(n, L, j))
        /\ Cardinality(Earlier(n, L, i)) # Cardinality(Earlier(n, L, j))
    BY <2>1, <2>2, FS_Subset
  <2> QED BY <1>2, <2>3
<1>4. /\ \A i \in S : Place(n, L, i) \in S
      /\ \A i, j \in S : <<i, j>> \in L => Place(n, L, i) < Place(n, L, j)
  <2>1. ASSUME NEW i \in S PROVE Place(n, L, i) \in S
    BY <1>2 DEF Place
  <2>2. ASSUME NEW i \in S, NEW j \in S, <<i, j>> \in L PROVE Place(n, L, i) < Place(n, L, j)
    <3>1. Cardinality(Earlier(n, L, i)) \in Nat /\ Cardinality(Earlier(n, L, j)) \in Nat
      BY <1>2
    <3> QED BY <1>3, <2>2, <3>1 DEF Place
  <2> QED BY <2>1, <2>2
<1> DEFINE f == [i \in S |-> Place(n, L, i)]
<1>5. f \in Injection(S, S)
  <2>1. f \in [S -> S]
    BY <1>4
  <2>2. ASSUME NEW i \in S, NEW j \in S, f[i] = f[j] PROVE i = j
    <3>1. Place(n, L, i) = Place(n, L, j) /\ Place(n, L, i) \in Int
      BY <1>4, <2>2
    <3>2. ~(<<i, j>> \in L) /\ ~(<<j, i>> \in L)
      BY <1>4, <3>1
    <3> QED BY <3>2 DEF InLine
  <2> HIDE DEF f
  <2> QED BY <2>1, <2>2 DEF Injection, IsInjective
<1>6. f \in Surjection(S, S)
  <2> HIDE DEF f, S
  <2> QED BY <1>1, <1>5, FS_Injection
<1>7. \A k \in S : \E i \in S : f[i] = k
  <2> HIDE DEF f, S
  <2> QED BY <1>6 DEF Surjection
<1> QED
  BY <1>4, <1>7

\* The order of the characters of words of one length is an order.
LEMMA WordOrder ==
  ASSUME NEW n \in Nat, NEW a \in [1..n -> Nat], NEW b \in [1..n -> Nat], NEW c \in [1..n -> Nat],
         Len(a) = n, Len(b) = n, Len(c) = n, WordLess(a, c)
  PROVE  ~WordLess(c, a) /\ (WordLess(a, b) \/ WordLess(b, c))
<1>1. PICK i \in 1..n : a[i] < c[i] /\ \A j \in 1..i - 1 : a[j] = c[j]
  BY DEF WordLess
<1>2. ~WordLess(c, a)
  <2>1. SUFFICES ASSUME NEW k \in 1..n, c[k] < a[k], \A j \in 1..k - 1 : c[j] = a[j]
                 PROVE  FALSE
    BY DEF WordLess
  <2>2. a[i] \in Nat /\ c[i] \in Nat /\ a[k] \in Nat /\ c[k] \in Nat
    OBVIOUS
  <2>3. CASE k < i
    BY <1>1, <2>1, <2>2, <2>3
  <2>4. CASE i < k
    BY <1>1, <2>1, <2>2, <2>4
  <2> QED BY <1>1, <2>1, <2>2, <2>3, <2>4
<1> DEFINE T == {j \in 1..n : b[j] # a[j] \/ b[j] # c[j]}
<1>3. T \in SUBSET Nat /\ i \in T
  BY <1>1
<1>4. PICK j \in T : \A k \in T : j <= k
  <2> HIDE DEF T
  <2> QED BY <1>3, LeastNat
<1>5. /\ j \in 1..n /\ j <= i /\ (b[j] # a[j] \/ b[j] # c[j])
      /\ \A k \in 1..j - 1 : b[k] = a[k] /\ b[k] = c[k]
  BY <1>3, <1>4
<1>6. a[j] <= c[j] /\ a[j] \in Nat /\ b[j] \in Nat /\ c[j] \in Nat
  BY <1>1, <1>5, SMTT(30)
<1>7. a[j] < b[j] \/ b[j] < c[j]
  BY <1>5, <1>6
<1>8. a[j] < b[j] => WordLess(a, b)
  BY <1>5 DEF WordLess
<1>9. b[j] < c[j] => WordLess(b, c)
  BY <1>5 DEF WordLess
<1> QED
  BY <1>2, <1>7, <1>8, <1>9

\* So is the order of the lemmas by their words (cmp_lemma_entry_hzs).
LEMMA HzOrder ==
  ASSUME NEW a, NEW b, NEW c, a.word \in Seq(Nat), b.word \in Seq(Nat), c.word \in Seq(Nat),
         HzsBefore(a, c)
  PROVE  ~HzsBefore(c, a) /\ (HzsBefore(a, b) \/ HzsBefore(b, c))
<1>1. Len(a.word) \in Nat /\ Len(b.word) \in Nat /\ Len(c.word) \in Nat
  BY LenProperties
<1>2. CASE Len(a.word) < Len(c.word)
  BY <1>1, <1>2 DEF HzsBefore
<1>3. CASE Len(a.word) = Len(c.word) /\ Len(b.word) # Len(a.word)
  <2>1. WordLess(a.word, c.word)
    BY <1>3, <1>1 DEF HzsBefore
  <2>2. a.word \in [1..Len(a.word) -> Nat] /\ c.word \in [1..Len(a.word) -> Nat]
    BY <1>3, LenProperties
  <2>3. ~WordLess(c.word, a.word)
    BY <1>1, <1>3, <2>1, <2>2, WordOrder
  <2>4. ~HzsBefore(c, a)
    BY <1>1, <1>3, <2>3 DEF HzsBefore
  <2>5. Len(a.word) < Len(b.word) \/ Len(b.word) < Len(c.word)
    BY <1>1, <1>3
  <2> QED BY <2>4, <2>5 DEF HzsBefore
<1>4. CASE Len(a.word) = Len(c.word) /\ Len(b.word) = Len(a.word)
  <2>1. WordLess(a.word, c.word)
    BY <1>4, <1>1 DEF HzsBefore
  <2>2. /\ a.word \in [1..Len(a.word) -> Nat] /\ b.word \in [1..Len(a.word) -> Nat]
        /\ c.word \in [1..Len(a.word) -> Nat]
    BY <1>4, LenProperties
  <2>3. ~WordLess(c.word, a.word)
        /\ (WordLess(a.word, b.word) \/ WordLess(b.word, c.word))
    BY <1>1, <1>4, <2>1, <2>2, WordOrder
  <2> QED BY <1>1, <1>4, <2>3 DEF HzsBefore
<1>5. Len(a.word) <= Len(c.word)
  BY <1>1 DEF HzsBefore
<1> QED
  BY <1>1, <1>2, <1>3, <1>4, <1>5

\* p puts the n lemmas ls in the order of their words: every one has one place.
SortsByHz(n, ls, p) ==
  /\ p \in Bijection(1..n, 1..n)
  /\ \A j, k \in 1..n : j < k => ~HzsBefore(ls[p[k]], ls[p[j]])

\* Sorting loses no lemma and doubles none.
LEMMA SortedByHz ==
  ASSUME NEW ls, Len(ls) \in Nat, \A i \in 1..Len(ls) : ls[i].word \in Seq(Nat)
  PROVE  \E p : /\ SortsByHz(Len(ls), ls, p)
               /\ SortBy(ls, HzsBefore) = [k \in 1..Len(ls) |-> ls[p[k]]]
<1> DEFINE n == Len(ls)
           S == 1..n
           First(j, i) == \/ HzsBefore(ls[j], ls[i])
                          \/ ~HzsBefore(ls[i], ls[j]) /\ j < i
           L == {x \in S \X S : First(x[1], x[2])}
<1>1. \A i, j \in S : <<i, j>> \in L <=> First(i, j)
  OBVIOUS
<1>2. InLine(n, L)
  <2>1. ASSUME NEW i \in S PROVE ~First(i, i)
    <3>1. ~HzsBefore(ls[i], ls[i])
      BY HzOrder
    <3> QED BY <3>1
  <2>2. ASSUME NEW i \in S, NEW j \in S, i # j PROVE First(i, j) \/ First(j, i)
    BY <2>2
  <2>3. ASSUME NEW i \in S, NEW j \in S, NEW k \in S, First(i, j), First(j, k)
        PROVE  First(i, k)
    <3>1. ~HzsBefore(ls[j], ls[i]) /\ ~HzsBefore(ls[k], ls[j])
      BY <2>3, HzOrder
    <3>2. ~HzsBefore(ls[k], ls[i])
      BY <3>1, HzOrder
    <3>3. CASE HzsBefore(ls[i], ls[j])
      BY <3>1, <3>3, HzOrder
    <3>4. CASE HzsBefore(ls[j], ls[k])
      BY <3>1, <3>4, HzOrder
    <3>5. CASE i < j /\ j < k
      BY <3>2, <3>5
    <3> QED BY <2>3, <3>3, <3>4, <3>5
  <2> HIDE DEF L, First
  <2> QED BY <1>1, <2>1, <2>2, <2>3 DEF InLine
<1>3. \A i \in S :
        Place(n, L, i) = Cardinality({j \in 1..n : \/ HzsBefore(ls[j], ls[i])
                                                   \/ ~HzsBefore(ls[i], ls[j]) /\ j < i}) + 1
  <2>1. ASSUME NEW i \in S
        PROVE  Earlier(n, L, i) = {j \in 1..n : \/ HzsBefore(ls[j], ls[i])
                                                \/ ~HzsBefore(ls[i], ls[j]) /\ j < i}
    <3> HIDE DEF L
    <3> QED BY <1>1 DEF Earlier
  <2> QED BY <2>1 DEF Place
<1> DEFINE p == [k \in S |-> CHOOSE i \in S : Place(n, L, i) = k]
<1>4. SortBy(ls, HzsBefore) = [k \in S |-> ls[p[k]]]
  <2>1. \A k \in S : p[k] = CHOOSE i \in 1..n :
          Cardinality({j \in 1..n : \/ HzsBefore(ls[j], ls[i])
                                    \/ ~HzsBefore(ls[i], ls[j]) /\ j < i}) + 1 = k
    <3> HIDE DEF L
    <3> QED BY <1>3
  <2>2. SortBy(ls, HzsBefore) =
          [k \in 1..n |-> ls[CHOOSE i \in 1..n :
             Cardinality({j \in 1..n : \/ HzsBefore(ls[j], ls[i])
                                       \/ ~HzsBefore(ls[i], ls[j]) /\ j < i}) + 1 = k]]
    BY Zenon DEF SortBy
  <2> HIDE DEF p
  <2> QED BY <2>1, <2>2, Zenon
<1> HIDE DEF L
<1>5. /\ \A i \in S : Place(n, L, i) \in S
      /\ \A i, j \in S : <<i, j>> \in L => Place(n, L, i) < Place(n, L, j)
      /\ \A k \in S : \E i \in S : Place(n, L, i) = k
  BY <1>2, PlacesExist, Zenon
<1>6. \A i \in S : Place(n, L, i) \in S
  BY <1>5
<1>7. ASSUME NEW i \in S, NEW j \in S, Place(n, L, i) <= Place(n, L, j)
      PROVE  ~(<<j, i>> \in L)
  <2>1. <<j, i>> \in L => Place(n, L, j) < Place(n, L, i)
    BY <1>5
  <2>2. Place(n, L, i) \in Int /\ Place(n, L, j) \in Int
    BY <1>6
  <2> QED BY <1>7, <2>1, <2>2
<1>8. ASSUME NEW i \in S, NEW j \in S, Place(n, L, i) = Place(n, L, j) PROVE i = j
  <2>1. Place(n, L, i) \in Int
    BY <1>6
  <2>2. ~(<<i, j>> \in L) /\ ~(<<j, i>> \in L)
    BY <1>7, <1>8, <2>1
  <2> QED BY <1>2, <2>2 DEF InLine
<1>9. ASSUME NEW k \in S PROVE p[k] \in S /\ Place(n, L, p[k]) = k
  <2>1. \E i \in S : Place(n, L, i) = k
    BY <1>5
  <2> QED BY <2>1
<1>10. p \in [S -> S]
  BY <1>9
<1> HIDE DEF p
<1>11. p \in Bijection(S, S)
  <2>1. ASSUME NEW j \in S, NEW k \in S, p[j] = p[k] PROVE j = k
    BY <1>9, <2>1
  <2>2. ASSUME NEW i \in S PROVE \E k \in S : p[k] = i
    <3>1. Place(n, L, i) \in S
      BY <1>6
    <3>2. p[Place(n, L, i)] = i
      BY <1>8, <1>9, <3>1
    <3> QED BY <3>1, <3>2
  <2> HIDE DEF S
  <2> QED BY <1>10, <2>1, <2>2 DEF Bijection, Injection, Surjection, IsInjective
<1>12. ASSUME NEW j \in S, NEW k \in S, j < k PROVE ~HzsBefore(ls[p[k]], ls[p[j]])
  <2>1. Place(n, L, p[j]) <= Place(n, L, p[k]) /\ p[j] \in S /\ p[k] \in S
    BY <1>9, <1>12
  <2>2. ~(<<p[k], p[j]>> \in L)
    BY <1>7, <2>1
  <2> QED BY <1>1, <2>1, <2>2
<1> QED
  BY <1>4, <1>11, <1>12 DEF SortsByHz

\* What the build makes of the n lemmas read: every one gets one id, in the order of the words.
GivenIds(n, ls, built) ==
  /\ DOMAIN built = 1..n
  /\ \E p : /\ SortsByHz(n, ls, p)
            /\ \A k \in 1..n : /\ built[k].id = k
                               /\ built[k].word = ls[p[k]].word
                               /\ built[k].freq = ls[p[k]].freq
                               /\ built[k].spell = ls[p[k]].spell

\* The lemmas with their spelling ids are sorted (sort_lemmas_by_hz).
LEMMA SortGivesIds ==
  ASSUME NEW t, NEW ls, Len(ls) \in Nat, DOMAIN ls = 1..Len(ls),
         \A i \in 1..Len(ls) : ls[i].word \in Seq(Nat)
  PROVE  GivenIds(Len(ls), ls, SortLemmasByHz(WithSplIds(t, ls)))
<1> DEFINE n == Len(ls)
           ws == WithSplIds(t, ls)
           sorted == SortBy(ws, HzsBefore)
           built == SortLemmasByHz(ws)
<1>1. /\ DOMAIN ws = 1..n
      /\ \A i \in 1..n : /\ ws[i].word = ls[i].word /\ ws[i].freq = ls[i].freq
                         /\ ws[i].spell = ls[i].spell
  BY DEF WithSplIds
<1>2. Len(ws) = n
  <2> ws \in Seq({ws[i] : i \in 1..n})
    <3>1. ws = [i \in 1..n |-> ws[i]]
      BY DEF WithSplIds
    <3> HIDE DEF ws
    <3> QED BY <3>1, IsASeq
  <2> HIDE DEF ws
  <2> QED BY <1>1, LenProperties
<1>3. built = [i \in DOMAIN sorted |-> [id |-> i, word |-> sorted[i].word,
                                        freq |-> sorted[i].freq, spell |-> sorted[i].spell,
                                        ids |-> sorted[i].ids]]
  BY DEF SortLemmasByHz
<1> HIDE DEF built, ws
<1>4. PICK p : SortsByHz(n, ws, p) /\ sorted = [k \in 1..n |-> ws[p[k]]]
  <2>1. Len(ws) \in Nat /\ \A i \in 1..Len(ws) : ws[i].word \in Seq(Nat)
    BY <1>1, <1>2
  <2>2. \E p : SortsByHz(Len(ws), ws, p)
             /\ sorted = [k \in 1..Len(ws) |-> ws[p[k]]]
    BY <2>1, SortedByHz
  <2> HIDE DEF sorted
  <2> QED BY <1>2, <2>2, Zenon
<1> HIDE DEF sorted
<1>5. \A k \in 1..n : p[k] \in 1..n
  BY <1>4 DEF SortsByHz, Bijection, Injection
<1>6. SortsByHz(n, ls, p)
  BY <1>1, <1>4, <1>5 DEF SortsByHz, HzsBefore
<1>7. DOMAIN built = 1..n
  BY <1>3, <1>4
<1>8. ASSUME NEW k \in 1..n
      PROVE  /\ built[k].id = k /\ built[k].word = ls[p[k]].word
             /\ built[k].freq = ls[p[k]].freq /\ built[k].spell = ls[p[k]].spell
  BY <1>1, <1>3, <1>4, <1>5
<1> HIDE DEF n
<1> QED
  BY <1>6, <1>7, <1>8 DEF GivenIds, built, n, ws

\* What build_dict returns: the lemmas with their ids, and a dictionary.
LEMMA BuiltResult ==
  ASSUME NEW spl, NEW ls
  PROVE  /\ \E t : BuiltFrom(spl, ls).lemmas = SortLemmasByHz(WithSplIds(t, ls))
         /\ BuiltFrom(spl, ls).dict # NoDict
<1> DEFINE Result(t, byHz, list) ==
             [ok |-> SpellingsParse(t, ls) /\ list.ok, lemmas |-> byHz,
              dict |-> TrieOf(t, list, byHz, SortBy(byHz, PyBefore))]
           Lists(t, byHz) == {InitList(BuildScis(t, byHz), [i \in DOMAIN byHz |-> byHz[i].word])}
           Sorted(t) == {SortLemmasByHz(WithSplIds(t, ls))}
           Results == UNION {UNION {{Result(t, byHz, list) : list \in Lists(t, byHz)} :
                                      byHz \in Sorted(t)} : t \in {Construct(spl, SzmChars)}}
<1>1. BuiltFrom(spl, ls) = CHOOSE r \in Results : TRUE
  BY DEF BuiltFrom
<1>2. Results # {}
  <2> DEFINE t == Construct(spl, SzmChars)
             byHz == SortLemmasByHz(WithSplIds(t, ls))
             list == InitList(BuildScis(t, byHz), [i \in DOMAIN byHz |-> byHz[i].word])
  <2>1. byHz \in Sorted(t) /\ list \in Lists(t, byHz)
    OBVIOUS
  <2>2. Result(t, byHz, list) \in UNION {{Result(t, b, l) : l \in Lists(t, b)} : b \in Sorted(t)}
    <3> HIDE DEF t, byHz, list, Result, Lists, Sorted
    <3> QED BY <2>1
  <2>3. Result(t, byHz, list) \in Results
    <3> HIDE DEF byHz, list, Result, Lists, Sorted
    <3> QED BY <2>2
  <2> HIDE DEF Results
  <2> QED BY <2>3
<1>3. BuiltFrom(spl, ls) \in Results
  BY <1>1, <1>2
<1>4. PICK t, list : BuiltFrom(spl, ls) = Result(t, SortLemmasByHz(WithSplIds(t, ls)), list)
  BY <1>3
<1>5. ASSUME NEW byHz, NEW byPy PROVE TrieOf(t, list, byHz, byPy) # NoDict
  <2>1. \E le0, ge1, idx, num, index, psb :
          TrieOf(t, list, byHz, byPy) =
            [t |-> t, list |-> list, le0 |-> le0, ge1 |-> ge1, lmaIdx |-> idx, topNum |-> num,
             index |-> index, psb |-> psb]
    BY DEF TrieOf
  <2> QED BY <2>1 DEF NoDict
<1> QED
  BY <1>4, <1>5

\* The hash table of the spellings finds every spelling of every lemma read, keeps every
\* entry where its own probe finds it, and counts them, for every lexicon and every size.
THEOREM TableAlwaysFindsAll == Spec => []TableFindsAll
<1>1. Init => TableSound
  <2> SUFFICES ASSUME Init PROVE TableSound
    OBVIOUS
  <2>1. <<>> \in Seq(Entries) /\ Len(<<>>) = 0
    OBVIOUS
  <2> QED BY <2>1, InitTableSound DEF Init, TableSound
<1>2. TableSound /\ [Next]_vars => TableSound'
  <2> SUFFICES ASSUME TableSound, [Next]_vars PROVE TableSound'
    OBVIOUS
  <2>1. CASE \E line \in Lines : ReadLine(line)
    BY <2>1, ReadLineSound
  <2>2. CASE BuildDict
    BY <2>2, BuildDictSound
  <2>3. CASE UNCHANGED vars
    BY <2>3 DEF vars, TableSound
  <2> QED BY <2>1, <2>2, <2>3 DEF Next
<1> QED
  BY <1>1, <1>2, SoundFindsAll, PTL DEF Spec

---------------------------------------------------------------------------
\* The inductive invariant: the types, the table in order, and open while lines are read.
BuilderSound == TableSound /\ TypeOK /\ (phase = "read" => ~table.frozen)

\* The lemmas read are as they were in their lines.
LEMMA LemmasRead ==
  ASSUME BuilderSound, phase = "read"
  PROVE  /\ lemmas \in Seq(Entries) /\ Len(lemmas) \in Nat /\ DOMAIN lemmas = 1..Len(lemmas)
         /\ \A i \in 1..Len(lemmas) : /\ lemmas[i].word \in Seq(Nat)
                                      /\ Len(lemmas[i].word) = Len(lemmas[i].spell)
<1>1. lemmas \in Seq(Entries)
  BY DEF BuilderSound, TableSound
<1>2. Len(lemmas) \in Nat /\ DOMAIN lemmas = 1..Len(lemmas)
      /\ \A i \in 1..Len(lemmas) : lemmas[i] \in Entries
  BY <1>1, LenProperties
<1>3. \A e \in Entries : e.word \in Seq(Nat) /\ Len(e.word) = Len(e.spell)
  BY LinesAssumption DEF Entries
<1> QED
  BY <1>1, <1>2, <1>3

\* No more spellings are counted than the table has places.
LEMMA TableFits ==
  ASSUME NEW tb, TableInv(tb)
  PROVE  tb.num \in 0..HashLen /\ DOMAIN tb.raw = 0..HashLen - 1
<1>1. IsFiniteSet(Slots) /\ Cardinality(Slots) = HashLen
  BY FS_Interval, HashLenAssumption DEF Slots
<1>2. Occupied(tb) \in SUBSET Slots
  BY DEF Occupied
<1>3. Cardinality(Occupied(tb)) <= HashLen
  BY <1>1, <1>2, FS_Subset
<1> QED
  BY <1>3, HashLenAssumption DEF TableInv, Tables, Slots

\* Reading a line keeps the invariant (read_raw_dict).
LEMMA ReadKeepsBuilder ==
  ASSUME BuilderSound, NEW line \in Lines, ReadLine(line)
  PROVE  BuilderSound'
<1>1. TableSound'
  BY ReadLineSound DEF BuilderSound
<1>2. /\ phase = "read" /\ phase' = "read" /\ dict' = dict /\ lines' = lines + 1
      /\ lines < MaxLines
  BY DEF ReadLine
<1>3. ~table'.frozen
  <2>1. TableInv(table) /\ ~table.frozen
    BY <1>2 DEF BuilderSound, TableSound
  <2>2. CASE Accepted(line)
    <3>1. table' = PutSpellings(table, line.spell).table
      BY <2>2 DEF ReadLine
    <3>2. PICK n \in Nat : n = Len(line.spell) /\ line.spell \in [1..n -> Texts]
                          /\ \A k \in 1..n : line.spell[k] # <<>>
      <4>1. line.spell \in Seq(Texts) /\ \A k \in 1..Len(line.spell) : line.spell[k] # <<>>
        BY LinesAssumption DEF Texts
      <4> QED BY <4>1, LenProperties
    <3>3. Kept(table, line.spell, n, PutFirst(table, line.spell, n))
      BY <2>1, <3>2, PutFirstKeeps
    <3> QED BY <2>1, <3>1, <3>2, <3>3 DEF PutSpellings, Kept
  <2>3. CASE ~Accepted(line)
    BY <2>1, <2>3 DEF ReadLine
  <2> QED BY <2>2, <2>3
<1>4. /\ lemmas' \in Seq(Entries) /\ \A e \in Entries : Len(e.word) = Len(e.spell)
  BY <1>1, <1>3, LinesAssumption DEF TableSound, Entries
<1>5. \A i \in DOMAIN lemmas' : Len(lemmas'[i].word) = Len(lemmas'[i].spell)
  BY <1>4
<1>6. table'.num \in 0..HashLen /\ DOMAIN table'.raw = 0..HashLen - 1
  BY <1>1, TableFits DEF TableSound
<1>7. lines' \in 0..MaxLines
  BY <1>2, MaxLinesAssumption DEF BuilderSound, TypeOK
<1>8. (dict' = NoDict) = (phase' # "built")
  BY <1>2 DEF BuilderSound, TypeOK
<1> QED
  BY <1>1, <1>2, <1>3, <1>5, <1>6, <1>7, <1>8 DEF BuilderSound, TypeOK

\* Building keeps it (build_dict).
LEMMA BuildKeepsBuilder ==
  ASSUME BuilderSound, BuildDict
  PROVE  /\ BuilderSound'
         /\ phase' = "built" => GivenIds(Len(lemmas), lemmas, lemmas')
<1> DEFINE r == BuiltFrom(Arrange(table), lemmas)
<1>1. TableSound'
  BY BuildDictSound DEF BuilderSound
<1>2. /\ phase = "read" /\ phase' \in {"built", "failed"} /\ lines' = lines /\ dict = NoDict
  BY DEF BuildDict, BuilderSound, TypeOK
<1>3. \/ phase' = "failed" /\ lemmas' = lemmas /\ dict' = NoDict
      \/ phase' = "built" /\ lemmas' = r.lemmas /\ dict' = r.dict
  BY <1>2 DEF BuildDict
<1> HIDE DEF r
<1>4. GivenIds(Len(lemmas), lemmas, r.lemmas) /\ r.dict # NoDict
  <2>1. /\ Len(lemmas) \in Nat /\ DOMAIN lemmas = 1..Len(lemmas)
        /\ \A i \in 1..Len(lemmas) : lemmas[i].word \in Seq(Nat)
    BY <1>2, LemmasRead
  <2>2. PICK t : r.lemmas = SortLemmasByHz(WithSplIds(t, lemmas))
    BY BuiltResult DEF r
  <2>3. r.dict # NoDict
    BY BuiltResult DEF r
  <2> QED BY <2>1, <2>2, <2>3, SortGivesIds
<1>5. phase' = "built" => GivenIds(Len(lemmas), lemmas, lemmas')
  BY <1>3, <1>4
<1>6. \A i \in DOMAIN lemmas' : Len(lemmas'[i].word) = Len(lemmas'[i].spell)
  <2>1. CASE phase' = "failed"
    BY <1>3, <2>1 DEF BuilderSound, TypeOK
  <2>2. CASE phase' = "built"
    <3>1. PICK p : /\ SortsByHz(Len(lemmas), lemmas, p)
                   /\ \A k \in 1..Len(lemmas) : /\ lemmas'[k].word = lemmas[p[k]].word
                                                /\ lemmas'[k].spell = lemmas[p[k]].spell
      BY <1>5, <2>2 DEF GivenIds
    <3>2. \A k \in 1..Len(lemmas) : p[k] \in 1..Len(lemmas)
      BY <3>1 DEF SortsByHz, Bijection, Injection
    <3>3. DOMAIN lemmas' = 1..Len(lemmas)
      BY <1>5, <2>2 DEF GivenIds
    <3>4. \A i \in 1..Len(lemmas) : Len(lemmas[i].word) = Len(lemmas[i].spell)
      BY <1>2, LemmasRead
    <3> QED BY <3>1, <3>2, <3>3, <3>4
  <2> QED BY <1>2, <2>1, <2>2
<1>7. table'.num \in 0..HashLen /\ DOMAIN table'.raw = 0..HashLen - 1
  BY <1>1, TableFits DEF TableSound
<1>8. (dict' = NoDict) = (phase' # "built")
  BY <1>3, <1>4
<1>9. lines' \in 0..MaxLines
  BY <1>2 DEF BuilderSound, TypeOK
<1> QED
  BY <1>1, <1>2, <1>5, <1>6, <1>7, <1>8, <1>9 DEF BuilderSound, TypeOK

\* The invariant holds in every state of the builder.
LEMMA BuilderAlwaysSound == Spec => []BuilderSound
<1>1. Init => BuilderSound
  <2> SUFFICES ASSUME Init PROVE BuilderSound
    OBVIOUS
  <2>1. <<>> \in Seq(Entries) /\ Len(<<>>) = 0 /\ DOMAIN <<>> = 1..0
    OBVIOUS
  <2>2. TableSound
    BY <2>1, InitTableSound DEF Init, TableSound
  <2>3. table.num \in 0..HashLen /\ DOMAIN table.raw = 0..HashLen - 1
    BY <2>2, TableFits DEF TableSound
  <2>4. TypeOK
    BY <2>1, <2>3, MaxLinesAssumption DEF Init, TypeOK
  <2> QED BY <2>2, <2>4 DEF Init, InitTable, BuilderSound
<1>2. BuilderSound /\ [Next]_vars => BuilderSound'
  <2> SUFFICES ASSUME BuilderSound, [Next]_vars PROVE BuilderSound'
    OBVIOUS
  <2>1. CASE \E line \in Lines : ReadLine(line)
    BY <2>1, ReadKeepsBuilder
  <2>2. CASE BuildDict
    BY <2>2, BuildKeepsBuilder
  <2>3. CASE UNCHANGED vars
    BY <2>3 DEF vars, BuilderSound, TableSound, TypeOK
  <2> QED BY <2>1, <2>2, <2>3 DEF Next
<1> QED
  BY <1>1, <1>2, PTL DEF Spec

\* The types of the builder: the count of spellings fits the table, a lemma has as many
\* spellings as characters before and after the build, and there is a dictionary exactly when
\* the build went through.
THEOREM BuilderTypeOK == Spec => []TypeOK
<1>1. BuilderSound => TypeOK
  BY DEF BuilderSound
<1> QED
  BY <1>1, BuilderAlwaysSound, PTL

\* The build gives every lemma read one id, and the ids are in the order of the words: shorter
\* words first, then by the codes of the characters, however the lexicon was ordered and however
\* often a word is in it (sort_lemmas_by_hz); the searches of DictList rely on it.
IdsGiven == phase = "read" /\ phase' = "built" => GivenIds(Len(lemmas), lemmas, lemmas')

THEOREM EveryLemmaHasOneId == Spec => [][IdsGiven]_vars
<1>1. BuilderSound /\ [Next]_vars => [IdsGiven]_vars
  <2> SUFFICES ASSUME BuilderSound, Next PROVE IdsGiven
    OBVIOUS
  <2>1. CASE \E line \in Lines : ReadLine(line)
    BY <2>1 DEF ReadLine, IdsGiven
  <2>2. CASE BuildDict
    BY <2>2, BuildKeepsBuilder DEF IdsGiven
  <2> QED BY <2>1, <2>2 DEF Next
<1> QED
  BY <1>1, BuilderAlwaysSound, PTL DEF Spec
=============================================================================

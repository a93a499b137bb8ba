--------------------------- MODULE UserDictLemma ---------------------------
(***************************************************************************)
(* A user lemma, the query that looks it up, and the comparisons the user  *)
(* dictionary makes between the two.  Nothing here has state.              *)
(*                                                                         *)
(* A lemma is [spell, word]: its full spelling ids and its characters, two *)
(* sequences of one length.  A query is what struct UserDictSearchable     *)
(* holds: for every position the set of full ids it accepts (one id for a  *)
(* full spelling, an interval for a half one) and the signature, the       *)
(* initial letters.  Letters, ids and characters are numbers.              *)
(***************************************************************************)
EXTENDS Integers, Sequences, FiniteSetsExt

CONSTANT
  Initial   \* Initial[id]: the first letter of the spelling string of full id id

ASSUME InitialAssumption == \A id \in DOMAIN Initial : Initial[id] \in Nat

\* Bytes a lemma of n characters takes in the lemma block: flag, nchar, ids, characters.
LemmaBytes(n) == 2 + 4 * n

---------------------------------------------------------------------------
\* prepare_locate: ids[i] is the set of full ids the i-th id of the query stands for;
\* every id of that set starts with the same letter.
PrepareLocate(ids) ==
  [match |-> ids,
   sig   |-> [i \in 1..Len(ids) |-> Initial[CHOOSE id \in ids[i] : TRUE]]]

\* The query made of a lemma's own full ids.
SearchFor(spell) == PrepareLocate([i \in 1..Len(spell) |-> {spell[i]}])

\* fuzzy_compare_spell_id: the length first, then the initial letters.  len is passed by
\* the caller and need not be the length the lemma was stored with.
FuzzyCompare(spell, len, q) ==
  LET n == Len(q.sig)
      differ == {i \in 1..n : Initial[spell[i]] # q.sig[i]}
  IN IF len < n THEN -1
     ELSE IF len > n THEN 1
     ELSE IF differ = {} THEN 0
     ELSE IF Initial[spell[Min(differ)]] > q.sig[Min(differ)] THEN 1 ELSE -1

\* is_fuzzy_prefix_spell_id: the query's letters begin the lemma's.
IsFuzzyPrefix(spell, q) ==
  /\ Len(spell) >= Len(q.sig)
  /\ \A i \in 1..Len(q.sig) : Initial[spell[i]] = q.sig[i]

\* is_prefix_spell_id: the query's ids begin the lemma's.
IsPrefixSpell(spell, q) ==
  /\ Len(spell) >= Len(q.match)
  /\ \A i \in DOMAIN q.match : spell[i] \in q.match[i]

\* equal_spell_id, with the length its caller passes.
EqualSpell(spell, len, q) ==
  /\ len = Len(q.match)
  /\ \A i \in 1..len : spell[i] \in q.match[i]

---------------------------------------------------------------------------
\* The comparison of the two searches by characters: -1, 0 or 1 over the
\* common length, then the length.
CompareCommon(stored, word) ==
  LET differ == {i \in 1..Min({Len(stored), Len(word)}) : stored[i] # word[i]}
  IN IF differ = {} THEN 0
     ELSE IF stored[Min(differ)] < word[Min(differ)] THEN -1 ELSE 1

CompareWords(stored, word) ==
  LET c == CompareCommon(stored, word)
  IN IF c # 0 THEN c
     ELSE IF Len(stored) < Len(word) THEN -1
     ELSE IF Len(stored) > Len(word) THEN 1 ELSE 0

---------------------------------------------------------------------------
\* The loop of the three binary searches over the indexes 1..n: right of mid where it is below,
\* left otherwise; the result is the last index visited that is a hit, or 0.
Bisect(n, below, hits) ==
  LET turn[k \in 0..n] ==
        IF k = 0 THEN [begin |-> 1, end |-> n, last |-> 0]
        ELSE LET s == turn[k-1]
                 mid == (s.begin + s.end) \div 2
             IN IF s.begin > s.end THEN s
                ELSE [begin |-> IF mid \in below THEN mid + 1 ELSE s.begin,
                      end   |-> IF mid \in below THEN s.end ELSE mid - 1,
                      last  |-> IF mid \in hits THEN mid ELSE s.last]
  IN turn[n].last
=============================================================================

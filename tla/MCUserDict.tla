----------------------------- MODULE MCUserDict -----------------------------
(***************************************************************************)
(* Small lexicons for UserDict.  Full ids 1 and 2 begin with letter 1, id  *)
(* 3 with letter 2, so that lemmas of equal and of different signatures    *)
(* meet in the index.                                                      *)
(***************************************************************************)
EXTENDS UserDict

MCInitial == <<1, 1, 2>>

La == [spell |-> <<1, 3>>, word |-> <<1, 2>>]
Lb == [spell |-> <<2, 3>>, word |-> <<2, 1>>]
Lc == [spell |-> <<3, 1>>, word |-> <<1, 1>>]
\* Begins like La.
Ll == [spell |-> <<1, 3, 1>>, word |-> <<1, 2, 3>>]


ThreeLemmas == {La, Lb, Lc}
PrefixLemmas == {La, Ll}

\* A half query, which covers the ids of two lemmas, and a full one of another signature.
MCQueries == {PrepareLocate(<<{1, 2}, {3}>>), PrepareLocate(<<{3}, {1}>>)}

NeverReached == [count |-> 50, size |-> 2000, ratio |-> 20]
\* One of two entries is reclaimed for the third.
AtTwo == [count |-> 2, size |-> 0, ratio |-> 50]
=============================================================================

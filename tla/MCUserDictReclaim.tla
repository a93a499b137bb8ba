------------------------- MODULE MCUserDictReclaim -------------------------
EXTENDS UserDictReclaim

MCInitial == <<1>>

MCLemma(k) == [spell |-> <<1>>, word |-> <<k>>]

MCEmptyDict ==
  [state |-> USER_DICT_SYNC, lemmas |-> <<>>, lemma_size |-> 0, offsets |-> <<>>, by_id |-> <<>>,
   predicts |-> <<>>, syncs |-> <<>>, syncs_null |-> FALSE,
   count_left |-> kUserDictPreAlloc, size_left |-> PreAllocBytes,
   free_count |-> 0, free_size |-> 0, limit |-> [count |-> Limit, size |-> 0, ratio |-> 0],
   cache |-> NoCache, miss |-> NoCache]
=============================================================================

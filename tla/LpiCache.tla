------------------------------ MODULE LpiCache ------------------------------
(***************************************************************************)
(* The cache of the lemmas a half spelling id alone stands for.  It is one *)
(* object for the whole process and is never emptied: an image is a        *)
(* function from half ids to the items kept, none before the first put.    *)
(***************************************************************************)
EXTENDS SpellingTrie

CONSTANT kMaxLpiCachePerId

ASSUME LpiCacheAssumption == kMaxLpiCachePerId \in Nat \ {0}

NothingCached == [id \in 1..kFullSplIdStart - 1 |-> <<>>]

IsCached(cache, splid) == splid \in DOMAIN cache /\ cache[splid] # <<>>

\* put_cache: the best items are kept, and only they are given on.
PutCache(cache, splid, lpis) ==
  [cache EXCEPT ![splid] = SubSeq(lpis, 1, Min({kMaxLpiCachePerId, Len(lpis)}))]

\* get_cache
GetCache(cache, splid, max) == SubSeq(cache[splid], 1, Min({max, Len(cache[splid])}))
=============================================================================

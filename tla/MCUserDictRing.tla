--------------------------- MODULE MCUserDictRing ---------------------------
(***************************************************************************)
(* A ring of the real kUserDictCacheSize = 4 slots with three signatures   *)
(* and two values: every filling, every wrap of head and tail.             *)
(***************************************************************************)
EXTENDS UserDictRing
=============================================================================

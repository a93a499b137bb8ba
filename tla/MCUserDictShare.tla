-------------------------- MODULE MCUserDictShare --------------------------
(***************************************************************************)
(* The decoder's and Sync's objects, two edits and a clock that is read    *)
(* the same or later each time.                                            *)
(***************************************************************************)
EXTENDS UserDictShare
=============================================================================

--------------------------- MODULE SignatureQueue ---------------------------
(***************************************************************************)
(* Bounded queues of [sig, val], the oldest first: the contents of one     *)
(* lookup cache of the user dictionary.                                    *)
(***************************************************************************)
EXTENDS Integers, Sequences, FiniteSetsExt

\* An entry is added at the end; a full queue loses its oldest one.
Push(q, entry, capacity) ==
  IF Len(q) < capacity THEN Append(q, entry) ELSE Append(Tail(q), entry)

\* The oldest entry of a signature: its index, or 0.
FirstOf(q, sig) ==
  LET at == {i \in 1..Len(q) : q[i].sig = sig}
  IN IF at = {} THEN 0 ELSE Min(at)

Lookup(q, sig) ==
  IF FirstOf(q, sig) = 0 THEN {} ELSE {q[FirstOf(q, sig)].val}
=============================================================================

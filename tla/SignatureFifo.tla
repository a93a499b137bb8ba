--------------------------- MODULE SignatureFifo ---------------------------
(***************************************************************************)
(* What the lookup caches of the user dictionary promise: for one lemma    *)
(* length, the last Capacity saved signatures, each with the value saved   *)
(* for it, and the oldest forgotten first.  UserDictRing shows that the    *)
(* ring buffers of the code implement this; UserDict keeps such queues.   *)
(***************************************************************************)
EXTENDS SignatureQueue

CONSTANTS
  Signature,  \* the initial letters of a query
  Value,      \* what is cached for them: a range of indexes, or nothing
  Capacity    \* how many signatures are remembered

VARIABLES
  fifo,       \* sequence of [sig, val], the oldest first
  answer      \* what the last lookup returned: a set of at most one value

vars == <<fifo, answer>>

---------------------------------------------------------------------------
Init == fifo = <<>> /\ answer = {}

Save(sig, val) ==
  /\ fifo' = Push(fifo, [sig |-> sig, val |-> val], Capacity)
  /\ UNCHANGED answer

Load(sig) == answer' = Lookup(fifo, sig) /\ UNCHANGED fifo

Reset == fifo' = <<>> /\ UNCHANGED answer

Next ==
  \/ \E sig \in Signature, val \in Value : Save(sig, val)
  \/ \E sig \in Signature : Load(sig)
  \/ Reset

Spec == Init /\ [][Next]_vars
=============================================================================

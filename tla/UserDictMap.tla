---------------------------- MODULE UserDictMap ----------------------------
(***************************************************************************)
(* What the user dictionary promises, without positions, indexes, caches   *)
(* or dirty levels: a copy in memory and a copy on disk of                 *)
(*   entries  the lemmas and their scores, one score for each lemma, and   *)
(*   queue    the lemmas to send at the next synchronization.              *)
(* UserDict is shown to implement this.                                    *)
(***************************************************************************)
EXTENDS Integers, FiniteSets

CONSTANTS
  Lemma, Score,
  Closed        \* the value of mem when no dictionary is open

VARIABLES
  mem, disk,    \* [entries, queue]
  sent          \* lemmas of the last text given to the synchronization client

vars == <<mem, disk, sent>>

Known(copy) == {e.lemma : e \in copy.entries}

\* The entries with one score set.
Set(entries, lemma, score) ==
  {e \in entries : e.lemma # lemma} \cup {[lemma |-> lemma, score |-> score]}

Init ==
  /\ mem = Closed
  /\ disk = [entries |-> {}, queue |-> {}]
  /\ sent = {}

Open == mem = Closed /\ mem' = disk /\ sent' = {} /\ UNCHANGED disk

\* Room is made in memory by saving first, at most.
Flushed == disk' \in {disk, mem}

Put(lemma, score) ==
  /\ mem # Closed
  /\ mem' = [entries |-> Set(mem.entries, lemma, score),
             queue   |-> IF lemma \in Known(mem) THEN mem.queue ELSE mem.queue \cup {lemma}]
  /\ Flushed /\ UNCHANGED sent

\* A lemma from the synchronization server need not be sent back to it.  At the limit some
\* lemmas make room for it, or it is left out; what the queue then holds is not promised.
Merge(lemma, score) ==
  /\ mem # Closed
  /\ \/ /\ mem'.entries = Set(mem.entries, lemma, score)
        /\ mem'.queue \in {mem.queue, mem.queue \cup {lemma}}
        /\ Flushed
     \/ \E evicted \in SUBSET Known(mem) :
          LET left == {e \in mem.entries : e.lemma \notin evicted} IN
          /\ lemma \notin Known(mem)
          /\ mem'.entries \in {left, Set(left, lemma, score)}
          /\ disk'.entries = left
  /\ UNCHANGED sent

Update(lemma, score) ==
  /\ mem # Closed /\ lemma \in Known(mem)
  /\ mem' = [entries |-> Set(mem.entries, lemma, score), queue |-> mem.queue \cup {lemma}]
  /\ UNCHANGED <<disk, sent>>

Remove(lemma) ==
  /\ mem # Closed
  /\ mem' = [entries |-> {e \in mem.entries : e.lemma # lemma}, queue |-> mem.queue \ {lemma}]
  /\ UNCHANGED <<disk, sent>>

Save == mem # Closed /\ disk' = mem /\ UNCHANGED <<mem, sent>>

Close == mem # Closed /\ disk' = mem /\ mem' = Closed /\ sent' = {}

Crash == mem # Closed /\ mem' = Closed /\ sent' = {} /\ UNCHANGED disk

Send == mem # Closed /\ sent' \in SUBSET mem.queue /\ UNCHANGED <<mem, disk>>

\* Only what was sent leaves the queue.
ClearSent ==
  /\ mem # Closed
  /\ \E done \in SUBSET sent : mem' = [mem EXCEPT !.queue = @ \ done]
  /\ sent' = {}
  /\ UNCHANGED disk

Next ==
  \/ Open \/ Save \/ Close \/ Crash \/ Send \/ ClearSent
  \/ \E lemma \in Lemma : Remove(lemma)
  \/ \E lemma \in Lemma, score \in Score :
       Put(lemma, score) \/ Merge(lemma, score) \/ Update(lemma, score)

Spec == Init /\ [][Next]_vars
=============================================================================

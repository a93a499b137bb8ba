--------------------------- MODULE UserDictShare ---------------------------
(***************************************************************************)
(* Several UserDict objects over one file in one process: the decoder's    *)
(* and Sync's, each in its thread.  What keeps them apart is g_mutex_ and  *)
(* the comparison of an object's load_time_ with g_last_update_.           *)
(*                                                                         *)
(* A copy of the dictionary is the set of the edits it holds.  What the    *)
(* unlocked parts of load_dict can meet is kept: validate reads while      *)
(* another thread writes, reset truncates the file at any time, and        *)
(* load_time_ is read from the clock after the lock is released.           *)
(***************************************************************************)
EXTENDS Integers, FiniteSets

CONSTANTS
  User,       \* the objects
  Edit,       \* what users add to a copy
  Nobody,     \* the owner of a free g_mutex_
  MaxNow      \* bound: readings of the clock

ASSUME UserAssumption == Nobody \notin User
ASSUME MaxNowAssumption == MaxNow \in Nat

VARIABLES
  pc,            \* where each object's thread is
  then_load,     \* whether the close under way is part of flush_cache
  copy,          \* edits in memory
  dirty,         \* state_ above USER_DICT_SYNC
  load_time,     \* load_time_ of each object
  mutex,         \* owner of g_mutex_
  g_last_update, \* g_last_update_
  now,           \* gettimeofday
  edits,         \* edits in the file
  torn,          \* whether validate would reject the file
  \* history
  saved,         \* edits that were in the file after some complete write
  overtaken,     \* objects whose file changed between their load and their load_time_
  slipped        \* one of the two races below has happened

file == <<edits, torn>>
history == <<saved, overtaken, slipped>>
vars == <<pc, then_load, copy, dirty, load_time, mutex, g_last_update, now, file, history>>

Goto(u, from, to) == pc[u] = from /\ pc' = [pc EXCEPT ![u] = to]
Acquire(u) == mutex = Nobody /\ mutex' = u
Release(u) == mutex' = Nobody

\* The places where an object holds g_mutex_, and those where it has a loaded copy.
Writing == {"writing", "spoiled"}
Holding == {"loading", "deciding", "stamping", "checking"} \cup Writing
Loaded == {"ready", "checking", "stale", "waiting", "deciding", "writing"}

\* Mutant: equal times count as fresh.
FreshOrEqual(u) == load_time[u] >= g_last_update

\* close_dict's comparison: this object loaded after the last update.
Fresh(u) == load_time[u] > g_last_update

---------------------------------------------------------------------------
Init ==
  /\ pc = [u \in User |-> "none"] /\ then_load = [u \in User |-> FALSE]
  /\ copy = [u \in User |-> {}] /\ dirty = [u \in User |-> FALSE]
  /\ load_time = [u \in User |-> 0]
  /\ mutex = Nobody /\ g_last_update = 0 /\ now = 1
  /\ edits = {} /\ torn = TRUE
  /\ saved = {} /\ overtaken = {} /\ slipped = FALSE

Tick == now < MaxNow /\ now' = now + 1
        /\ UNCHANGED <<pc, then_load, copy, dirty, load_time, mutex, g_last_update, file, history>>

\* load_dict.
Open(u) ==
  /\ Goto(u, "none", "validating")
  /\ UNCHANGED <<then_load, copy, dirty, load_time, mutex, g_last_update, now, file, history>>

\* validate, without the lock.
Validate(u) ==
  /\ Goto(u, "validating", IF torn THEN "resetting" ELSE "valid")
  /\ UNCHANGED <<then_load, copy, dirty, load_time, mutex, g_last_update, now, file, history>>

\* reset, without the lock: whatever the file holds by now is gone, and a write under way is
\* spoiled, since it goes on from where it was.
Reset(u) ==
  /\ pc[u] = "resetting"
  /\ pc' = [v \in User |-> IF v = u THEN "valid"
                          ELSE IF pc[v] = "writing" THEN "spoiled" ELSE pc[v]]
  /\ edits' = {} /\ torn' = FALSE
  /\ slipped' = (slipped \/ edits # {} \/ \E w \in User : pc[w] \in Writing)
  /\ UNCHANGED <<then_load, copy, dirty, load_time, mutex, g_last_update, now, saved, overtaken>>

\* load gives up when g_mutex_ is taken; load_dict fails then.
LoadRefused(u) ==
  /\ mutex # Nobody
  /\ Goto(u, "valid", "none")
  /\ UNCHANGED <<then_load, copy, dirty, load_time, mutex, g_last_update, now, file, history>>

LoadLock(u) ==
  /\ Acquire(u)
  /\ Goto(u, "valid", "loading")
  /\ UNCHANGED <<then_load, copy, dirty, load_time, g_last_update, now, file, history>>

\* load reads the whole file, as it is at some time under the lock.
LoadRead(u) ==
  /\ ~torn
  /\ Goto(u, "loading", "loaded")
  /\ copy' = [copy EXCEPT ![u] = edits]
  /\ dirty' = [dirty EXCEPT ![u] = FALSE]
  /\ Release(u)
  /\ overtaken' = overtaken \ {u}
  /\ UNCHANGED <<then_load, load_time, g_last_update, now, file, saved, slipped>>

\* A file of the wrong size, or a reset in the middle, makes it fail; load_dict fails then.
LoadFails(u) ==
  /\ torn \/ \E v \in User : pc[v] = "resetting"
  /\ Goto(u, "loading", "none")
  /\ Release(u)
  /\ UNCHANGED <<then_load, copy, dirty, load_time, g_last_update, now, file, history>>

\* gettimeofday(&load_time_), after the lock is released.
LoadStamp(u) ==
  /\ Goto(u, "loaded", "ready")
  /\ load_time' = [load_time EXCEPT ![u] = now]
  /\ slipped' = (slipped \/ u \in overtaken)
  /\ overtaken' = overtaken \ {u}
  /\ UNCHANGED <<then_load, copy, dirty, mutex, g_last_update, now, file, saved>>

---------------------------------------------------------------------------
\* put_lemma, update_lemma, remove_lemma.
Change(u) ==
  /\ pc[u] = "ready"
  /\ \E e \in Edit : copy' = [copy EXCEPT ![u] = @ \cup {e}]
  /\ dirty' = [dirty EXCEPT ![u] = TRUE]
  /\ UNCHANGED <<pc, then_load, load_time, mutex, g_last_update, now, file, history>>

\* _get_lpis: where g_mutex_ is free, compare the times under it.
CheckLock(u) ==
  /\ Acquire(u)
  /\ Goto(u, "ready", "checking")
  /\ UNCHANGED <<then_load, copy, dirty, load_time, g_last_update, now, file, history>>

Check(u) ==
  /\ Goto(u, "checking", IF load_time[u] < g_last_update THEN "stale" ELSE "ready")
  /\ Release(u)
  /\ UNCHANGED <<then_load, copy, dirty, load_time, g_last_update, now, file, history>>

\* close_dict, alone or (again) as the first half of flush_cache: without changes, at once.
Close(u, again) ==
  /\ pc[u] = "ready" \/ (pc[u] = "stale" /\ again)
  /\ IF dirty[u] THEN /\ pc' = [pc EXCEPT ![u] = "waiting"]
                      /\ then_load' = [then_load EXCEPT ![u] = again]
                      /\ UNCHANGED copy
     ELSE /\ pc' = [pc EXCEPT ![u] = IF again THEN "validating" ELSE "none"]
          /\ copy' = [copy EXCEPT ![u] = {}]
          /\ UNCHANGED then_load
  /\ UNCHANGED <<dirty, load_time, mutex, g_last_update, now, file, history>>

CloseLock(u) ==
  /\ Acquire(u)
  /\ Goto(u, "waiting", "deciding")
  /\ UNCHANGED <<then_load, copy, dirty, load_time, g_last_update, now, file, history>>

\* The rest of close_dict: unlock, free everything, and for flush_cache load again.
Finish(u, from) ==
  /\ Goto(u, from, IF then_load[u] THEN "validating" ELSE "none")
  /\ Release(u)
  /\ copy' = [copy EXCEPT ![u] = {}]
  /\ dirty' = [dirty EXCEPT ![u] = FALSE]
  /\ then_load' = [then_load EXCEPT ![u] = FALSE]
  /\ UNCHANGED <<load_time, now, file, history>>

\* Mutant: the way out for a stale object leaves g_mutex_ locked.
DiscardKeepsLock(u) ==
  /\ ~Fresh(u)
  /\ Goto(u, "deciding", IF then_load[u] THEN "validating" ELSE "none")
  /\ copy' = [copy EXCEPT ![u] = {}]
  /\ dirty' = [dirty EXCEPT ![u] = FALSE]
  /\ then_load' = [then_load EXCEPT ![u] = FALSE]
  /\ UNCHANGED <<mutex, load_time, g_last_update, now, file, history>>

\* Another object wrote since this one loaded: its changes are discarded.
Discard(u) == ~Fresh(u) /\ Finish(u, "deciding") /\ UNCHANGED g_last_update

\* write_back from its first write to its last.  Most leave a file of the wrong size in between;
\* a write of scores alone does not.
WriteBegin(u) ==
  /\ Fresh(u)
  /\ Goto(u, "deciding", "writing")
  /\ torn' \in BOOLEAN
  /\ UNCHANGED <<then_load, copy, dirty, load_time, mutex, g_last_update, now, edits, history>>

WriteEnd(u) ==
  /\ pc[u] \in Writing
  /\ pc' = [pc EXCEPT ![u] = "stamping"]
  /\ IF pc[u] = "writing" THEN edits' = copy[u] /\ torn' = FALSE
     ELSE edits' \in SUBSET copy[u] /\ torn' \in BOOLEAN
  /\ saved' = saved \cup copy[u]
  /\ overtaken' = overtaken \cup {v \in User : pc[v] = "loaded"}
  /\ UNCHANGED <<then_load, copy, dirty, load_time, mutex, g_last_update, now, slipped>>

\* gettimeofday(&g_last_update_), still under the lock.
WriteStamp(u) == Finish(u, "stamping") /\ g_last_update' = now

Step(u) ==
  \/ Validate(u) \/ Reset(u) \/ LoadRefused(u) \/ LoadLock(u) \/ LoadRead(u) \/ LoadFails(u)
  \/ LoadStamp(u)
  \/ Check(u) \/ CloseLock(u) \/ Discard(u) \/ WriteBegin(u) \/ WriteEnd(u) \/ WriteStamp(u)

Next ==
  \/ Tick
  \/ \E u \in User :
       Step(u) \/ Open(u) \/ Change(u) \/ CheckLock(u) \/ \E again \in BOOLEAN : Close(u, again)

Spec == Init /\ [][Next]_vars

\* Every thread goes on with what it is doing, and pthread_mutex_lock returns to a thread that
\* finds the mutex free again and again.  Users need not do anything.
Fairness == \A u \in User : WF_vars(Step(u)) /\ SF_vars(CloseLock(u))

FairSpec == Spec /\ Fairness

---------------------------------------------------------------------------
Places == {"none", "validating", "resetting", "valid", "loaded", "stale", "waiting", "ready"}
            \cup Holding

TypeOK ==
  /\ pc \in [User -> Places] /\ then_load \in [User -> BOOLEAN]
  /\ copy \in [User -> SUBSET Edit] /\ dirty \in [User -> BOOLEAN]
  /\ load_time \in [User -> Nat] /\ g_last_update \in Nat /\ now \in Nat
  /\ mutex \in User \cup {Nobody}
  /\ edits \in SUBSET Edit /\ saved \in SUBSET Edit
  /\ torn \in BOOLEAN /\ overtaken \in SUBSET User /\ slipped \in BOOLEAN

\* The lock is held exactly where the code has it.
LockInv == \A u \in User : pc[u] \in Holding <=> mutex = u

\* No time that was read lies in the future.
TimeInv == g_last_update <= now /\ \A u \in User : load_time[u] <= now

\* Who writes has compared the times, and the comparison still holds; only a reset spoils a write.
WritingInv ==
  \A u \in User : /\ pc[u] = "writing" => Fresh(u)
                  /\ pc[u] = "spoiled" => slipped

\* A copy that may be written back holds all the file does: one that is newer than the last
\* update, and one just read whose file has not changed since.  Between the end of a write and its
\* time stamp the times say nothing.
CurrentInv ==
  ~slipped => \A u \in User :
    \/ pc[u] \in Loaded /\ Fresh(u) /\ ~(\E w \in User : pc[w] = "stamping")
    \/ pc[u] = "loaded" /\ u \notin overtaken
    => edits \subseteq copy[u]

\* What was once saved stays in the file, as close_dict says ("If dictionary is written back by
\* others, we can not simply write back here") ...
NothingLost == saved \subseteq edits

\* ... except through two windows: another object writes between load's unlock and the reading of
\* load_time_, or reset runs after validate met another object's unfinished write.
LostOnlyByRace == ~slipped => NothingLost

ShareInv ==
  TypeOK /\ LockInv /\ TimeInv /\ WritingInv /\ CurrentInv /\ LostOnlyByRace

\* A close or flush that waits for the lock ends, with the dictionary closed or loaded again,
\* whatever the other objects do.
FlushEnds == \A u \in User : pc[u] = "waiting" ~> pc[u] \in {"none", "ready"}
=============================================================================

------------------------ MODULE UserDictShareProofs ------------------------
(***************************************************************************)
(* Proofs about UserDictShare, for any number of objects, any edits and    *)
(* any bound of the clock.  ShareInv is inductive: LockInv keeps the times *)
(* still while one object compares them, TimeInv makes every other object  *)
(* stale once a write is stamped, and CurrentInv carries "a fresh copy     *)
(* holds what the file holds" to the write.                                *)
(***************************************************************************)
EXTENDS UserDictShare, TLAPS

\* Initially nobody has the file open and nothing is saved.
LEMMA InitShare == Init => ShareInv
<1>. SUFFICES ASSUME Init PROVE ShareInv
  OBVIOUS
<1>1. TypeOK
  BY DEF Init, TypeOK, Places
<1>2. LockInv
  BY UserAssumption DEF Init, LockInv, Holding, Writing
<1>3. TimeInv /\ WritingInv
  BY DEF Init, TimeInv, WritingInv
<1>4. CurrentInv /\ LostOnlyByRace
  BY DEF Init, CurrentInv, LostOnlyByRace, NothingLost, Loaded
<1>. QED  BY <1>1, <1>2, <1>3, <1>4 DEF ShareInv

\* Every variable keeps its type.
LEMMA TypeStep ==
  ASSUME TypeOK, [Next]_vars
  PROVE  TypeOK'
<1>. USE MaxNowAssumption DEF TypeOK, Places, Holding, Writing, Goto, file, history
<1>1. CASE Tick
  BY <1>1 DEF Tick
<1>2. ASSUME NEW u \in User, Open(u) PROVE TypeOK'
  BY <1>2 DEF Open
<1>3. ASSUME NEW u \in User, Validate(u) PROVE TypeOK'
  BY <1>3 DEF Validate
<1>4. ASSUME NEW u \in User, Reset(u) PROVE TypeOK'
  BY <1>4 DEF Reset
<1>5. ASSUME NEW u \in User, LoadRefused(u) PROVE TypeOK'
  BY <1>5 DEF LoadRefused
<1>6. ASSUME NEW u \in User, LoadLock(u) PROVE TypeOK'
  BY <1>6 DEF LoadLock, Acquire
<1>7. ASSUME NEW u \in User, LoadRead(u) PROVE TypeOK'
  BY <1>7 DEF LoadRead, Release
<1>8. ASSUME NEW u \in User, LoadFails(u) PROVE TypeOK'
  BY <1>8 DEF LoadFails, Release
<1>9. ASSUME NEW u \in User, LoadStamp(u) PROVE TypeOK'
  BY <1>9 DEF LoadStamp
<1>10. ASSUME NEW u \in User, Change(u) PROVE TypeOK'
  BY <1>10 DEF Change
<1>11. ASSUME NEW u \in User, CheckLock(u) PROVE TypeOK'
  BY <1>11 DEF CheckLock, Acquire
<1>12. ASSUME NEW u \in User, Check(u) PROVE TypeOK'
  BY <1>12 DEF Check, Release
<1>13. ASSUME NEW u \in User, NEW again \in BOOLEAN, Close(u, again) PROVE TypeOK'
  BY <1>13 DEF Close
<1>14. ASSUME NEW u \in User, CloseLock(u) PROVE TypeOK'
  BY <1>14 DEF CloseLock, Acquire
<1>15. ASSUME NEW u \in User, Discard(u) PROVE TypeOK'
  BY <1>15 DEF Discard, Finish, Release
<1>16. ASSUME NEW u \in User, WriteBegin(u) PROVE TypeOK'
  BY <1>16 DEF WriteBegin
<1>17. ASSUME NEW u \in User, WriteEnd(u) PROVE TypeOK'
  <2>1. /\ edits' \in SUBSET Edit
        /\ torn' \in BOOLEAN
    <3>1. copy[u] \subseteq Edit
      OBVIOUS
    <3>2. CASE pc[u] = "writing"
      BY <1>17, <3>1, <3>2 DEF WriteEnd
    <3>3. CASE pc[u] # "writing"
      BY <1>17, <3>1, <3>3 DEF WriteEnd
    <3>. QED  BY <3>2, <3>3
  <2>2. /\ pc' \in [User -> Places]
        /\ saved' \in SUBSET Edit
        /\ overtaken' \in SUBSET User
    BY <1>17 DEF WriteEnd
  <2>. QED  BY <1>17, <2>1, <2>2 DEF WriteEnd
<1>18. ASSUME NEW u \in User, WriteStamp(u) PROVE TypeOK'
  BY <1>18 DEF WriteStamp, Finish, Release
<1>19. CASE UNCHANGED vars
  BY <1>19 DEF vars
<1>. QED
  BY <1>1, <1>2, <1>3, <1>4, <1>5, <1>6, <1>7, <1>8, <1>9, <1>10, <1>11, <1>12, <1>13, <1>14,
       <1>15, <1>16, <1>17, <1>18, <1>19 DEF Next, Step

\* g_mutex_ has its one owner exactly where the code holds it.
LEMMA LockStep ==
  ASSUME TypeOK, LockInv, [Next]_vars
  PROVE  LockInv'
<1>. USE UserAssumption DEF TypeOK, LockInv, Holding, Writing, Goto, file, history
<1>1. CASE Tick
  BY <1>1 DEF Tick
<1>2. ASSUME NEW u \in User, Open(u) PROVE LockInv'
  BY <1>2 DEF Open
<1>3. ASSUME NEW u \in User, Validate(u) PROVE LockInv'
  BY <1>3 DEF Validate
<1>4. ASSUME NEW u \in User, Reset(u) PROVE LockInv'
  BY <1>4 DEF Reset
<1>5. ASSUME NEW u \in User, LoadRefused(u) PROVE LockInv'
  BY <1>5 DEF LoadRefused
<1>6. ASSUME NEW u \in User, LoadLock(u) PROVE LockInv'
  BY <1>6 DEF LoadLock, Acquire
<1>7. ASSUME NEW u \in User, LoadRead(u) PROVE LockInv'
  BY <1>7 DEF LoadRead, Release
<1>8. ASSUME NEW u \in User, LoadFails(u) PROVE LockInv'
  BY <1>8 DEF LoadFails, Release
<1>9. ASSUME NEW u \in User, LoadStamp(u) PROVE LockInv'
  BY <1>9 DEF LoadStamp
<1>10. ASSUME NEW u \in User, Change(u) PROVE LockInv'
  BY <1>10 DEF Change
<1>11. ASSUME NEW u \in User, CheckLock(u) PROVE LockInv'
  BY <1>11 DEF CheckLock, Acquire
<1>12. ASSUME NEW u \in User, Check(u) PROVE LockInv'
  BY <1>12 DEF Check, Release
<1>13. ASSUME NEW u \in User, NEW again \in BOOLEAN, Close(u, again) PROVE LockInv'
  BY <1>13 DEF Close
<1>14. ASSUME NEW u \in User, CloseLock(u) PROVE LockInv'
  BY <1>14 DEF CloseLock, Acquire
<1>15. ASSUME NEW u \in User, Discard(u) PROVE LockInv'
  BY <1>15 DEF Discard, Finish, Release
<1>16. ASSUME NEW u \in User, WriteBegin(u) PROVE LockInv'
  BY <1>16 DEF WriteBegin
<1>17. ASSUME NEW u \in User, WriteEnd(u) PROVE LockInv'
  BY <1>17 DEF WriteEnd
<1>18. ASSUME NEW u \in User, WriteStamp(u) PROVE LockInv'
  BY <1>18 DEF WriteStamp, Finish, Release
<1>19. CASE UNCHANGED vars
  BY <1>19 DEF vars
<1>. QED
  BY <1>1, <1>2, <1>3, <1>4, <1>5, <1>6, <1>7, <1>8, <1>9, <1>10, <1>11, <1>12, <1>13, <1>14,
       <1>15, <1>16, <1>17, <1>18, <1>19 DEF Next, Step

\* Times are read from a clock that never goes back.
LEMMA TimeStep ==
  ASSUME TypeOK, TimeInv, [Next]_vars
  PROVE  TimeInv'
<1>. USE DEF TypeOK, TimeInv, Goto, file, history
<1>1. CASE Tick
  BY <1>1 DEF Tick
<1>2. ASSUME NEW u \in User, Open(u) PROVE TimeInv'
  BY <1>2 DEF Open
<1>3. ASSUME NEW u \in User, Validate(u) PROVE TimeInv'
  BY <1>3 DEF Validate
<1>4. ASSUME NEW u \in User, Reset(u) PROVE TimeInv'
  BY <1>4 DEF Reset
<1>5. ASSUME NEW u \in User, LoadRefused(u) PROVE TimeInv'
  BY <1>5 DEF LoadRefused
<1>6. ASSUME NEW u \in User, LoadLock(u) PROVE TimeInv'
  BY <1>6 DEF LoadLock, Acquire
<1>7. ASSUME NEW u \in User, LoadRead(u) PROVE TimeInv'
  BY <1>7 DEF LoadRead, Release
<1>8. ASSUME NEW u \in User, LoadFails(u) PROVE TimeInv'
  BY <1>8 DEF LoadFails, Release
<1>9. ASSUME NEW u \in User, LoadStamp(u) PROVE TimeInv'
  BY <1>9 DEF LoadStamp
<1>10. ASSUME NEW u \in User, Change(u) PROVE TimeInv'
  BY <1>10 DEF Change
<1>11. ASSUME NEW u \in User, CheckLock(u) PROVE TimeInv'
  BY <1>11 DEF CheckLock, Acquire
<1>12. ASSUME NEW u \in User, Check(u) PROVE TimeInv'
  BY <1>12 DEF Check, Release
<1>13. ASSUME NEW u \in User, NEW again \in BOOLEAN, Close(u, again) PROVE TimeInv'
  BY <1>13 DEF Close
<1>14. ASSUME NEW u \in User, CloseLock(u) PROVE TimeInv'
  BY <1>14 DEF CloseLock, Acquire
<1>15. ASSUME NEW u \in User, Discard(u) PROVE TimeInv'
  BY <1>15 DEF Discard, Finish, Release
<1>16. ASSUME NEW u \in User, WriteBegin(u) PROVE TimeInv'
  BY <1>16 DEF WriteBegin
<1>17. ASSUME NEW u \in User, WriteEnd(u) PROVE TimeInv'
  BY <1>17 DEF WriteEnd
<1>18. ASSUME NEW u \in User, WriteStamp(u) PROVE TimeInv'
  BY <1>18 DEF WriteStamp, Finish, Release
<1>19. CASE UNCHANGED vars
  BY <1>19 DEF vars
<1>. QED
  BY <1>1, <1>2, <1>3, <1>4, <1>5, <1>6, <1>7, <1>8, <1>9, <1>10, <1>11, <1>12, <1>13, <1>14,
       <1>15, <1>16, <1>17, <1>18, <1>19 DEF Next, Step

\* While an object writes, nobody else stamps a write.
LEMMA WritingStep ==
  ASSUME TypeOK, LockInv, WritingInv, [Next]_vars
  PROVE  WritingInv'
<1>. USE DEF TypeOK, LockInv, WritingInv, Holding, Writing, Fresh, Goto, file, history
<1>1. CASE Tick
  BY <1>1 DEF Tick
<1>2. ASSUME NEW u \in User, Open(u) PROVE WritingInv'
  BY <1>2 DEF Open
<1>3. ASSUME NEW u \in User, Validate(u) PROVE WritingInv'
  BY <1>3 DEF Validate
<1>4. ASSUME NEW u \in User, Reset(u) PROVE WritingInv'
  BY <1>4 DEF Reset
<1>5. ASSUME NEW u \in User, LoadRefused(u) PROVE WritingInv'
  BY <1>5 DEF LoadRefused
<1>6. ASSUME NEW u \in User, LoadLock(u) PROVE WritingInv'
  BY <1>6 DEF LoadLock, Acquire
<1>7. ASSUME NEW u \in User, LoadRead(u) PROVE WritingInv'
  BY <1>7 DEF LoadRead, Release
<1>8. ASSUME NEW u \in User, LoadFails(u) PROVE WritingInv'
  BY <1>8 DEF LoadFails, Release
<1>9. ASSUME NEW u \in User, LoadStamp(u) PROVE WritingInv'
  BY <1>9 DEF LoadStamp
<1>10. ASSUME NEW u \in User, Change(u) PROVE WritingInv'
  BY <1>10 DEF Change
<1>11. ASSUME NEW u \in User, CheckLock(u) PROVE WritingInv'
  BY <1>11 DEF CheckLock, Acquire
<1>12. ASSUME NEW u \in User, Check(u) PROVE WritingInv'
  BY <1>12 DEF Check, Release
<1>13. ASSUME NEW u \in User, NEW again \in BOOLEAN, Close(u, again) PROVE WritingInv'
  BY <1>13 DEF Close
<1>14. ASSUME NEW u \in User, CloseLock(u) PROVE WritingInv'
  BY <1>14 DEF CloseLock, Acquire
<1>15. ASSUME NEW u \in User, Discard(u) PROVE WritingInv'
  BY <1>15 DEF Discard, Finish, Release
<1>16. ASSUME NEW u \in User, WriteBegin(u) PROVE WritingInv'
  BY <1>16 DEF WriteBegin
<1>17. ASSUME NEW u \in User, WriteEnd(u) PROVE WritingInv'
  BY <1>17 DEF WriteEnd
<1>18. ASSUME NEW u \in User, WriteStamp(u) PROVE WritingInv'
  BY <1>18 DEF WriteStamp, Finish, Release
<1>19. CASE UNCHANGED vars
  BY <1>19 DEF vars
<1>. QED
  BY <1>1, <1>2, <1>3, <1>4, <1>5, <1>6, <1>7, <1>8, <1>9, <1>10, <1>11, <1>12, <1>13, <1>14,
       <1>15, <1>16, <1>17, <1>18, <1>19 DEF Next, Step

\* A fresh copy, and one just read and not overtaken, hold all the file holds.
LEMMA CurrentStep ==
  ASSUME TypeOK, LockInv, TimeInv, WritingInv, CurrentInv, [Next]_vars
  PROVE  CurrentInv'
<1>. USE DEF TypeOK, LockInv, TimeInv, WritingInv, CurrentInv, Holding, Writing, Loaded, Fresh,
     Goto, file, history
<1>1. CASE Tick
  BY <1>1 DEF Tick
<1>2. ASSUME NEW u \in User, Open(u) PROVE CurrentInv'
  BY <1>2 DEF Open
<1>3. ASSUME NEW u \in User, Validate(u) PROVE CurrentInv'
  BY <1>3 DEF Validate
<1>4. ASSUME NEW u \in User, Reset(u) PROVE CurrentInv'
  BY <1>4 DEF Reset
<1>5. ASSUME NEW u \in User, LoadRefused(u) PROVE CurrentInv'
  BY <1>5 DEF LoadRefused
<1>6. ASSUME NEW u \in User, LoadLock(u) PROVE CurrentInv'
  BY <1>6 DEF LoadLock, Acquire
<1>7. ASSUME NEW u \in User, LoadRead(u) PROVE CurrentInv'
  BY <1>7 DEF LoadRead, Release
<1>8. ASSUME NEW u \in User, LoadFails(u) PROVE CurrentInv'
  BY <1>8 DEF LoadFails, Release
<1>9. ASSUME NEW u \in User, LoadStamp(u) PROVE CurrentInv'
  BY <1>9 DEF LoadStamp
<1>10. ASSUME NEW u \in User, Change(u) PROVE CurrentInv'
  BY <1>10 DEF Change
<1>11. ASSUME NEW u \in User, CheckLock(u) PROVE CurrentInv'
  BY <1>11 DEF CheckLock, Acquire
<1>12. ASSUME NEW u \in User, Check(u) PROVE CurrentInv'
  BY <1>12 DEF Check, Release
<1>13. ASSUME NEW u \in User, NEW again \in BOOLEAN, Close(u, again) PROVE CurrentInv'
  BY <1>13 DEF Close
<1>14. ASSUME NEW u \in User, CloseLock(u) PROVE CurrentInv'
  BY <1>14 DEF CloseLock, Acquire
<1>15. ASSUME NEW u \in User, Discard(u) PROVE CurrentInv'
  BY <1>15 DEF Discard, Finish, Release
<1>16. ASSUME NEW u \in User, WriteBegin(u) PROVE CurrentInv'
  BY <1>16 DEF WriteBegin
<1>17. ASSUME NEW u \in User, WriteEnd(u) PROVE CurrentInv'
  BY <1>17 DEF WriteEnd
<1>18. ASSUME NEW u \in User, WriteStamp(u) PROVE CurrentInv'
  BY <1>18 DEF WriteStamp, Finish, Release
<1>19. CASE UNCHANGED vars
  BY <1>19 DEF vars
<1>. QED
  BY <1>1, <1>2, <1>3, <1>4, <1>5, <1>6, <1>7, <1>8, <1>9, <1>10, <1>11, <1>12, <1>13, <1>14,
       <1>15, <1>16, <1>17, <1>18, <1>19 DEF Next, Step

\* A write replaces the file by a copy that holds it.
LEMMA SavedStep ==
  ASSUME TypeOK, LockInv, WritingInv, CurrentInv, LostOnlyByRace, [Next]_vars
  PROVE  LostOnlyByRace'
<1>. USE DEF TypeOK, LockInv, WritingInv, CurrentInv, LostOnlyByRace, NothingLost, Holding,
     Writing, Loaded, Fresh, Goto, file, history
<1>1. CASE Tick
  BY <1>1 DEF Tick
<1>2. ASSUME NEW u \in User, Open(u) PROVE LostOnlyByRace'
  BY <1>2 DEF Open
<1>3. ASSUME NEW u \in User, Validate(u) PROVE LostOnlyByRace'
  BY <1>3 DEF Validate
<1>4. ASSUME NEW u \in User, Reset(u) PROVE LostOnlyByRace'
  BY <1>4 DEF Reset
<1>5. ASSUME NEW u \in User, LoadRefused(u) PROVE LostOnlyByRace'
  BY <1>5 DEF LoadRefused
<1>6. ASSUME NEW u \in User, LoadLock(u) PROVE LostOnlyByRace'
  BY <1>6 DEF LoadLock, Acquire
<1>7. ASSUME NEW u \in User, LoadRead(u) PROVE LostOnlyByRace'
  BY <1>7 DEF LoadRead, Release
<1>8. ASSUME NEW u \in User, LoadFails(u) PROVE LostOnlyByRace'
  BY <1>8 DEF LoadFails, Release
<1>9. ASSUME NEW u \in User, LoadStamp(u) PROVE LostOnlyByRace'
  BY <1>9 DEF LoadStamp
<1>10. ASSUME NEW u \in User, Change(u) PROVE LostOnlyByRace'
  BY <1>10 DEF Change
<1>11. ASSUME NEW u \in User, CheckLock(u) PROVE LostOnlyByRace'
  BY <1>11 DEF CheckLock, Acquire
<1>12. ASSUME NEW u \in User, Check(u) PROVE LostOnlyByRace'
  BY <1>12 DEF Check, Release
<1>13. ASSUME NEW u \in User, NEW again \in BOOLEAN, Close(u, again) PROVE LostOnlyByRace'
  BY <1>13 DEF Close
<1>14. ASSUME NEW u \in User, CloseLock(u) PROVE LostOnlyByRace'
  BY <1>14 DEF CloseLock, Acquire
<1>15. ASSUME NEW u \in User, Discard(u) PROVE LostOnlyByRace'
  BY <1>15 DEF Discard, Finish, Release
<1>16. ASSUME NEW u \in User, WriteBegin(u) PROVE LostOnlyByRace'
  BY <1>16 DEF WriteBegin
<1>17. ASSUME NEW u \in User, WriteEnd(u) PROVE LostOnlyByRace'
  BY <1>17 DEF WriteEnd
<1>18. ASSUME NEW u \in User, WriteStamp(u) PROVE LostOnlyByRace'
  BY <1>18 DEF WriteStamp, Finish, Release
<1>19. CASE UNCHANGED vars
  BY <1>19 DEF vars
<1>. QED
  BY <1>1, <1>2, <1>3, <1>4, <1>5, <1>6, <1>7, <1>8, <1>9, <1>10, <1>11, <1>12, <1>13, <1>14,
       <1>15, <1>16, <1>17, <1>18, <1>19 DEF Next, Step

\* ShareInv holds in every reachable state: the lock, the clock, who may write, and what a copy that
\* may be written holds, as close_dict's comparison of load_time_ with g_last_update_ needs them.
THEOREM ShareCorrect == Spec => []ShareInv
<1>1. ShareInv /\ [Next]_vars => ShareInv'
  BY TypeStep, LockStep, TimeStep, WritingStep, CurrentStep, SavedStep DEF ShareInv
<1>. QED  BY <1>1, InitShare, PTL DEF Spec

\* Two objects over one file lose a saved edit only through the two races that LostOnlyByRace
\* names: with load_time_ read under the lock and reset run under it, nothing would be lost.
THEOREM SavedEditsStay == Spec => []LostOnlyByRace
<1>1. ShareInv => LostOnlyByRace
  BY DEF ShareInv
<1>. QED  BY <1>1, ShareCorrect, PTL
=============================================================================

------------------------- MODULE DatabaseRestoreProofs -------------------------
(***************************************************************************)
(* Proofs about DatabaseRestore for any number of processes, transactions  *)
(* and restore runs.  The argument: a lease is held exactly while a        *)
(* process works (LeaseInv), so a restore works alone; hence nobody else   *)
(* touches its lock file (LockInv) or the database (DataInv).              *)
(***************************************************************************)
EXTENDS DatabaseRestore, TLAPS

Clearing == {"clear", "rename", "compare"}
Reading == {"open", "using"}
Owning == {"fill", "census", "stage", "copyMain", "copyWal", "moveWal",
           "install", "undo", "dropAside", "release"}
Restoring == Owning \cup {"create"}

(* A process holds a lease exactly while it works, of the kind that its    *)
(* place asks for, and an exclusive lease is the only one.                 *)
LeaseInv ==
  /\ \A p, q \in Procs : lease[p] = "exclusive" /\ q # p => lease[q] = "none"
  /\ \A p \in Procs :
       /\ lease[p] = "none" <=> turn[p].at \in {"off", "exiting"}
       /\ turn[p].at \in Reading => lease[p] = "shared"
       /\ turn[p].at \in Restoring => lease[p] = "exclusive"
       /\ turn[p].at \in Clearing =>
            IF turn[p].then = "open" THEN lease[p] = "shared"
            ELSE turn[p].then \in {"create", "closing"} /\ lease[p] = "exclusive"
       /\ turn[p].at \in Clearing /\ turn[p].then = "create" =>
            turn[p].tries < Attempts
       /\ turn[p].at = "off" => turn[p] = Off
       /\ turn[p].at \in {"create"} => turn[p].then = "create"
       /\ turn[p].at \in Restoring => turn[p].token # 0

(* From its creation to its release the lock file is the restore's own.    *)
LockInv == \A p \in Procs : turn[p].at \in Owning => lock = turn[p].token

(* What a restore relies on before each of its writes.                     *)
Secured == {"moveWal", "install", "undo", "dropAside"}
DataInv ==
  /\ main \cup wal \subseteq expected
  /\ committed \subseteq main \cup wal \cup saved
  /\ \A p \in Procs :
       /\ turn[p].at = "copyWal" => turn[p].part = main
       /\ turn[p].at \in Secured => committed \subseteq saved
       /\ turn[p].at \in {"install", "undo"} =>
            wal = {} /\ turn[p].aside \subseteq expected

-------------------------------------------------------------------------------
LEMMA TypeInit == Init => TypeOK /\ LeaseInv
  BY RestoreAssumption DEF Init, TypeOK, LeaseInv, Off, Turn, Labels, Content,
       Attempts, Reading, Restoring, Owning, Clearing

LEMMA TypeStep ==
  ASSUME TypeOK, LeaseInv, [Next]_vars
  PROVE  TypeOK' /\ LeaseInv'
<1> USE RestoreAssumption DEF TypeOK, LeaseInv, Labels, Attempts, Content, At,
      Reading, Restoring, Owning, Clearing, disk
<1>1. ASSUME NEW p \in Procs, OpenLease(p) PROVE TypeOK' /\ LeaseInv'
  BY <1>1 DEF OpenLease, SharedFree, Turn
<1>2. ASSUME NEW p \in Procs, RestoreLease(p) PROVE TypeOK' /\ LeaseInv'
  BY <1>2 DEF RestoreLease, ExclusiveFree, Turn
<1>3. ASSUME NEW p \in Procs, Clear(p) PROVE TypeOK' /\ LeaseInv'
  BY SMTT(30), <1>3 DEF Clear, Resume, Leave
<1>4. ASSUME NEW p \in Procs, Rename(p) PROVE TypeOK' /\ LeaseInv'
  BY <1>4 DEF Rename, Leave
<1>5. ASSUME NEW p \in Procs, Compare(p) PROVE TypeOK' /\ LeaseInv'
  BY SMTT(30), <1>5 DEF Compare, Resume, PutBack, Leave
<1>6. ASSUME NEW p \in Procs, Open(p) PROVE TypeOK' /\ LeaseInv'
  BY <1>6 DEF Open, Goto
<1>7. ASSUME NEW p \in Procs, CloseLease(p) PROVE TypeOK' /\ LeaseInv'
  BY <1>7 DEF CloseLease, Leave
<1>8. ASSUME NEW p \in Procs, CreateLock(p) PROVE TypeOK' /\ LeaseInv'
  BY <1>8 DEF CreateLock, Goto, Leave
<1>9. ASSUME NEW p \in Procs, FillLock(p) \/ Census(p) \/ StageBackup(p)
      PROVE  TypeOK' /\ LeaseInv'
  BY <1>9 DEF FillLock, Census, StageBackup, Goto
<1>10. ASSUME NEW p \in Procs, CopyMain(p) \/ CopyWal(p) \/ MoveWal(p)
       PROVE  TypeOK' /\ LeaseInv'
  BY <1>10 DEF CopyMain, CopyWal, SavedBy, MoveWal, WalGone
<1>11. ASSUME NEW p \in Procs, Install(p) \/ UndoMove(p) \/ DropAside(p)
       PROVE  TypeOK' /\ LeaseInv'
  BY <1>11 DEF Install, UndoMove, DropAside, Goto
<1>12. ASSUME NEW p \in Procs, Release(p) PROVE TypeOK' /\ LeaseInv'
  BY <1>12 DEF Release, Leave
<1>13. ASSUME NEW p \in Procs, Exit(p) \/ Crash(p) PROVE TypeOK' /\ LeaseInv'
  <2>1. lease' = [lease EXCEPT ![p] = "none"] /\ turn' = [turn EXCEPT ![p] = Off]
    BY <1>13 DEF Exit, Crash, End
  <2>2. TypeOK'
    <3>1. Off \in [at : Labels, then : {"off", "open", "create", "closing"},
                   token : 0..MaxRestores, tries : 0..Attempts,
                   seen : 0..MaxRestores, held : 0..MaxRestores,
                   part : SUBSET Content, aside : SUBSET Content]
      BY DEF Off, Turn
    <3> HIDE DEF Content, Labels, Attempts
    <3> QED
      BY <1>13, <2>1, <3>1 DEF Exit, Crash, End
  <2>3. \A q \in Procs : turn'[q] = IF q = p THEN Off ELSE turn[q]
    BY <2>1
  <2>4. \A q \in Procs : lease'[q] = IF q = p THEN "none" ELSE lease[q]
    BY <2>1
  <2>5. Off.at = "off"
    BY DEF Off, Turn
  <2>6. LeaseInv'
    BY <2>3, <2>4, <2>5
  <2> QED
    BY <2>2, <2>6
<1>14. ASSUME NEW p \in Procs, NEW t \in Tx, Commit(p, t)
       PROVE  TypeOK' /\ LeaseInv'
  BY <1>14 DEF Commit, Using
<1>15. ASSUME NEW p \in Procs, CloseDatabase(p) PROVE TypeOK' /\ LeaseInv'
  BY <1>15 DEF CloseDatabase, Using, Goto
<1>16. ASSUME NEW p \in Procs, Fail(p) PROVE TypeOK' /\ LeaseInv'
  BY <1>16 DEF Fail, Abandoning, Unwinding, PutBack, Leave, Goto
<1>17. CASE UNCHANGED vars
  BY <1>17 DEF vars, Off, Turn
<1> QED
  BY <1>1, <1>2, <1>3, <1>4, <1>5, <1>6, <1>7, <1>8, <1>9, <1>10, <1>11,
     <1>12, <1>13, <1>14, <1>15, <1>16, <1>17 DEF Next, Step

(* Every variable has its type, and leases are held as their places ask.   *)
THEOREM RestoreTypeCorrect == Spec => [](TypeOK /\ LeaseInv)
<1>1. TypeOK /\ LeaseInv /\ [Next]_vars => (TypeOK /\ LeaseInv)'
  BY TypeStep
<1> QED
  BY <1>1, TypeInit, PTL DEF Spec

(* While a restore works on the file set, no opener has the database open  *)
(* and no other restore works.                                             *)
THEOREM RestoreWorksAlone == Spec => []RestoreExclusive
<1>1. TypeOK /\ LeaseInv => RestoreExclusive
  BY DEF TypeOK, LeaseInv, RestoreExclusive, Replacing, Using, At, Reading,
         Restoring, Owning
<1> QED
  BY <1>1, RestoreTypeCorrect, PTL

-------------------------------------------------------------------------------
(* What is left alone while a restore holds the exclusive lease.           *)
LEMMA Alone ==
  ASSUME LeaseInv, NEW p \in Procs, turn[p].at \in Restoring,
         NEW q \in Procs, q # p
  PROVE  turn[q].at \in {"off", "exiting"}
  BY DEF LeaseInv

LEMMA LockStep ==
  ASSUME TypeOK, LeaseInv, LockInv, [Next]_vars
  PROVE  LockInv'
<1> SUFFICES ASSUME NEW q \in Procs, turn'[q].at \in Owning
             PROVE  lock' = turn'[q].token
  BY DEF LockInv
<1> USE DEF TypeOK, LockInv, At, Restoring, Owning
<1>1. ASSUME NEW p \in Procs, OpenLease(p) \/ RestoreLease(p) \/ Clear(p)
             \/ Open(p) \/ CloseLease(p) \/ FillLock(p) \/ Census(p)
      PROVE  lock' = turn'[q].token
  BY <1>1 DEF OpenLease, RestoreLease, Clear, Resume, Leave, Turn, Open, Goto,
              CloseLease, FillLock, Census, LeaseInv, Clearing
<1>2. ASSUME NEW p \in Procs, CreateLock(p) PROVE lock' = turn'[q].token
  <2>1. CASE q = p
    BY <1>2, <2>1 DEF CreateLock, Goto, Leave
  <2>2. CASE q # p
    BY <1>2, <2>2, Alone DEF CreateLock, Goto, Leave
  <2> QED
    BY <2>1, <2>2
<1>3. ASSUME NEW p \in Procs, Rename(p) \/ Compare(p) PROVE lock' = turn'[q].token
  <2>1. q # p /\ turn[q] = turn'[q]
    BY <1>3 DEF Rename, Compare, Resume, Leave, LeaseInv, Clearing
  <2> QED
    BY <1>3, <2>1, Alone DEF Rename, Compare
<1>4. ASSUME NEW p \in Procs, StageBackup(p) \/ CopyMain(p) \/ CopyWal(p)
             \/ MoveWal(p) \/ Install(p) \/ UndoMove(p) \/ DropAside(p)
             \/ Release(p) \/ CloseDatabase(p)
      PROVE  lock' = turn'[q].token
  BY <1>4 DEF StageBackup, CopyMain, CopyWal, MoveWal, Install, UndoMove,
              DropAside, Release, CloseDatabase, Using, Goto, Leave
<1>5. ASSUME NEW p \in Procs, Exit(p) \/ Crash(p) PROVE lock' = turn'[q].token
  <2>1. turn' = [turn EXCEPT ![p] = Off] /\ lock' = lock /\ Off.at = "off"
    BY <1>5 DEF Exit, Crash, End, Off, Turn
  <2>2. q # p
    BY <2>1
  <2> QED
    BY <2>1, <2>2
<1>6. ASSUME NEW p \in Procs, NEW t \in Tx, Commit(p, t)
      PROVE  lock' = turn'[q].token
  BY <1>6 DEF Commit
<1>7. ASSUME NEW p \in Procs, Fail(p) PROVE lock' = turn'[q].token
  <2>1. CASE At(p, "compare") /\ PutBack(p) /\ Leave(p)
    BY <2>1, Alone DEF Leave
  <2>2. CASE ~(At(p, "compare") /\ PutBack(p) /\ Leave(p))
    BY <1>7, <2>2 DEF Fail, Abandoning, Unwinding, Leave, Goto
  <2> QED
    BY <2>1, <2>2
<1>8. CASE UNCHANGED vars
  BY <1>8 DEF vars
<1> QED
  BY <1>1, <1>2, <1>3, <1>4, <1>5, <1>6, <1>7, <1>8 DEF Next, Step

(* The lock file of a working restore stays in place, whatever openers and *)
(* other restores judge, quarantine and put back.                          *)
THEOREM LockIsKept == Spec => []LiveLockKept
<1>1. Init => LockInv
  BY DEF Init, LockInv, Off, Turn, Owning
<1>2. TypeOK /\ LeaseInv /\ LockInv /\ [Next]_vars => LockInv'
  BY LockStep
<1>3. LockInv => LiveLockKept
  BY DEF LockInv, LiveLockKept, Replacing, Owning
<1> QED
  BY <1>1, <1>2, <1>3, RestoreTypeCorrect, PTL DEF Spec

-------------------------------------------------------------------------------
LEMMA DataStep ==
  ASSUME TypeOK, LeaseInv, DataInv, [Next]_vars
  PROVE  DataInv'
<1> USE DEF TypeOK, DataInv, At, Restoring, Owning, Secured
<1>1. ASSUME NEW p \in Procs, OpenLease(p) \/ RestoreLease(p) \/ Clear(p)
             \/ Rename(p) \/ Compare(p) \/ Open(p) \/ CloseLease(p)
             \/ CreateLock(p) \/ FillLock(p) \/ Census(p) \/ StageBackup(p)
             \/ Release(p)
      PROVE  DataInv'
  BY <1>1 DEF OpenLease, RestoreLease, Clear, Rename, Compare, Resume, Leave,
              Turn, Open, Goto, CloseLease, CreateLock, FillLock, Census,
              StageBackup, Release, LeaseInv, Clearing, disk
<1>2. ASSUME NEW p \in Procs, NEW t \in Tx, Commit(p, t) PROVE DataInv'
  <2>1. \A q \in Procs : turn[q].at \notin Restoring
    BY <1>2, Alone DEF Commit, Using
  <2> QED
    BY <1>2, <2>1 DEF Commit
<1>3. ASSUME NEW p \in Procs, CloseDatabase(p) PROVE DataInv'
  <2>1. \A q \in Procs : turn[q].at \notin Restoring
    BY <1>3, Alone DEF CloseDatabase, Using
  <2>2. \A q \in Procs : turn'[q].at \notin Restoring
    BY <1>3, <2>1 DEF CloseDatabase, Goto
  <2>3. main' \cup wal' = main \cup wal
    BY <1>3 DEF CloseDatabase
  <2> QED
    BY <1>3, <2>2, <2>3 DEF CloseDatabase
<1>4. ASSUME NEW p \in Procs, turn[p].at \in Restoring,
             turn' = [turn EXCEPT ![p] = turn'[p]]
      PROVE  \A q \in Procs \ {p} : turn'[q].at \in {"off", "exiting"}
  BY <1>4, Alone
<1>5. ASSUME NEW p \in Procs, CopyMain(p) PROVE DataInv'
  BY <1>5 DEF CopyMain, disk
<1>6. ASSUME NEW p \in Procs, CopyWal(p) PROVE DataInv'
  BY <1>6 DEF CopyWal, SavedBy
<1>7. ASSUME NEW p \in Procs, MoveWal(p) PROVE DataInv'
  <2>1. \A q \in Procs \ {p} : turn'[q].at \in {"off", "exiting"}
    BY <1>7, <1>4 DEF MoveWal
  <2> QED
    BY <1>7, <2>1 DEF MoveWal, WalGone
<1>8. ASSUME NEW p \in Procs, Install(p) PROVE DataInv'
  <2>1. \A q \in Procs \ {p} : turn'[q].at \in {"off", "exiting"}
    BY <1>8, <1>4 DEF Install, Goto
  <2> QED
    BY <1>8, <2>1 DEF Install, Goto
<1>9. ASSUME NEW p \in Procs, UndoMove(p) PROVE DataInv'
  <2>1. \A q \in Procs \ {p} : turn'[q].at \in {"off", "exiting"}
    BY <1>9, <1>4 DEF UndoMove
  <2> QED
    BY <1>9, <2>1 DEF UndoMove
<1>10. ASSUME NEW p \in Procs, DropAside(p) PROVE DataInv'
  BY <1>10 DEF DropAside, disk
<1>11. ASSUME NEW p \in Procs, Exit(p) \/ Crash(p) PROVE DataInv'
  <2>1. /\ turn' = [turn EXCEPT ![p] = Off] /\ Off.at = "off"
        /\ UNCHANGED <<disk, committed, expected>>
    BY <1>11 DEF Exit, Crash, End, Off, Turn
  <2>2. \A q \in Procs : turn'[q] = turn[q] \/ turn'[q].at = "off"
    BY <2>1
  <2> QED
    BY <2>1, <2>2 DEF disk
<1>12. ASSUME NEW p \in Procs, Fail(p) PROVE DataInv'
  BY <1>12 DEF Fail, Abandoning, Unwinding, Leave, Goto, disk
<1>13. CASE UNCHANGED vars
  BY <1>13 DEF vars, disk
<1> QED
  BY <1>1, <1>2, <1>3, <1>5, <1>6, <1>7, <1>8, <1>9, <1>10, <1>11, <1>12,
     <1>13 DEF Next, Step

(* Before each of its writes a restore has all commits in a complete       *)
(* snapshot, and the log of the old database is out of the way before the  *)
(* new main file comes (createPreRestoreSafetySnapshot).                   *)
THEOREM DataIsSecured == Spec => []DataInv
<1>1. Init => DataInv
  BY DEF Init, DataInv, Off, Turn, Secured
<1>2. TypeOK /\ LeaseInv /\ DataInv /\ [Next]_vars => DataInv'
  BY DataStep
<1> QED
  BY <1>1, <1>2, RestoreTypeCorrect, PTL DEF Spec

(* Whatever fails or crashes, a committed transaction is in the database   *)
(* or in a complete safety snapshot.                                       *)
THEOREM CommitsSurvive == Spec => []NothingLost
<1>1. DataInv => NothingLost
  BY DEF DataInv, NothingLost
<1> QED
  BY <1>1, DataIsSecured, PTL

(* The log of a replaced database is never replayed into the restored one. *)
THEOREM RestoreIsNotUndone == Spec => []NoStaleReplay
<1>1. DataInv => NoStaleReplay
  BY DEF DataInv, NoStaleReplay
<1> QED
  BY <1>1, DataIsSecured, PTL

-------------------------------------------------------------------------------
(* The exchange.                                                           *)

(* Between the two renames, with the log moved aside, a restore dies or     *)
(* fails to take its rename back (replaceDatabaseFileSet).                 *)
Exchanging == {"install", "undo"}
Torn == \E p \in Procs : /\ turn[p].at \in Exchanging /\ turn[p].aside # {}
                         /\ Crash(p) \/ UndoMove(p)
                         /\ wal' = {}

(* The database shows what it should, or a restore has the rest in hand.    *)
ExchangeInv ==
  /\ (\A p \in Procs : turn[p].at \notin Exchanging) => main \cup wal = expected
  /\ \A p \in Procs : turn[p].at \in Exchanging =>
       wal = {} /\ main \cup turn[p].aside = expected

LEMMA ExchangeStep ==
  ASSUME TypeOK, LeaseInv, ExchangeInv, Next, ~Torn
  PROVE  ExchangeInv'
<1> USE DEF TypeOK, ExchangeInv, Exchanging, At
<1>1. ASSUME NEW p \in Procs, OpenLease(p) \/ RestoreLease(p) \/ Clear(p)
             \/ Rename(p) \/ Compare(p) \/ Open(p) \/ CloseLease(p)
             \/ CreateLock(p) \/ FillLock(p) \/ Census(p) \/ StageBackup(p)
             \/ CopyMain(p) \/ Release(p)
      PROVE  ExchangeInv'
  <2>1. /\ UNCHANGED <<main, wal, expected>>
        /\ turn[p].at \notin Exchanging /\ turn'[p].at \notin Exchanging
        /\ \A q \in Procs \ {p} : turn'[q] = turn[q]
    BY <1>1 DEF OpenLease, RestoreLease, Clear, Rename, Compare, Resume, Leave,
                Turn, Open, Goto, CloseLease, CreateLock, FillLock, Census,
                StageBackup, CopyMain, Release, LeaseInv, Clearing, Restoring, Owning, disk
  <2> QED
    BY <2>1
<1>2. ASSUME NEW p \in Procs, NEW t \in Tx, Commit(p, t) PROVE ExchangeInv'
  <2>1. \A q \in Procs : turn[q].at \notin Exchanging
    BY <1>2, Alone DEF Commit, Using, Restoring, Owning
  <2> QED
    BY <1>2, <2>1 DEF Commit
<1>3. ASSUME NEW p \in Procs, CloseDatabase(p) PROVE ExchangeInv'
  <2>1. \A q \in Procs : turn[q].at \notin Exchanging
    BY <1>3, Alone DEF CloseDatabase, Using, Restoring, Owning
  <2>2. \A q \in Procs : turn'[q].at \notin Exchanging
    BY <1>3, <2>1 DEF CloseDatabase, Goto
  <2>3. main' \cup wal' = main \cup wal
    BY <1>3 DEF CloseDatabase
  <2> QED
    BY <1>3, <2>1, <2>2, <2>3 DEF CloseDatabase
(* A step of a restore: nobody else is at work.                             *)
<1>4. ASSUME NEW p \in Procs, turn[p].at \in Restoring,
             turn' = [turn EXCEPT ![p] = turn'[p]]
      PROVE  \A q \in Procs \ {p} : /\ turn[q].at \notin Exchanging
                                   /\ turn'[q].at \notin Exchanging
  BY <1>4, Alone
<1>5. ASSUME NEW p \in Procs, CopyWal(p) \/ DropAside(p) PROVE ExchangeInv'
  BY <1>5, <1>4 DEF CopyWal, DropAside, disk, Restoring, Owning
<1>6. ASSUME NEW p \in Procs, MoveWal(p) PROVE ExchangeInv'
  <2>1. \A q \in Procs \ {p} : turn[q].at \notin Exchanging /\ turn'[q].at \notin Exchanging
    BY <1>6, <1>4 DEF MoveWal, Restoring, Owning
  <2> QED
    BY <1>6, <2>1 DEF MoveWal, WalGone
<1>7. ASSUME NEW p \in Procs, Install(p) PROVE ExchangeInv'
  <2>1. \A q \in Procs \ {p} : turn[q].at \notin Exchanging /\ turn'[q].at \notin Exchanging
    BY <1>7, <1>4 DEF Install, Goto, Restoring, Owning
  <2> QED
    BY <1>7, <2>1 DEF Install, Goto
<1>8. ASSUME NEW p \in Procs, UndoMove(p) PROVE ExchangeInv'
  <2>1. \A q \in Procs \ {p} : turn[q].at \notin Exchanging /\ turn'[q].at \notin Exchanging
    BY <1>8, <1>4 DEF UndoMove, Restoring, Owning
  <2>2. UNCHANGED <<main, expected>> /\ turn'[p].at \notin Exchanging
    BY <1>8 DEF UndoMove
  <2>3. wal = {} /\ main \cup turn[p].aside = expected
    BY <1>8 DEF UndoMove
  <2>4. wal' = {} => turn[p].aside = {}
    BY <1>8 DEF UndoMove, Torn
  <2>5. wal' \in {{}, turn[p].aside}
    BY <1>8, <2>3 DEF UndoMove
  <2> QED
    BY <2>1, <2>2, <2>3, <2>4, <2>5
<1>9. ASSUME NEW p \in Procs, Exit(p) \/ Crash(p) PROVE ExchangeInv'
  <2>1. /\ turn' = [turn EXCEPT ![p] = Off] /\ Off.at = "off"
        /\ UNCHANGED <<main, wal, expected>>
    BY <1>9 DEF Exit, Crash, End, Off, Turn, disk
  <2>2. CASE turn[p].at \notin Exchanging
    BY <2>1, <2>2
  <2>3. CASE turn[p].at \in Exchanging
    <3>1. Crash(p) /\ wal = {} /\ main \cup turn[p].aside = expected
      BY <1>9, <2>3 DEF Exit
    <3>2. turn[p].aside = {}
      BY <2>1, <2>3, <3>1 DEF Torn
    <3>3. \A q \in Procs : turn'[q].at \notin Exchanging
      BY <1>4, <2>1, <2>3 DEF Restoring, Owning
    <3> QED
      BY <2>1, <3>1, <3>2, <3>3
  <2> QED
    BY <2>2, <2>3
<1>10. ASSUME NEW p \in Procs, Fail(p) PROVE ExchangeInv'
  <2>1. CASE At(p, "install") /\ Goto(p, "undo") /\ UNCHANGED <<main, wal, expected>>
    BY <2>1 DEF Goto
  <2>2. CASE ~(At(p, "install") /\ Goto(p, "undo"))
    <3>1. /\ UNCHANGED <<main, wal, expected>>
          /\ turn[p].at \notin Exchanging /\ turn'[p].at \notin Exchanging
          /\ \A q \in Procs \ {p} : turn'[q] = turn[q]
      BY <1>10, <2>2 DEF Fail, Abandoning, Unwinding, Leave, disk
    <3> QED
      BY <3>1
  <2> QED
    BY <1>10, <2>1, <2>2 DEF Fail, disk
<1> QED
  BY <1>1, <1>2, <1>3, <1>5, <1>6, <1>7, <1>8, <1>9, <1>10 DEF Next, Step

(* The exchange of the file set is atomic for every opener, however         *)
(* openers, restores, failures and crashes interleave, unless a restore     *)
(* dies or fails to undo between the rename of the log and that of the new  *)
(* main file.                                                              *)
THEOREM ExchangeIsAtomicUnlessTorn ==
  Init /\ [][Next /\ ~Torn]_vars => []ExchangeAtomic
<1>1. Init => ExchangeInv
  BY DEF Init, ExchangeInv, Off, Turn, Exchanging
<1>2. TypeOK /\ LeaseInv /\ ExchangeInv /\ [Next /\ ~Torn]_vars => ExchangeInv'
  <2>1. TypeOK /\ LeaseInv /\ ExchangeInv /\ Next /\ ~Torn => ExchangeInv'
    BY ExchangeStep
  <2>2. ExchangeInv /\ UNCHANGED vars => ExchangeInv'
    BY DEF ExchangeInv, vars, disk
  <2> QED
    BY <2>1, <2>2
<1>3. [Next /\ ~Torn]_vars => [Next]_vars
  OBVIOUS
<1>4. LeaseInv /\ ExchangeInv => ExchangeAtomic
  <2> SUFFICES ASSUME LeaseInv, ExchangeInv, NEW p \in Procs, Using(p)
               PROVE  main \cup wal = expected
    BY DEF ExchangeAtomic
  <2>1. \A q \in Procs : turn[q].at \notin Exchanging
    BY Alone DEF Using, At, Exchanging, Restoring, Owning
  <2> QED
    BY <2>1 DEF ExchangeInv
<1> QED
  BY <1>1, <1>2, <1>3, <1>4, RestoreTypeCorrect, PTL DEF Spec

===============================================================================

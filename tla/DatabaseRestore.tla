---------------------------- MODULE DatabaseRestore ----------------------------
(***************************************************************************)
(* The database file set (main, WAL) under openers and offline restores:   *)
(* core/database-restore-lock.js, the opener of db/database.js and         *)
(* restoreStateBackup of core/db-backup.js.                                *)
(*                                                                         *)
(* Every opener holds a shared flock lease from before it looks for a      *)
(* restore lock until after SQLite closed; a restore holds the exclusive   *)
(* lease and, inside it, a lock file whose dead owner others may clear.    *)
(* A restore run is identified by its token; a lock file is the token of   *)
(* the run that wrote it.  Any process may crash between two steps, which  *)
(* frees its lease and leaves its files.                                   *)
(***************************************************************************)
EXTENDS Naturals, FiniteSets

CONSTANTS Procs,       \* processes that open or restore the database
          Tx,          \* transactions that openers may commit
          Backup,      \* the content of the backup that restores install
          MaxRestores  \* bound on restore runs

ASSUME RestoreAssumption == MaxRestores \in Nat /\ Tx \cap Backup = {}

VARIABLES
  main, wal,  \* content of the database file and of its write-ahead log
  lock,       \* token in the lock file, 0 when there is none
  torn,       \* lock files created whose content was not written
  saved,      \* content of the complete pre-restore safety snapshots
  lease,      \* the flock lease of a process
  turn,       \* where a process is, and its locals
  runs,       \* restore runs so far
  committed,  \* history: every transaction ever committed
  expected    \* history: the content that commits and restores promise

disk == <<main, wal, saved>>
vars == <<disk, lock, torn, lease, turn, runs, committed, expected>>

Content == Tx \cup Backup
Labels == {"off", "clear", "rename", "compare", "open", "using", "closing",
           "create", "fill", "census", "stage", "copyMain", "copyWal",
           "moveWal", "install", "undo", "dropAside", "release", "exiting"}

(* at: the next step; then: what follows the lock file's removal; token:   *)
(* the restore run; tries: attempts to create the lock; seen, held: lock   *)
(* read, lock moved to quarantine; part, aside: main image copied, WAL     *)
(* moved aside.                                                            *)
Turn(at, then, token) == [at |-> at, then |-> then, token |-> token,
                          tries |-> 0, seen |-> 0, held |-> 0,
                          part |-> {}, aside |-> {}]
Off == Turn("off", "off", 0)

At(p, label) == turn[p].at = label
Goto(p, label) == turn' = [turn EXCEPT ![p].at = label]
Using(p) == At(p, "using")

(* processStartIdentity and lockOwnerState: pid and start ticks match only *)
(* the process that wrote the lock.                                        *)
Live(n) == \E q \in Procs : turn[q].token = n

(* An error releases the lease; the process then ends.                     *)
Leave(p) == /\ lease' = [lease EXCEPT ![p] = "none"]
            /\ turn' = [turn EXCEPT ![p].at = "exiting"]

-------------------------------------------------------------------------------
(* The OS lease: flock --nonblock on an inode that is never replaced.      *)

(* Variants: a lease that does not exclude restores, or does not exclude   *)
(* openers.                                                                *)
NeverRefused == TRUE
SharedFree == \A q \in Procs : lease[q] # "exclusive"
ExclusiveFree == \A q \in Procs : lease[q] = "none"

OpenLease(p) ==
  /\ At(p, "off") /\ SharedFree
  /\ lease' = [lease EXCEPT ![p] = "shared"]
  /\ turn' = [turn EXCEPT ![p] = Turn("clear", "open", 0)]
  /\ UNCHANGED <<disk, lock, torn, runs, committed, expected>>

RestoreLease(p) ==
  /\ At(p, "off") /\ ExclusiveFree /\ runs < MaxRestores
  /\ runs' = runs + 1
  /\ lease' = [lease EXCEPT ![p] = "exclusive"]
  /\ turn' = [turn EXCEPT ![p] = Turn("create", "create", runs + 1)]
  /\ UNCHANGED <<disk, lock, torn, committed, expected>>

-------------------------------------------------------------------------------
(* clearStaleLock and quarantineAndRemove, shared by openers, by restores  *)
(* that find a lock file and, from the quarantine on, by the release.      *)

Attempts == 2

(* A variant that goes on with the lock file's creation for every caller.  *)
ResumeCreate(p) == turn' = [turn EXCEPT ![p].at = "create", ![p].seen = 0,
                                        ![p].held = 0]
Resume(p) ==
  turn' = [turn EXCEPT ![p].at = turn[p].then, ![p].seen = 0, ![p].held = 0,
                       ![p].tries = IF turn[p].then = "create" THEN @ + 1 ELSE @]

Clear(p) ==
  /\ At(p, "clear")
  /\ \/ lock = 0 /\ Resume(p) /\ UNCHANGED lease
     \/ (lock \in torn \/ Live(lock)) /\ lock # 0 /\ Leave(p)
     \/ /\ lock \notin torn \cup {0} /\ ~Live(lock)
        /\ turn' = [turn EXCEPT ![p].at = "rename", ![p].seen = lock]
        /\ UNCHANGED lease
  /\ UNCHANGED <<disk, lock, torn, runs, committed, expected>>

Rename(p) ==
  /\ At(p, "rename")
  /\ \/ lock = 0 /\ Leave(p) /\ UNCHANGED lock
     \/ /\ lock # 0 /\ lock' = 0
        /\ turn' = [turn EXCEPT ![p].at = "compare", ![p].held = lock]
        /\ UNCHANGED lease
  /\ UNCHANGED <<disk, torn, runs, committed, expected>>

(* restoreQuarantinedLock: link never overwrites, and may fail.            *)
PutBack(p) == IF lock = 0 THEN lock' \in {0, turn[p].held} ELSE UNCHANGED lock

Compare(p) ==
  /\ At(p, "compare")
  /\ IF turn[p].held = turn[p].seen
     THEN Resume(p) /\ UNCHANGED <<lock, lease>>
     ELSE PutBack(p) /\ Leave(p)
  /\ UNCHANGED <<disk, torn, runs, committed, expected>>

-------------------------------------------------------------------------------
(* The opener.                                                             *)

Open(p) == /\ At(p, "open") /\ Goto(p, "using")
           /\ UNCHANGED <<disk, lock, torn, lease, runs, committed, expected>>

Commit(p, t) ==
  /\ Using(p) /\ t \notin committed
  /\ wal' = wal \cup {t}
  /\ committed' = committed \cup {t} /\ expected' = expected \cup {t}
  /\ UNCHANGED <<main, saved, lock, torn, lease, turn, runs>>

(* The last SQLite connection folds the WAL into the main file.            *)
CloseDatabase(p) ==
  /\ Using(p) /\ Goto(p, "closing")
  /\ IF \E q \in Procs \ {p} : Using(q) THEN UNCHANGED <<main, wal>>
     ELSE main' = main \cup wal /\ wal' = {}
  /\ UNCHANGED <<saved, lock, torn, lease, runs, committed, expected>>

CloseLease(p) ==
  /\ At(p, "closing") /\ Leave(p)
  /\ UNCHANGED <<disk, lock, torn, runs, committed, expected>>

-------------------------------------------------------------------------------
(* The restore.                                                            *)

CreateLock(p) ==
  /\ At(p, "create")
  /\ \/ /\ lock = 0
        /\ lock' = turn[p].token /\ torn' = torn \cup {turn[p].token}
        /\ Goto(p, "fill") /\ UNCHANGED lease
     \/ /\ lock # 0 /\ UNCHANGED <<lock, torn>>
        /\ IF turn[p].tries < Attempts THEN Goto(p, "clear") /\ UNCHANGED lease
                                       ELSE Leave(p)
  /\ UNCHANGED <<disk, runs, committed, expected>>

FillLock(p) ==
  /\ At(p, "fill") /\ torn' = torn \ {turn[p].token} /\ Goto(p, "census")
  /\ UNCHANGED <<disk, lock, lease, runs, committed, expected>>

(* assertDatabaseFileClosed: anything but a positive "closed" refuses.     *)
Census(p) ==
  /\ At(p, "census")
  /\ Goto(p, IF \E q \in Procs : Using(q) THEN "release" ELSE "stage")
  /\ UNCHANGED <<disk, lock, torn, lease, runs, committed, expected>>

StageBackup(p) ==
  /\ At(p, "stage") /\ Goto(p, "copyMain")
  /\ UNCHANGED <<disk, lock, torn, lease, runs, committed, expected>>

CopyMain(p) ==
  /\ At(p, "copyMain")
  /\ turn' = [turn EXCEPT ![p].at = "copyWal", ![p].part = main]
  /\ UNCHANGED <<disk, lock, torn, lease, runs, committed, expected>>

(* The snapshot holds every file of the set; a variant forgets the WAL.    *)
MainOnly(p) == turn[p].part
SavedBy(p) == turn[p].part \cup wal
CopyWal(p) ==
  /\ At(p, "copyWal")
  /\ saved' = saved \cup SavedBy(p)
  /\ turn' = [turn EXCEPT ![p].at = "moveWal", ![p].part = {}]
  /\ UNCHANGED <<main, wal, lock, torn, lease, runs, committed, expected>>

(* The WAL leaves before the main file is replaced; a variant leaves it.   *)
WalStays == wal
WalGone == {}
MoveWal(p) ==
  /\ At(p, "moveWal") /\ wal' = WalGone
  /\ turn' = [turn EXCEPT ![p].at = "install", ![p].aside = wal]
  /\ UNCHANGED <<main, saved, lock, torn, lease, runs, committed, expected>>

Install(p) ==
  /\ At(p, "install") /\ Goto(p, "dropAside")
  /\ main' = Backup /\ expected' = Backup
  /\ UNCHANGED <<wal, saved, lock, torn, lease, runs, committed>>

(* Roll back a replacement whose rename failed; this may fail as well.     *)
UndoMove(p) ==
  /\ At(p, "undo")
  /\ wal' \in {wal, IF wal = {} THEN turn[p].aside ELSE wal}
  /\ turn' = [turn EXCEPT ![p].at = "release", ![p].aside = {}]
  /\ UNCHANGED <<main, saved, lock, torn, lease, runs, committed, expected>>

DropAside(p) ==
  /\ At(p, "dropAside")
  /\ turn' = [turn EXCEPT ![p].at = "release", ![p].aside = {}]
  /\ UNCHANGED <<disk, lock, torn, lease, runs, committed, expected>>

(* releaseDatabaseRestoreLock: only the lock of this run is removed; the   *)
(* lease is released in any case.                                          *)
Release(p) ==
  /\ At(p, "release")
  /\ IF lock # turn[p].token \/ lock \in torn THEN Leave(p)
     ELSE /\ turn' = [turn EXCEPT ![p].at = "rename", ![p].seen = lock,
                                  ![p].then = "closing"]
          /\ UNCHANGED lease
  /\ UNCHANGED <<disk, lock, torn, runs, committed, expected>>

-------------------------------------------------------------------------------
(* What may go wrong at any step: an error of the file system, of flock,   *)
(* fuser or /proc takes the step's error path; the process may die.        *)

Abandoning == {"clear", "rename", "open", "create", "fill", "release"}
Unwinding == {"census", "stage", "copyMain", "copyWal", "moveWal", "dropAside"}

Fail(p) ==
  /\ \/ turn[p].at \in Abandoning /\ Leave(p) /\ UNCHANGED lock
     \/ At(p, "compare") /\ PutBack(p) /\ Leave(p)
     \/ /\ turn[p].at \in Unwinding /\ UNCHANGED <<lock, lease>>
        /\ turn' = [turn EXCEPT ![p].at = "release", ![p].part = {},
                                ![p].aside = {}]
     \/ At(p, "install") /\ Goto(p, "undo") /\ UNCHANGED <<lock, lease>>
  /\ UNCHANGED <<disk, torn, runs, committed, expected>>

End(p) == /\ lease' = [lease EXCEPT ![p] = "none"]
          /\ turn' = [turn EXCEPT ![p] = Off]
          /\ UNCHANGED <<disk, lock, torn, runs, committed, expected>>

Exit(p) == At(p, "exiting") /\ End(p)
Crash(p) == turn[p].at \notin {"off", "exiting"} /\ End(p)

-------------------------------------------------------------------------------
Init ==
  /\ main = {} /\ wal = {} /\ saved = {} /\ lock = 0 /\ torn = {}
  /\ lease = [p \in Procs |-> "none"] /\ turn = [p \in Procs |-> Off]
  /\ runs = 0 /\ committed = {} /\ expected = {}

Step(p) ==
  \/ Clear(p) \/ Rename(p) \/ Compare(p)
  \/ Open(p) \/ CloseLease(p)
  \/ CreateLock(p) \/ FillLock(p) \/ Census(p) \/ StageBackup(p)
  \/ CopyMain(p) \/ CopyWal(p) \/ MoveWal(p) \/ Install(p)
  \/ UndoMove(p) \/ DropAside(p) \/ Release(p) \/ Exit(p)

Next == \E p \in Procs :
  \/ OpenLease(p) \/ RestoreLease(p) \/ Step(p)
  \/ (\E t \in Tx : Commit(p, t)) \/ CloseDatabase(p)
  \/ Fail(p) \/ Crash(p)

Spec == Init /\ [][Next]_vars

-------------------------------------------------------------------------------
(* Every variable has its type.                                            *)
TypeOK ==
  /\ main \subseteq Content /\ wal \subseteq Content /\ saved \subseteq Content
  /\ lock \in 0..MaxRestores /\ torn \subseteq 1..MaxRestores
  /\ lease \in [Procs -> {"none", "shared", "exclusive"}]
  /\ turn \in [Procs -> [at : Labels, then : {"off", "open", "create", "closing"},
                         token : 0..MaxRestores, tries : 0..Attempts,
                         seen : 0..MaxRestores, held : 0..MaxRestores,
                         part : SUBSET Content, aside : SUBSET Content]]
  /\ runs \in 0..MaxRestores
  /\ committed \subseteq Tx /\ expected \subseteq Content

(* From the moment a restore looks for open files until it has put the new *)
(* ones in place, no opener has the database open and no other restore     *)
(* works (the lease of the opener spans the SQLite connection).            *)
Replacing(p) == turn[p].at \in {"stage", "copyMain", "copyWal", "moveWal",
                                "install", "undo", "dropAside"}
RestoreExclusive ==
  \A p, q \in Procs : Replacing(p) /\ q # p => ~Using(q) /\ ~Replacing(q)

(* The lock file of a restore that works is never cleared by others, in    *)
(* whatever order openers judge, quarantine and put back lock files.       *)
LiveLockKept == \A p \in Procs : Replacing(p) => lock = turn[p].token

(* A database that is in use never shows a transaction that a restore took *)
(* back: the write-ahead log of the replaced database is not replayed.     *)
NoStaleReplay == \A p \in Procs : Using(p) => main \cup wal \subseteq expected

(* Every committed transaction is in the database or in a complete safety  *)
(* snapshot, wherever restores fail or crash.                              *)
NothingLost == committed \subseteq main \cup wal \cup saved

(* The exchange of the file set is atomic: who opens the database sees the *)
(* old content or the backup, never the old main file without its log.     *)
ExchangeAtomic == \A p \in Procs : Using(p) => main \cup wal = expected

===============================================================================

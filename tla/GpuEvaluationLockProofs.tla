------------------------ MODULE GpuEvaluationLockProofs ------------------------
(***************************************************************************)
(* The GPU has one holder, for any number of processes that come, hold,    *)
(* leave and die at any step, as long as nobody removes a lock other than  *)
(* that of a dead holder.  So the only step that gives the GPU to two is   *)
(* ClearStale, which removes by its path what was judged before.           *)
(***************************************************************************)
EXTENDS GpuEvaluationLock, TLAPS

(* The lock that is cleared has no dead holder any more: the directory that *)
(* was judged is gone, and a faster contender has made it anew.            *)
ClearedAnother ==
  \E p \in Procs : ClearStale(p) /\ ~(owner # None /\ at[owner] = "dead")

(* p has made the directory and not yet removed it.                        *)
Has(p) == at[p] \in {"write", "held", "remove"}

Labels == {"off", "make", "judge", "clear", "write", "held", "remove", "dead"}

(* Who has the directory is alone with it, and named in it once it is held. *)
LockInv ==
  /\ at \in [Procs -> Labels] /\ owner \in Procs \cup {None}
  /\ \A p, q \in Procs : Has(p) /\ Has(q) => p = q
  /\ ~dir => owner = None /\ \A p \in Procs : ~Has(p)
  /\ \A p \in Procs : /\ at[p] = "write" => owner = None
                      /\ at[p] \in {"held", "remove"} => owner = p

(* Every step keeps it that way.                                           *)
LEMMA LockStep ==
  ASSUME LockInv, Next, ~ClearedAnother
  PROVE  LockInv'
<1> USE DEF LockInv, Has, Labels, Goto
<1>1. ASSUME NEW p \in Procs, MakeDirectory(p) PROVE LockInv'
  <2>1. /\ at[p] \in {"off", "make"} /\ owner' = owner
        /\ \/ dir' = dir /\ (Goto(p, "off") \/ Goto(p, "judge"))
           \/ ~dir /\ dir' /\ Goto(p, "write")
    BY <1>1 DEF MakeDirectory
  <2>2. CASE ~dir /\ dir' /\ Goto(p, "write")
    <3>1. /\ at' = [at EXCEPT ![p] = "write"] /\ owner' = None
          /\ \A q \in Procs : ~Has(q)
      BY <2>1, <2>2
    <3> QED
      BY <2>2, <3>1
  <2>3. CASE dir' = dir /\ (Goto(p, "off") \/ Goto(p, "judge"))
    BY <2>1, <2>3
  <2> QED
    BY <2>1, <2>2, <2>3
<1>2. ASSUME NEW p \in Procs, JudgeOwner(p) PROVE LockInv'
  BY <1>2 DEF JudgeOwner
<1>3. ASSUME NEW p \in Procs, ClearStale(p) PROVE LockInv'
  <2>1. owner # None /\ owner \in Procs /\ at[owner] = "dead"
    BY <1>3 DEF ClearedAnother
  <2>2. \A q \in Procs : ~Has(q)
    BY <2>1
  <2> QED
    BY <1>3, <2>2 DEF ClearStale, Remove
<1>4. ASSUME NEW p \in Procs, WriteOwner(p) PROVE LockInv'
  BY <1>4 DEF WriteOwner
<1>5. ASSUME NEW p \in Procs, Release(p) PROVE LockInv'
  BY <1>5 DEF Release
<1>6. ASSUME NEW p \in Procs, RemoveOwn(p) PROVE LockInv'
  BY <1>6 DEF RemoveOwn, Remove
<1>7. ASSUME NEW p \in Procs, Crash(p) PROVE LockInv'
  BY <1>7 DEF Crash
<1> QED
  BY <1>1, <1>2, <1>3, <1>4, <1>5, <1>6, <1>7 DEF Next

(* A holder is alone, whoever crashes, as long as the clearing of a stale   *)
(* lock finds the lock that was judged (acquireGpuEvaluationLock).          *)
THEOREM OneHolderUnlessCleared ==
  Init /\ [][Next /\ ~ClearedAnother]_vars => []OneHolder
<1>1. Init => LockInv
  <2> SUFFICES ASSUME Init PROVE LockInv
    OBVIOUS
  <2>1. at = [p \in Procs |-> "off"] /\ owner = None
    BY DEF Init
  <2> QED
    BY <2>1 DEF LockInv, Has, Labels
<1>2. LockInv /\ [Next /\ ~ClearedAnother]_vars => LockInv'
  <2>1. LockInv /\ Next /\ ~ClearedAnother => LockInv'
    BY LockStep
  <2>2. LockInv /\ UNCHANGED vars => LockInv'
    BY DEF LockInv, Has, vars
  <2> QED
    BY <2>1, <2>2
<1>3. LockInv => OneHolder
  BY DEF LockInv, Has, OneHolder
<1> QED
  BY <1>1, <1>2, <1>3, PTL

===============================================================================

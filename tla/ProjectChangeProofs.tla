-------------------------- MODULE ProjectChangeProofs --------------------------
(***************************************************************************)
(* Proofs about ProjectChange for any number of processes, files and       *)
(* foreign edits.  The argument: types are inductive by themselves; the    *)
(* claim row names the one process that drives (DriverInv), so what the    *)
(* driver knows of the test's process group nobody else can change but a   *)
(* crash of the driver itself (ChildInv); and the two steps that change    *)
(* the content of a file look at it first.  Only the driver touches the    *)
(* project, and what it did it knows from its place (PlaceEffects for the  *)
(* test and the commit, PlaceFiles for the files); where it records a      *)
(* result this makes the result true, and afterwards only foreign programs *)
(* can take anything away, which is excused.                               *)
(***************************************************************************)
EXTENDS ProjectChange, TLAPS

-------------------------------------------------------------------------------
(* Types.                                                                  *)

(* The constant records have the types of the variables they are put in.   *)
LEMMA Constant ==
  /\ PlanRevision \in Revision /\ AfterRevision \in Revision
  /\ Idle \in RunRecord
  /\ Fresh \in ServerRecord
  /\ NoResult \in ResultRow
<1>1. PlanRevision \in Revision /\ AfterRevision \in Revision
  BY DEF PlanRevision, AfterRevision, Revision, Image
<1>2. Idle \in RunRecord
  BY <1>1 DEF Idle, RunRecord, Pcs, GitOutcome
<1>3. Fresh \in ServerRecord
  BY DEF Fresh, ServerRecord
<1>4. NoResult \in ResultRow
  BY <1>1 DEF NoResult, GitOutcome, ResultRow
<1> QED
  BY <1>1, <1>2, <1>3, <1>4

(* The initial state is typed.                                             *)
LEMMA TypeInit == Init => TypeOK
<1> SUFFICES ASSUME Init PROVE TypeOK
  OBVIOUS
<1>1. run \in [Proc -> RunRecord] /\ srv \in [Proc -> ServerRecord]
  BY Constant DEF Init
<1>2. \A p \in Proc : run[p].gen <= ex.gen
  BY DEF Init, Idle
<1>3. ex \in ExecutionRows
  BY Constant DEF Init, ExecutionRows
<1>4. ws \in Workspace
  BY DEF Init, Image, Workspace
<1>5. lc \in LifecycleRows
  BY DEF Init, LifecycleRows
<1>6. env \in History
  BY DEF Init, History
<1>7. fx \in [Effect -> {"none", "succeeded", "failed"}]
  BY DEF Init
<1> QED
  BY <1>1, <1>2, <1>3, <1>4, <1>5, <1>6, <1>7 DEF Init, TypeOK, ClaimsRecorded

(* A revision that is observed is a revision.                              *)
LEMMA CurrentType == TypeOK => CurrentRevision \in Revision
  BY ConstantsAssumption DEF TypeOK, CurrentRevision, Revision, Workspace

(* A step of p changes the execution of p only, to a typed one, and the    *)
(* generation it holds is its old one, none, or the latest.                *)
LEMMA RunTypes ==
  ASSUME TypeOK, NEW p \in Proc,
         Serve(p) \/ Execute(p) \/ Recover(p) \/ Finalize(p)
  PROVE  /\ run' = [run EXCEPT ![p] = run'[p]]
         /\ run'[p] \in RunRecord
         /\ run'[p].gen \in {run[p].gen, 0, ex'.gen}
<1> USE Constant, CurrentType DEF RunRecord, Pcs, At
<1>0. run \in [Proc -> RunRecord] /\ run[p] \in RunRecord /\ Idle.gen = 0 /\ TypeOK
  BY DEF TypeOK, Idle
<1>1. CASE Approve(p)
  BY <1>0, <1>1 DEF Approve, Goto
<1>2. CASE IssueGrants(p)
  BY <1>0, <1>2 DEF IssueGrants, Goto, Throw
<1>3. CASE RecordGrantSet(p)
  BY <1>0, <1>3 DEF RecordGrantSet, Goto, Throw
<1>4. CASE Cancel(p)
  BY <1>0, <1>4 DEF Cancel, Goto
<1>5. CASE RevokeRunGrants(p)
  BY <1>0, <1>5 DEF RevokeRunGrants
<1>6. CASE CloseCancelled(p)
  BY <1>0, <1>6 DEF CloseCancelled
<1>7. CASE Census(p)
  BY <1>0, <1>7 DEF Census, Return, Goto
<1>8. CASE AcquireClaim(p)
  BY <1>0, <1>8 DEF AcquireClaim, Goto, Throw, Claimed
<1>9. CASE Authorize(p)
  BY <1>0, <1>9 DEF Authorize, RecoverOnly, Goto, Throw
<1>10. CASE RecordApprovalSet(p)
  BY <1>0, <1>10 DEF RecordApprovalSet, Goto
<1>11. CASE Preflight(p)
  BY <1>0, <1>11 DEF Preflight, RecordResult, Idle
<1>12. CASE WriteFile(p)
  BY <1>0, <1>12 DEF WriteFile, StopWith
<1>13. CASE RecordWrite(p)
  BY <1>0, <1>13 DEF RecordWrite, StopWith
<1>14. CASE LaunchSupervisor(p)
  BY <1>0, <1>14 DEF LaunchSupervisor, Goto
<1>15. CASE RecordSupervisor(p)
  BY <1>0, <1>15 DEF RecordSupervisor, Goto
<1>16. CASE StartTest(p)
  BY <1>0, <1>16 DEF StartTest, Goto
<1>17. CASE TestEnds(p)
  <2>1. PICK status \in Status :
          run' = [run EXCEPT ![p].pc = "tested", ![p].test = status]
    BY <1>17 DEF TestEnds
  <2> QED
    BY <1>0, <2>1
<1>18. CASE RecordTermination(p)
  BY <1>0, <1>18 DEF RecordTermination, Goto
<1>19. CASE RecordTest(p)
  BY <1>0, <1>19 DEF RecordTest, Goto, StopWith
<1>20. CASE GitCheck(p)
  BY <1>0, <1>20 DEF GitCheck, Goto, StopWith
<1>21. CASE UpdateRef(p)
  BY <1>0, <1>21 DEF UpdateRef, Goto, GitEnds
<1>22. CASE UpdateIndex(p)
  BY <1>0, <1>22 DEF UpdateIndex, Goto
<1>23. CASE ProveCommit(p)
  BY <1>0, <1>23 DEF ProveCommit, GitEnds, Goto
<1>24. CASE CompensateRef(p)
  BY <1>0, <1>24 DEF CompensateRef, Goto, GitEnds
<1>25. CASE CompensateIndex(p)
  BY <1>0, <1>25 DEF CompensateIndex, GitEnds
<1>26. CASE RecordGit(p)
  BY <1>0, <1>26 DEF RecordGit, Goto, StopWith
<1>27. CASE ObserveAfter(p)
  BY <1>0, <1>27 DEF ObserveAfter, StopWith, RecordResult
<1>28. CASE Complete(p)
  BY <1>0, <1>28 DEF Complete, RecordResult, StopWith
<1>29. CASE FinishStopped(p)
  BY <1>0, <1>29 DEF FinishStopped, Throw
<1>30. CASE UndoFile(p)
  BY <1>0, <1>30 DEF UndoFile, Goto, UndoFails
<1>31. CASE RecordUndo(p)
  BY <1>0, <1>31 DEF RecordUndo, UndoFails
<1>32. CASE RecordStopped(p)
  BY <1>0, <1>32 DEF RecordStopped, RecordResult
<1>33. CASE Reap(p)
  BY <1>0, <1>33 DEF Reap, Goto, Throw
<1>34. CASE Classify(p)
  BY <1>0, <1>34 DEF Classify, RecoverByUndo, Goto, RecordResult
<1>35. CASE RecordRecoveredGit(p)
  BY <1>0, <1>35 DEF RecordRecoveredGit, Goto
<1>36. CASE CompleteRecovered(p)
  BY <1>0, <1>36 DEF CompleteRecovered, RecordResult
<1>37. CASE FinalObserve(p)
  BY <1>0, <1>37 DEF FinalObserve, Return, Goto
<1>38. CASE Settle(p)
  BY <1>0, <1>38 DEF Settle, Terminate, Return, Throw, Goto
<1>39. CASE RecordSuccess(p)
  BY <1>0, <1>39 DEF RecordSuccess, Terminate, Return, Throw
<1> QED
  BY <1>1, <1>2, <1>3, <1>4, <1>5, <1>6, <1>7, <1>8, <1>9, <1>10, <1>11, <1>12, <1>13,
       <1>14, <1>15, <1>16, <1>17, <1>18, <1>19, <1>20, <1>21, <1>22, <1>23, <1>24,
       <1>25, <1>26, <1>27, <1>28, <1>29, <1>30, <1>31, <1>32, <1>33, <1>34, <1>35,
       <1>36, <1>37, <1>38, <1>39 DEF Serve, Execute, Recover, Finalize

(* A claim that is taken over has a later generation.                      *)
LEMMA ClaimTypes ==
  ASSUME TypeOK, NEW p \in Proc
  PROVE  Claimed(p) \in ExecutionRows /\ ex.gen <= Claimed(p).gen
<1>1. ex \in ExecutionRows /\ ex.gen \in Nat /\ ex.gen + 1 \in Nat
  BY DEF TypeOK, ExecutionRows
<1>2. ASSUME NEW g \in Nat
      PROVE  [ex EXCEPT !.gen = g, !.owner = p, !.live = TRUE] \in ExecutionRows
  BY <1>1 DEF ExecutionRows
<1>3. Claimed(p).gen = ex.gen + 1
  BY <1>1 DEF ExecutionRows, Claimed
<1>4. [ex EXCEPT !.gen = ex.gen + 1, !.owner = p, !.live = TRUE] \in ExecutionRows
  BY <1>1, <1>2
<1>5. ex.gen <= ex.gen + 1
  BY <1>1
<1> QED
  BY <1>3, <1>4, <1>5 DEF Claimed

(* Returning and throwing leave records of servers.                        *)
LEMMA Moves ==
  ASSUME TypeOK
  PROVE  /\ \A p \in Proc : [srv EXCEPT ![p].aborting = FALSE] \in [Proc -> ServerRecord]
         /\ \A p \in Proc : [srv EXCEPT ![p].aborting = FALSE, ![p].census = TRUE]
                              \in [Proc -> ServerRecord]
<1>4. ASSUME NEW p \in Proc
      PROVE  [srv EXCEPT ![p].aborting = FALSE] \in [Proc -> ServerRecord]
  BY DEF TypeOK, ServerRecord
<1>5. ASSUME NEW p \in Proc
      PROVE  [srv EXCEPT ![p].aborting = FALSE, ![p].census = TRUE]
               \in [Proc -> ServerRecord]
  BY DEF TypeOK, ServerRecord
<1> QED
  BY <1>4, <1>5

(* The rows of the lifecycle stay typed.                                   *)
LEMMA LifecycleTypes ==
  ASSUME TypeOK, NEW p \in Proc,
         Serve(p) \/ Execute(p) \/ Recover(p) \/ Finalize(p)
  PROVE  lc' \in LifecycleRows
<1> USE DEF TypeOK
<1>0. run[p] \in RunRecord
  OBVIOUS
<1>1. CASE Approve(p)
  BY <1>0, <1>1 DEF Approve, LifecycleRows
<1>2. CASE RecordGrantSet(p)
  BY <1>0, <1>2 DEF RecordGrantSet, Throw, LifecycleRows
<1>3. CASE Cancel(p)
  BY <1>0, <1>3 DEF Cancel, LifecycleRows
<1>4. CASE CloseCancelled(p)
  BY <1>0, <1>4 DEF CloseCancelled, Status, Stop, LifecycleRows
<1>5. CASE Census(p)
  BY <1>0, <1>5 DEF Census, LifecycleRows
<1>6. CASE Settle(p)
  <2>1. /\ ex.result.status \in Status \cup {"none"}
        /\ lc \in LifecycleRows /\ "orphaned" \in Status
    BY DEF ExecutionRows, ResultRow, Status, Stop
  <2> QED
    BY <1>6, <2>1 DEF Settle, Terminate, LifecycleRows
<1>7. CASE RecordSuccess(p)
  BY <1>0, <1>7 DEF RecordSuccess, Terminate, LifecycleRows, Status, Stop
<1>8. CASE \/ IssueGrants(p) \/ RevokeRunGrants(p) \/ AcquireClaim(p)
           \/ Authorize(p) \/ RecordApprovalSet(p) \/ Preflight(p) \/ WriteFile(p)
           \/ RecordWrite(p) \/ LaunchSupervisor(p) \/ RecordSupervisor(p)
           \/ StartTest(p) \/ TestEnds(p) \/ RecordTermination(p) \/ RecordTest(p)
           \/ GitCheck(p) \/ UpdateRef(p) \/ UpdateIndex(p) \/ ProveCommit(p)
           \/ CompensateRef(p) \/ CompensateIndex(p) \/ RecordGit(p)
           \/ ObserveAfter(p) \/ Complete(p) \/ FinishStopped(p) \/ UndoFile(p)
           \/ RecordUndo(p) \/ RecordStopped(p) \/ Reap(p) \/ Classify(p)
           \/ RecordRecoveredGit(p) \/ CompleteRecovered(p) \/ FinalObserve(p)
  BY <1>8 DEF IssueGrants, RevokeRunGrants, AcquireClaim, Authorize,
       RecordApprovalSet, Preflight, WriteFile, RecordWrite, LaunchSupervisor,
       RecordSupervisor, StartTest, TestEnds, RecordTermination, RecordTest, GitCheck,
       UpdateRef, UpdateIndex, ProveCommit, CompensateRef, CompensateIndex, RecordGit,
       ObserveAfter, Complete, FinishStopped, UndoFile, RecordUndo, RecordStopped,
       Reap, Classify, RecordRecoveredGit, CompleteRecovered, FinalObserve
<1> QED
  BY <1>1, <1>2, <1>3, <1>4, <1>5, <1>6, <1>7, <1>8 DEF Serve, Execute, Recover,
       Finalize

(* The rows of the execution stay typed, and generations only grow.        *)
LEMMA ExecutionTypes ==
  ASSUME TypeOK, NEW p \in Proc,
         Serve(p) \/ Execute(p) \/ Recover(p) \/ Finalize(p)
  PROVE  ex' \in ExecutionRows /\ ex.gen <= ex'.gen
<1> USE Constant, CurrentType DEF TypeOK, ExecutionRows
<1>0. run[p] \in RunRecord
  OBVIOUS
<1>1. CASE AcquireClaim(p)
  <2>1. ex' = ex \/ ex' = Claimed(p)
    BY <1>1 DEF AcquireClaim
  <2>2. ex \in ExecutionRows /\ ex.gen \in Nat
    OBVIOUS
  <2> HIDE DEF ExecutionRows
  <2> QED
    BY <2>1, <2>2, ClaimTypes
<1>2. CASE Authorize(p)
  BY <1>0, <1>2 DEF Authorize, RunRecord
<1>3. CASE RecordApprovalSet(p)
  BY <1>0, <1>3 DEF RecordApprovalSet, RunRecord
<1>4. CASE Preflight(p)
  BY <1>0, <1>4 DEF Preflight, RecordResult, ResultRow, GitOutcome, Status, Stop
<1>5. CASE RecordSupervisor(p)
  BY <1>0, <1>5 DEF RecordSupervisor
<1>6. CASE RecordTermination(p)
  BY <1>0, <1>6 DEF RecordTermination
<1>7. CASE ObserveAfter(p)
  BY <1>0, <1>7 DEF ObserveAfter, RecordResult, ResultRow, GitOutcome, Status, Stop
<1>8. CASE Complete(p)
  BY <1>0, <1>8 DEF Complete, RecordResult, ResultRow, RunRecord, Status
<1>9. CASE RecordStopped(p)
  BY <1>0, <1>9 DEF RecordStopped, RecordResult, ResultRow, RunRecord, StopStatus,
       Status, Stop
<1>10. CASE Reap(p)
  BY <1>0, <1>10 DEF Reap
<1>11. CASE Classify(p)
  BY <1>0, <1>11 DEF Classify, RecordResult, ResultRow, GitOutcome, Status, Stop
<1>12. CASE CompleteRecovered(p)
  BY <1>0, <1>12 DEF CompleteRecovered, RecordResult, ResultRow, GitOutcome, Status,
       Stop
<1>13. CASE \/ Approve(p) \/ IssueGrants(p) \/ RecordGrantSet(p) \/ Cancel(p)
            \/ RevokeRunGrants(p) \/ CloseCancelled(p) \/ Census(p) \/ WriteFile(p)
            \/ RecordWrite(p) \/ LaunchSupervisor(p) \/ StartTest(p) \/ TestEnds(p)
            \/ RecordTest(p) \/ GitCheck(p) \/ UpdateRef(p) \/ UpdateIndex(p)
            \/ ProveCommit(p) \/ CompensateRef(p) \/ CompensateIndex(p)
            \/ RecordGit(p) \/ FinishStopped(p) \/ UndoFile(p) \/ RecordUndo(p)
            \/ RecordRecoveredGit(p) \/ FinalObserve(p) \/ Settle(p)
            \/ RecordSuccess(p)
  BY <1>13 DEF Approve, IssueGrants, RecordGrantSet, Cancel, RevokeRunGrants,
       CloseCancelled, Census, WriteFile, RecordWrite, LaunchSupervisor, StartTest,
       TestEnds, RecordTest, GitCheck, UpdateRef, UpdateIndex, ProveCommit,
       CompensateRef, CompensateIndex, RecordGit, FinishStopped, UndoFile, RecordUndo,
       RecordRecoveredGit, FinalObserve, Settle, RecordSuccess, Terminate
<1> QED
  BY <1>1, <1>2, <1>3, <1>4, <1>5, <1>6, <1>7, <1>8, <1>9, <1>10, <1>11, <1>12, <1>13
       DEF Serve, Execute, Recover, Finalize

(* The grants and effect results stay typed.                               *)
LEMMA GrantTypes ==
  ASSUME TypeOK, NEW p \in Proc,
         Serve(p) \/ Execute(p) \/ Recover(p) \/ Finalize(p)
  PROVE  grants' \in {"none", "issued", "consumed", "revoked"}
         /\ fx' \in [Effect -> {"none", "succeeded", "failed"}]
<1> USE Constant, CurrentType DEF TypeOK
<1>0. run[p] \in RunRecord
  OBVIOUS
<1>1. CASE IssueGrants(p)
  BY <1>0, <1>1 DEF IssueGrants
<1>2. CASE RevokeRunGrants(p)
  BY <1>0, <1>2 DEF RevokeRunGrants, Revoked
<1>3. CASE Census(p)
  BY <1>0, <1>3 DEF Census, Revoked
<1>4. CASE Authorize(p)
  BY <1>0, <1>4 DEF Authorize
<1>5. CASE WriteFile(p)
  BY <1>0, <1>5 DEF WriteFile, Effect
<1>6. CASE RecordWrite(p)
  BY <1>0, <1>6 DEF RecordWrite, Effect
<1>7. CASE RecordTest(p)
  BY <1>0, <1>7 DEF RecordTest, Effect
<1>8. CASE RecordGit(p)
  BY <1>0, <1>8 DEF RecordGit, Effect
<1>9. CASE RecordUndo(p)
  BY <1>0, <1>9 DEF RecordUndo, Effect
<1>10. CASE RecordRecoveredGit(p)
  BY <1>0, <1>10 DEF RecordRecoveredGit, Effect
<1>11. CASE \/ Approve(p) \/ RecordGrantSet(p) \/ Cancel(p) \/ CloseCancelled(p)
            \/ AcquireClaim(p) \/ RecordApprovalSet(p) \/ Preflight(p)
            \/ LaunchSupervisor(p) \/ RecordSupervisor(p) \/ StartTest(p)
            \/ TestEnds(p) \/ RecordTermination(p) \/ GitCheck(p) \/ UpdateRef(p)
            \/ UpdateIndex(p) \/ ProveCommit(p) \/ CompensateRef(p)
            \/ CompensateIndex(p) \/ ObserveAfter(p) \/ Complete(p)
            \/ FinishStopped(p) \/ UndoFile(p) \/ RecordStopped(p) \/ Reap(p)
            \/ Classify(p) \/ CompleteRecovered(p) \/ FinalObserve(p) \/ Settle(p)
            \/ RecordSuccess(p)
  BY <1>11 DEF Approve, RecordGrantSet, Cancel, CloseCancelled, AcquireClaim,
       RecordApprovalSet, Preflight, LaunchSupervisor, RecordSupervisor, StartTest,
       TestEnds, RecordTermination, GitCheck, UpdateRef, UpdateIndex, ProveCommit,
       CompensateRef, CompensateIndex, ObserveAfter, Complete, FinishStopped,
       UndoFile, RecordStopped, Reap, Classify, CompleteRecovered, FinalObserve,
       Settle, RecordSuccess, Terminate
<1> QED
  BY <1>1, <1>2, <1>3, <1>4, <1>5, <1>6, <1>7, <1>8, <1>9, <1>10, <1>11 DEF Serve,
       Execute, Recover, Finalize

(* The workspace and the state of the test group stay typed.               *)
LEMMA WorkspaceTypes ==
  ASSUME TypeOK, NEW p \in Proc,
         Serve(p) \/ Execute(p) \/ Recover(p) \/ Finalize(p)
  PROVE  ws' \in Workspace
         /\ child' \in {"none", "gated", "running", "gone"}
<1> USE Constant, CurrentType DEF TypeOK
<1>0. run[p] \in RunRecord
  OBVIOUS
<1>1. CASE WriteFile(p)
  BY <1>0, <1>1 DEF WriteFile, Workspace, Image, First
<1>2. CASE LaunchSupervisor(p)
  BY <1>0, <1>2 DEF LaunchSupervisor
<1>3. CASE StartTest(p)
  BY <1>0, <1>3 DEF StartTest
<1>4. CASE TestEnds(p)
  BY <1>0, <1>4 DEF TestEnds
<1>5. CASE UpdateRef(p)
  BY <1>0, <1>5 DEF UpdateRef, Workspace
<1>6. CASE UpdateIndex(p)
  BY <1>0, <1>6 DEF UpdateIndex, Workspace
<1>7. CASE CompensateRef(p)
  BY <1>0, <1>7 DEF CompensateRef, Workspace
<1>8. CASE CompensateIndex(p)
  BY <1>0, <1>8 DEF CompensateIndex, Workspace
<1>9. CASE UndoFile(p)
  BY <1>0, <1>9 DEF UndoFile, Workspace, Image, Last
<1>10. CASE Reap(p)
  BY <1>0, <1>10 DEF Reap
<1>11. CASE Classify(p)
  BY <1>0, <1>11 DEF Classify, Workspace
<1>12. CASE \/ Approve(p) \/ IssueGrants(p) \/ RecordGrantSet(p) \/ Cancel(p)
            \/ RevokeRunGrants(p) \/ CloseCancelled(p) \/ Census(p)
            \/ AcquireClaim(p) \/ Authorize(p) \/ RecordApprovalSet(p)
            \/ Preflight(p) \/ RecordWrite(p) \/ RecordSupervisor(p)
            \/ RecordTermination(p) \/ RecordTest(p) \/ GitCheck(p)
            \/ ProveCommit(p) \/ RecordGit(p) \/ ObserveAfter(p) \/ Complete(p)
            \/ FinishStopped(p) \/ RecordUndo(p) \/ RecordStopped(p)
            \/ RecordRecoveredGit(p) \/ CompleteRecovered(p) \/ FinalObserve(p)
            \/ Settle(p) \/ RecordSuccess(p)
  BY <1>12 DEF Approve, IssueGrants, RecordGrantSet, Cancel, RevokeRunGrants,
       CloseCancelled, Census, AcquireClaim, Authorize, RecordApprovalSet, Preflight,
       RecordWrite, RecordSupervisor, RecordTermination, RecordTest, GitCheck,
       ProveCommit, RecordGit, ObserveAfter, Complete, FinishStopped, RecordUndo,
       RecordStopped, RecordRecoveredGit, CompleteRecovered, FinalObserve, Settle,
       RecordSuccess, Terminate
<1> QED
  BY <1>1, <1>2, <1>3, <1>4, <1>5, <1>6, <1>7, <1>8, <1>9, <1>10, <1>11, <1>12 DEF
       Serve, Execute, Recover, Finalize

(* The servers and the history stay typed; no process stops the clock.     *)
LEMMA ServerTypes ==
  ASSUME TypeOK, NEW p \in Proc,
         Serve(p) \/ Execute(p) \/ Recover(p) \/ Finalize(p)
  PROVE  srv' \in [Proc -> ServerRecord] /\ env' \in History /\ expired' = expired
<1> USE DEF TypeOK
<1>0. run[p] \in RunRecord
  OBVIOUS
<1>1. CASE IssueGrants(p)
  BY <1>0, <1>1, Moves DEF IssueGrants, Throw
<1>2. CASE RecordGrantSet(p)
  BY <1>0, <1>2, Moves DEF RecordGrantSet, Throw
<1>3. CASE Cancel(p)
  BY <1>0, <1>3 DEF Cancel, ServerRecord
<1>4. CASE RevokeRunGrants(p)
  BY <1>0, <1>4 DEF RevokeRunGrants, ServerRecord
<1>5. CASE CloseCancelled(p)
  BY <1>0, <1>5 DEF CloseCancelled, ServerRecord
<1>6. CASE Census(p)
  <2>1. [srv EXCEPT ![p].cancel = "revoke"] \in [Proc -> ServerRecord]
    BY DEF ServerRecord
  <2>2. /\ env' = env /\ expired' = expired
        /\ srv' \in {srv, [srv EXCEPT ![p].cancel = "revoke"],
                      [srv EXCEPT ![p].aborting = FALSE, ![p].census = TRUE]}
    BY <1>6 DEF Census, Return
  <2> QED
    BY <2>1, <2>2, Moves
<1>7. CASE AcquireClaim(p)
  BY <1>0, <1>7, Moves DEF AcquireClaim, Throw
<1>8. CASE Authorize(p)
  BY <1>0, <1>8, Moves DEF Authorize, Throw
<1>9. CASE FinishStopped(p)
  BY ZenonT(60), <1>0, <1>9, Moves DEF FinishStopped, Throw
<1>10. CASE Reap(p)
  BY <1>0, <1>10, Moves DEF Reap, Throw
<1>11. CASE FinalObserve(p)
  BY ZenonT(60), <1>0, <1>11, Moves DEF FinalObserve, Return
<1>12. CASE Settle(p)
  BY ZenonT(60), <1>0, <1>12, Moves DEF Settle, Terminate, Return, Throw
<1>13. CASE RecordSuccess(p)
  BY ZenonT(60), <1>0, <1>13, Moves DEF RecordSuccess, Terminate, Return, Throw
<1>14. CASE WriteFile(p)
  BY <1>0, <1>14 DEF WriteFile, Counted, History, Write, Forward, First
<1>15. CASE StartTest(p)
  BY <1>0, <1>15 DEF StartTest, Counted, History, Test, Forward
<1>16. CASE UpdateRef(p)
  BY <1>0, <1>16 DEF UpdateRef, Counted, History, Git, Forward
<1>17. CASE \/ Approve(p) \/ RecordApprovalSet(p) \/ Preflight(p) \/ RecordWrite(p)
            \/ LaunchSupervisor(p) \/ RecordSupervisor(p) \/ TestEnds(p)
            \/ RecordTermination(p) \/ RecordTest(p) \/ GitCheck(p)
            \/ UpdateIndex(p) \/ ProveCommit(p) \/ CompensateRef(p)
            \/ CompensateIndex(p) \/ RecordGit(p) \/ ObserveAfter(p) \/ Complete(p)
            \/ UndoFile(p) \/ RecordUndo(p) \/ RecordStopped(p) \/ Classify(p)
            \/ RecordRecoveredGit(p) \/ CompleteRecovered(p)
  BY <1>17 DEF Approve, RecordApprovalSet, Preflight, RecordWrite, LaunchSupervisor,
       RecordSupervisor, TestEnds, RecordTermination, RecordTest, GitCheck,
       UpdateIndex, ProveCommit, CompensateRef, CompensateIndex, RecordGit,
       ObserveAfter, Complete, UndoFile, RecordUndo, RecordStopped, Classify,
       RecordRecoveredGit, CompleteRecovered
<1> QED
  BY <1>1, <1>2, <1>3, <1>4, <1>5, <1>6, <1>7, <1>8, <1>9, <1>10, <1>11, <1>12, <1>13,
       <1>14, <1>15, <1>16, <1>17 DEF Serve, Execute, Recover, Finalize

(* A step of a process keeps the types.                                    *)
LEMMA ProcessStep ==
  ASSUME TypeOK, NEW p \in Proc,
         Serve(p) \/ Execute(p) \/ Recover(p) \/ Finalize(p)
  PROVE  TypeOK'
<1>1. run' \in [Proc -> RunRecord]
  BY RunTypes DEF TypeOK
<1>2. ex.gen \in Nat /\ ex'.gen \in Nat /\ ex.gen <= ex'.gen
  BY ExecutionTypes DEF TypeOK, ExecutionRows
<1>3. \A q \in Proc : run'[q].gen \in {run[q].gen, 0, ex'.gen} /\ run[q].gen \in Nat
  BY RunTypes DEF TypeOK, RunRecord
<1>4. ClaimsRecorded'
  BY <1>2, <1>3 DEF TypeOK, ClaimsRecorded
<1> QED
  BY <1>1, <1>4, LifecycleTypes, ExecutionTypes, GrantTypes, WorkspaceTypes, ServerTypes
     DEF TypeOK

(* So do foreign programs, clocks, starts and crashes.                     *)
LEMMA SurroundingsStep ==
  ASSUME TypeOK, Surroundings
  PROVE  TypeOK'
<1> USE DEF TypeOK, ClaimsRecorded
<1>1. ASSUME NEW n \in File, NEW image \in Image, ForeignEdit(n, image) PROVE TypeOK'
  <2>1. ws' \in Workspace
    BY <1>1 DEF ForeignEdit, Workspace
  <2>2. env' \in History
    <3>1. env.edits + 1 \in Nat /\ env.touched \cup {n} \in SUBSET File
      BY DEF History
    <3>2. \A k \in Nat, t \in SUBSET File :
             [env EXCEPT !.edits = k, !.touched = t] \in History
      BY DEF History
    <3> QED
      BY <1>1, <3>1, <3>2 DEF ForeignEdit
  <2> QED
    BY <1>1, <2>1, <2>2 DEF ForeignEdit
<1>2. CASE ForeignGit
  <2>1. ws' \in Workspace
    BY <1>2 DEF ForeignGit, Workspace
  <2>2. env' \in History
    BY <1>2 DEF ForeignGit, History
  <2> QED
    BY <1>2, <2>1, <2>2 DEF ForeignGit
<1>3. CASE Expire
  BY <1>3 DEF Expire
<1>4. CASE LeaseExpires
  <2>1. ex' \in ExecutionRows /\ ex'.gen = ex.gen
    BY <1>4 DEF LeaseExpires, ExecutionRows
  <2> QED
    BY <1>4, <2>1 DEF LeaseExpires
<1>5. CASE ChildExits
  BY <1>5 DEF ChildExits
<1>6. ASSUME NEW p \in Proc, Start(p) PROVE TypeOK'
  <2>1. srv' \in [Proc -> ServerRecord]
    BY <1>6 DEF Start, ServerRecord
  <2> QED
    BY <1>6, <2>1 DEF Start
<1>7. ASSUME NEW p \in Proc, Crash(p) PROVE TypeOK'
  <2>1. srv' \in [Proc -> ServerRecord]
    BY <1>7 DEF Crash, Fresh, ServerRecord
  <2>2. run' \in [Proc -> RunRecord]
    BY <1>7, Constant DEF Crash
  <2>3. child' \in {"none", "gated", "running", "gone"}
    BY <1>7 DEF Crash
  <2>4. \A q \in Proc : run'[q].gen <= ex.gen
    <3>1. ex.gen \in Nat /\ Idle.gen = 0
      BY DEF ExecutionRows, Idle
    <3> QED
      BY <1>7, <3>1 DEF Crash
  <2> QED
    BY <1>7, <2>1, <2>2, <2>3, <2>4 DEF Crash
<1> QED
  BY <1>1, <1>2, <1>3, <1>4, <1>5, <1>6, <1>7 DEF Surroundings

(* Every step keeps the types.                                             *)
LEMMA TypeStep == TypeOK /\ [Next]_vars => TypeOK'
<1> SUFFICES ASSUME TypeOK, [Next]_vars PROVE TypeOK'
  OBVIOUS
<1>1. CASE Next
  BY <1>1, ProcessStep, SurroundingsStep DEF Next
<1>2. CASE UNCHANGED vars
  BY <1>2 DEF vars, TypeOK, ClaimsRecorded
<1> QED
  BY <1>1, <1>2

(* Type correctness of the service, its repositories and the workspace,    *)
(* and no process holds a claim generation that was never recorded.        *)
THEOREM ProjectTypeCorrect == Spec => []TypeOK
  BY TypeInit, TypeStep, PTL DEF Spec

-------------------------------------------------------------------------------
(* One driver.  The claim row names it: whoever drives the execution is up  *)
(* and owns the latest claim.                                               *)
DriverInv ==
  \A p \in Proc : Driving(p) => Up(p) /\ ex.owner = p /\ run[p].gen = ex.gen

(* The owner of the claim changes only where acquireClaim takes it.        *)
LEMMA ClaimKept ==
  ASSUME TypeOK, NEW p \in Proc,
         Serve(p) \/ Execute(p) \/ Recover(p) \/ Finalize(p)
  PROVE  \/ ex'.gen = ex.gen /\ ex'.owner = ex.owner
         \/ AcquireClaim(p) /\ ClaimFree /\ ex' = Claimed(p)
<1> USE DEF TypeOK, ExecutionRows
<1>1. CASE AcquireClaim(p)
  BY <1>1 DEF AcquireClaim
<1>2. CASE Authorize(p)
  BY <1>2 DEF Authorize
<1>3. CASE RecordApprovalSet(p)
  BY <1>3 DEF RecordApprovalSet
<1>4. CASE Preflight(p)
  BY <1>4 DEF Preflight, RecordResult
<1>5. CASE RecordSupervisor(p)
  BY <1>5 DEF RecordSupervisor
<1>6. CASE RecordTermination(p)
  BY <1>6 DEF RecordTermination
<1>7. CASE ObserveAfter(p)
  BY <1>7 DEF ObserveAfter, RecordResult
<1>8. CASE Complete(p)
  BY <1>8 DEF Complete, RecordResult
<1>9. CASE RecordStopped(p)
  BY <1>9 DEF RecordStopped, RecordResult
<1>10. CASE Reap(p)
  BY <1>10 DEF Reap
<1>11. CASE Classify(p)
  BY <1>11 DEF Classify, RecordResult
<1>12. CASE CompleteRecovered(p)
  BY <1>12 DEF CompleteRecovered, RecordResult
<1>13. CASE \/ Approve(p) \/ IssueGrants(p) \/ RecordGrantSet(p) \/ Cancel(p)
            \/ RevokeRunGrants(p) \/ CloseCancelled(p) \/ Census(p) \/ WriteFile(p)
            \/ RecordWrite(p) \/ LaunchSupervisor(p) \/ StartTest(p) \/ TestEnds(p)
            \/ RecordTest(p) \/ GitCheck(p) \/ UpdateRef(p) \/ UpdateIndex(p)
            \/ ProveCommit(p) \/ CompensateRef(p) \/ CompensateIndex(p)
            \/ RecordGit(p) \/ FinishStopped(p) \/ UndoFile(p) \/ RecordUndo(p)
            \/ RecordRecoveredGit(p) \/ FinalObserve(p) \/ Settle(p)
            \/ RecordSuccess(p)
  BY <1>13 DEF Approve, IssueGrants, RecordGrantSet, Cancel, RevokeRunGrants,
       CloseCancelled, Census, WriteFile, RecordWrite, LaunchSupervisor, StartTest,
       TestEnds, RecordTest, GitCheck, UpdateRef, UpdateIndex, ProveCommit,
       CompensateRef, CompensateIndex, RecordGit, FinishStopped, UndoFile, RecordUndo,
       RecordRecoveredGit, FinalObserve, Settle, RecordSuccess, Terminate
<1> QED
  BY <1>1, <1>2, <1>3, <1>4, <1>5, <1>6, <1>7, <1>8, <1>9, <1>10, <1>11, <1>12, <1>13
       DEF Serve, Execute, Recover, Finalize

(* A process does not start or end another.                                *)
LEMMA StatesKept ==
  ASSUME TypeOK, NEW p \in Proc,
         Serve(p) \/ Execute(p) \/ Recover(p) \/ Finalize(p)
  PROVE  \A q \in Proc : srv'[q].state = srv[q].state
<1> USE DEF TypeOK, ServerRecord
<1>1. CASE IssueGrants(p)
  BY <1>1 DEF IssueGrants, Throw
<1>2. CASE RecordGrantSet(p)
  BY <1>2 DEF RecordGrantSet, Throw
<1>3. CASE Cancel(p)
  BY <1>3 DEF Cancel
<1>4. CASE RevokeRunGrants(p)
  BY <1>4 DEF RevokeRunGrants
<1>5. CASE CloseCancelled(p)
  BY <1>5 DEF CloseCancelled
<1>6. CASE Census(p)
  BY <1>6 DEF Census, Return
<1>7. CASE AcquireClaim(p)
  BY <1>7 DEF AcquireClaim, Throw
<1>8. CASE Authorize(p)
  BY <1>8 DEF Authorize, Throw
<1>9. CASE FinishStopped(p)
  BY <1>9 DEF FinishStopped, Throw
<1>10. CASE Reap(p)
  BY <1>10 DEF Reap, Throw
<1>11. CASE FinalObserve(p)
  BY <1>11 DEF FinalObserve, Return
<1>12. CASE Settle(p)
  BY <1>12 DEF Settle, Terminate, Return, Throw
<1>13. CASE RecordSuccess(p)
  BY <1>13 DEF RecordSuccess, Terminate, Return, Throw
<1>14. CASE \/ Approve(p) \/ RecordApprovalSet(p) \/ Preflight(p) \/ WriteFile(p)
            \/ RecordWrite(p) \/ LaunchSupervisor(p) \/ RecordSupervisor(p)
            \/ StartTest(p) \/ TestEnds(p) \/ RecordTermination(p) \/ RecordTest(p)
            \/ GitCheck(p) \/ UpdateRef(p) \/ UpdateIndex(p) \/ ProveCommit(p)
            \/ CompensateRef(p) \/ CompensateIndex(p) \/ RecordGit(p)
            \/ ObserveAfter(p) \/ Complete(p) \/ UndoFile(p) \/ RecordUndo(p)
            \/ RecordStopped(p) \/ Classify(p) \/ RecordRecoveredGit(p)
            \/ CompleteRecovered(p)
  BY <1>14 DEF Approve, RecordApprovalSet, Preflight, WriteFile, RecordWrite,
       LaunchSupervisor, RecordSupervisor, StartTest, TestEnds, RecordTermination,
       RecordTest, GitCheck, UpdateRef, UpdateIndex, ProveCommit, CompensateRef,
       CompensateIndex, RecordGit, ObserveAfter, Complete, UndoFile, RecordUndo,
       RecordStopped, Classify, RecordRecoveredGit, CompleteRecovered
<1> QED
  BY <1>1, <1>2, <1>3, <1>4, <1>5, <1>6, <1>7, <1>8, <1>9, <1>10, <1>11, <1>12, <1>13,
       <1>14 DEF Serve, Execute, Recover, Finalize

(* Recording the result ends the execution.                                *)
LEMMA ResultReturns ==
  ASSUME TypeOK, NEW p \in Proc, NEW status, NEW git, NEW rev,
         RecordResult(p, status, git, rev)
  PROVE  run'[p].pc = "final"
<1>1. [Idle EXCEPT !.pc = "final"].pc = "final"
  BY DEF Idle
<1> QED
  BY <1>1 DEF RecordResult, TypeOK

(* A process that drives the execution did so before, or just claimed it.  *)
LEMMA DrivesOn ==
  ASSUME TypeOK, NEW p \in Proc,
         Serve(p) \/ Execute(p) \/ Recover(p) \/ Finalize(p)
  PROVE  \/ Driving(p)' => Driving(p) /\ Up(p) /\ run'[p].gen = run[p].gen
         \/ /\ AcquireClaim(p) /\ ClaimFree /\ ex' = Claimed(p)
            /\ Up(p) /\ run'[p].gen = ex.gen + 1
<1> USE DEF At, Driving, Before, After, RunRecord
<1>0. /\ run \in [Proc -> RunRecord] /\ run[p] \in RunRecord
      /\ Idle.pc = "idle" /\ Idle.gen = 0
      /\ [Idle EXCEPT !.pc = "final"].pc = "final"
  BY DEF TypeOK, Idle
<1>1. CASE Approve(p)
  BY <1>0, <1>1 DEF Approve, Goto
<1>2. CASE IssueGrants(p)
  BY <1>0, <1>2 DEF IssueGrants, Goto, Throw
<1>3. CASE RecordGrantSet(p)
  BY <1>0, <1>3 DEF RecordGrantSet, Goto, Throw
<1>4. CASE Cancel(p)
  BY <1>0, <1>4 DEF Cancel, Goto
<1>5. CASE RevokeRunGrants(p)
  BY <1>0, <1>5 DEF RevokeRunGrants
<1>6. CASE Census(p)
  BY <1>0, <1>6 DEF Census, Return, Goto
<1>7. CASE AcquireClaim(p)
  BY <1>0, <1>7 DEF AcquireClaim, Goto, Throw
<1>8. CASE Authorize(p)
  BY <1>0, <1>8 DEF Authorize, RecoverOnly, Goto, Throw
<1>9. CASE RecordApprovalSet(p)
  BY <1>0, <1>9 DEF RecordApprovalSet, Goto
<1>10. CASE Preflight(p)
  BY <1>0, <1>10, ResultReturns DEF Preflight
<1>11. CASE WriteFile(p)
  BY <1>0, <1>11 DEF WriteFile, StopWith
<1>12. CASE RecordWrite(p)
  BY <1>0, <1>12 DEF RecordWrite, StopWith
<1>13. CASE LaunchSupervisor(p)
  BY <1>0, <1>13 DEF LaunchSupervisor, Goto
<1>14. CASE RecordSupervisor(p)
  BY <1>0, <1>14 DEF RecordSupervisor, Goto
<1>15. CASE StartTest(p)
  BY <1>0, <1>15 DEF StartTest, Goto
<1>16. CASE TestEnds(p)
  <2>1. PICK status \in Status :
          run' = [run EXCEPT ![p].pc = "tested", ![p].test = status]
    BY <1>16 DEF TestEnds
  <2> QED
    BY <1>0, <1>16, <2>1 DEF TestEnds
<1>17. CASE RecordTermination(p)
  BY <1>0, <1>17 DEF RecordTermination, Goto
<1>18. CASE RecordTest(p)
  BY <1>0, <1>18 DEF RecordTest, Goto, StopWith
<1>19. CASE GitCheck(p)
  BY <1>0, <1>19 DEF GitCheck, Goto, StopWith
<1>20. CASE UpdateRef(p)
  BY <1>0, <1>20 DEF UpdateRef, Goto, GitEnds
<1>21. CASE UpdateIndex(p)
  BY <1>0, <1>21 DEF UpdateIndex, Goto
<1>22. CASE ProveCommit(p)
  BY <1>0, <1>22 DEF ProveCommit, GitEnds, Goto
<1>23. CASE CompensateRef(p)
  BY <1>0, <1>23 DEF CompensateRef, Goto, GitEnds
<1>24. CASE CompensateIndex(p)
  BY <1>0, <1>24 DEF CompensateIndex, GitEnds
<1>25. CASE RecordGit(p)
  BY <1>0, <1>25 DEF RecordGit, Goto, StopWith
<1>26. CASE ObserveAfter(p)
  BY <1>0, <1>26, ResultReturns DEF ObserveAfter, StopWith
<1>27. CASE Complete(p)
  BY <1>0, <1>27, ResultReturns DEF Complete, StopWith
<1>28. CASE FinishStopped(p)
  BY <1>0, <1>28 DEF FinishStopped, Throw
<1>29. CASE UndoFile(p)
  BY <1>0, <1>29 DEF UndoFile, Goto, UndoFails
<1>30. CASE RecordUndo(p)
  BY <1>0, <1>30 DEF RecordUndo, UndoFails
<1>31. CASE RecordStopped(p)
  BY <1>0, <1>31, ResultReturns DEF RecordStopped
<1>32. CASE Reap(p)
  BY <1>0, <1>32 DEF Reap, Goto, Throw
<1>33. CASE Classify(p)
  BY <1>0, <1>33, ResultReturns DEF Classify, RecoverByUndo, Goto
<1>34. CASE RecordRecoveredGit(p)
  BY <1>0, <1>34 DEF RecordRecoveredGit, Goto
<1>35. CASE CompleteRecovered(p)
  BY <1>0, <1>35, ResultReturns DEF CompleteRecovered
<1>36. CASE FinalObserve(p)
  BY <1>0, <1>36 DEF FinalObserve, Return, Goto
<1>37. CASE Settle(p)
  BY <1>0, <1>37 DEF Settle, Terminate, Return, Throw, Goto
<1>38. CASE RecordSuccess(p)
  BY <1>0, <1>38 DEF RecordSuccess, Terminate, Return, Throw
<1>39. CASE CloseCancelled(p)
  BY <1>39 DEF CloseCancelled
<1> QED
  BY <1>1, <1>2, <1>3, <1>4, <1>5, <1>6, <1>7, <1>8, <1>9, <1>10, <1>11, <1>12, <1>13,
       <1>14, <1>15, <1>16, <1>17, <1>18, <1>19, <1>20, <1>21, <1>22, <1>23, <1>24,
       <1>25, <1>26, <1>27, <1>28, <1>29, <1>30, <1>31, <1>32, <1>33, <1>34, <1>35,
       <1>36, <1>37, <1>38, <1>39 DEF Serve, Execute, Recover, Finalize

(* A new claim needs the owner dead, so nobody drives when it is taken.    *)
LEMMA DriverStep ==
  ASSUME TypeOK, DriverInv, [Next]_vars
  PROVE  DriverInv'
<1> USE DEF DriverInv
<1>1. ASSUME NEW p \in Proc, Serve(p) \/ Execute(p) \/ Recover(p) \/ Finalize(p)
      PROVE  DriverInv'
  <2>1. \A q \in Proc : q # p => run'[q] = run[q]
    BY <1>1, RunTypes DEF TypeOK
  <2>2. \A q \in Proc : Up(q)' <=> Up(q)
    BY <1>1, StatesKept DEF Up
  <2>3. \A q \in Proc : q # p => (Driving(q)' <=> Driving(q))
    BY <2>1 DEF Driving
  <2>4. ex.gen \in Nat
    BY DEF TypeOK, ExecutionRows
  <2>5. CASE ex'.gen = ex.gen /\ ex'.owner = ex.owner
    <3>1. run'[p].gen # ex.gen + 1
      BY <1>1, <2>4, <2>5, ProcessStep DEF TypeOK, ClaimsRecorded, RunRecord
    <3>2. Driving(p)' => Driving(p) /\ Up(p) /\ run'[p].gen = run[p].gen
      BY <1>1, <3>1, DrivesOn
    <3> QED
      BY <2>1, <2>2, <2>3, <2>5, <3>2
  <2>6. CASE AcquireClaim(p) /\ ClaimFree /\ ex' = Claimed(p)
    <3>1. ex'.gen = ex.gen + 1 /\ ex'.owner = p
      BY <2>6 DEF Claimed, TypeOK, ExecutionRows
    <3>2. \A q \in Proc : ~Driving(q)
      BY <2>6 DEF ClaimFree, Up
    <3>3. Driving(p)' => Up(p) /\ run'[p].gen = ex.gen + 1
      BY <1>1, <3>2, DrivesOn
    <3> QED
      BY <2>2, <2>3, <3>1, <3>2, <3>3
  <2> QED
    BY <1>1, <2>5, <2>6, ClaimKept
<1>2. ASSUME NEW p \in Proc, Crash(p) PROVE DriverInv'
  <2>1. Idle.pc = "idle"
    BY DEF Idle
  <2>2. ~Driving(p)'
    BY <1>2, <2>1 DEF Crash, Driving, Before, TypeOK
  <2>3. \A q \in Proc : q # p => run'[q] = run[q] /\ srv'[q] = srv[q]
    BY <1>2 DEF Crash, TypeOK
  <2>4. ex' = ex
    BY <1>2 DEF Crash
  <2> QED
    BY <2>2, <2>3, <2>4 DEF Driving, Up
<1>3. ASSUME NEW p \in Proc, Start(p) PROVE DriverInv'
  <2>1. \A q \in Proc : Up(q) => Up(q)'
    BY <1>3 DEF Start, Up, TypeOK, ServerRecord
  <2> QED
    BY <1>3, <2>1 DEF Start, Driving
<1>4. CASE LeaseExpires
  <2>1. ex'.gen = ex.gen /\ ex'.owner = ex.owner
    BY <1>4 DEF LeaseExpires, TypeOK, ExecutionRows
  <2> QED
    BY <1>4, <2>1 DEF LeaseExpires, Driving, Up
<1>5. CASE \/ \E n \in File, image \in Image : ForeignEdit(n, image)
           \/ ForeignGit \/ Expire \/ ChildExits \/ UNCHANGED vars
  BY <1>5 DEF ForeignEdit, ForeignGit, Expire, ChildExits, vars, Driving, Up
<1> QED
  BY <1>1, <1>2, <1>3, <1>4, <1>5 DEF Next, Surroundings

(* Nobody drives at first.                                                 *)
LEMMA DriverInit == Init => DriverInv
  BY DEF Init, DriverInv, Driving, Before, Idle

(* The claim row always names the driver.                                  *)
LEMMA DriverInvariant == Spec => []DriverInv
<1>1. TypeOK /\ DriverInv /\ [Next]_vars => DriverInv'
  BY DriverStep
<1> QED
  BY <1>1, DriverInit, ProjectTypeCorrect, PTL DEF Spec

(* At most one process drives the execution of a change (acquireClaim),    *)
(* whatever leases expire and whoever crashes.                             *)
THEOREM OneDriver == Spec => []SingleDriver
<1>1. DriverInv => SingleDriver
  BY DEF DriverInv, SingleDriver
<1> QED
  BY <1>1, DriverInvariant, PTL

-------------------------------------------------------------------------------
(* The fence around the test.  The durable row of the supervisor brackets   *)
(* the life of the group: a running test has its row, a group that waits    *)
(* for its start has a driver at that place, and every step that restores,  *)
(* commits or reports lies behind the proof that the group is gone.         *)
Quiet == child \notin {"gated", "running"}

Preparing == {"consumed", "preflight", "write", "wrote", "test"}
Settling  == {"commit", "index", "proof", "compensate", "unindex", "gitdone", "gitcheck",
              "observe", "complete", "undo", "undone", "classify", "regit", "reobserve"}

(* What the place of a driver says about the group and its row.             *)
PlaceInv(p) ==
  LET pc == run[p].pc
      orphaned == run[p].test = "orphaned"
  IN
  /\ pc \notin Before \cup After \cup {"claimed"} => grants = "consumed"
  /\ pc \in Preparing => child = "none" /\ ex.group = "none"
  /\ pc = "gated" => child = "gated" /\ ex.group = "none"
  /\ pc = "starting" => child = "gated" /\ ex.group = "started"
  /\ pc = "testing" => child = "running" /\ ex.group = "started"
  /\ pc = "tested" => child # "gated" /\ ex.group = "started" /\ (orphaned \/ Quiet)
  /\ pc = "terminated" =>
       child # "gated" /\ (IF orphaned THEN ex.group = "started" ELSE Quiet)
  /\ pc \in {"stopped", "reap"} => child # "gated"
  /\ pc \in Settling => Quiet

RowInv ==
  /\ child = "running" => ex.group = "started"
  /\ grants # "consumed" => child = "none" /\ ex.group = "none" /\ ex.set = 0
  /\ ex.result # NoResult => Quiet

ChildInv ==
  /\ RowInv
  /\ child = "gated" => \E p \in Proc : run[p].pc \in {"gated", "starting"}
  /\ \A p \in Proc : PlaceInv(p) /\ (Driving(p) => ex.result = NoResult)

(* The same, as the driver p sees it.                                       *)
Mine(p) ==
  /\ RowInv /\ PlaceInv(p)
  /\ child = "gated" => run[p].pc \in {"gated", "starting"}
  /\ Driving(p) => ex.result = NoResult

(* A result is recorded where the group is known to be gone.               *)
LEMMA ResultKeepsMine ==
  ASSUME TypeOK, NEW p \in Proc, Driving(p), Mine(p), Quiet,
         NEW status, NEW git, NEW rev, RecordResult(p, status, git, rev),
         UNCHANGED <<grants, child>>
  PROVE  Mine(p)'
<1>1. run'[p].pc = "final"
  BY ResultReturns
<1>2. ex'.group = ex.group /\ ex'.set = ex.set
  BY DEF RecordResult, TypeOK, ExecutionRows
<1> QED
  BY <1>1, <1>2 DEF Mine, RowInv, PlaceInv, Quiet, Preparing, Settling, Driving,
       Before, After

(* Every step of the driver keeps the fence.                               *)
LEMMA DriverKeepsMine ==
  ASSUME TypeOK, NEW p \in Proc, Driving(p), Mine(p), Execute(p) \/ Recover(p)
  PROVE  Mine(p)'
<1> USE DEF Mine, RowInv, PlaceInv, Quiet, Preparing, Settling, Driving, Before, After,
      RunRecord, At, ExecutionRows
<1>0. /\ run \in [Proc -> RunRecord] /\ run[p] \in RunRecord /\ ex \in ExecutionRows
      /\ Idle.pc = "idle"
  BY DEF TypeOK, Idle
<1>1. CASE AcquireClaim(p)
  BY <1>0, <1>1 DEF AcquireClaim, Goto, Throw, Claimed
<1>2. CASE Authorize(p)
  BY <1>0, <1>2 DEF Authorize, RecoverOnly, Goto, Throw, AlreadyConsumed, Fenced
<1>3. CASE RecordApprovalSet(p)
  BY <1>0, <1>3 DEF RecordApprovalSet, Goto, Fenced
<1>4. CASE Preflight(p)
  BY <1>0, <1>4, ResultKeepsMine DEF Preflight
<1>5. CASE WriteFile(p)
  BY <1>0, <1>5 DEF WriteFile, StopWith, Fenced
<1>6. CASE RecordWrite(p)
  BY <1>0, <1>6 DEF RecordWrite, StopWith, Fenced
<1>7. CASE LaunchSupervisor(p)
  BY <1>0, <1>7 DEF LaunchSupervisor, Goto
<1>8. CASE RecordSupervisor(p)
  BY <1>0, <1>8 DEF RecordSupervisor, Goto, Fenced
<1>9. CASE StartTest(p)
  BY <1>0, <1>9 DEF StartTest, Goto
<1>10. CASE TestEnds(p)
  BY <1>0, <1>10 DEF TestEnds
<1>11. CASE RecordTermination(p)
  BY <1>0, <1>11 DEF RecordTermination, Goto, Fenced
<1>12. CASE RecordTest(p)
  BY <1>0, <1>12 DEF RecordTest, Goto, StopWith
<1>13. CASE GitCheck(p)
  BY <1>0, <1>13 DEF GitCheck, Goto, StopWith
<1>14. CASE UpdateRef(p)
  BY <1>0, <1>14 DEF UpdateRef, Goto, GitEnds
<1>15. CASE UpdateIndex(p)
  BY <1>0, <1>15 DEF UpdateIndex, Goto
<1>16. CASE ProveCommit(p)
  BY <1>0, <1>16 DEF ProveCommit, GitEnds, Goto
<1>17. CASE CompensateRef(p)
  BY <1>0, <1>17 DEF CompensateRef, Goto, GitEnds
<1>18. CASE CompensateIndex(p)
  BY <1>0, <1>18 DEF CompensateIndex, GitEnds
<1>19. CASE RecordGit(p)
  BY <1>0, <1>19 DEF RecordGit, Goto, StopWith, Fenced
<1>20. CASE ObserveAfter(p)
  BY <1>0, <1>20, ResultKeepsMine DEF ObserveAfter, StopWith
<1>21. CASE Complete(p)
  BY <1>0, <1>21, ResultKeepsMine DEF Complete, StopWith
<1>22. CASE FinishStopped(p)
  BY <1>0, <1>22 DEF FinishStopped, Throw, Outstanding
<1>23. CASE UndoFile(p)
  BY <1>0, <1>23 DEF UndoFile, Goto, UndoFails, Fenced
<1>24. CASE RecordUndo(p)
  BY <1>0, <1>24 DEF RecordUndo, UndoFails
<1>25. CASE RecordStopped(p)
  BY <1>0, <1>25, ResultKeepsMine DEF RecordStopped
<1>26. CASE Reap(p)
  BY <1>0, <1>26 DEF Reap, Goto, Throw, Outstanding, Fenced
<1>27. CASE Classify(p)
  BY <1>0, <1>27, ResultKeepsMine DEF Classify, RecoverByUndo, Goto, Fenced
<1>28. CASE RecordRecoveredGit(p)
  BY <1>0, <1>28 DEF RecordRecoveredGit, Goto, Fenced
<1>29. CASE CompleteRecovered(p)
  BY <1>0, <1>29, ResultKeepsMine DEF CompleteRecovered
<1> QED
  BY <1>1, <1>2, <1>3, <1>4, <1>5, <1>6, <1>7, <1>8, <1>9, <1>10, <1>11, <1>12, <1>13,
       <1>14, <1>15, <1>16, <1>17, <1>18, <1>19, <1>20, <1>21, <1>22, <1>23, <1>24,
       <1>25, <1>26, <1>27, <1>28, <1>29 DEF Execute, Recover

(* The service and the finalisation leave the group, its row and the        *)
(* consumption alone, and never make a driver.                              *)
LEMMA ServeKeeps ==
  ASSUME TypeOK, NEW p \in Proc,
         Serve(p) \/ Finalize(p)
  PROVE  /\ child' = child /\ ex' = ex
         /\ grants' = "consumed" <=> grants = "consumed"
         /\ run' = run \/ (~Driving(p) /\ ~Driving(p)')
<1> USE DEF Driving, Before, After, RunRecord, At
<1>0. run \in [Proc -> RunRecord] /\ Idle.pc = "idle"
  BY DEF TypeOK, Idle
<1>1. CASE Approve(p)
  BY <1>0, <1>1 DEF Approve, Goto
<1>2. CASE IssueGrants(p)
  BY <1>0, <1>2 DEF IssueGrants, Goto, Throw
<1>3. CASE RecordGrantSet(p)
  BY <1>0, <1>3 DEF RecordGrantSet, Goto, Throw
<1>4. CASE Cancel(p)
  BY <1>0, <1>4 DEF Cancel, Goto
<1>5. CASE RevokeRunGrants(p) \/ CloseCancelled(p)
  BY <1>5 DEF RevokeRunGrants, CloseCancelled, Revoked
<1>6. CASE Census(p)
  BY <1>0, <1>6 DEF Census, Goto, Return, Revoked
<1>7. CASE FinalObserve(p)
  BY <1>0, <1>7 DEF FinalObserve, Goto, Return
<1>8. CASE Settle(p) \/ RecordSuccess(p)
  BY <1>0, <1>8 DEF Settle, RecordSuccess, Terminate, Goto, Return, Throw
<1> QED
  BY <1>1, <1>2, <1>3, <1>4, <1>5, <1>6, <1>7, <1>8 DEF Serve, Finalize

(* A claim is taken with nothing in flight that its owner could lose.       *)
LEMMA ClaimKeeps ==
  ASSUME TypeOK, NEW p \in Proc, AcquireClaim(p)
  PROVE  /\ child' = child /\ grants' = grants
         /\ ex'.group = ex.group /\ ex'.set = ex.set /\ ex'.result = ex.result
         /\ run'[p].pc \in {"idle", "final", "claimed"}
         /\ run'[p].pc = "claimed" => ex.result = NoResult
<1>1. run[p] \in RunRecord /\ run \in [Proc -> RunRecord] /\ ex \in ExecutionRows
  BY DEF TypeOK
<1>2. CASE ex' = ex /\ (Goto(p, "final") \/ Throw(p))
  <2>1. run'[p].pc \in {"idle", "final"}
    BY <1>1, <1>2 DEF Goto, Throw, Idle, RunRecord
  <2> QED
    BY <1>2, <2>1 DEF AcquireClaim
<1>3. CASE /\ ex.result = NoResult /\ ex' = Claimed(p)
           /\ run' = [run EXCEPT ![p].pc = "claimed", ![p].gen = ex.gen + 1]
  <2>1. run'[p].pc = "claimed"
    BY <1>1, <1>3 DEF RunRecord
  <2>2. ex'.group = ex.group /\ ex'.set = ex.set /\ ex'.result = ex.result
    BY <1>1, <1>3 DEF Claimed, ExecutionRows
  <2> QED
    BY <1>3, <2>1, <2>2 DEF AcquireClaim
<1> QED
  BY <1>2, <1>3 DEF AcquireClaim

(* No step of anybody else breaks it.                                      *)
LEMMA ChildStep ==
  ASSUME TypeOK, DriverInv, ChildInv, [Next]_vars
  PROVE  ChildInv'
<1> USE DEF ChildInv
<1>0. ASSUME NEW q \in Proc, ~Driving(q)
      PROVE  PlaceInv(q) /\ ~(run[q].pc \in {"gated", "starting"})
  BY <1>0 DEF PlaceInv, Driving, Before, After, Preparing, Settling
<1>1. ASSUME NEW p \in Proc, Driving(p), Execute(p) \/ Recover(p) PROVE ChildInv'
  <2>1. \A q \in Proc : q # p => run'[q] = run[q] /\ ~Driving(q)
    BY <1>1, RunTypes DEF TypeOK, DriverInv
  <2>2. Mine(p)
    BY <1>0, <1>1, <2>1 DEF Mine
  <2>3. Mine(p)'
    BY <1>1, <2>2, DriverKeepsMine
  <2>4. \A q \in Proc : q # p => PlaceInv(q)' /\ ~Driving(q)'
    BY <2>1 DEF PlaceInv, Driving, Before, After, Preparing, Settling
  <2> QED
    BY <2>3, <2>4 DEF Mine
<1>2. ASSUME NEW p \in Proc, Execute(p) \/ Recover(p), ~Driving(p) PROVE AcquireClaim(p)
  BY <1>2 DEF Execute, Recover, Driving, Before, After, At, Authorize,
       RecordApprovalSet,
     Preflight, WriteFile, RecordWrite, LaunchSupervisor, RecordSupervisor, StartTest,
     TestEnds, RecordTermination, RecordTest, GitCheck, UpdateRef, UpdateIndex,
     ProveCommit, CompensateRef, CompensateIndex, RecordGit, ObserveAfter, Complete,
     FinishStopped, UndoFile, RecordUndo, RecordStopped, Reap, Classify,
     RecordRecoveredGit, CompleteRecovered
<1>3. ASSUME NEW p \in Proc, AcquireClaim(p) PROVE ChildInv'
  <2>1. \A q \in Proc : q # p => run'[q] = run[q]
    BY <1>3, RunTypes DEF TypeOK, Execute
  <2>2. ~Driving(p)
    BY <1>3 DEF AcquireClaim, At, Driving, Before, After
  <2>3. PlaceInv(p)' /\ (Driving(p)' => ex'.result = NoResult)
    BY <1>3, ClaimKeeps DEF PlaceInv, Driving, Before, After, Preparing, Settling
  <2>4. \A q \in Proc : q # p => PlaceInv(q)' /\ (Driving(q)' => ex'.result = NoResult)
    BY <1>3, <2>1, ClaimKeeps DEF PlaceInv, Driving, Quiet
  <2>5. child = "gated" => \E q \in Proc : run'[q].pc \in {"gated", "starting"}
    BY <1>0, <2>1, <2>2
  <2> QED
    BY <1>3, <2>3, <2>4, <2>5, ClaimKeeps DEF RowInv, Quiet
<1>4. ASSUME NEW p \in Proc, Serve(p) \/ Finalize(p) PROVE ChildInv'
  <2>1. \A q \in Proc : q # p => run'[q] = run[q]
    BY <1>4, RunTypes DEF TypeOK
  <2>2. CASE run' = run
    BY <1>4, <2>2, ServeKeeps DEF RowInv, PlaceInv, Driving, Quiet
  <2>3. CASE ~Driving(p) /\ ~Driving(p)'
    <3> QED
      BY <1>0, <1>4, <2>1, <2>3, ServeKeeps
         DEF RowInv, PlaceInv, Driving, Quiet, Before, After, Preparing, Settling
  <2> QED
    BY <1>4, <2>2, <2>3, ServeKeeps
<1>5. ASSUME NEW p \in Proc, Crash(p) PROVE ChildInv'
  <2>1. Idle.pc = "idle"
    BY DEF Idle
  <2>2. ~Driving(p)' /\ PlaceInv(p)' /\ run'[p].pc = "idle"
    BY <1>5, <2>1 DEF Crash, Driving, Before, After, TypeOK, PlaceInv, Preparing,
         Settling
  <2>3. \A q \in Proc : q # p => run'[q] = run[q]
    BY <1>5 DEF Crash, TypeOK
  <2>4. ex' = ex /\ grants' = grants
    BY <1>5 DEF Crash
  <2>5. CASE ex.owner = p
    <3>1. \A q \in Proc : q # p => ~Driving(q)
      BY <2>5 DEF DriverInv
    <3>2. \A q \in Proc : q # p => PlaceInv(q)' /\ ~Driving(q)'
      BY <2>3, <3>1 DEF PlaceInv, Driving, Before, After, Preparing, Settling
    <3>3. /\ child' # "gated" /\ (child' = "running" => child = "running")
          /\ (child = "none" => child' = "none")
      BY <1>5, <2>5 DEF Crash
    <3> QED
      BY <2>2, <2>4, <3>2, <3>3 DEF RowInv, Quiet
  <2>6. CASE ex.owner # p
    <3>1. ~Driving(p)
      BY <2>6 DEF DriverInv
    <3>2. child' = child
      BY <1>5, <2>6 DEF Crash
    <3>3. child = "gated" => \E q \in Proc : run'[q].pc \in {"gated", "starting"}
      BY <1>0, <2>3, <3>1
    <3>4. \A q \in Proc : q # p =>
            PlaceInv(q)' /\ (Driving(q)' => ex'.result = NoResult)
      BY <2>3, <2>4, <3>2 DEF PlaceInv, Driving, Quiet
    <3> QED
      BY <2>2, <2>4, <3>2, <3>3, <3>4 DEF RowInv, Quiet
  <2> QED
    BY <2>5, <2>6
<1>6. CASE ChildExits
  BY <1>6 DEF ChildExits, RowInv, PlaceInv, Driving, Quiet, Preparing
<1>7. CASE LeaseExpires
  <2>1. ex'.group = ex.group /\ ex'.set = ex.set /\ ex'.result = ex.result
    BY <1>7 DEF LeaseExpires, TypeOK, ExecutionRows
  <2> QED
    BY <1>7, <2>1 DEF LeaseExpires, RowInv, PlaceInv, Driving, Quiet
<1>8. CASE \/ \E n \in File, image \in Image : ForeignEdit(n, image)
           \/ ForeignGit \/ Expire \/ (\E p \in Proc : Start(p)) \/ UNCHANGED vars
  BY <1>8 DEF ForeignEdit, ForeignGit, Expire, Start, vars, RowInv, PlaceInv, Driving,
       Quiet
<1> QED
  BY <1>1, <1>2, <1>3, <1>4, <1>5, <1>6, <1>7, <1>8 DEF Next, Surroundings

(* At first there is no test.                                              *)
LEMMA ChildInit == Init => ChildInv
  BY DEF Init, ChildInv, RowInv, PlaceInv, Driving, Quiet, Preparing, Settling, Before,
         After, Idle

(* The fence always stands.                                                *)
LEMMA ChildInvariant == Spec => []ChildInv
<1>1. TypeOK /\ DriverInv /\ ChildInv /\ [Next]_vars => ChildInv'
  BY ChildStep
<1> QED
  BY <1>1, ChildInit, ProjectTypeCorrect, DriverInvariant, PTL DEF Spec

(* Files are restored and results recorded only when the process group of  *)
(* the test is gone (finishStopped, recoverOnly).                          *)
THEOREM TestIsFenced == Spec => []TestFenced
<1>1. ChildInv => TestFenced
  BY DEF ChildInv, RowInv, PlaceInv, Quiet, Settling, TestFenced
<1> QED
  BY <1>1, ChildInvariant, PTL

-------------------------------------------------------------------------------
(* What foreign programs wrote.  Only the write and the undo of a file change its content, and neither    *)
(* touches a foreign one.                                                  *)
LEMMA ProcessSparesForeign ==
  ASSUME TypeOK, NEW p \in Proc,
         Serve(p) \/ Execute(p) \/ Recover(p) \/ Finalize(p),
         NEW n \in File, ws.file[n] = "foreign"
  PROVE  ws'.file[n] = "foreign"
<1> USE DEF TypeOK, Workspace
<1>1. CASE WriteFile(p)
  BY <1>1 DEF WriteFile, First
<1>2. CASE UndoFile(p)
  BY <1>2 DEF UndoFile, Last, Ours
<1>3. CASE UpdateRef(p) \/ UpdateIndex(p)
  BY <1>3 DEF UpdateRef, UpdateIndex
<1>4. CASE CompensateRef(p) \/ CompensateIndex(p)
  BY <1>4 DEF CompensateRef, CompensateIndex
<1>5. CASE Classify(p)
  BY <1>5 DEF Classify
<1>6. CASE \/ Approve(p) \/ IssueGrants(p) \/ RecordGrantSet(p) \/ Cancel(p)
           \/ RevokeRunGrants(p) \/ CloseCancelled(p) \/ Census(p)
           \/ AcquireClaim(p) \/ Authorize(p) \/ RecordApprovalSet(p)
           \/ Preflight(p) \/ RecordWrite(p) \/ LaunchSupervisor(p)
           \/ RecordSupervisor(p) \/ StartTest(p) \/ TestEnds(p)
           \/ RecordTermination(p) \/ RecordTest(p) \/ GitCheck(p) \/ ProveCommit(p)
           \/ RecordGit(p) \/ ObserveAfter(p) \/ Complete(p) \/ FinishStopped(p)
           \/ RecordUndo(p) \/ RecordStopped(p) \/ Reap(p) \/ RecordRecoveredGit(p)
           \/ CompleteRecovered(p) \/ FinalObserve(p) \/ Settle(p)
           \/ RecordSuccess(p)
  BY <1>6 DEF Approve, IssueGrants, RecordGrantSet, Cancel, RevokeRunGrants,
       CloseCancelled, Census, AcquireClaim, Authorize, RecordApprovalSet, Preflight,
       RecordWrite, LaunchSupervisor, RecordSupervisor, StartTest, TestEnds,
       RecordTermination, RecordTest, GitCheck, ProveCommit, RecordGit, ObserveAfter,
       Complete, FinishStopped, RecordUndo, RecordStopped, Reap, RecordRecoveredGit,
       CompleteRecovered, FinalObserve, Settle, RecordSuccess, Terminate
<1> QED
  BY <1>1, <1>2, <1>3, <1>4, <1>5, <1>6 DEF Serve, Execute, Recover, Finalize

(* So a foreign content disappears only by a foreign edit.                 *)
LEMMA ForeignStep ==
  ASSUME TypeOK, [Next]_vars, NEW n \in File,
         ws.file[n] = "foreign", ws'.file[n] # "foreign"
  PROVE  env'.edits > env.edits
<1>1. CASE \E m \in File, image \in Image : ForeignEdit(m, image)
  <2>1. env.edits \in Nat /\ env \in History
    BY DEF TypeOK, History
  <2>2. env'.edits = env.edits + 1
    BY <1>1, <2>1 DEF ForeignEdit, History
  <2> QED
    BY <2>1, <2>2
<1>2. CASE \E p \in Proc : Serve(p) \/ Execute(p) \/ Recover(p) \/ Finalize(p)
  BY <1>2, ProcessSparesForeign
<1>3. CASE ForeignGit
  BY <1>3 DEF ForeignGit, TypeOK, Workspace
<1>4. CASE \/ Expire \/ LeaseExpires \/ ChildExits \/ UNCHANGED vars
           \/ \E p \in Proc : Start(p) \/ Crash(p)
  BY <1>4 DEF Expire, LeaseExpires, ChildExits, Start, Crash, vars
<1> QED
  BY <1>1, <1>2, <1>3, <1>4 DEF Next, Surroundings

(* No write and no rollback overwrites what somebody else put into a file. *)
THEOREM ForeignIsKept == Spec => ForeignKept
<1>1. TypeOK /\ [Next]_vars =>
        [\A n \in File : ws.file[n] = "foreign" /\ ws'.file[n] # "foreign"
                           => env'.edits > env.edits]_vars
  BY ForeignStep
<1> QED
  BY <1>1, ProjectTypeCorrect, PTL DEF Spec, ForeignKept

-------------------------------------------------------------------------------
(* The test and the commit. *)

BeforeTest   == Preparing \cup {"gated", "starting"}
BeforeCommit == BeforeTest \cup {"testing", "tested", "terminated", "commit", "gitcheck"}
InCommit     == {"index", "proof", "compensate", "unindex"}

(* What the place of a driver says about the test and the commit.           *)
PlaceEffects(p) ==
  LET pc == run[p].pc IN
  /\ pc \in BeforeTest => env.ran[Test] = 0
  /\ pc = "testing" => env.ran[Test] = 1
  /\ pc \in {"tested", "terminated"} /\ run[p].test = "succeeded" => env.ran[Test] = 1
  /\ pc \in BeforeCommit => env.ran[Git] = 0
  /\ pc \in BeforeCommit \cup InCommit \cup {"gitdone"} => fx[Git] # "succeeded"
  /\ pc \in InCommit => env.ran[Git] = 1
  /\ pc = "unindex" => ws.head # "commit"
  /\ pc = "gitdone" /\ run[p].git = "committed" => env.ran[Git] = 1 /\ ws.head # "base"
  /\ pc = "gitdone" /\ run[p].git \notin {"committed", "in_doubt"} => ws.head # "commit"
  /\ pc = "observe" => run[p].git = "committed" \/ ws.head # "commit"
  /\ pc = "regit" => env.ran[Git] = 1 /\ ws.head # "base"

EffectRows ==
  /\ env.ran[Git] \in {0, 1}
  /\ ws.head = "commit" => env.ran[Git] = 1
  /\ fx[Test] = "succeeded" => env.ran[Test] = 1
  /\ fx[Git] = "succeeded" => env.ran[Git] = 1 /\ ws.head # "base"
  /\ grants # "consumed" => /\ env.ran[Test] = 0 /\ env.ran[Git] = 0
                            /\ fx[Test] # "succeeded" /\ fx[Git] # "succeeded"

EffectInv == EffectRows /\ \A p \in Proc : PlaceEffects(p)

(* The effects are told apart, and each is one. *)
LEMMA Effects ==
  /\ Test # Git /\ Test \in Forward /\ Git \in Forward
  /\ Test \in Effect /\ Git \in Effect
  /\ \A n \in File : /\ Write(n) \in Forward /\ Write(n) \in Effect /\ Undo(n) \in Effect
                      /\ Write(n) \notin {Test, Git} /\ Undo(n) \notin {Test, Git}
  BY DEF Test, Git, Write, Undo, Forward, Effect

(* An effect counts once more, and nothing else changes in the history.     *)
LEMMA CountedOnce ==
  ASSUME TypeOK, NEW e \in Forward, env' = Counted(e)
  PROVE  /\ \A f \in Forward : f # e => env'.ran[f] = env.ran[f]
         /\ env.ran[e] = 0 => env'.ran[e] = 1
         /\ env'.touched = env.touched /\ env'.edits = env.edits
<1>1. env \in History /\ env.ran \in [Forward -> 0..2]
  BY DEF TypeOK, History
<1> QED
  BY <1>1 DEF Counted, History

(* Every step of the driver keeps what rows and place say of the effects.   *)
LEMMA DriverKeepsEffects ==
  ASSUME TypeOK, NEW p \in Proc, Driving(p), Mine(p), EffectRows, PlaceEffects(p),
         Execute(p) \/ Recover(p)
  PROVE  EffectRows' /\ PlaceEffects(p)'
<1> USE Effects DEF EffectRows, PlaceEffects, BeforeTest, BeforeCommit, InCommit, Preparing
<1>0. /\ run \in [Proc -> RunRecord] /\ run[p] \in RunRecord /\ ws \in Workspace
      /\ fx \in [Effect -> {"none", "succeeded", "failed"}]
      /\ Idle.pc = "idle"
  BY DEF TypeOK, Idle
<1>g. run[p].pc \notin Before \cup After \cup {"claimed"} => grants = "consumed"
  BY DEF Mine, PlaceInv
<1>s. ASSUME UNCHANGED <<grants, fx, ws, env>>,
             run'[p].pc \notin BeforeCommit \cup InCommit \cup {"gitdone", "observe", "regit"}
      PROVE  EffectRows' /\ PlaceEffects(p)'
  BY <1>s
<1>r. ASSUME NEW status, NEW git, NEW rev, RecordResult(p, status, git, rev),
             UNCHANGED <<grants, fx, ws, env>>
      PROVE  EffectRows' /\ PlaceEffects(p)'
  <2>1. run'[p].pc = "final"
    BY <1>r, ResultReturns
  <2> QED
    BY <1>r, <2>1
<1>1. CASE AcquireClaim(p)
  BY <1>1 DEF AcquireClaim, At, Driving, Before
<1>2. CASE Authorize(p)
  <2>1. CASE AlreadyConsumed
    <3>1. run'[p].pc = "reap" /\ UNCHANGED <<grants, fx, ws, env>>
      BY <1>0, <1>2, <2>1 DEF Authorize, RecoverOnly, Goto, RunRecord
    <3> QED
      BY <1>s, <3>1
  <2>2. CASE ~AlreadyConsumed /\ grants = "issued" /\ ~expired
    <3>1. run'[p].pc = "consumed" /\ UNCHANGED <<fx, ws, env>>
      BY <1>0, <1>2, <2>2 DEF Authorize, Goto, RunRecord
    <3> QED
      BY <2>2, <3>1, <1>2 DEF Authorize
  <2>3. CASE ~AlreadyConsumed /\ (grants # "issued" \/ expired)
    <3>1. run'[p].pc = "idle" /\ UNCHANGED <<grants, fx, ws, env>>
      BY <1>0, <1>2, <2>3 DEF Authorize, Throw, RunRecord
    <3> QED
      BY <1>s, <3>1
  <2> QED
    BY <2>1, <2>2, <2>3
<1>3. CASE RecordApprovalSet(p)
  BY <1>0, <1>3 DEF RecordApprovalSet, Goto, At, RunRecord
<1>4. CASE Preflight(p)
  <2>1. CASE run' = [run EXCEPT ![p].pc = "write", ![p].todo = File]
    BY <1>0, <1>4, <2>1 DEF Preflight, At, RunRecord
  <2> QED
    BY <1>4, <1>r, <2>1 DEF Preflight
<1>5. CASE WriteFile(p)
  <2>1. PICK n \in First(run[p].todo) : 
          \/ StopWith(p, "failed") /\ UNCHANGED <<ws, fx, env>>
          \/ StopWith(p, "failed") /\ fx' = [fx EXCEPT ![Write(n)] = "failed"] /\ UNCHANGED <<ws, env>>
          \/ /\ ws' = [ws EXCEPT !.file[n] = "after"] /\ env' = Counted(Write(n))
             /\ run' = [run EXCEPT ![p].pc = "wrote", ![p].applied = @ \cup {n}]
             /\ UNCHANGED fx
    BY <1>5 DEF WriteFile
  <2>2. n \in File
    BY <1>0, <2>1 DEF First, RunRecord
  <2>3. fx'[Test] = fx[Test] /\ fx'[Git] = fx[Git] /\ ws'.head = ws.head
        /\ env'.ran[Test] = env.ran[Test] /\ env'.ran[Git] = env.ran[Git]
    BY <1>0, <2>1, <2>2, CountedOnce DEF Workspace
  <2>4. run'[p].pc \in {"stopped", "wrote"} /\ run[p].pc = "write" /\ grants' = grants
    BY <1>0, <1>5, <2>1 DEF WriteFile, At, StopWith, RunRecord
  <2> QED
    BY <2>3, <2>4
<1>6. CASE RecordWrite(p)
  <2>1. PICK n \in First(run[p].todo) :
          \/ /\ fx' = [fx EXCEPT ![Write(n)] = "succeeded"]
             /\ run' = [run EXCEPT ![p].todo = @ \ {n},
                              ![p].pc = IF run[p].todo = {n} THEN "test" ELSE "write"]
          \/ fx' = [fx EXCEPT ![Write(n)] = "failed"] /\ StopWith(p, "failed")
    BY <1>6 DEF RecordWrite
  <2>2. n \in File
    BY <1>0, <2>1 DEF First, RunRecord
  <2>3. fx'[Test] = fx[Test] /\ fx'[Git] = fx[Git]
    BY <1>0, <2>1, <2>2
  <2>4. run'[p].pc \in {"stopped", "write", "test"} /\ run[p].pc = "wrote"
        /\ UNCHANGED <<grants, ws, env>>
    BY <1>0, <1>6, <2>1 DEF RecordWrite, At, StopWith, RunRecord
  <2> QED
    BY <2>3, <2>4
<1>7. CASE LaunchSupervisor(p)
  BY <1>0, <1>7 DEF LaunchSupervisor, Goto, At, RunRecord
<1>8. CASE RecordSupervisor(p)
  BY <1>0, <1>8 DEF RecordSupervisor, Goto, At, RunRecord
<1>9. CASE StartTest(p)
  <2>1. run'[p].pc = "testing" /\ run[p].pc = "starting" /\ UNCHANGED <<fx, ws, grants>>
    BY <1>0, <1>9 DEF StartTest, Goto, At, RunRecord
  <2>2. env'.ran[Test] = 1 /\ env'.ran[Git] = env.ran[Git]
    BY <1>9, <2>1, CountedOnce DEF StartTest
  <2>3. grants = "consumed"
    BY <1>g, <2>1 DEF Before, After
  <2> QED
    BY <2>1, <2>2, <2>3
<1>10. CASE TestEnds(p)
  <2>1. PICK status \in Status :
          /\ child = "gated" => status \notin {"succeeded", "orphaned"}
          /\ run' = [run EXCEPT ![p].pc = "tested", ![p].test = status]
    BY <1>10 DEF TestEnds
  <2>2. run'[p].pc = "tested" /\ run'[p].test = status /\ UNCHANGED <<fx, ws, env, grants>>
    BY <1>0, <1>10, <2>1 DEF TestEnds, RunRecord
  <2>3. run[p].pc = "testing" \/ (run[p].pc = "starting" /\ status # "succeeded")
    BY <1>10, <2>1 DEF TestEnds, At, Mine, PlaceInv
  <2> QED
    BY <2>2, <2>3
<1>11. CASE RecordTermination(p)
  BY <1>0, <1>11 DEF RecordTermination, Goto, At, RunRecord
<1>12. CASE RecordTest(p)
  <2>1. /\ run[p].pc = "terminated" /\ run'[p].pc \in {"commit", "gitcheck", "stopped"}
        /\ UNCHANGED <<ws, env, grants>>
    BY <1>0, <1>12 DEF RecordTest, Goto, StopWith, At, RunRecord
  <2>2. fx'[Git] = fx[Git] /\ (fx'[Test] = "succeeded" => run[p].test = "succeeded")
    BY <1>0, <1>12 DEF RecordTest
  <2>3. grants = "consumed"
    BY <1>g, <2>1 DEF Before, After
  <2> QED
    BY <2>1, <2>2, <2>3
<1>13. CASE GitCheck(p)
  BY <1>0, <1>13 DEF GitCheck, Goto, StopWith, At, RunRecord
<1>14. CASE UpdateRef(p)
  <2>0. run[p].pc = "commit" /\ UNCHANGED <<fx, grants>> /\ grants = "consumed"
    BY <1>g, <1>14 DEF UpdateRef, At, Before, After
  <2>1. CASE ws' = [ws EXCEPT !.head = "commit"] /\ env' = Counted(Git) /\ Goto(p, "index")
    <3>1. run'[p].pc = "index" /\ ws'.head = "commit"
      BY <1>0, <2>1 DEF Goto, RunRecord, Workspace
    <3>2. env'.ran[Git] = 1 /\ env'.ran[Test] = env.ran[Test]
      BY <2>0, <2>1, CountedOnce
    <3> QED
      BY <2>0, <3>1, <3>2
  <2>2. CASE GitEnds(p, "failed") /\ UNCHANGED <<ws, env>>
    <3>1. run'[p].pc = "gitdone" /\ run'[p].git = "failed"
      BY <1>0, <2>2 DEF GitEnds, RunRecord
    <3> QED
      BY <2>0, <2>2, <3>1
  <2> QED
    BY <1>14, <2>1, <2>2 DEF UpdateRef
<1>15. CASE UpdateIndex(p)
  <2>1. /\ run[p].pc = "index" /\ run'[p].pc \in {"proof", "compensate"}
        /\ ws'.head = ws.head /\ UNCHANGED <<fx, env, grants>>
    BY <1>0, <1>15 DEF UpdateIndex, Goto, At, RunRecord, Workspace
  <2> QED
    BY <2>1
<1>16. CASE ProveCommit(p)
  <2>1. /\ run[p].pc = "proof" /\ UNCHANGED <<fx, env, grants, ws>>
        /\ \/ run'[p].pc = "gitdone" /\ run'[p].git = "committed" /\ ws.head = "commit"
           \/ run'[p].pc = "compensate"
    BY <1>0, <1>16 DEF ProveCommit, GitEnds, TargetsClean, Goto, At, RunRecord
  <2> QED
    BY <2>1
<1>17. CASE CompensateRef(p)
  <2>1. /\ run[p].pc = "compensate" /\ UNCHANGED <<fx, env, grants>>
        /\ \/ run'[p].pc = "unindex" /\ ws'.head = "base"
           \/ run'[p].pc = "gitdone" /\ run'[p].git = "in_doubt" /\ ws' = ws
    BY <1>0, <1>17 DEF CompensateRef, Goto, GitEnds, At, RunRecord, Workspace
  <2> QED
    BY <2>1
<1>18. CASE CompensateIndex(p)
  <2>1. /\ run[p].pc = "unindex" /\ UNCHANGED <<fx, env, grants>> /\ ws'.head = ws.head
        /\ run'[p].pc = "gitdone" /\ run'[p].git \in {"compensated", "in_doubt"}
    BY <1>0, <1>18 DEF CompensateIndex, GitEnds, At, RunRecord, Workspace
  <2> QED
    BY <2>1
<1>19. CASE RecordGit(p)
  <2>1. /\ run[p].pc = "gitdone" /\ UNCHANGED <<ws, env, grants>>
        /\ fx'[Test] = fx[Test]
        /\ \/ /\ run[p].git = "committed" /\ run'[p].git = "committed"
              /\ run'[p].pc = "observe"
           \/ fx'[Git] = "failed" /\ run'[p].pc = "stopped"
    BY <1>0, <1>19 DEF RecordGit, Committed, Goto, StopWith, At, RunRecord
  <2>2. grants = "consumed"
    BY <1>g, <2>1 DEF Before, After
  <2> QED
    BY <2>1, <2>2
<1>20. CASE ObserveAfter(p)
  <2>1. ASSUME \/ run' = [run EXCEPT ![p].pc = "complete", ![p].rev = CurrentRevision]
               \/ StopWith(p, "failed")
        PROVE  EffectRows' /\ PlaceEffects(p)'
    <3>1. run'[p].pc \in {"complete", "stopped"} /\ UNCHANGED <<grants, fx, ws, env>>
      BY <1>0, <1>20, <2>1 DEF ObserveAfter, StopWith, RunRecord
    <3> QED
      BY <1>s, <3>1
  <2> QED
    BY <1>20, <1>r, <2>1 DEF ObserveAfter
<1>21. CASE Complete(p)
  <2>1. CASE StopWith(p, "failed")
    <3>1. run'[p].pc = "stopped" /\ UNCHANGED <<grants, fx, ws, env>>
      BY <1>0, <1>21, <2>1 DEF Complete, StopWith, RunRecord
    <3> QED
      BY <1>s, <3>1
  <2> QED
    BY <1>21, <1>r, <2>1 DEF Complete
<1>22. CASE FinishStopped(p)
  <2>1. run'[p].pc \in {"undo", "idle"} /\ UNCHANGED <<grants, fx, ws, env>>
    BY <1>0, <1>22 DEF FinishStopped, Throw, RunRecord
  <2> QED
    BY <1>s, <2>1
<1>23. CASE UndoFile(p)
  <2>1. run'[p].pc \in {"undo", "undone"} /\ UNCHANGED <<grants, fx, env>>
    BY <1>0, <1>23 DEF UndoFile, UndoFails, Goto, At, RunRecord
  <2>2. ws'.head = ws.head
    BY <1>0, <1>23 DEF UndoFile, Workspace
  <2> QED
    BY <2>1, <2>2
<1>24. CASE RecordUndo(p)
  <2>1. run'[p].pc = "undo" /\ UNCHANGED <<grants, ws, env>>
    BY <1>0, <1>24 DEF RecordUndo, UndoFails, RunRecord
  <2>2. PICK n \in Last(run[p].todo) :
          fx' = [fx EXCEPT ![Undo(n)] = "succeeded"] \/ fx' = fx
    BY <1>24 DEF RecordUndo
  <2>3. n \in File
    BY <1>0, <2>2 DEF Last, RunRecord
  <2>4. fx'[Test] = fx[Test] /\ fx'[Git] = fx[Git]
    BY <1>0, <2>2, <2>3
  <2> QED
    BY <2>1, <2>4
<1>25. CASE RecordStopped(p)
  BY <1>25, <1>r DEF RecordStopped
<1>26. CASE Reap(p)
  <2>1. run'[p].pc \in {"classify", "idle"} /\ UNCHANGED <<grants, fx, ws, env>>
    BY <1>0, <1>26 DEF Reap, Goto, Throw, RunRecord
  <2> QED
    BY <1>s, <2>1
<1>27. CASE Classify(p)
  <2>0. UNCHANGED <<grants, fx, env>> /\ ws'.head = ws.head
    BY <1>0, <1>27 DEF Classify, Workspace
  <2>1. CASE RecoverByUndo(p)
    <3>1. run'[p].pc = "undo"
      BY <1>0, <2>1 DEF RecoverByUndo, RunRecord
    <3> QED
      BY <2>0, <3>1
  <2>2. CASE ws.head = "commit" /\ Goto(p, "regit")
    <3>1. run'[p].pc = "regit"
      BY <1>0, <2>2 DEF Goto, RunRecord
    <3> QED
      BY <2>0, <2>2, <3>1
  <2>3. CASE \E git \in GitOutcome : RecordResult(p, "orphaned", git, PlanRevision)
    <3>1. run'[p].pc = "final"
      BY <2>3, ResultReturns
    <3> QED
      BY <2>0, <3>1
  <2> QED
    BY <1>27, <2>1, <2>2, <2>3 DEF Classify, GitOutcome
<1>28. CASE RecordRecoveredGit(p)
  <2>1. /\ run[p].pc = "regit" /\ run'[p].pc = "reobserve" /\ UNCHANGED <<ws, env, grants>>
        /\ fx'[Test] = fx[Test]
    BY <1>0, <1>28 DEF RecordRecoveredGit, Goto, At, RunRecord
  <2>2. grants = "consumed"
    BY <1>g, <2>1 DEF Before, After
  <2> QED
    BY <2>1, <2>2
<1>29. CASE CompleteRecovered(p)
  BY <1>29, <1>r DEF CompleteRecovered
<1> QED
  BY <1>1, <1>2, <1>3, <1>4, <1>5, <1>6, <1>7, <1>8, <1>9, <1>10, <1>11, <1>12, <1>13,
       <1>14, <1>15, <1>16, <1>17, <1>18, <1>19, <1>20, <1>21, <1>22, <1>23, <1>24,
       <1>25, <1>26, <1>27, <1>28, <1>29 DEF Execute, Recover

(* The service and the finalisation leave the project alone.                *)
LEMMA ServeLeaves ==
  ASSUME NEW p \in Proc, Serve(p) \/ Finalize(p)
  PROVE  UNCHANGED <<fx, ws, env>>
<1>1. CASE Serve(p)
  BY <1>1 DEF Serve, Approve, IssueGrants, RecordGrantSet, Cancel, RevokeRunGrants,
       CloseCancelled, Census
<1>2. CASE Finalize(p)
  BY <1>2 DEF Finalize, FinalObserve, Settle, RecordSuccess
<1> QED
  BY <1>1, <1>2

(* A step is one of the driver, one of a process outside the execution, a    *)
(* crash, or one of the surroundings.                                        *)
OthersStay(p) == \A q \in Proc : q # p => run'[q] = run[q]

DriverMoves(p) ==
  /\ Driving(p) /\ (Execute(p) \/ Recover(p))
  /\ \A q \in Proc : q # p => ~Driving(q) /\ run'[q] = run[q]

OutsiderMoves(p) ==
  /\ AcquireClaim(p) \/ Serve(p) \/ Finalize(p)
  /\ run' = run \/ (~Driving(p) /\ run'[p].pc \in Before \cup After \cup {"claimed"})
  /\ OthersStay(p)

ProcessDies(p) == Crash(p) /\ run'[p].pc = "idle" /\ OthersStay(p)

SurroundingsMove ==
  /\ UNCHANGED <<run, lc>> /\ ex'.result = ex.result
  /\ \/ ForeignGit \/ \E n \in File, image \in Image : ForeignEdit(n, image)
     \/ UNCHANGED <<fx, ws, env, grants>>

LEMMA StepKinds ==
  ASSUME TypeOK, DriverInv, [Next]_vars
  PROVE  \/ \E p \in Proc : DriverMoves(p) \/ OutsiderMoves(p) \/ ProcessDies(p)
         \/ SurroundingsMove
<1>1. ASSUME NEW p \in Proc, Serve(p) \/ Execute(p) \/ Recover(p) \/ Finalize(p)
      PROVE  \A q \in Proc : q # p => run'[q] = run[q]
  BY <1>1, RunTypes DEF TypeOK
<1>2. ASSUME NEW p \in Proc, Execute(p) \/ Recover(p), ~Driving(p) PROVE AcquireClaim(p)
  BY <1>2 DEF Execute, Recover, Driving, Before, After, At, Authorize,
       RecordApprovalSet, Preflight, WriteFile, RecordWrite, LaunchSupervisor,
       RecordSupervisor, StartTest, TestEnds, RecordTermination, RecordTest, GitCheck,
       UpdateRef, UpdateIndex, ProveCommit, CompensateRef, CompensateIndex, RecordGit,
       ObserveAfter, Complete, FinishStopped, UndoFile, RecordUndo, RecordStopped, Reap,
       Classify, RecordRecoveredGit, CompleteRecovered
<1>3. ASSUME NEW p \in Proc, Execute(p) \/ Recover(p), Driving(p)
      PROVE  \A q \in Proc : q # p => ~Driving(q)
  BY <1>3 DEF DriverInv
<1>4. ASSUME NEW p \in Proc, AcquireClaim(p)
      PROVE  ~Driving(p) /\ run'[p].pc \in Before \cup After \cup {"claimed"}
  BY <1>4, ClaimKeeps DEF AcquireClaim, At, Driving, Before, After
<1>5. ASSUME NEW p \in Proc, Serve(p) \/ Finalize(p)
      PROVE  run' = run \/ (~Driving(p) /\ run'[p].pc \in
                               Before \cup After \cup {"claimed"})
  BY <1>5, ServeKeeps DEF Driving
<1>6. ASSUME NEW p \in Proc, Crash(p)
      PROVE  run'[p].pc = "idle" /\ \A q \in Proc : q # p => run'[q] = run[q]
  <2>1. run \in [Proc -> RunRecord] /\ Idle.pc = "idle"
    BY DEF TypeOK, Idle
  <2> QED
    BY <1>6, <2>1 DEF Crash
<1>7. ASSUME \/ Expire \/ LeaseExpires \/ ChildExits \/ UNCHANGED vars
             \/ \E p \in Proc : Start(p)
      PROVE  SurroundingsMove
  BY <1>7 DEF TypeOK, ExecutionRows, SurroundingsMove, Expire, LeaseExpires, ChildExits, Start, vars
<1>8. ASSUME ForeignGit \/ \E n \in File, image \in Image : ForeignEdit(n, image)
      PROVE  SurroundingsMove
  BY <1>8 DEF SurroundingsMove, ForeignGit, ForeignEdit
<1>9. ASSUME NEW p \in Proc, Execute(p) \/ Recover(p)
      PROVE  DriverMoves(p) \/ OutsiderMoves(p)
  <2>1. CASE Driving(p)
    BY <1>1, <1>3, <1>9, <2>1 DEF DriverMoves
  <2>2. CASE ~Driving(p)
    BY <1>1, <1>2, <1>4, <1>9, <2>2 DEF OutsiderMoves, OthersStay
  <2> QED
    BY <2>1, <2>2
<1>10. ASSUME NEW p \in Proc, Serve(p) \/ Finalize(p) PROVE OutsiderMoves(p)
  BY <1>1, <1>5, <1>10 DEF OutsiderMoves, OthersStay
<1>11. ASSUME NEW p \in Proc, Crash(p) PROVE ProcessDies(p)
  BY <1>6, <1>11 DEF ProcessDies, OthersStay
<1> QED
  BY <1>7, <1>8, <1>9, <1>10, <1>11 DEF Next, Surroundings

(* What a driver sees of the test is what everybody sees.                   *)
LEMMA DriverSees ==
  ASSUME DriverInv, ChildInv, NEW p \in Proc, Driving(p)
  PROVE  Mine(p)
<1>1. \A q \in Proc : q # p => run[q].pc \notin {"gated", "starting"}
  BY DEF DriverInv, Driving, Before, After
<1> QED
  BY <1>1 DEF ChildInv, Mine

(* Places outside the execution say nothing of the effects.                 *)
LEMMA NoPlaceEffects ==
  ASSUME NEW pc \in Before \cup After \cup {"claimed"}
  PROVE  /\ pc \notin BeforeTest /\ pc \notin BeforeCommit /\ pc \notin InCommit
         /\ pc \notin {"testing", "tested", "terminated", "unindex", "gitdone", "observe",
                       "regit"}
  BY DEF Before, After, BeforeCommit, BeforeTest, InCommit, Preparing

(* Every step keeps what rows and places say of the test and the commit.    *)
LEMMA EffectStep ==
  ASSUME TypeOK, DriverInv, ChildInv, EffectInv, [Next]_vars
  PROVE  EffectInv'
<1> USE DEF EffectInv
<1>s. ASSUME UNCHANGED <<fx, ws, env>>, NEW q \in Proc, run'[q] = run[q]
      PROVE  PlaceEffects(q)'
  BY <1>s DEF PlaceEffects
<1>n. ASSUME NEW q \in Proc, run'[q].pc \in Before \cup After \cup {"claimed"}
      PROVE  PlaceEffects(q)'
  BY <1>n, NoPlaceEffects DEF PlaceEffects
<1>r. ASSUME UNCHANGED <<fx, ws, env>>, grants' = "consumed" <=> grants = "consumed"
      PROVE  EffectRows'
  BY <1>r DEF EffectRows
<1>1. ASSUME NEW p \in Proc, DriverMoves(p) PROVE EffectInv'
  <2>1. EffectRows' /\ PlaceEffects(p)'
    BY <1>1, DriverSees, DriverKeepsEffects DEF DriverMoves
  <2>2. \A q \in Proc : q # p => PlaceEffects(q)'
    BY <1>1, <1>n DEF Driving, DriverMoves
  <2> QED
    BY <2>1, <2>2
<1>2. ASSUME NEW p \in Proc, OutsiderMoves(p) PROVE EffectInv'
  <2>1. UNCHANGED <<fx, ws, env>> /\ (grants' = "consumed" <=> grants = "consumed")
    BY <1>2, ServeLeaves, ServeKeeps DEF OutsiderMoves, AcquireClaim
  <2> QED
    BY <1>2, <1>s, <1>n, <1>r, <2>1 DEF OutsiderMoves, OthersStay
<1>3. ASSUME NEW p \in Proc, ProcessDies(p) PROVE EffectInv'
  <2>1. UNCHANGED <<fx, ws, env, grants>>
    BY <1>3 DEF ProcessDies, Crash
  <2>2. run'[p].pc \in Before
    BY <1>3 DEF ProcessDies, Before
  <2> QED
    BY <1>3, <1>s, <1>n, <1>r, <2>1, <2>2 DEF ProcessDies, OthersStay
<1>4. ASSUME UNCHANGED run,
             ForeignGit \/ \E n \in File, image \in Image : ForeignEdit(n, image)
      PROVE  EffectInv'
  <2>1. /\ UNCHANGED <<fx, grants>> /\ env'.ran = env.ran
        /\ ws'.head = ws.head \/ ws'.head = "other"
    BY <1>4 DEF ForeignGit, ForeignEdit, TypeOK, Workspace, History
  <2> QED
    BY <1>4, <2>1 DEF EffectRows, PlaceEffects
<1>5. ASSUME UNCHANGED <<run, fx, ws, env, grants>> PROVE EffectInv'
  BY <1>5, <1>s, <1>r
<1>6. CASE SurroundingsMove
  BY <1>4, <1>5, <1>6 DEF SurroundingsMove
<1> QED
  BY <1>1, <1>2, <1>3, <1>6, StepKinds

(* At first nothing was run.                                                *)
LEMMA EffectInit == Init => EffectInv
<1> SUFFICES ASSUME Init PROVE EffectInv
  OBVIOUS
<1>1. \A p \in Proc : run[p].pc \in Before \cup After \cup {"claimed"}
  BY DEF Init, Idle, Before
<1>2. \A p \in Proc : PlaceEffects(p)
  BY <1>1, NoPlaceEffects DEF PlaceEffects
<1>3. EffectRows
  BY Effects DEF Init, EffectRows
<1> QED
  BY <1>2, <1>3 DEF EffectInv

-------------------------------------------------------------------------------
(* The files. *)

Spared == File \ env.touched

Writing  == {"write", "wrote"}
Written  == {"test", "gated", "starting", "testing", "tested", "terminated", "commit",
             "gitcheck", "gitdone", "observe", "complete"} \cup InCommit
Undoing  == {"undo", "undone"}

(* What the place of a driver says about the files.                         *)
PlaceFiles(p) ==
  LET pc == run[p].pc IN
  /\ pc \in {"consumed", "preflight"} => Holding("after") = {}
  /\ pc \in Writing \cup Written \cup {"stopped"} => Holding("after") \subseteq run[p].applied
  /\ pc \in Writing => Spared \ run[p].todo \subseteq Holding("after")
  /\ pc \in Written \cup {"regit", "reobserve"} => Spared \subseteq Holding("after")
  /\ pc \in Undoing => Holding("after") \subseteq run[p].todo \cup run[p].failed
  /\ pc \in Undoing \cup {"stopped"} /\ run[p].stop # "orphaned" =>
       (ws.head = "commit" => env.touched # {})

FileRows == grants # "consumed" => Holding("after") = {}

TruthInv ==
  /\ FileRows /\ \A p \in Proc : PlaceFiles(p)
  /\ FailureRestores /\ SuccessIsReal

(* Where the files and HEAD stay.                                           *)
FilesStay == /\ Holding("after")' = Holding("after") /\ ws'.head = ws.head
             /\ env'.touched = env.touched

(* A write and an undo change what one file holds.                          *)
LEMMA FileChanged ==
  ASSUME TypeOK, NEW n \in File, NEW image \in Image, ws' = [ws EXCEPT !.file[n] = image]
  PROVE  /\ image = "after" => Holding("after")' = Holding("after") \cup {n}
         /\ image # "after" => Holding("after")' = Holding("after") \ {n}
         /\ ws'.head = ws.head
  BY DEF TypeOK, Workspace, Holding

(* Changes of HEAD and index leave the files.                               *)
LEMMA FilesUnchanged ==
  ASSUME ws'.file = ws.file PROVE Holding("after")' = Holding("after")
  BY DEF Holding

(* A driver has no result yet, and a step that records none keeps it so.    *)
LEMMA NoResultYet ==
  ASSUME ex'.result = NoResult PROVE FailureRestores' /\ SuccessIsReal'
  BY DEF NoResult, FailureRestores, SuccessIsReal

(* A result is true if the driver knows what it says.                       *)
LEMMA ResultIsTrue ==
  ASSUME TypeOK, EffectRows, NEW p \in Proc, FilesStay, UNCHANGED <<lc, fx, grants>>,
         env'.ran = env.ran, FileRows,
         NEW status, NEW git, NEW rev, RecordResult(p, status, git, rev),
         status = "succeeded" => Spared \subseteq Holding("after"),
         status \in {"failed", "cancelled", "timed_out"} =>
           /\ Holding("after") = {}
           /\ ws.head = "commit" => env.touched # {}
  PROVE  FileRows' /\ PlaceFiles(p)' /\ FailureRestores' /\ SuccessIsReal'
<1>1. ex'.result.status = status
  BY DEF RecordResult, TypeOK, ExecutionRows
<1>2. run'[p].pc = "final"
  BY ResultReturns
<1>3. PlaceFiles(p)'
  BY <1>2 DEF PlaceFiles, Writing, Written, InCommit, Undoing
<1>4. FailureRestores'
  BY <1>1 DEF FailureRestores, FilesStay
<1>5. status = "succeeded" =>
        env.ran[Test] = 1 /\ (lc.commit => env.ran[Git] = 1 /\ ws.head # "base")
  BY DEF RecordResult, ResultAdmissible, EffectRows
<1>6. SuccessIsReal'
  BY <1>1, <1>5 DEF SuccessIsReal, FilesStay, Spared
<1> QED
  BY <1>3, <1>4, <1>6 DEF FileRows, FilesStay

(* Every step of the driver keeps what rows and place say of the files, and  *)
(* records a true result.                                                    *)
LEMMA DriverKeepsFiles ==
  ASSUME TypeOK, NEW p \in Proc, Driving(p), Mine(p), EffectRows, PlaceEffects(p),
         FileRows, PlaceFiles(p), Execute(p) \/ Recover(p)
  PROVE  FileRows' /\ PlaceFiles(p)' /\ FailureRestores' /\ SuccessIsReal'
<1> DEFINE Goal == FileRows' /\ PlaceFiles(p)' /\ FailureRestores' /\ SuccessIsReal'
<1> SUFFICES Goal
  OBVIOUS
<1>0. /\ run \in [Proc -> RunRecord] /\ run[p] \in RunRecord /\ ws \in Workspace
      /\ ex \in ExecutionRows /\ Idle.pc = "idle"
      /\ Holding("after") \subseteq File
  BY DEF TypeOK, Idle, Holding
<1>c. grants = "consumed" \/ run[p].pc = "claimed"
  BY DEF Mine, PlaceInv, Driving
<1>n. ASSUME FilesStay, grants' = grants, ex'.result = ex.result, PlaceFiles(p)'
      PROVE  Goal
  BY <1>n, NoResultYet DEF Mine, FilesStay, FileRows
<1>w. ASSUME grants' = grants, ex'.result = ex.result, PlaceFiles(p)', run[p].pc # "claimed"
      PROVE  Goal
  BY <1>w, <1>c, NoResultYet DEF Mine, FileRows
<1>e. ASSUME UNCHANGED <<ws, env>> PROVE FilesStay
  BY <1>e DEF FilesStay, Holding
<1>t. ASSUME UNCHANGED <<ws, grants>>, env'.touched = env.touched, ex'.result = ex.result,
             run[p].pc \in Written, run'[p].pc \in Written, run'[p].applied = run[p].applied
      PROVE  Goal
  <2>1. FilesStay
    BY <1>t DEF FilesStay, Holding
  <2>2. PlaceFiles(p)'
    BY <1>t, <2>1 DEF PlaceFiles, Spared, FilesStay, Writing, Written, InCommit, Undoing
  <2> QED
    BY <1>n, <1>t, <2>1, <2>2
<1>i. ASSUME ws'.file = ws.file, UNCHANGED <<grants, ex>>, env'.touched = env.touched,
             run[p].pc \in Written, run'[p].pc \in Written, run'[p].applied = run[p].applied
      PROVE  Goal
  <2>1. Holding("after")' = Holding("after") /\ run[p].pc # "claimed"
    BY <1>i, FilesUnchanged DEF Written, InCommit
  <2>2. PlaceFiles(p)'
    BY <1>i, <2>1 DEF PlaceFiles, Spared, Writing, Written, InCommit, Undoing
  <2> QED
    BY <1>i, <1>w, <2>1, <2>2
<1>q. ASSUME UNCHANGED <<ws, env, grants>>, ex'.result = ex.result,
             run'[p].pc \in {"idle", "claimed", "reap", "classify"}
      PROVE  Goal
  <2>1. PlaceFiles(p)'
    BY <1>q DEF PlaceFiles, Writing, Written, InCommit, Undoing
  <2> QED
    BY <1>e, <1>n, <1>q, <2>1
<1>z. ASSUME UNCHANGED <<ws, env, grants>>, ex'.result = ex.result,
             NEW stop, StopWith(p, stop), Holding("after") \subseteq run[p].applied,
             stop # "orphaned" => (ws.head = "commit" => env.touched # {})
      PROVE  Goal
  <2>1. /\ run'[p].pc = "stopped" /\ run'[p].applied = run[p].applied
        /\ run'[p].stop = stop
    BY <1>0, <1>z DEF StopWith, RunRecord
  <2>2. PlaceFiles(p)'
    BY <1>z, <2>1, <1>e DEF PlaceFiles, FilesStay, Writing, Written, InCommit, Undoing
  <2> QED
    BY <1>e, <1>n, <1>z, <2>2
<1>a. /\ run[p].pc \in BeforeCommit => ws.head # "commit"
      /\ run[p].pc \in Writing \cup Written => Holding("after") \subseteq run[p].applied
  BY DEF PlaceEffects, EffectRows, PlaceFiles
<1>1. CASE AcquireClaim(p)
  BY <1>1 DEF AcquireClaim, At, Driving, Before
<1>2. CASE Authorize(p)
  <2>0. ex'.result = ex.result
    BY <1>0, <1>2 DEF Authorize, ExecutionRows
  <2>1. CASE AlreadyConsumed
    <3>1. run'[p].pc = "reap" /\ UNCHANGED <<grants, ws, env>>
      BY <1>0, <1>2, <2>1 DEF Authorize, RecoverOnly, Goto, RunRecord
    <3> QED
      BY <1>q, <2>0, <3>1
  <2>2. CASE ~AlreadyConsumed /\ grants = "issued" /\ ~expired
    <3>1. /\ run'[p].pc = "consumed" /\ UNCHANGED <<ws, env>>
          /\ grants' = "consumed"
      BY <1>0, <1>2, <2>2 DEF Authorize, Goto, RunRecord
    <3>2. Holding("after") = {} /\ Holding("after")' = {}
      BY <2>2, <3>1 DEF FileRows, Holding
    <3>3. PlaceFiles(p)'
      BY <3>1, <3>2 DEF PlaceFiles, Writing, Written, InCommit, Undoing
    <3> QED
      BY <2>0, <3>1, <3>3, NoResultYet DEF Mine, FileRows
  <2>3. CASE ~AlreadyConsumed /\ (grants # "issued" \/ expired)
    <3>1. run'[p].pc = "idle" /\ UNCHANGED <<grants, ws, env>>
      BY <1>0, <1>2, <2>3 DEF Authorize, Throw, RunRecord
    <3> QED
      BY <1>q, <2>0, <3>1
  <2> QED
    BY <2>1, <2>2, <2>3
<1>3. CASE RecordApprovalSet(p)
  <2>1. /\ run[p].pc = "consumed" /\ run'[p].pc = "preflight"
        /\ UNCHANGED <<grants, ws, env>> /\ ex'.result = ex.result
    BY <1>0, <1>3 DEF RecordApprovalSet, Goto, At, RunRecord, ExecutionRows
  <2>2. PlaceFiles(p)'
    BY <2>1, <1>e DEF PlaceFiles, FilesStay, Writing, Written, InCommit, Undoing
  <2> QED
    BY <1>e, <1>n, <2>1, <2>2
<1>4. CASE Preflight(p)
  <2>0. run[p].pc = "preflight" /\ UNCHANGED <<lc, grants, fx, ws, env>>
    BY <1>4 DEF Preflight, At
  <2>1. Holding("after") = {} /\ ws.head # "commit"
    BY <2>0, <1>a DEF PlaceFiles, BeforeCommit, BeforeTest, Preparing
  <2>2. CASE RecordResult(p, "failed", "none", PlanRevision)
    BY <1>e, <2>0, <2>1, <2>2, ResultIsTrue
  <2>3. CASE run' = [run EXCEPT ![p].pc = "write", ![p].todo = File] /\ UNCHANGED ex
    <3>1. run'[p].pc = "write" /\ run'[p].todo = File
      BY <1>0, <2>3 DEF RunRecord
    <3>2. PlaceFiles(p)'
      BY <2>0, <2>1, <3>1, <1>e
         DEF PlaceFiles, FilesStay, Spared, Writing, Written, InCommit, Undoing
    <3> QED
      BY <1>e, <1>n, <2>0, <2>3, <3>2
  <2> QED
    BY <1>4, <2>2, <2>3 DEF Preflight
<1>5. CASE WriteFile(p)
  <2>0. run[p].pc = "write" /\ UNCHANGED <<grants, ex>>
    BY <1>5 DEF WriteFile, At
  <2>1. PICK n \in First(run[p].todo) : 
          \/ StopWith(p, "failed") /\ UNCHANGED <<ws, env>>
          \/ /\ ws' = [ws EXCEPT !.file[n] = "after"] /\ env' = Counted(Write(n))
             /\ run' = [run EXCEPT ![p].pc = "wrote", ![p].applied = @ \cup {n}]
    BY <1>5 DEF WriteFile
  <2>2. n \in File
    BY <1>0, <2>1 DEF First, RunRecord
  <2>3. CASE StopWith(p, "failed") /\ UNCHANGED <<ws, env>>
    BY <1>a, <1>z, <2>0, <2>3 DEF Writing, BeforeCommit, BeforeTest, Preparing
  <2>4. CASE /\ ws' = [ws EXCEPT !.file[n] = "after"] /\ env' = Counted(Write(n))
             /\ run' = [run EXCEPT ![p].pc = "wrote", ![p].applied = @ \cup {n}]
    <3>1. Holding("after")' = Holding("after") \cup {n}
      BY <2>2, <2>4, FileChanged DEF Image
    <3>2. env'.touched = env.touched
      BY <2>2, <2>4, Effects, CountedOnce
    <3>3. /\ run'[p].pc = "wrote" /\ run'[p].todo = run[p].todo
          /\ run'[p].applied = run[p].applied \cup {n}
      BY <1>0, <2>4 DEF RunRecord
    <3>4. PlaceFiles(p)'
      BY <2>0, <3>1, <3>2, <3>3
         DEF PlaceFiles, Spared, Writing, Written, InCommit, Undoing
    <3> QED
      BY <1>w, <2>0, <3>4
  <2> QED
    BY <2>1, <2>3, <2>4
<1>6. CASE RecordWrite(p)
  <2>0. run[p].pc = "wrote" /\ UNCHANGED <<grants, ex, ws, env>>
    BY <1>6 DEF RecordWrite, At
  <2>1. PICK n \in First(run[p].todo) :
          \/ /\ ws.file[n] = "after"
             /\ run' = [run EXCEPT ![p].todo = @ \ {n},
                              ![p].pc = IF run[p].todo = {n} THEN "test" ELSE "write"]
          \/ StopWith(p, "failed")
    BY <1>6 DEF RecordWrite
  <2>2. n \in File
    BY <1>0, <2>1 DEF First, RunRecord
  <2>3. CASE StopWith(p, "failed")
    BY <1>a, <1>z, <2>0, <2>3 DEF Writing, BeforeCommit, BeforeTest, Preparing
  <2>4. CASE /\ ws.file[n] = "after"
             /\ run' = [run EXCEPT ![p].todo = @ \ {n},
                              ![p].pc = IF run[p].todo = {n} THEN "test" ELSE "write"]
    <3>1. n \in Holding("after")
      BY <2>2, <2>4 DEF Holding
    <3>2. /\ run'[p].todo = run[p].todo \ {n} /\ run'[p].applied = run[p].applied
          /\ run'[p].pc = IF run[p].todo = {n} THEN "test" ELSE "write"
      BY <1>0, <2>4 DEF RunRecord
    <3>3. Spared \ run[p].todo \subseteq Holding("after")
      BY <2>0 DEF PlaceFiles, Writing
    <3>4. PlaceFiles(p)'
      BY <1>a, <1>e, <2>0, <3>1, <3>2, <3>3
         DEF PlaceFiles, FilesStay, Spared, Writing, Written, InCommit, Undoing
    <3> QED
      BY <1>e, <1>n, <2>0, <3>4
  <2> QED
    BY <2>1, <2>3, <2>4
<1>7. CASE LaunchSupervisor(p)
  <2>1. /\ run[p].pc = "test" /\ run'[p].pc \in {"gated", "terminated"}
        /\ run'[p].applied = run[p].applied /\ UNCHANGED <<ws, grants, env, ex>>
    BY <1>0, <1>7 DEF LaunchSupervisor, Goto, At, RunRecord
  <2> QED
    BY <1>t, <2>1 DEF Written
<1>8. CASE RecordSupervisor(p)
  <2>1. /\ run[p].pc = "gated" /\ run'[p].pc = "starting" /\ ex'.result = ex.result
        /\ run'[p].applied = run[p].applied /\ UNCHANGED <<ws, grants, env>>
    BY <1>0, <1>8 DEF RecordSupervisor, Goto, At, RunRecord, ExecutionRows
  <2> QED
    BY <1>t, <2>1 DEF Written
<1>9. CASE StartTest(p)
  <2>1. /\ run[p].pc = "starting" /\ run'[p].pc = "testing" /\ env' = Counted(Test)
        /\ run'[p].applied = run[p].applied /\ UNCHANGED <<ws, grants, ex>>
    BY <1>0, <1>9 DEF StartTest, Goto, At, RunRecord
  <2> QED
    BY <1>t, <2>1, Effects, CountedOnce DEF Written
<1>10. CASE TestEnds(p)
  <2>0. PICK status \in Status : run' = [run EXCEPT ![p].pc = "tested", ![p].test = status]
    BY <1>10 DEF TestEnds
  <2>1. /\ run[p].pc \in {"starting", "testing"} /\ run'[p].pc = "tested"
        /\ run'[p].applied = run[p].applied /\ UNCHANGED <<ws, grants, env, ex>>
    BY <1>0, <1>10, <2>0 DEF TestEnds, At, RunRecord
  <2> QED
    BY <1>t, <2>1 DEF Written
<1>11. CASE RecordTermination(p)
  <2>1. /\ run[p].pc = "tested" /\ run'[p].pc = "terminated" /\ ex'.result = ex.result
        /\ run'[p].applied = run[p].applied /\ UNCHANGED <<ws, grants, env>>
    BY <1>0, <1>11 DEF RecordTermination, Goto, At, RunRecord, ExecutionRows
  <2> QED
    BY <1>t, <2>1 DEF Written
<1>12. CASE RecordTest(p)
  <2>0. run[p].pc = "terminated" /\ UNCHANGED <<ws, grants, env, ex>>
    BY <1>12 DEF RecordTest, At
  <2>1. CASE StopWith(p, run[p].test)
    BY <1>a, <1>z, <2>0, <2>1 DEF Written, BeforeCommit
  <2>2. CASE Goto(p, IF lc.commit THEN "commit" ELSE "gitcheck")
    <3>1. /\ run'[p].pc \in {"commit", "gitcheck"}
          /\ run'[p].applied = run[p].applied
      BY <1>0, <2>2 DEF Goto, RunRecord
    <3> QED
      BY <1>t, <2>0, <3>1 DEF Written
  <2> QED
    BY <1>12, <2>1, <2>2 DEF RecordTest
<1>13. CASE GitCheck(p)
  <2>0. run[p].pc = "gitcheck" /\ UNCHANGED <<ws, grants, env, ex>>
    BY <1>13 DEF GitCheck, At
  <2>1. CASE StopWith(p, "failed")
    BY <1>a, <1>z, <2>0, <2>1 DEF Written, BeforeCommit
  <2>2. CASE Goto(p, "observe")
    <3>1. run'[p].pc = "observe" /\ run'[p].applied = run[p].applied
      BY <1>0, <2>2 DEF Goto, RunRecord
    <3> QED
      BY <1>t, <2>0, <3>1 DEF Written
  <2> QED
    BY <1>13, <2>1, <2>2 DEF GitCheck
<1>14. CASE UpdateRef(p)
  <2>1. /\ run[p].pc = "commit" /\ run'[p].pc \in {"index", "gitdone"}
        /\ run'[p].applied = run[p].applied /\ UNCHANGED <<grants, ex>>
        /\ ws'.file = ws.file /\ (env' = env \/ env' = Counted(Git))
    BY <1>0, <1>14 DEF UpdateRef, Goto, GitEnds, At, RunRecord, Workspace
  <2>2. env'.touched = env.touched
    BY <2>1, Effects, CountedOnce
  <2> QED
    BY <1>i, <2>1, <2>2 DEF Written, InCommit
<1>15. CASE UpdateIndex(p) \/ ProveCommit(p) \/ CompensateRef(p) \/ CompensateIndex(p)
  <2>1. /\ run[p].pc \in InCommit /\ UNCHANGED <<grants, ex, env>> /\ ws'.file = ws.file
    BY <1>0, <1>15 DEF UpdateIndex, ProveCommit, CompensateRef, CompensateIndex, At,
       InCommit, Workspace
  <2>2. run'[p].pc \in InCommit \cup {"gitdone"} /\ run'[p].applied = run[p].applied
    BY <1>0, <1>15 DEF UpdateIndex, ProveCommit, CompensateRef, CompensateIndex, Goto,
       GitEnds, RunRecord, InCommit
  <2> QED
    BY <1>i, <2>1, <2>2 DEF Written
<1>19. CASE RecordGit(p)
  <2>0. run[p].pc = "gitdone" /\ UNCHANGED <<ws, grants, env, ex>>
    BY <1>19 DEF RecordGit, At
  <2>1. CASE Goto(p, "observe")
    <3>1. run'[p].pc = "observe" /\ run'[p].applied = run[p].applied
      BY <1>0, <2>1 DEF Goto, RunRecord
    <3> QED
      BY <1>t, <2>0, <3>1 DEF Written
  <2>2. CASE StopWith(p, "orphaned")
    BY <1>a, <1>z, <2>0, <2>2 DEF Written
  <2>3. CASE /\ StopWith(p, "failed")
             /\ run[p].git \notin {"committed", "in_doubt"}
    <3>1. ws.head # "commit"
      BY <2>0, <2>3 DEF PlaceEffects
    <3> QED
      BY <1>a, <1>z, <2>0, <2>3, <3>1 DEF Written
  <2> QED
    BY <1>19, <2>1, <2>2, <2>3 DEF RecordGit, Committed
<1>20. CASE ObserveAfter(p)
  <2>0. run[p].pc = "observe" /\ UNCHANGED <<lc, fx, ws, grants, env>>
    BY <1>20 DEF ObserveAfter, At
  <2>1. CASE /\ run' = [run EXCEPT ![p].pc = "complete", ![p].rev = CurrentRevision]
             /\ UNCHANGED ex
    <3>1. run'[p].pc = "complete" /\ run'[p].applied = run[p].applied
      BY <1>0, <2>1 DEF RunRecord
    <3> QED
      BY <1>t, <2>0, <2>1, <3>1 DEF Written
  <2>2. CASE run[p].git # "committed" /\ StopWith(p, "failed") /\ UNCHANGED ex
    <3>1. ws.head # "commit"
      BY <2>0, <2>2 DEF PlaceEffects
    <3> QED
      BY <1>a, <1>z, <2>0, <2>2, <3>1 DEF Written
  <2>3. CASE RecordResult(p, "orphaned", "committed", PlanRevision)
    BY <1>e, <2>0, <2>3, ResultIsTrue
  <2> QED
    BY <1>20, <2>1, <2>2, <2>3 DEF ObserveAfter
<1>21. CASE Complete(p)
  <2>0. run[p].pc = "complete" /\ UNCHANGED <<lc, fx, ws, grants, env>>
    BY <1>21 DEF Complete, At
  <2>1. CASE Holding("after") = File
    <3>1. RecordResult(p, "succeeded", run[p].git, run[p].rev)
      BY <1>21, <2>1 DEF Complete
    <3> QED
      BY <1>e, <2>0, <2>1, <3>1, ResultIsTrue DEF Spared
  <2>2. CASE Holding("after") # File
    <3>1. StopWith(p, "failed") /\ UNCHANGED ex
      BY <1>21, <2>2 DEF Complete
    <3>2. Spared \subseteq Holding("after")
      BY <2>0 DEF PlaceFiles, Written
    <3>3. env.touched # {}
      BY <1>0, <2>2, <3>2 DEF Spared
    <3> QED
      BY <1>a, <1>z, <2>0, <3>1, <3>3 DEF Written
  <2> QED
    BY <2>1, <2>2
<1>22. CASE FinishStopped(p)
  <2>0. run[p].pc = "stopped" /\ UNCHANGED <<ws, grants, env, ex>>
    BY <1>22 DEF FinishStopped, At
  <2>1. CASE Throw(p)
    <3>1. run'[p].pc = "idle"
      BY <1>0, <2>1 DEF Throw
    <3> QED
      BY <1>q, <2>0, <3>1
  <2>2. CASE run' = [run EXCEPT ![p].pc = "undo", ![p].todo = run[p].applied]
    <3>1. /\ run'[p].pc = "undo" /\ run'[p].todo = run[p].applied
          /\ run'[p].stop = run[p].stop
      BY <1>0, <2>2 DEF RunRecord
    <3>2. PlaceFiles(p)'
      BY <1>e, <2>0, <3>1
         DEF PlaceFiles, FilesStay, Writing, Written, InCommit, Undoing
    <3> QED
      BY <1>e, <1>n, <2>0, <3>2
  <2> QED
    BY <1>22, <2>1, <2>2 DEF FinishStopped
<1>h. ASSUME run[p].pc \in Undoing, UNCHANGED <<grants, env, ex>>, ws'.head = ws.head,
             run'[p].pc \in Undoing, run'[p].stop = run[p].stop,
             Holding("after")' \subseteq run'[p].todo \cup run'[p].failed
      PROVE  Goal
  <2>1. PlaceFiles(p)'
    BY <1>h DEF PlaceFiles, Writing, Written, InCommit, Undoing
  <2> QED
    BY <1>h, <1>w, <2>1 DEF Undoing
<1>o. run[p].pc \in Undoing => Holding("after") \subseteq run[p].todo \cup run[p].failed
  BY DEF PlaceFiles
<1>f. ASSUME NEW n \in File, UndoFails(p, n)
      PROVE  /\ run'[p].pc = "undo" /\ run'[p].todo = run[p].todo \ {n}
             /\ run'[p].failed = run[p].failed \cup {n} /\ run'[p].stop = run[p].stop
  BY <1>0, <1>f DEF UndoFails, RunRecord
<1>23. CASE UndoFile(p)
  <2>0. run[p].pc = "undo" /\ UNCHANGED <<grants, env, ex>>
    BY <1>23 DEF UndoFile, At
  <2>1. PICK n \in Last(run[p].todo) :
          \/ ws' = [ws EXCEPT !.file[n] = "before"] /\ Goto(p, "undone")
          \/ /\ ws.file[n] = "before" /\ run' = [run EXCEPT ![p].todo = @ \ {n}]
             /\ UNCHANGED ws
          \/ UndoFails(p, n) /\ UNCHANGED ws
    BY <1>23 DEF UndoFile
  <2>2. n \in File
    BY <1>0, <2>1 DEF Last, RunRecord
  <2>3. CASE ws' = [ws EXCEPT !.file[n] = "before"] /\ Goto(p, "undone")
    <3>1. Holding("after")' \subseteq Holding("after") /\ ws'.head = ws.head
      BY <2>2, <2>3, FileChanged DEF Image
    <3>2. /\ run'[p].pc = "undone" /\ run'[p].todo = run[p].todo
          /\ run'[p].failed = run[p].failed /\ run'[p].stop = run[p].stop
      BY <1>0, <2>3 DEF Goto, RunRecord
    <3> QED
      BY <1>h, <1>o, <2>0, <3>1, <3>2 DEF Undoing
  <2>4. CASE /\ ws.file[n] = "before" /\ run' = [run EXCEPT ![p].todo = @ \ {n}]
             /\ UNCHANGED ws
    <3>1. n \notin Holding("after") /\ Holding("after")' = Holding("after")
      BY <2>4 DEF Holding
    <3>2. /\ run'[p].pc = "undo" /\ run'[p].todo = run[p].todo \ {n}
          /\ run'[p].failed = run[p].failed /\ run'[p].stop = run[p].stop
      BY <1>0, <2>0, <2>4 DEF RunRecord
    <3> QED
      BY <1>h, <1>o, <2>0, <2>4, <3>1, <3>2 DEF Undoing
  <2>5. CASE UndoFails(p, n) /\ UNCHANGED ws
    <3>1. Holding("after")' = Holding("after")
      BY <2>5 DEF Holding
    <3> QED
      BY <1>f, <1>h, <1>o, <2>0, <2>2, <2>5, <3>1 DEF Undoing
  <2> QED
    BY <2>1, <2>3, <2>4, <2>5
<1>24. CASE RecordUndo(p)
  <2>0. run[p].pc = "undone" /\ UNCHANGED <<grants, env, ex, ws>>
    BY <1>24 DEF RecordUndo, At
  <2>1. PICK n \in Last(run[p].todo) :
          \/ ws.file[n] = "before" /\ run' = [run EXCEPT ![p].pc = "undo", ![p].todo = @ \ {n}]
          \/ UndoFails(p, n)
    BY <1>24 DEF RecordUndo
  <2>2. n \in File /\ Holding("after")' = Holding("after")
    BY <1>0, <2>0, <2>1 DEF Last, RunRecord, Holding
  <2>3. CASE ws.file[n] = "before" /\ run' = [run EXCEPT ![p].pc = "undo", ![p].todo = @ \ {n}]
    <3>1. n \notin Holding("after")
      BY <2>3 DEF Holding
    <3>2. /\ run'[p].pc = "undo" /\ run'[p].todo = run[p].todo \ {n}
          /\ run'[p].failed = run[p].failed /\ run'[p].stop = run[p].stop
      BY <1>0, <2>3 DEF RunRecord
    <3> QED
      BY <1>h, <1>o, <2>0, <2>2, <3>1, <3>2 DEF Undoing
  <2>4. CASE UndoFails(p, n)
    BY <1>f, <1>h, <1>o, <2>0, <2>2, <2>4 DEF Undoing
  <2> QED
    BY <2>1, <2>3, <2>4
<1>25. CASE RecordStopped(p)
  <2>0. /\ run[p].pc = "undo" /\ run[p].todo = {} /\ UNCHANGED <<lc, fx, ws, grants, env>>
        /\ RecordResult(p, StopStatus(p), run[p].git, PlanRevision)
    BY <1>25 DEF RecordStopped, At
  <2>1. StopStatus(p) # "orphaned" =>
          /\ Holding("after") = {} /\ StopStatus(p) = run[p].stop
          /\ ws.head = "commit" => env.touched # {}
    BY <1>o, <2>0 DEF StopStatus, PlaceFiles, Undoing
  <2>2. StopStatus(p) # "succeeded"
    BY <1>0 DEF StopStatus, RunRecord, Stop
  <2> QED
    BY <1>e, <2>0, <2>1, <2>2, ResultIsTrue
<1>26. CASE Reap(p)
  <2>1. run'[p].pc \in {"classify", "idle"} /\ UNCHANGED <<grants, ws, env>>
    BY <1>0, <1>26 DEF Reap, Goto, Throw, RunRecord
  <2>2. ex'.result = ex.result
    BY <1>0, <1>26 DEF Reap, ExecutionRows
  <2> QED
    BY <1>q, <2>1, <2>2
<1>27. CASE Classify(p)
  <2>0. /\ run[p].pc = "classify" /\ UNCHANGED <<lc, grants, fx, env>>
        /\ ws'.file = ws.file /\ ws'.head = ws.head
    BY <1>0, <1>27 DEF Classify, At, Workspace
  <2>h. FilesStay
    BY <2>0, FilesUnchanged DEF FilesStay
  <2>1. CASE RecoverByUndo(p) /\ UNCHANGED ex
    <3>1. /\ run'[p].pc = "undo" /\ run'[p].todo = Holding("after")
          /\ run'[p].stop = "orphaned"
      BY <1>0, <2>1 DEF RecoverByUndo, RunRecord
    <3>2. PlaceFiles(p)'
      BY <2>h, <3>1 DEF PlaceFiles, FilesStay, Writing, Written, InCommit, Undoing
    <3> QED
      BY <1>n, <2>0, <2>1, <2>h, <3>2
  <2>2. CASE Holding("after") = File /\ Goto(p, "regit") /\ UNCHANGED ex
    <3>1. run'[p].pc = "regit"
      BY <1>0, <2>2 DEF Goto, RunRecord
    <3>2. PlaceFiles(p)'
      BY <2>2, <2>h, <3>1
         DEF PlaceFiles, FilesStay, Spared, Writing, Written, InCommit, Undoing
    <3> QED
      BY <1>n, <2>0, <2>2, <2>h, <3>2
  <2>3. CASE \E git \in GitOutcome : RecordResult(p, "orphaned", git, PlanRevision)
    BY <2>0, <2>3, <2>h, ResultIsTrue
  <2> QED
    BY <1>27, <2>1, <2>2, <2>3 DEF Classify, GitOutcome
<1>28. CASE RecordRecoveredGit(p)
  <2>1. /\ run[p].pc = "regit" /\ run'[p].pc = "reobserve"
        /\ UNCHANGED <<ws, env, grants, ex>>
    BY <1>0, <1>28 DEF RecordRecoveredGit, Goto, At, RunRecord
  <2>2. PlaceFiles(p)'
    BY <1>e, <2>1 DEF PlaceFiles, FilesStay, Spared, Writing, Written, InCommit, Undoing
  <2> QED
    BY <1>e, <1>n, <2>1, <2>2
<1>29. CASE CompleteRecovered(p)
  <2>1. run[p].pc = "reobserve" /\ UNCHANGED <<lc, fx, ws, grants, env>>
    BY <1>29 DEF CompleteRecovered, At
  <2>2. Spared \subseteq Holding("after")
    BY <2>1 DEF PlaceFiles
  <2>3. CASE RecordResult(p, "succeeded", "committed", CurrentRevision)
    BY <1>e, <2>1, <2>2, <2>3, ResultIsTrue
  <2>4. CASE RecordResult(p, "orphaned", "committed", PlanRevision)
    BY <1>e, <2>1, <2>4, ResultIsTrue
  <2> QED
    BY <1>29, <2>3, <2>4 DEF CompleteRecovered
<1> QED
  BY <1>1, <1>2, <1>3, <1>4, <1>5, <1>6, <1>7, <1>8, <1>9, <1>10, <1>11, <1>12, <1>13,
       <1>14, <1>15, <1>19, <1>20, <1>21, <1>22, <1>23, <1>24, <1>25, <1>26, <1>27,
       <1>28, <1>29 DEF Execute, Recover

(* Whether the plan asks for a commit never changes.                        *)
LEMMA CommitKept ==
  ASSUME TypeOK, NEW p \in Proc, Serve(p) \/ Finalize(p)
  PROVE  lc'.commit = lc.commit
<1> USE DEF TypeOK, LifecycleRows
<1>1. CASE Serve(p)
  BY <1>1 DEF Serve, Approve, IssueGrants, RecordGrantSet, Cancel, RevokeRunGrants,
       CloseCancelled, Census
<1>2. CASE Finalize(p)
  BY <1>2 DEF Finalize, FinalObserve, Settle, RecordSuccess, Terminate
<1> QED
  BY <1>1, <1>2

(* Places outside the execution say nothing of the files.                   *)
LEMMA NoPlaceFiles ==
  ASSUME NEW pc \in Before \cup After \cup {"claimed"}
  PROVE  /\ pc \notin Writing /\ pc \notin Written /\ pc \notin Undoing
         /\ pc \notin {"consumed", "preflight", "stopped", "regit", "reobserve"}
  BY DEF Before, After, Writing, Written, InCommit, Undoing

(* Every step keeps the truth: the driver's, because it knows; the others',  *)
(* because they leave the project alone or are excused.                      *)
LEMMA TruthStep ==
  ASSUME TypeOK, DriverInv, ChildInv, EffectInv, TruthInv, [Next]_vars
  PROVE  TruthInv'
<1> USE DEF TruthInv
<1>s. ASSUME UNCHANGED <<ws, env>>, NEW q \in Proc, run'[q] = run[q]
      PROVE  PlaceFiles(q)'
  BY <1>s DEF PlaceFiles, Holding, Spared
<1>n. ASSUME NEW q \in Proc, run'[q].pc \in Before \cup After \cup {"claimed"}
      PROVE  PlaceFiles(q)'
  BY <1>n, NoPlaceFiles DEF PlaceFiles
<1>r. ASSUME UNCHANGED <<ws, env>>, grants' = "consumed" <=> grants = "consumed",
             ex'.result = ex.result, lc'.commit = lc.commit
      PROVE  FileRows' /\ FailureRestores' /\ SuccessIsReal'
  BY <1>r DEF FileRows, FailureRestores, SuccessIsReal, Holding
<1>1. ASSUME NEW p \in Proc, DriverMoves(p) PROVE TruthInv'
  <2>1. FileRows' /\ PlaceFiles(p)' /\ FailureRestores' /\ SuccessIsReal'
    BY <1>1, DriverSees, DriverKeepsFiles DEF DriverMoves, EffectInv
  <2>2. \A q \in Proc : q # p => PlaceFiles(q)'
    BY <1>1, <1>n DEF Driving, DriverMoves
  <2> QED
    BY <2>1, <2>2
<1>2. ASSUME NEW p \in Proc, OutsiderMoves(p) PROVE TruthInv'
  <2>1. /\ UNCHANGED <<ws, env>> /\ (grants' = "consumed" <=> grants = "consumed")
        /\ ex'.result = ex.result /\ lc'.commit = lc.commit
    BY <1>2, ServeLeaves, ServeKeeps, ClaimKeeps, CommitKept DEF OutsiderMoves, AcquireClaim
  <2> QED
    BY <1>2, <1>s, <1>n, <1>r, <2>1 DEF OutsiderMoves, OthersStay
<1>3. ASSUME NEW p \in Proc, ProcessDies(p) PROVE TruthInv'
  <2>1. UNCHANGED <<ws, env, grants, ex, lc>>
    BY <1>3 DEF ProcessDies, Crash
  <2>2. run'[p].pc \in Before
    BY <1>3 DEF ProcessDies, Before
  <2> QED
    BY <1>3, <1>s, <1>n, <1>r, <2>1, <2>2 DEF ProcessDies, OthersStay
<1>4. ASSUME UNCHANGED <<run, lc, grants>>, ex'.result = ex.result,
             Holding("after")' \subseteq Holding("after"),
             Spared' \subseteq Spared, env.touched # {} => env'.touched # {},
             Holding("after") \cap Spared' \subseteq Holding("after")',
             ws'.head = ws.head \/ ws'.head = "other", env'.ran = env.ran
      PROVE  TruthInv'
  <2>1. \A p \in Proc : PlaceFiles(p)'
    BY <1>4 DEF PlaceFiles
  <2>2. FileRows' /\ FailureRestores'
    BY <1>4 DEF FileRows, FailureRestores
  <2>3. SuccessIsReal'
    BY <1>4 DEF SuccessIsReal, Spared
  <2> QED
    BY <2>1, <2>2, <2>3
<1>5. ASSUME SurroundingsMove, NEW n \in File, NEW image \in Image, ForeignEdit(n, image)
      PROVE  TruthInv'
  <2>1. /\ Holding("after")' = Holding("after") \ {n} /\ ws'.head = ws.head
        /\ UNCHANGED grants
    BY <1>5, FileChanged DEF ForeignEdit
  <2>2. env'.touched = env.touched \cup {n} /\ env'.ran = env.ran
    BY <1>5 DEF ForeignEdit, TypeOK, History
  <2> QED
    BY <1>4, <1>5, <2>1, <2>2 DEF SurroundingsMove, Spared
<1>6. ASSUME SurroundingsMove, ForeignGit PROVE TruthInv'
  <2>1. /\ ws'.file = ws.file /\ (ws'.head = ws.head \/ ws'.head = "other")
        /\ UNCHANGED grants
    BY <1>6 DEF ForeignGit, TypeOK, Workspace
  <2>2. env'.touched = env.touched /\ env'.ran = env.ran
    BY <1>6 DEF ForeignGit, TypeOK, History
  <2>3. Holding("after")' = Holding("after") /\ Spared' = Spared
    BY <2>1, <2>2, FilesUnchanged DEF Spared
  <2> QED
    BY <1>4, <1>6, <2>1, <2>2, <2>3 DEF SurroundingsMove
<1>7. ASSUME SurroundingsMove, UNCHANGED <<fx, ws, env, grants>> PROVE TruthInv'
  BY <1>7, <1>s, <1>r DEF SurroundingsMove
<1>8. CASE SurroundingsMove
  BY <1>5, <1>6, <1>7, <1>8 DEF SurroundingsMove
<1> QED
  BY <1>1, <1>2, <1>3, <1>8, StepKinds

(* At first there is nothing to tell.                                       *)
LEMMA TruthInit == Init => TruthInv
<1> SUFFICES ASSUME Init PROVE TruthInv
  OBVIOUS
<1>1. \A p \in Proc : run[p].pc \in Before \cup After \cup {"claimed"}
  BY DEF Init, Idle, Before
<1>2. \A p \in Proc : PlaceFiles(p)
  BY <1>1, NoPlaceFiles DEF PlaceFiles
<1>3. FileRows
  BY DEF Init, FileRows, Holding
<1>4. FailureRestores /\ SuccessIsReal
  BY DEF Init, FailureRestores, SuccessIsReal, NoResult
<1> QED
  BY <1>2, <1>3, <1>4 DEF TruthInv

(* Rows and places always say the truth.                                    *)
LEMMA TruthInvariant == Spec => [](EffectInv /\ TruthInv)
<1>1. TypeOK /\ DriverInv /\ ChildInv /\ EffectInv /\ [Next]_vars => EffectInv'
  BY EffectStep
<1>2. TypeOK /\ DriverInv /\ ChildInv /\ EffectInv /\ TruthInv /\ [Next]_vars => TruthInv'
  BY TruthStep
<1> QED
  BY <1>1, <1>2, EffectInit, TruthInit, ProjectTypeCorrect, DriverInvariant, ChildInvariant,
     PTL DEF Spec

(* A failed, cancelled or timed out change leaves nothing behind: its files  *)
(* are restored, whatever crashed in between, and no commit is kept that the *)
(* files still bear out (finishStopped, rollbackApplied).                    *)
THEOREM FailureIsUndone == Spec => []FailureRestores
<1>1. TruthInv => FailureRestores
  BY DEF TruthInv
<1> QED
  BY <1>1, TruthInvariant, PTL

(* A change that is reported successful was done as a whole: all files but   *)
(* those that others touched, the test, and the commit if one was asked for  *)
(* (recordResult).                                                           *)
THEOREM SuccessIsWhole == Spec => []SuccessIsReal
<1>1. TruthInv => SuccessIsReal
  BY DEF TruthInv
<1> QED
  BY <1>1, TruthInvariant, PTL

===============================================================================

------------------------ MODULE ProjectContractProofs ------------------------
(***************************************************************************)
(* What the execution of a project change tells its user, and that it      *)
(* implements ChangeContract.  The terminal is written from rows that any  *)
(* server may have written before (TerminalInv).  A step of the driver is  *)
(* a step of the contract or none: to know that it performs an effect at   *)
(* most once and in order, WorkPlace says what each place of the driver    *)
(* has performed, and WorkRows what the rows say of it.  The end of the    *)
(* driver turns the change back, foreign programs meddle, and everybody    *)
(* else leaves what the contract sees as it is.                            *)
(***************************************************************************)
EXTENDS ProjectChangeProofs

-------------------------------------------------------------------------------
(* The terminal.  It is written by any process, from a result that another  *)
(* one may have recorded, or from a cancellation.  What a server has in     *)
(* hand to write it was caused by what the rows say.                        *)
PlaceCause(p) ==
  /\ srv[p].cancel # "none" \/ srv[p].aborting => lc.cancel
  /\ run[p].test = "cancelled" \/ run[p].stop = "cancelled" => lc.cancel
  /\ ~lc.granted => run[p].pc \in {"idle", "grant", "grantset"}

(* A receipt and a terminal are the word of a result, and without a grant   *)
(* set there is no result and no effect.                                    *)
TerminalRows ==
  /\ lc.receipt => ex.result.status = "succeeded"
  /\ lc.terminal \in {"failed", "timed_out"} => ex.result.status = lc.terminal
  /\ lc.terminal = "succeeded" => lc.receipt /\ ~lc.cancel
  /\ lc.terminal = "cancelled" \/ ex.result.status = "cancelled" => lc.cancel
  /\ lc.terminal = "blocked" => ~lc.granted
  /\ ~lc.granted => ex.result = NoResult /\ \A e \in Forward : env.ran[e] = 0

TerminalInv == TerminalRows /\ \A p \in Proc : PlaceCause(p)

(* Nobody's step takes back a cancellation or a grant set, or changes the   *)
(* record of another server.                                                *)
LEMMA IntentsKept ==
  ASSUME TypeOK, NEW p \in Proc,
         Serve(p) \/ Execute(p) \/ Recover(p) \/ Finalize(p)
  PROVE  /\ lc.cancel => lc'.cancel
         /\ lc.granted => lc'.granted
         /\ \A q \in Proc : q # p => srv'[q] = srv[q]
<1> USE DEF TypeOK, LifecycleRows
<1>1. CASE Approve(p)
  BY <1>1 DEF Approve
<1>2. CASE IssueGrants(p)
  BY <1>2 DEF IssueGrants, Throw
<1>3. CASE RecordGrantSet(p)
  BY <1>3 DEF RecordGrantSet, Throw
<1>4. CASE Cancel(p)
  BY <1>4 DEF Cancel
<1>5. CASE RevokeRunGrants(p)
  BY <1>5 DEF RevokeRunGrants
<1>6. CASE CloseCancelled(p)
  BY <1>6 DEF CloseCancelled
<1>7. CASE Census(p)
  BY <1>7 DEF Census, Return
<1>8. CASE AcquireClaim(p) \/ Authorize(p)
  BY <1>8 DEF AcquireClaim, Authorize, Throw
<1>9. CASE FinishStopped(p) \/ Reap(p)
  BY <1>9 DEF FinishStopped, Reap, Throw
<1>10. CASE FinalObserve(p)
  BY <1>10 DEF FinalObserve, Return
<1>11. CASE Settle(p)
  BY <1>11 DEF Settle, Terminate, Return, Throw
<1>12. CASE RecordSuccess(p)
  BY <1>12 DEF RecordSuccess, Terminate, Return, Throw
<1>13. CASE \/ RecordApprovalSet(p) \/ Preflight(p) \/ WriteFile(p)
            \/ RecordWrite(p) \/ LaunchSupervisor(p) \/ RecordSupervisor(p)
            \/ StartTest(p) \/ TestEnds(p) \/ RecordTermination(p) \/ RecordTest(p)
            \/ GitCheck(p) \/ UpdateRef(p) \/ UpdateIndex(p) \/ ProveCommit(p)
            \/ CompensateRef(p) \/ CompensateIndex(p) \/ RecordGit(p)
            \/ ObserveAfter(p) \/ Complete(p) \/ UndoFile(p) \/ RecordUndo(p)
            \/ RecordStopped(p) \/ Classify(p) \/ RecordRecoveredGit(p)
            \/ CompleteRecovered(p)
  BY <1>13 DEF RecordApprovalSet, Preflight, WriteFile, RecordWrite,
       LaunchSupervisor, RecordSupervisor, StartTest, TestEnds, RecordTermination,
       RecordTest, GitCheck, UpdateRef, UpdateIndex, ProveCommit, CompensateRef,
       CompensateIndex, RecordGit, ObserveAfter, Complete, UndoFile, RecordUndo,
       RecordStopped, Classify, RecordRecoveredGit, CompleteRecovered
<1> QED
  BY <1>1, <1>2, <1>3, <1>4, <1>5, <1>6, <1>7, <1>8, <1>9, <1>10, <1>11, <1>12, <1>13
     DEF Serve, Execute, Recover, Finalize

(* A step of a driver, and its effect on what may cause a terminal: it      *)
(* leaves the lifecycle alone, records a result once, and stops as          *)
(* cancelled only if it was aborted or the test was.                        *)
LEMMA DriverCauses ==
  ASSUME TypeOK, NEW p \in Proc, Execute(p) \/ Recover(p)
  PROVE  /\ lc' = lc
         /\ ex'.result = ex.result \/
            (/\ ex.result = NoResult
             /\ ex'.result.status = "cancelled" => run[p].stop = "cancelled")
         /\ srv'[p] = srv[p] \/ (srv'[p].cancel = srv[p].cancel /\ ~srv'[p].aborting)
         /\ run'[p].test = "cancelled" => run[p].test = "cancelled" \/ srv[p].aborting
         /\ run'[p].stop = "cancelled" => run[p].stop = "cancelled" \/ run[p].test = "cancelled"
<1> USE DEF TypeOK, RunRecord
<1>0. /\ run \in [Proc -> RunRecord] /\ run[p] \in RunRecord
      /\ ex \in ExecutionRows /\ srv \in [Proc -> ServerRecord]
      /\ Idle.test = "none" /\ Idle.stop = "none"
      /\ [Idle EXCEPT !.pc = "final"].test = "none"
      /\ [Idle EXCEPT !.pc = "final"].stop = "none"
  BY DEF Idle
<1>r. ASSUME NEW status, NEW git, NEW rev, RecordResult(p, status, git, rev)
      PROVE  /\ ex'.result.status = status /\ ex.result = NoResult
             /\ run'[p].test = "none" /\ run'[p].stop = "none"
  BY <1>0, <1>r DEF RecordResult, ResultAdmissible, Fenced, ExecutionRows
<1>m. ASSUME NEW pc, Goto(p, pc)
      PROVE  run'[p].test = run[p].test /\ run'[p].stop = run[p].stop
  BY <1>0, <1>m DEF Goto
<1>s. ASSUME NEW status, StopWith(p, status)
      PROVE  run'[p].test = run[p].test /\ run'[p].stop = status
  BY <1>0, <1>s DEF StopWith
<1>t. ASSUME Throw(p)
      PROVE  /\ run'[p].test = "none" /\ run'[p].stop = "none"
             /\ srv'[p].cancel = srv[p].cancel /\ ~srv'[p].aborting
  BY <1>0, <1>t DEF Throw, ServerRecord
<1>1. CASE AcquireClaim(p)
  <2>1. /\ lc' = lc /\ ex'.result = ex.result
        /\ \/ srv' = srv /\ (\/ Goto(p, "final")
                           \/ run' = [run EXCEPT ![p].pc = "claimed", ![p].gen = ex.gen + 1])
           \/ Throw(p)
    BY <1>0, <1>1 DEF AcquireClaim, Claimed, ExecutionRows
  <2> QED
    BY <1>0, <1>m, <1>t, <2>1
<1>2. CASE Authorize(p)
  BY <1>0, <1>2 DEF Authorize, RecoverOnly, Goto, Throw, ExecutionRows, ServerRecord
<1>3. CASE RecordApprovalSet(p) \/ RecordSupervisor(p) \/ RecordTermination(p)
  BY <1>0, <1>3 DEF RecordApprovalSet, RecordSupervisor, RecordTermination, Goto,
       ExecutionRows
<1>4. CASE Preflight(p)
  BY <1>0, <1>4, <1>r DEF Preflight
<1>5. CASE WriteFile(p)
  <2>1. /\ UNCHANGED <<lc, ex, srv>>
        /\ \/ StopWith(p, "failed")
           \/ \E n : run' = [run EXCEPT ![p].pc = "wrote", ![p].applied = @ \cup {n}]
    BY <1>5 DEF WriteFile
  <2> QED
    BY <1>0, <1>s, <2>1
<1>5a. CASE RecordWrite(p)
  <2>1. PICK n : /\ UNCHANGED <<lc, ex, srv>>
                 /\ \/ StopWith(p, "failed")
                    \/ run' = [run EXCEPT ![p].todo = @ \ {n},
                                ![p].pc = IF run[p].todo = {n} THEN "test" ELSE "write"]
    BY <1>5a DEF RecordWrite
  <2> QED
    BY <1>0, <1>s, <2>1
<1>5b. CASE LaunchSupervisor(p)
  BY <1>0, <1>m, <1>5b DEF LaunchSupervisor
<1>5c. CASE StartTest(p)
  BY <1>0, <1>m, <1>5c DEF StartTest
<1>6. CASE TestEnds(p)
  BY <1>0, <1>6 DEF TestEnds
<1>7. CASE RecordTest(p)
  BY <1>0, <1>7 DEF RecordTest, StopWith, Goto
<1>8. CASE \/ GitCheck(p) \/ UpdateRef(p) \/ UpdateIndex(p) \/ ProveCommit(p)
           \/ CompensateRef(p) \/ CompensateIndex(p)
  BY <1>0, <1>8 DEF GitCheck, UpdateRef, UpdateIndex, ProveCommit, CompensateRef,
       CompensateIndex, GitEnds, StopWith, Goto
<1>9. CASE RecordGit(p)
  <2>1. /\ UNCHANGED <<lc, ex, srv>>
        /\ Goto(p, "observe") \/ StopWith(p, "orphaned") \/ StopWith(p, "failed")
    BY Zenon, <1>9 DEF RecordGit
  <2> QED
    BY <1>0, <2>1 DEF StopWith, Goto
<1>10. CASE ObserveAfter(p)
  BY <1>0, <1>10, <1>r DEF ObserveAfter, StopWith
<1>11. CASE Complete(p)
  BY <1>0, <1>11, <1>r DEF Complete, StopWith
<1>12. CASE FinishStopped(p)
  BY <1>0, <1>12 DEF FinishStopped, Throw, ServerRecord
<1>13. CASE UndoFile(p) \/ RecordUndo(p)
  <2>1. PICK n : /\ UNCHANGED <<lc, ex, srv>>
                 /\ \/ Goto(p, "undone") \/ UndoFails(p, n)
                    \/ run' = [run EXCEPT ![p].todo = @ \ {n}]
                    \/ run' = [run EXCEPT ![p].pc = "undo", ![p].todo = @ \ {n}]
    BY <1>13 DEF UndoFile, RecordUndo
  <2>2. run'[p].test = run[p].test /\ run'[p].stop = run[p].stop
    BY <1>0, <1>m, <2>1 DEF UndoFails
  <2> QED
    BY <2>1, <2>2
<1>14. CASE RecordStopped(p)
  BY <1>0, <1>14, <1>r DEF RecordStopped, StopStatus
<1>15. CASE Reap(p)
  BY <1>0, <1>15 DEF Reap, Goto, Throw, ExecutionRows, ServerRecord
<1>16. CASE Classify(p)
  BY <1>0, <1>16, <1>r DEF Classify, RecoverByUndo, Goto
<1>17. CASE RecordRecoveredGit(p)
  BY <1>0, <1>17 DEF RecordRecoveredGit, Goto
<1>18. CASE CompleteRecovered(p)
  BY <1>0, <1>18, <1>r DEF CompleteRecovered
<1> QED
  BY <1>1, <1>2, <1>3, <1>4, <1>5, <1>5a, <1>5b, <1>5c, <1>6, <1>7, <1>8, <1>9,
       <1>10, <1>11, <1>12, <1>13, <1>14, <1>15, <1>16, <1>17, <1>18 DEF Execute, Recover

(* A step that serves or finalizes: its lifecycle rows, and the place it    *)
(* goes to.                                                                 *)
LEMMA ServerCauses ==
  ASSUME TypeOK, NEW p \in Proc, Serve(p) \/ Finalize(p), TerminalRows, PlaceCause(p)
  PROVE  TerminalRows' /\ PlaceCause(p)'
<1> DEFINE Goal == TerminalRows' /\ PlaceCause(p)'
<1> SUFFICES Goal
  OBVIOUS
<1>0. /\ run \in [Proc -> RunRecord] /\ run[p] \in RunRecord
      /\ srv \in [Proc -> ServerRecord] /\ srv[p] \in ServerRecord
      /\ lc \in LifecycleRows
      /\ Idle.pc = "idle" /\ Idle.test = "none" /\ Idle.stop = "none"
  BY DEF TypeOK, Idle
<1>e. UNCHANGED <<ex, env>>
  <2>1. CASE Serve(p)
    BY <2>1 DEF Serve, Approve, IssueGrants, RecordGrantSet, Cancel, RevokeRunGrants,
         CloseCancelled, Census
  <2>2. CASE Finalize(p)
    BY <2>2 DEF Finalize, FinalObserve, Settle, RecordSuccess
  <2> QED
    BY <2>1, <2>2
<1>g. ASSUME NEW pc, Goto(p, pc)
      PROVE  run'[p].pc = pc /\ run'[p].test = run[p].test /\ run'[p].stop = run[p].stop
  BY <1>0, <1>g DEF Goto, RunRecord
<1>b. ASSUME Return(p) \/ Throw(p)
      PROVE  /\ run'[p] = Idle
             /\ srv'[p].cancel = srv[p].cancel /\ ~srv'[p].aborting
  BY <1>0, <1>b DEF Return, Throw, ServerRecord
(* A step that leaves the rows, and one that returns.                       *)
<1>s. ASSUME lc' = lc, PlaceCause(p)' PROVE Goal
  BY <1>e, <1>s DEF TerminalRows
<1>r. ASSUME lc'.cancel = lc.cancel, Return(p) \/ Throw(p) PROVE PlaceCause(p)'
  BY <1>0, <1>b, <1>r DEF PlaceCause
<1>m. ASSUME NEW pc, Goto(p, pc), srv' = srv, lc'.cancel = lc.cancel,
             lc'.granted \/ pc \in {"idle", "grant", "grantset"}
      PROVE  PlaceCause(p)'
  BY <1>g, <1>m DEF PlaceCause
<1>1. CASE Approve(p)
  <2>1. /\ srv' = srv /\ lc' = [lc EXCEPT !.approved = TRUE]
        /\ Goto(p, IF lc.granted THEN "claim" ELSE "grant")
    BY <1>1 DEF Approve
  <2>2. PlaceCause(p)'
    BY <1>0, <1>m, <2>1 DEF LifecycleRows
  <2> QED
    BY <1>0, <1>e, <2>1, <2>2 DEF TerminalRows, LifecycleRows
<1>2. CASE IssueGrants(p)
  <2>1. lc' = lc /\ (\/ lc.granted /\ Goto(p, "claim") /\ srv' = srv
                     \/ Throw(p)
                     \/ Goto(p, "grantset") /\ srv' = srv)
    BY <1>2 DEF IssueGrants
  <2> QED
    BY <1>m, <1>r, <1>s, <2>1
<1>3. CASE RecordGrantSet(p)
  <2>1. CASE lc' = lc /\ Throw(p)
    BY <1>r, <1>s, <2>1
  <2>2. CASE /\ lc' = [lc EXCEPT !.granted = TRUE] /\ Goto(p, "claim") /\ srv' = srv
             /\ lc.granted \/ lc.terminal = "none"
    <3>1. PlaceCause(p)'
      BY <1>0, <1>m, <2>2 DEF LifecycleRows
    <3> QED
      BY <1>0, <1>e, <2>2, <3>1 DEF TerminalRows, LifecycleRows
  <2> QED
    BY <1>3, <2>1, <2>2 DEF RecordGrantSet
<1>4. CASE Cancel(p)
  <2>1. CASE /\ lc' = [lc EXCEPT !.cancel = TRUE] /\ run' = run
             /\ lc.terminal = "none"
    BY <1>0, <1>e, <2>1 DEF TerminalRows, PlaceCause, LifecycleRows
  <2>2. CASE lc' = lc /\ srv' = srv /\ Goto(p, "final") /\ ex.result # NoResult
    BY <1>m, <1>s, <2>2 DEF TerminalRows
  <2> QED
    BY <1>4, <2>1, <2>2 DEF Cancel
<1>5. CASE RevokeRunGrants(p)
  <2>1. lc' = lc /\ run' = run /\ srv[p].cancel = "revoke"
    BY <1>5 DEF RevokeRunGrants
  <2>2. PlaceCause(p)'
    BY <2>1 DEF PlaceCause
  <2> QED
    BY <1>s, <2>1, <2>2
<1>6. CASE CloseCancelled(p)
  <2>1. /\ run' = run /\ srv[p].cancel = "close" /\ lc.cancel
        /\ lc' = lc \/ (lc' = [lc EXCEPT !.terminal = "cancelled"])
    BY <1>6 DEF CloseCancelled, PlaceCause
  <2> QED
    BY <1>0, <1>e, <2>1 DEF TerminalRows, PlaceCause, LifecycleRows
<1>7. CASE Census(p)
  <2>1. CASE lc' = lc /\ Return(p)
    BY <1>r, <1>s, <2>1
  <2>2. CASE /\ lc' = lc /\ srv' = srv
             /\ \/ Goto(p, "final") /\ ex.result # NoResult
                \/ Goto(p, IF lc.granted THEN "claim" ELSE "grant")
    BY <1>m, <1>s, <2>2 DEF TerminalRows
  <2>3. CASE lc' = lc /\ run' = run /\ lc.cancel
    BY <1>s, <2>3 DEF PlaceCause
  <2>4. CASE lc' = [lc EXCEPT !.terminal = "blocked"] /\ ~lc.granted /\ Return(p)
    <3>1. PlaceCause(p)'
      BY <1>0, <1>r, <2>4 DEF LifecycleRows
    <3> QED
      BY <1>0, <1>e, <2>4, <3>1 DEF TerminalRows, LifecycleRows
  <2> QED
    BY <1>7, <2>1, <2>2, <2>3, <2>4 DEF Census
<1>f. ASSUME run[p].pc \in {"final", "settle", "receipted"} PROVE lc.granted
  BY <1>f DEF PlaceCause
<1>8. CASE FinalObserve(p)
  <2>1. /\ lc' = lc /\ lc.granted
        /\ \/ Return(p) \/ (Goto(p, "receipted") /\ srv' = srv)
           \/ /\ run' = [run EXCEPT ![p].pc = "settle", ![p].rev = CurrentRevision]
              /\ srv' = srv
    BY Zenon, <1>8, <1>f DEF FinalObserve, At
  <2>2. CASE run' = [run EXCEPT ![p].pc = "settle", ![p].rev = CurrentRevision] /\ srv' = srv
    <3>1. run'[p].test = run[p].test /\ run'[p].stop = run[p].stop
      BY <1>0, <2>2 DEF RunRecord
    <3> QED
      BY <1>s, <2>1, <2>2, <3>1 DEF PlaceCause
  <2> QED
    BY <1>m, <1>r, <1>s, <2>1, <2>2
<1>t. ASSUME NEW state, Terminate(p, state),
             state \in {"failed", "timed_out", "cancelled"} => ex.result.status = state,
             state # "blocked"
      PROVE  Goal
  <2>1. CASE lc' = lc /\ Throw(p)
    BY <1>r, <1>s, <2>1
  <2>2. CASE /\ lc' = [lc EXCEPT !.terminal = state] /\ Return(p)
             /\ state = "succeeded" => lc.receipt /\ ~lc.cancel
    <3>1. PlaceCause(p)'
      BY <1>0, <1>r, <2>2 DEF LifecycleRows
    <3> QED
      BY <1>0, <1>e, <1>t, <2>2, <3>1 DEF TerminalRows, LifecycleRows
  <2> QED
    BY <1>t, <2>1, <2>2 DEF Terminate, TerminalAdmissible
<1>9. CASE Settle(p)
  <2>1. \/ Terminate(p, ex.result.status) /\ ex.result.status # "succeeded"
        \/ Terminate(p, "orphaned")
        \/ Throw(p) /\ lc' = lc
        \/ /\ ex.result.status = "succeeded" /\ lc' = [lc EXCEPT !.receipt = TRUE]
           /\ Goto(p, "receipted") /\ srv' = srv
    BY Zenon, <1>9 DEF Settle
  <2>2. ex.result.status # "blocked" /\ lc.granted
    BY <1>9, <1>f DEF TypeOK, ExecutionRows, ResultRow, Status, Stop, Settle, At
  <2>3. CASE /\ ex.result.status = "succeeded" /\ lc' = [lc EXCEPT !.receipt = TRUE]
             /\ Goto(p, "receipted") /\ srv' = srv
    <3>1. PlaceCause(p)'
      BY <1>0, <1>m, <2>2, <2>3 DEF LifecycleRows
    <3> QED
      BY <1>0, <1>e, <2>3, <3>1 DEF TerminalRows, LifecycleRows
  <2> QED
    BY <1>t, <1>r, <1>s, <2>1, <2>2, <2>3
<1>10. CASE RecordSuccess(p)
  BY <1>t, <1>10 DEF RecordSuccess
<1> QED
  BY <1>1, <1>2, <1>3, <1>4, <1>5, <1>6, <1>7, <1>8, <1>9, <1>10 DEF Serve, Finalize

(* Every step keeps what terminals and places say.                          *)
LEMMA TerminalStep ==
  ASSUME TypeOK, TerminalInv, [Next]_vars
  PROVE  TerminalInv'
<1> USE DEF TerminalInv
<1>1. ASSUME NEW p \in Proc, Serve(p) \/ Execute(p) \/ Recover(p) \/ Finalize(p)
      PROVE  TerminalInv'
  <2>1. TerminalRows' /\ PlaceCause(p)'
    <3>1. CASE Serve(p) \/ Finalize(p)
      BY <3>1, ServerCauses
    <3>2. CASE Execute(p) \/ Recover(p)
      <4>0. /\ lc' = lc
            /\ ex'.result = ex.result \/
                 (/\ ex.result = NoResult
                  /\ ex'.result.status = "cancelled" => run[p].stop = "cancelled")
            /\ srv'[p] = srv[p] \/ (srv'[p].cancel = srv[p].cancel /\ ~srv'[p].aborting)
            /\ run'[p].test = "cancelled" => run[p].test = "cancelled" \/ srv[p].aborting
            /\ run'[p].stop = "cancelled" =>
                 run[p].stop = "cancelled" \/ run[p].test = "cancelled"
        BY <3>2, DriverCauses
      <4>1. run[p].pc \notin {"idle", "grant", "grantset"}
        BY <3>2 DEF Execute, Recover, At, AcquireClaim, Authorize, RecordApprovalSet,
             Preflight, WriteFile, RecordWrite, LaunchSupervisor, RecordSupervisor,
             StartTest, TestEnds, RecordTermination, RecordTest, GitCheck, UpdateRef,
             UpdateIndex, ProveCommit, CompensateRef, CompensateIndex, RecordGit,
             ObserveAfter, Complete, FinishStopped, UndoFile, RecordUndo, RecordStopped,
             Reap, Classify, RecordRecoveredGit, CompleteRecovered
      <4>2. lc.granted /\ lc' = lc
        BY <4>0, <4>1 DEF PlaceCause
      <4>3. PlaceCause(p)'
        BY <4>0, <4>2 DEF PlaceCause
      <4>4. NoResult.status = "none"
        BY DEF NoResult
      <4>5. TerminalRows'
        BY <4>0, <4>2, <4>4 DEF TerminalRows, PlaceCause
      <4> QED
        BY <4>3, <4>5
    <3> QED
      BY <1>1, <3>1, <3>2
  <2>2. ASSUME NEW q \in Proc, q # p PROVE PlaceCause(q)'
    <3>1. /\ run'[q] = run[q] /\ srv'[q] = srv[q]
          /\ lc.cancel => lc'.cancel
          /\ lc.granted => lc'.granted
      BY <1>1, <2>2, RunTypes, IntentsKept DEF TypeOK
    <3> QED
      BY <3>1 DEF PlaceCause
  <2> QED
    BY <2>1, <2>2
<1>2. ASSUME NEW p \in Proc, Crash(p) PROVE TerminalInv'
  <2>1. /\ run'[p] = Idle /\ srv'[p] = [Fresh EXCEPT !.state = "dead"]
        /\ \A q \in Proc : q # p => run'[q] = run[q] /\ srv'[q] = srv[q]
        /\ UNCHANGED <<lc, ex, env>>
    BY <1>2 DEF Crash, TypeOK
  <2>2. /\ Idle.pc = "idle" /\ Idle.test = "none" /\ Idle.stop = "none"
        /\ [Fresh EXCEPT !.state = "dead"].cancel = "none"
        /\ ~[Fresh EXCEPT !.state = "dead"].aborting
    BY DEF Idle, Fresh
  <2>3. TerminalRows' /\ PlaceCause(p)'
    BY <2>1, <2>2 DEF TerminalRows, PlaceCause
  <2> QED
    BY <2>1, <2>3 DEF PlaceCause
<1>3. ASSUME NEW p \in Proc, Start(p) PROVE TerminalInv'
  <2>1. \A q \in Proc : srv'[q].cancel = srv[q].cancel /\ srv'[q].aborting = srv[q].aborting
    BY <1>3 DEF Start, TypeOK, ServerRecord
  <2> QED
    BY <1>3, <2>1 DEF Start, TerminalRows, PlaceCause
<1>4. ASSUME UNCHANGED <<lc, srv, run>>, ex'.result = ex.result, env'.ran = env.ran
      PROVE  TerminalInv'
  BY <1>4 DEF TerminalRows, PlaceCause
<1>5. CASE \/ \E n \in File, image \in Image : ForeignEdit(n, image)
           \/ ForeignGit \/ Expire \/ LeaseExpires \/ ChildExits \/ UNCHANGED vars
  <2>1. /\ UNCHANGED <<lc, srv, run>>
        /\ ex' = ex \/ ex' = [ex EXCEPT !.live = FALSE]
        /\ \/ env' = env \/ env' = [env EXCEPT !.edits = @ + 1]
           \/ \E n \in File :
                env' = [env EXCEPT !.edits = @ + 1, !.touched = @ \cup {n}]
    BY <1>5 DEF ForeignEdit, ForeignGit, Expire, LeaseExpires, ChildExits, vars
  <2>2. ex'.result = ex.result /\ env'.ran = env.ran
    BY <2>1 DEF TypeOK, ExecutionRows, History
  <2> QED
    BY <1>4, <2>1, <2>2
<1> QED
  BY <1>1, <1>2, <1>3, <1>5 DEF Next, Surroundings

(* At first there is no terminal and no result.                             *)
LEMMA TerminalInit == Init => TerminalInv
  BY DEF Init, TerminalInv, TerminalRows, PlaceCause, Idle, Fresh, NoResult

(* The rows and places of every state.                                      *)
LEMMA TerminalInvariant == Spec => []TerminalInv
<1>1. TypeOK /\ TerminalInv /\ [Next]_vars => TerminalInv'
  BY TerminalStep
<1> QED
  BY <1>1, TerminalInit, ProjectTypeCorrect, PTL DEF Spec

(* What the user is told at the end, by whichever process, is true of the   *)
(* project: a failed or timed out change left no file, a successful one is  *)
(* whole and was not cancelled, a cancelled one was, and a blocked one never *)
(* had an effect (finalizeResult, the startup census).                      *)
THEOREM TerminalTells == Spec => []TerminalIsTrue
<1>1. TerminalInv /\ TruthInv => TerminalIsTrue
  BY DEF TerminalInv, TerminalRows, TruthInv, FailureRestores, SuccessIsReal,
       TerminalIsTrue
<1> QED
  BY <1>1, TerminalInvariant, TruthInvariant, PTL

------------------------------------------------------------------------------
(* The work.                                                                *)

(* What is left of the change in the project.                               *)
Left == Holding("after") \cup (IF ws.head = "commit" THEN {0} ELSE {})

(* p is on its way forward.                                                 *)
Ahead(p) == Driving(p) /\ run[p].pc \notin Backward \cup {"claimed"}

WorkRows ==
  /\ env.ran[Git] = 1 => lc.commit
  /\ ws.head = "other" \/ env.touched # {} => env.edits > 0
  /\ \A n \in File : fx[Write(n)] = "succeeded" => env.ran[Write(n)] = 1
  /\ grants # "consumed" => \A n \in File : env.ran[Write(n)] = 0

(* What the place of a driver says about the writes, and about what comes   *)
(* next.                                                                    *)
WorkPlace(p) ==
  LET pc == run[p].pc IN
  /\ pc \in {"consumed", "preflight"} => \A n \in File : env.ran[Write(n)] = 0
  /\ pc = "write" =>
       \A n \in File : env.ran[Write(n)] = IF n \in run[p].todo THEN 0 ELSE 1
  /\ pc = "wrote" =>
       \A n \in File : env.ran[Write(n)] = IF n \in run[p].todo \ First(run[p].todo) THEN 0 ELSE 1
  /\ pc \in Written => \A n \in File : env.ran[Write(n)] = 1
  /\ pc = "commit" => lc.commit /\ env.ran[Test] = 1
  /\ pc \in {"tested", "terminated"} => run[p].test \in Status
  /\ pc \in Undoing \cup {"stopped"} => run[p].stop \in Stop

WorkInv == WorkRows /\ \A p \in Proc : WorkPlace(p)

------------------------------------------------------------------------------
(* The contract's view.                                                     *)

LEMMA Verdicts ==
  /\ ex.result.status = "succeeded" => Verdict = "done"
  /\ ex.result.status = "orphaned" => Verdict = "doubt"
  /\ ex.result.status = "none" => Verdict = "none"
  /\ ex.result.status \notin {"succeeded", "orphaned", "none"} => Verdict = "undone"
  BY DEF Verdict

LEMMA NextVerdicts ==
  /\ ex'.result.status = "succeeded" => Verdict' = "done"
  /\ ex'.result.status = "orphaned" => Verdict' = "doubt"
  /\ ex'.result.status = "none" => Verdict' = "none"
  /\ ex'.result.status \notin {"succeeded", "orphaned", "none"} => Verdict' = "undone"
  BY DEF Verdict

LEMMA VerdictKept == ex'.result = ex.result => Verdict' = Verdict
  BY DEF Verdict

(* If nobody else drives, the place of p decides on the stage.              *)
LEMMA StageOf ==
  ASSUME NEW p \in Proc, \A q \in Proc : q # p => ~Driving(q)
  PROVE  Stage = IF ex.result # NoResult THEN "settled"
                 ELSE IF grants # "consumed" THEN "closed"
                 ELSE IF Ahead(p) THEN "forward" ELSE "backward"
  BY DEF Stage, Ahead

LEMMA NextStageOf ==
  ASSUME NEW p \in Proc, \A q \in Proc : q # p => ~Driving(q)'
  PROVE  Stage' = IF ex'.result # NoResult THEN "settled"
                  ELSE IF grants' # "consumed" THEN "closed"
                  ELSE IF Ahead(p)' THEN "forward" ELSE "backward"
  BY DEF Stage, Ahead, NoResult, PlanRevision

(* Nothing that the contract sees changes.                                  *)
LEMMA Unseen ==
  ASSUME Stage' = Stage, env'.ran = env.ran, env'.edits = env.edits, lc'.commit = lc.commit,
         Left' = Left, ex'.result = ex.result
  PROVE  [Contract!Next]_Contract!vars
<1>1. UNCHANGED Contract!vars
  BY VerdictKept DEF Contract!vars, Left
<1> QED
  BY <1>1

LEMMA SeenTurnBack ==
  ASSUME Stage = "forward", Stage' = "backward", env'.ran = env.ran, env'.edits = env.edits,
         lc'.commit = lc.commit, Left' = Left, ex'.result = ex.result
  PROVE  [Contract!Next]_Contract!vars
<1>1. Contract!TurnBack
  BY VerdictKept DEF Contract!TurnBack, Left
<1> QED
  BY <1>1 DEF Contract!Next

LEMMA SeenUndo ==
  ASSUME NEW n \in File \cup {0}, Stage = "backward" \/ (Stage = "forward" /\ n = 0),
         n \in Left, Left' = Left \ {n},
         Stage' = Stage, env'.ran = env.ran, env'.edits = env.edits, lc'.commit = lc.commit,
         ex'.result = ex.result
  PROVE  [Contract!Next]_Contract!vars
<1>1. Contract!Undo(n)
  BY VerdictKept DEF Contract!Undo, Left
<1> QED
  BY <1>1 DEF Contract!Next, Contract!File, File

(* The first effects of the driver: e was not performed, and is now.        *)
LEMMA SeenPerform ==
  ASSUME TypeOK, NEW e \in Forward, env' = Counted(e), env.ran[e] = 0,
         Stage = "forward", Stage' = "forward", lc'.commit = lc.commit,
         ex'.result = ex.result
  PROVE  Contract!Perform(e)
<1>1. env.ran \in [Forward -> 0..2] /\ env \in History
  BY DEF TypeOK, History
<1>2. env'.ran = [env.ran EXCEPT ![e] = 1] /\ env'.edits = env.edits
  BY <1>1 DEF Counted, History
<1> QED
  BY <1>2, VerdictKept DEF Contract!Perform, Contract!Done

LEMMA SeenMeddle ==
  ASSUME Stage' = Stage, env'.ran = env.ran, env'.edits > 0, lc'.commit = lc.commit,
         Left' \in {Left} \cup {Left \ {n} : n \in Left}, ex'.result = ex.result
  PROVE  [Contract!Next]_Contract!vars
<1>1. Contract!Meddle
  BY VerdictKept DEF Contract!Meddle, Left
<1> QED
  BY <1>1 DEF Contract!Next

LEMMA SeenSettle ==
  ASSUME Stage \in {"forward", "backward"}, Stage' = "settled", env'.ran = env.ran,
         env'.edits = env.edits, lc'.commit = lc.commit, Left' = Left,
         NEW v \in {"done", "undone", "doubt"}, Verdict' = v, Contract!Truthful(v)
  PROVE  [Contract!Next]_Contract!vars
<1>1. Contract!Settle(v)
  BY DEF Contract!Settle, Left
<1> QED
  BY <1>1 DEF Contract!Next

------------------------------------------------------------------------------
(* The driver.                                                              *)

(* The execution does not write the lifecycle's rows.                       *)
LEMMA DriverLeavesPlan ==
  ASSUME NEW p \in Proc, Execute(p) \/ Recover(p) PROVE lc' = lc
  BY DEF Execute, Recover, AcquireClaim, Authorize,
       RecordApprovalSet, Preflight, WriteFile, RecordWrite, LaunchSupervisor,
       RecordSupervisor, StartTest, TestEnds, RecordTermination, RecordTest, GitCheck,
       UpdateRef, UpdateIndex, ProveCommit, CompensateRef, CompensateIndex, RecordGit,
       ObserveAfter, Complete, FinishStopped, UndoFile, RecordUndo, RecordStopped, Reap,
       Classify, RecordRecoveredGit, CompleteRecovered

(* Nothing of the change is left, but for a commit that others edited.      *)
Withdrawn == Holding("after") = {} /\ (ws.head = "commit" => env.touched # {})

(* A result settles the change if the driver knows what it says.            *)
LEMMA SeenResult ==
  ASSUME TypeOK, EffectRows, WorkRows, NEW p \in Proc, DriverMoves(p), Mine(p),
         run[p].pc # "claimed", UNCHANGED <<lc, fx, grants, env>>, Left' = Left,
         NEW status \in Status, NEW git, NEW rev, RecordResult(p, status, git, rev),
         status = "succeeded" => Spared \subseteq Holding("after"),
         status \in {"failed", "cancelled", "timed_out"} => Withdrawn
  PROVE  [Contract!Next]_Contract!vars
<1>1. /\ ws \in Workspace /\ env \in History /\ ex \in ExecutionRows /\ lc \in LifecycleRows
      /\ fx \in [Effect -> {"none", "succeeded", "failed"}]
      /\ Holding("after") \subseteq File
  BY DEF TypeOK, Holding
<1>2. ex.result = NoResult /\ grants = "consumed" /\ Driving(p)
  BY DEF Mine, PlaceInv, DriverMoves, Driving
<1>3. ex'.result.status = status /\ ex'.result # NoResult
  <2>1. ex'.result.status = status
    BY <1>1 DEF RecordResult, ExecutionRows
  <2>2. NoResult.status = "none" /\ status # "none"
    BY DEF NoResult, Status, Stop
  <2> QED
    BY <2>1, <2>2
<1>4. \A q \in Proc : q # p => ~Driving(q) /\ ~Driving(q)'
  BY DEF DriverMoves, Driving
<1>5. Stage \in {"forward", "backward"}
  BY <1>2, <1>4, StageOf
<1>6. Stage' = "settled"
  <2>1. \A q \in Proc : q # p => ~Driving(q)'
    BY <1>4
  <2> QED
    BY <1>3, <2>1, NextStageOf
<1>7. CASE status = "succeeded"
  <2>1. /\ \A n \in File : env.ran[Write(n)] = 1
        /\ env.ran[Test] = 1 /\ (lc.commit => env.ran[Git] = 1 /\ ws.head # "base")
    BY <1>7 DEF RecordResult, ResultAdmissible, EffectRows, WorkRows
  <2>2. Contract!Truthful("done")
    <3>1. CASE env.edits > 0
      BY <2>1, <3>1 DEF Contract!Truthful, Contract!Done, Contract!File, File
    <3>2. CASE ~(env.edits > 0)
      <4>1. ws.head # "other" /\ env.touched = {}
        BY <3>2 DEF WorkRows
      <4>2. Holding("after") = File
        BY <1>1, <1>7, <4>1 DEF Spared
      <4>3. ws.head = "commit" <=> lc.commit
        BY <1>1, <2>1, <4>1 DEF WorkRows, EffectRows, Workspace
      <4>4. Left = File \cup (IF lc.commit THEN {0} ELSE {})
        BY <4>2, <4>3 DEF Left
      <4> QED
        BY <2>1, <4>4 DEF Contract!Truthful, Contract!Done, Contract!File, File, Left
    <3> QED
      BY <3>1, <3>2
  <2>3. Verdict' = "done"
    BY <1>3, <1>7, NextVerdicts
  <2> QED
    BY <1>5, <1>6, <2>2, <2>3, SeenSettle
<1>8. CASE status = "orphaned"
  <2>1. Verdict' = "doubt"
    BY <1>3, <1>8, NextVerdicts
  <2>2. Contract!Truthful("doubt")
    BY DEF Contract!Truthful
  <2> QED
    BY <1>5, <1>6, <2>1, <2>2, SeenSettle
<1>9. CASE status \in {"failed", "cancelled", "timed_out"}
  <2>1. Verdict' = "undone"
    BY <1>3, <1>9, NextVerdicts
  <2>2. Left = {} \/ (Left = {0} /\ env.edits > 0)
    BY <1>9 DEF Left, Withdrawn, WorkRows
  <2>3. Contract!Truthful("undone")
    BY <2>2 DEF Contract!Truthful, Left
  <2> QED
    BY <1>5, <1>6, <2>1, <2>3, SeenSettle
<1> QED
  BY <1>7, <1>8, <1>9 DEF Status, Stop

(* Every step of the driver keeps what rows and place say of the work, and   *)
(* is a step of the contract or none.                                        *)
LEMMA DriverImplements ==
  ASSUME TypeOK, EffectRows, NEW p \in Proc, PlaceEffects(p), FileRows, PlaceFiles(p),
         DriverMoves(p), Mine(p), WorkRows, WorkPlace(p)
  PROVE  WorkRows' /\ WorkPlace(p)' /\ [Contract!Next]_Contract!vars
<1> DEFINE Goal == WorkRows' /\ WorkPlace(p)' /\ [Contract!Next]_Contract!vars
<1> SUFFICES Goal
  OBVIOUS
<1> USE Effects DEF Undoing
<1>0. /\ run \in [Proc -> RunRecord] /\ run[p] \in RunRecord /\ ws \in Workspace
      /\ ex \in ExecutionRows /\ env \in History /\ Idle.pc = "idle"
      /\ fx \in [Effect -> {"none", "succeeded", "failed"}]
      /\ Holding("after") \subseteq File /\ First(run[p].todo) \subseteq File
      /\ Last(run[p].todo) \subseteq File
  BY DEF TypeOK, Idle, Holding, RunRecord, First, Last
<1>c. /\ ex.result = NoResult /\ Driving(p) /\ lc' = lc
      /\ run[p].pc # "claimed" => grants = "consumed"
      /\ Execute(p) \/ Recover(p)
  BY DriverLeavesPlan DEF Mine, PlaceInv, DriverMoves, Driving
<1>x. /\ \A q \in Proc : q # p => ~Driving(q)
      /\ \A q \in Proc : q # p => ~Driving(q)'
  BY DEF DriverMoves, Driving
<1>y. Stage = IF grants # "consumed" THEN "closed"
              ELSE IF Ahead(p) THEN "forward" ELSE "backward"
  BY <1>c, <1>x, StageOf
<1>z. ex'.result = NoResult =>
        Stage' = IF grants' # "consumed" THEN "closed"
                 ELSE IF Ahead(p)' THEN "forward" ELSE "backward"
  BY <1>x, NextStageOf
<1>a. Ahead(p) <=> run[p].pc \notin Before \cup After \cup Backward \cup {"claimed"}
  BY DEF Ahead, Driving
<1>b. Ahead(p)' <=> run'[p].pc \notin Before \cup After \cup Backward \cup {"claimed"}
  BY DEF Ahead, Driving
(* What the writes did stays known.                                         *)
<1>r. ASSUME env'.ran = env.ran, env'.edits = env.edits, env'.touched = env.touched,
             ws'.head # "other" \/ ws'.head = ws.head, grants' = grants,
             \A n \in File : fx'[Write(n)] = "succeeded" => env.ran[Write(n)] = 1
      PROVE  WorkRows'
  BY <1>c, <1>r DEF WorkRows
<1>w. \A n \in File : fx[Write(n)] = "succeeded" => env.ran[Write(n)] = 1
  BY DEF WorkRows
<1>l. ASSUME ws'.file = ws.file, ws'.head = ws.head PROVE Left' = Left
  BY <1>l DEF Left, Holding
(* Between places of the same direction nothing is seen.                    *)
<1>u. ASSUME UNCHANGED <<grants, env>>, ws'.file = ws.file, ws'.head = ws.head,
             ex'.result = ex.result, Ahead(p)' <=> Ahead(p), WorkPlace(p)',
             \A n \in File : fx'[Write(n)] = "succeeded" => env.ran[Write(n)] = 1
      PROVE  Goal
  BY <1>c, <1>l, <1>r, <1>u, <1>y, <1>z, Unseen
(* A stop turns the change back.                                            *)
<1>t. ASSUME UNCHANGED <<grants, env, ws>>, ex'.result = ex.result, Ahead(p),
             NEW stop \in Stop, StopWith(p, stop),
             \A n \in File : fx'[Write(n)] = "succeeded" => fx[Write(n)] = "succeeded"
      PROVE  Goal
  <2>1. run'[p].pc = "stopped" /\ run'[p].stop = stop
    BY <1>0, <1>t DEF StopWith, RunRecord
  <2>2. WorkPlace(p)'
    BY <1>t, <2>1 DEF WorkPlace, Written, InCommit
  <2>3. ~Ahead(p)' /\ grants = "consumed"
    BY <1>a, <1>b, <1>c, <1>t, <2>1 DEF Backward
  <2> QED
    BY <1>c, <1>l, <1>r, <1>t, <1>w, <1>y, <1>z, <2>2, <2>3, SeenTurnBack
(* The result ends the change.                                              *)
<1>s. ASSUME UNCHANGED <<grants, env, fx>>, ws'.file = ws.file, ws'.head = ws.head,
             run[p].pc # "claimed",
             NEW status \in Status, NEW git, NEW rev, RecordResult(p, status, git, rev),
             status = "succeeded" => Spared \subseteq Holding("after"),
             status \in {"failed", "cancelled", "timed_out"} => Withdrawn
      PROVE  Goal
  <2>1. run'[p].pc = "final"
    BY <1>s, ResultReturns
  <2>2. WorkPlace(p)'
    BY <2>1 DEF WorkPlace, Written, InCommit
  <2> QED
    BY <1>c, <1>l, <1>r, <1>s, <1>w, <2>2, SeenResult
(* Places that say nothing.                                                 *)
<1>n. ASSUME run'[p].pc \in {"idle", "reap", "classify", "regit", "reobserve"}
      PROVE  WorkPlace(p)'
  BY <1>n DEF WorkPlace, Written, InCommit
(* Along the places that have all writes behind them.                       *)
<1>v. ASSUME env' = env, run[p].pc \in Written, run'[p].pc \in Written,
             run'[p].pc \in {"tested", "terminated"} => run'[p].test \in Status,
             run'[p].pc = "commit" => lc.commit /\ env.ran[Test] = 1
      PROVE  WorkPlace(p)' /\ Ahead(p)' /\ Ahead(p)
  <2>1. run'[p].pc \notin {"consumed", "preflight", "write", "wrote", "stopped"} \cup Undoing
    BY <1>v DEF Written, InCommit
  <2>2. WorkPlace(p)'
    BY <1>c, <1>v, <2>1 DEF WorkPlace
  <2> QED
    BY <1>a, <1>b, <1>v, <2>2 DEF Written, InCommit, Before, After, Backward
<1>2. CASE Authorize(p)
  <2>0. /\ ex'.result = ex.result /\ UNCHANGED <<ws, env, fx>> /\ run[p].pc = "claimed"
        /\ ~Ahead(p)
    BY <1>0, <1>2, <1>a DEF Authorize, ExecutionRows, At
  <2>1. CASE AlreadyConsumed
    <3>1. run'[p].pc = "reap" /\ UNCHANGED grants
      BY <1>0, <1>2, <2>1 DEF Authorize, RecoverOnly, Goto, RunRecord
    <3>2. ~Ahead(p)'
      BY <1>b, <3>1 DEF Backward
    <3> QED
      BY <1>n, <1>u, <1>w, <2>0, <3>1, <3>2
  <2>2. CASE ~AlreadyConsumed /\ grants = "issued" /\ ~expired
    <3>1. run'[p].pc = "consumed" /\ grants' = "consumed" /\ grants # "consumed"
      BY <1>0, <1>2, <2>2 DEF Authorize, Goto, RunRecord
    <3>2. Stage = "closed" /\ Stage' = "forward"
      BY <1>b, <1>c, <1>y, <1>z, <2>0, <3>1 DEF Before, After, Backward
    <3>3. Contract!Open
      BY <1>c, <1>l, <2>0, <3>2, VerdictKept DEF Contract!Open, Left
    <3>4. \A n \in File : env.ran[Write(n)] = 0
      BY <3>1 DEF WorkRows
    <3>5. WorkPlace(p)'
      BY <2>0, <3>1, <3>4 DEF WorkPlace, Written, InCommit
    <3>6. WorkRows'
      BY <1>c, <2>0, <3>1 DEF WorkRows
    <3> QED
      BY <3>3, <3>5, <3>6 DEF Contract!Next
  <2>3. CASE ~AlreadyConsumed /\ (grants # "issued" \/ expired)
    <3>1. run'[p].pc = "idle" /\ UNCHANGED grants
      BY <1>0, <1>2, <2>3 DEF Authorize, Throw
    <3>2. ~Ahead(p)'
      BY <1>b, <3>1 DEF Before
    <3> QED
      BY <1>n, <1>u, <1>w, <2>0, <3>1, <3>2
  <2> QED
    BY <2>1, <2>2, <2>3
<1>3. CASE RecordApprovalSet(p)
  <2>1. /\ run[p].pc = "consumed" /\ run'[p].pc = "preflight"
        /\ UNCHANGED <<grants, ws, env, fx>> /\ ex'.result = ex.result
    BY <1>0, <1>3 DEF RecordApprovalSet, Goto, At, RunRecord, ExecutionRows
  <2>2. WorkPlace(p)'
    BY <2>1 DEF WorkPlace, Written, InCommit
  <2>3. Ahead(p) /\ Ahead(p)'
    BY <1>a, <1>b, <2>1 DEF Before, After, Backward
  <2> QED
    BY <1>u, <1>w, <2>1, <2>2, <2>3
<1>4. CASE Preflight(p)
  <2>0. run[p].pc = "preflight" /\ UNCHANGED <<grants, fx, ws, env>>
    BY <1>4 DEF Preflight, At
  <2>1. Withdrawn
    BY <2>0 DEF PlaceFiles, PlaceEffects, EffectRows, BeforeCommit, BeforeTest, Preparing,
       Withdrawn
  <2>2. CASE RecordResult(p, "failed", "none", PlanRevision)
    BY <1>s, <2>0, <2>1, <2>2 DEF Status, Stop
  <2>3. CASE run' = [run EXCEPT ![p].pc = "write", ![p].todo = File] /\ UNCHANGED ex
    <3>1. run'[p].pc = "write" /\ run'[p].todo = File
      BY <1>0, <2>3 DEF RunRecord
    <3>2. WorkPlace(p)'
      BY <2>0, <3>1 DEF WorkPlace, Written, InCommit
    <3>3. Ahead(p) /\ Ahead(p)'
      BY <1>a, <1>b, <2>0, <3>1 DEF Before, After, Backward
    <3> QED
      BY <1>u, <1>w, <2>0, <2>3, <3>2, <3>3
  <2> QED
    BY <1>4, <2>2, <2>3 DEF Preflight
<1>5. CASE WriteFile(p)
  <2>0. /\ run[p].pc = "write" /\ UNCHANGED <<grants, ex>> /\ grants = "consumed"
        /\ Ahead(p)
    BY <1>5, <1>a, <1>c DEF WriteFile, At, Before, After, Backward
  <2>1. PICK n \in First(run[p].todo) :
          \/ StopWith(p, "failed") /\ UNCHANGED <<ws, env, fx>>
          \/ StopWith(p, "failed") /\ fx' = [fx EXCEPT ![Write(n)] = "failed"]
             /\ UNCHANGED <<ws, env>>
          \/ /\ ws' = [ws EXCEPT !.file[n] = "after"] /\ env' = Counted(Write(n))
             /\ run' = [run EXCEPT ![p].pc = "wrote", ![p].applied = @ \cup {n}]
             /\ UNCHANGED fx
    BY <1>5 DEF WriteFile
  <2>2. /\ n \in File /\ n \in run[p].todo /\ \A m \in run[p].todo : n <= m
    BY <1>0, <2>1 DEF First
  <2>3. CASE StopWith(p, "failed") /\ UNCHANGED <<ws, env, fx>>
    BY <1>t, <2>0, <2>3 DEF Stop
  <2>4. CASE /\ StopWith(p, "failed") /\ fx' = [fx EXCEPT ![Write(n)] = "failed"]
             /\ UNCHANGED <<ws, env>>
    <3>1. \A m \in File : fx'[Write(m)] = "succeeded" => fx[Write(m)] = "succeeded"
      BY <1>0, <2>2, <2>4
    <3> QED
      BY <1>t, <2>0, <2>4, <3>1 DEF Stop
  <2>5. CASE /\ ws' = [ws EXCEPT !.file[n] = "after"] /\ env' = Counted(Write(n))
             /\ run' = [run EXCEPT ![p].pc = "wrote", ![p].applied = @ \cup {n}]
             /\ UNCHANGED fx
    <3>1. /\ Holding("after")' = Holding("after") \cup {n} /\ ws'.head = ws.head
      BY <2>2, <2>5, FileChanged DEF Image
    <3>2. run'[p].pc = "wrote" /\ run'[p].todo = run[p].todo
      BY <1>0, <2>5 DEF RunRecord
    <3>3. /\ \A m \in File : env.ran[Write(m)] = IF m \in run[p].todo THEN 0 ELSE 1
          /\ env.ran[Write(n)] = 0
      BY <2>0, <2>2 DEF WorkPlace
    <3>4. /\ \A f \in Forward : f # Write(n) => env'.ran[f] = env.ran[f]
          /\ env'.ran[Write(n)] = 1
          /\ env'.touched = env.touched /\ env'.edits = env.edits
      BY <2>2, <2>5, <3>3, CountedOnce
    <3>5. \A m \in File : m # n => Write(m) # Write(n)
      BY DEF Write
    <3>6. \A m \in File : env'.ran[Write(m)] = IF m = n THEN 1 ELSE env.ran[Write(m)]
      BY <2>2, <3>4, <3>5
    <3>7. run'[p].todo \ First(run'[p].todo) = run[p].todo \ {n}
      BY <1>0, <2>2, <3>2 DEF First, File, RunRecord
    <3>8. WorkPlace(p)'
      <4>1. \A m \in File : env'.ran[Write(m)] =
              IF m \in run'[p].todo \ First(run'[p].todo) THEN 0 ELSE 1
        BY <3>3, <3>6, <3>7
      <4> QED
        BY <3>2, <4>1 DEF WorkPlace, Written, InCommit
    <3>9. WorkRows'
      <4>1. env'.ran[Git] = env.ran[Git]
        BY <2>2, <3>4
      <4>2. \A m \in File : fx'[Write(m)] = "succeeded" => env'.ran[Write(m)] = 1
        BY <1>w, <2>5, <3>6
      <4> QED
        BY <1>c, <2>0, <3>1, <3>4, <4>1, <4>2 DEF WorkRows
    <3>10. Stage = "forward" /\ Stage' = "forward"
      BY <1>b, <1>c, <1>y, <1>z, <2>0, <3>2 DEF Before, After, Backward
    <3>11. Contract!Perform(Write(n))
      BY <1>c, <2>0, <2>2, <2>5, <3>3, <3>10, SeenPerform
    <3>12. Left' = Left \cup {n}
      BY <3>1 DEF Left
    <3>13. \A m \in 1..(n - 1) : env.ran[Write(m)] > 0
      <4>1. \A m \in 1..(n - 1) : m \in File /\ m \notin run[p].todo
        BY <2>2, ConstantsAssumption DEF File
      <4> QED
        BY <3>3, <4>1
    <3>14. Contract!WriteFile(n)
      BY <3>11, <3>12, <3>13 DEF Contract!WriteFile, Contract!Done, Left
    <3> QED
      BY <2>2, <3>8, <3>9, <3>14 DEF Contract!Next, Contract!File, File
  <2> QED
    BY <2>1, <2>3, <2>4, <2>5
<1>6. CASE RecordWrite(p)
  <2>0. /\ run[p].pc = "wrote" /\ UNCHANGED <<grants, ex, ws, env>> /\ Ahead(p)
    BY <1>6, <1>a DEF RecordWrite, At, Before, After, Backward
  <2>1. PICK n \in First(run[p].todo) :
          \/ /\ fx' = [fx EXCEPT ![Write(n)] = "succeeded"]
             /\ run' = [run EXCEPT ![p].todo = @ \ {n},
                              ![p].pc = IF run[p].todo = {n} THEN "test" ELSE "write"]
          \/ fx' = [fx EXCEPT ![Write(n)] = "failed"] /\ StopWith(p, "failed")
    BY <1>6 DEF RecordWrite
  <2>2. /\ n \in File /\ n \in run[p].todo /\ First(run[p].todo) = {n}
    BY <1>0, <2>1 DEF First, File, RunRecord
  <2>3. CASE fx' = [fx EXCEPT ![Write(n)] = "failed"] /\ StopWith(p, "failed")
    <3>1. \A m \in File : fx'[Write(m)] = "succeeded" => fx[Write(m)] = "succeeded"
      BY <1>0, <2>2, <2>3
    <3> QED
      BY <1>t, <2>0, <2>3, <3>1 DEF Stop
  <2>4. CASE /\ fx' = [fx EXCEPT ![Write(n)] = "succeeded"]
             /\ run' = [run EXCEPT ![p].todo = @ \ {n},
                              ![p].pc = IF run[p].todo = {n} THEN "test" ELSE "write"]
    <3>1. /\ run'[p].todo = run[p].todo \ {n}
          /\ run'[p].pc = IF run[p].todo = {n} THEN "test" ELSE "write"
      BY <1>0, <2>4 DEF RunRecord
    <3>2. \A m \in File : env.ran[Write(m)] = IF m \in run[p].todo \ {n} THEN 0 ELSE 1
      BY <2>0, <2>2 DEF WorkPlace
    <3>3. WorkPlace(p)'
      BY <2>0, <3>1, <3>2 DEF WorkPlace, Written, InCommit
    <3>4. \A m \in File : fx'[Write(m)] = "succeeded" => env.ran[Write(m)] = 1
      <4>1. ASSUME NEW m \in File, m # n PROVE fx'[Write(m)] = fx[Write(m)]
        BY <1>0, <2>2, <2>4, <4>1 DEF Write
      <4> QED
        BY <1>w, <2>2, <3>2, <4>1
    <3>5. Ahead(p)'
      BY <1>b, <3>1 DEF Before, After, Backward
    <3> QED
      BY <1>u, <2>0, <3>3, <3>4, <3>5
  <2> QED
    BY <2>1, <2>3, <2>4
<1>7. CASE LaunchSupervisor(p)
  <2>1. /\ run[p].pc = "test" /\ UNCHANGED <<ws, grants, env, ex, fx>>
        /\ \/ run'[p].pc = "gated"
           \/ run'[p].pc = "terminated" /\ run'[p].test = "failed"
    BY <1>0, <1>7 DEF LaunchSupervisor, Goto, At, RunRecord
  <2>2. WorkPlace(p)' /\ Ahead(p) /\ Ahead(p)'
    BY <1>v, <2>1 DEF Written, Status, Stop
  <2> QED
    BY <1>u, <1>w, <2>1, <2>2
<1>8. CASE RecordSupervisor(p)
  <2>1. /\ run[p].pc = "gated" /\ run'[p].pc = "starting" /\ ex'.result = ex.result
        /\ UNCHANGED <<ws, grants, env, fx>>
    BY <1>0, <1>8 DEF RecordSupervisor, Goto, At, RunRecord, ExecutionRows
  <2>2. WorkPlace(p)' /\ Ahead(p) /\ Ahead(p)'
    BY <1>v, <2>1 DEF Written
  <2> QED
    BY <1>u, <1>w, <2>1, <2>2
<1>9. CASE StartTest(p)
  <2>1. /\ run[p].pc = "starting" /\ run'[p].pc = "testing" /\ env' = Counted(Test)
        /\ UNCHANGED <<ws, grants, ex, fx>> /\ grants = "consumed"
    BY <1>0, <1>9, <1>c DEF StartTest, Goto, At, RunRecord
  <2>2. /\ env.ran[Test] = 0 /\ \A n \in File : env.ran[Write(n)] = 1
    BY <2>1 DEF PlaceEffects, BeforeTest, WorkPlace, Written
  <2>3. /\ \A n \in File : env'.ran[Write(n)] = 1
        /\ env'.ran[Git] = env.ran[Git]
        /\ env'.touched = env.touched /\ env'.edits = env.edits
    BY <2>1, <2>2, CountedOnce
  <2>4. Stage = "forward" /\ Stage' = "forward"
    BY <1>a, <1>b, <1>c, <1>y, <1>z, <2>1 DEF Before, After, Backward
  <2>5. Contract!Perform(Test)
    BY <1>c, <2>1, <2>2, <2>4, SeenPerform
  <2>6. Contract!RunTest
    BY <1>l, <2>1, <2>2, <2>5
       DEF Contract!RunTest, Contract!Done, Contract!File, File, Left
  <2>7. WorkPlace(p)'
    BY <2>1, <2>3 DEF WorkPlace, Written, InCommit
  <2>8. WorkRows'
    BY <1>c, <2>1, <2>3 DEF WorkRows
  <2> QED
    BY <2>6, <2>7, <2>8 DEF Contract!Next
<1>10. CASE TestEnds(p)
  <2>0. PICK status \in Status : run' = [run EXCEPT ![p].pc = "tested", ![p].test = status]
    BY <1>10 DEF TestEnds
  <2>1. /\ run[p].pc \in {"starting", "testing"} /\ run'[p].pc = "tested"
        /\ run'[p].test \in Status /\ UNCHANGED <<ws, grants, env, ex, fx>>
    BY <1>0, <1>10, <2>0 DEF TestEnds, At, RunRecord
  <2>2. WorkPlace(p)' /\ Ahead(p) /\ Ahead(p)'
    BY <1>v, <2>1 DEF Written
  <2> QED
    BY <1>u, <1>w, <2>1, <2>2
<1>11. CASE RecordTermination(p)
  <2>1. /\ run[p].pc = "tested" /\ run'[p].pc = "terminated" /\ ex'.result = ex.result
        /\ run'[p].test = run[p].test /\ UNCHANGED <<ws, grants, env, fx>>
    BY <1>0, <1>11 DEF RecordTermination, Goto, At, RunRecord, ExecutionRows
  <2>2. WorkPlace(p)' /\ Ahead(p) /\ Ahead(p)'
    BY <1>v, <2>1 DEF Written, WorkPlace
  <2> QED
    BY <1>u, <1>w, <2>1, <2>2
<1>12. CASE RecordTest(p)
  <2>0. /\ run[p].pc = "terminated" /\ UNCHANGED <<ws, grants, env, ex>>
        /\ \A n \in File : fx'[Write(n)] = fx[Write(n)]
    BY <1>0, <1>12 DEF RecordTest, At
  <2>1. CASE run[p].test # "succeeded" /\ StopWith(p, run[p].test)
    <3>1. run[p].test \in Stop /\ Ahead(p)
      BY <1>a, <2>0, <2>1 DEF WorkPlace, Status, Before, After, Backward
    <3> QED
      BY <1>t, <2>0, <2>1, <3>1
  <2>2. CASE run[p].test = "succeeded" /\ Goto(p, IF lc.commit THEN "commit" ELSE "gitcheck")
    <3>1. run'[p].pc = IF lc.commit THEN "commit" ELSE "gitcheck"
      BY <1>0, <2>2 DEF Goto, RunRecord
    <3>2. env.ran[Test] = 1
      BY <2>0, <2>2 DEF PlaceEffects
    <3>3. WorkPlace(p)' /\ Ahead(p) /\ Ahead(p)'
      BY <1>v, <2>0, <3>1, <3>2 DEF Written
    <3> QED
      BY <1>u, <1>w, <2>0, <3>3
  <2> QED
    BY <1>12, <2>1, <2>2 DEF RecordTest
<1>13. CASE GitCheck(p)
  <2>0. run[p].pc = "gitcheck" /\ UNCHANGED <<ws, grants, env, ex, fx>> /\ Ahead(p)
    BY <1>13, <1>a DEF GitCheck, At, Before, After, Backward
  <2>1. CASE StopWith(p, "failed")
    BY <1>t, <2>0, <2>1 DEF Stop
  <2>2. CASE Goto(p, "observe")
    <3>1. run'[p].pc = "observe"
      BY <1>0, <2>2 DEF Goto, RunRecord
    <3>2. WorkPlace(p)' /\ Ahead(p)'
      BY <1>v, <2>0, <3>1 DEF Written
    <3> QED
      BY <1>u, <1>w, <2>0, <3>2
  <2> QED
    BY <1>13, <2>1, <2>2 DEF GitCheck
<1>14. CASE UpdateRef(p)
  <2>0. run[p].pc = "commit" /\ UNCHANGED <<grants, ex, fx>> /\ grants = "consumed"
    BY <1>14, <1>c DEF UpdateRef, At
  <2>1. CASE ws' = [ws EXCEPT !.head = "commit"] /\ env' = Counted(Git) /\ Goto(p, "index")
    <3>1. run'[p].pc = "index" /\ ws'.head = "commit" /\ ws'.file = ws.file
      BY <1>0, <2>1 DEF Goto, RunRecord, Workspace
    <3>2. /\ env.ran[Git] = 0 /\ env.ran[Test] = 1 /\ lc.commit
          /\ \A n \in File : env.ran[Write(n)] = 1
      BY <2>0 DEF PlaceEffects, BeforeCommit, WorkPlace, Written
    <3>3. /\ \A n \in File : env'.ran[Write(n)] = 1
          /\ env'.touched = env.touched /\ env'.edits = env.edits
      BY <2>1, <3>2, CountedOnce
    <3>4. Stage = "forward" /\ Stage' = "forward"
      BY <1>a, <1>b, <1>c, <1>y, <1>z, <2>0, <3>1 DEF Before, After, Backward
    <3>5. Contract!Perform(Git)
      BY <1>c, <2>0, <2>1, <3>2, <3>4, SeenPerform
    <3>6. Left' = Left \cup {0}
      BY <3>1 DEF Left, Holding
    <3>7. Contract!CommitGit
      BY <3>2, <3>5, <3>6 DEF Contract!CommitGit, Contract!Done, Left
    <3>8. WorkPlace(p)'
      BY <3>1, <3>3 DEF WorkPlace, Written, InCommit
    <3>9. WorkRows'
      BY <1>c, <2>0, <3>1, <3>2, <3>3 DEF WorkRows
    <3> QED
      BY <3>7, <3>8, <3>9 DEF Contract!Next
  <2>2. CASE GitEnds(p, "failed") /\ UNCHANGED <<ws, env>>
    <3>1. run'[p].pc = "gitdone"
      BY <1>0, <2>2 DEF GitEnds, RunRecord
    <3>2. WorkPlace(p)' /\ Ahead(p) /\ Ahead(p)'
      BY <1>v, <2>0, <2>2, <3>1 DEF Written
    <3> QED
      BY <1>u, <1>w, <2>0, <2>2, <3>2
  <2> QED
    BY <1>14, <2>1, <2>2 DEF UpdateRef
<1>15. CASE UpdateIndex(p) \/ ProveCommit(p) \/ CompensateIndex(p)
  <2>1. /\ run[p].pc \in InCommit /\ UNCHANGED <<grants, ex, env, fx>> /\ ws'.file = ws.file
        /\ ws'.head = ws.head
    BY <1>0, <1>15 DEF UpdateIndex, ProveCommit, CompensateIndex, At, InCommit, Workspace
  <2>2. run'[p].pc \in InCommit \cup {"gitdone"}
    BY <1>0, <1>15 DEF UpdateIndex, ProveCommit, CompensateIndex, Goto, GitEnds, RunRecord,
       InCommit
  <2>3. WorkPlace(p)' /\ Ahead(p) /\ Ahead(p)'
    BY <1>v, <2>1, <2>2 DEF Written, InCommit
  <2> QED
    BY <1>u, <1>w, <2>1, <2>3
<1>17. CASE CompensateRef(p)
  <2>0. /\ run[p].pc = "compensate" /\ UNCHANGED <<grants, ex, env, fx>>
        /\ grants = "consumed"
    BY <1>17, <1>c DEF CompensateRef, At
  <2>1. CASE ws.head = "commit" /\ ws' = [ws EXCEPT !.head = "base"] /\ Goto(p, "unindex")
    <3>1. run'[p].pc = "unindex" /\ ws'.head = "base" /\ ws'.file = ws.file
      BY <1>0, <2>1 DEF Goto, RunRecord, Workspace
    <3>2. WorkPlace(p)' /\ Ahead(p) /\ Ahead(p)'
      BY <1>v, <2>0, <3>1 DEF Written, InCommit
    <3>3. Stage = "forward" /\ Stage' = "forward"
      BY <1>c, <1>y, <1>z, <2>0, <3>2
    <3>4. 0 \in Left /\ Left' = Left \ {0}
      <4>1. 0 \notin File
        BY ConstantsAssumption DEF File
      <4> QED
        BY <1>0, <2>1, <3>1, <4>1 DEF Left, Holding
    <3> QED
      BY <1>c, <1>r, <1>w, <2>0, <3>1, <3>2, <3>3, <3>4, SeenUndo
  <2>2. CASE GitEnds(p, "in_doubt") /\ UNCHANGED ws
    <3>1. run'[p].pc = "gitdone"
      BY <1>0, <2>2 DEF GitEnds, RunRecord
    <3>2. WorkPlace(p)' /\ Ahead(p) /\ Ahead(p)'
      BY <1>v, <2>0, <3>1 DEF Written, InCommit
    <3> QED
      BY <1>u, <1>w, <2>0, <2>2, <3>2
  <2> QED
    BY <1>17, <2>1, <2>2 DEF CompensateRef
<1>19. CASE RecordGit(p)
  <2>0. /\ run[p].pc = "gitdone" /\ UNCHANGED <<ws, grants, env, ex>> /\ Ahead(p)
        /\ \A n \in File : fx'[Write(n)] = fx[Write(n)]
    BY <1>0, <1>19, <1>a DEF RecordGit, Committed, At, Before, After, Backward
  <2>1. CASE Goto(p, "observe")
    <3>1. run'[p].pc = "observe"
      BY <1>0, <2>1 DEF Goto, RunRecord
    <3>2. WorkPlace(p)' /\ Ahead(p)'
      BY <1>v, <2>0, <3>1 DEF Written
    <3> QED
      BY <1>u, <1>w, <2>0, <3>2
  <2>2. CASE \E stop \in {"orphaned", "failed"} : StopWith(p, stop)
    BY <1>t, <2>0, <2>2 DEF Stop
  <2> QED
    BY <1>19, <2>1, <2>2 DEF RecordGit, Committed
<1>20. CASE ObserveAfter(p)
  <2>0. run[p].pc = "observe" /\ UNCHANGED <<fx, ws, grants, env>> /\ Ahead(p)
    BY <1>20, <1>a DEF ObserveAfter, At, Before, After, Backward
  <2>1. CASE /\ run' = [run EXCEPT ![p].pc = "complete", ![p].rev = CurrentRevision]
             /\ UNCHANGED ex
    <3>1. run'[p].pc = "complete"
      BY <1>0, <2>1 DEF RunRecord
    <3>2. WorkPlace(p)' /\ Ahead(p)'
      BY <1>v, <2>0, <3>1 DEF Written
    <3> QED
      BY <1>u, <1>w, <2>0, <2>1, <3>2
  <2>2. CASE StopWith(p, "failed") /\ UNCHANGED ex
    BY <1>t, <2>0, <2>2 DEF Stop
  <2>3. CASE RecordResult(p, "orphaned", "committed", PlanRevision)
    BY <1>s, <2>0, <2>3 DEF Status, Stop
  <2> QED
    BY <1>20, <2>1, <2>2, <2>3 DEF ObserveAfter
<1>21. CASE Complete(p)
  <2>0. run[p].pc = "complete" /\ UNCHANGED <<fx, ws, grants, env>> /\ Ahead(p)
    BY <1>21, <1>a DEF Complete, At, Before, After, Backward
  <2>1. CASE /\ Holding("after") = File
             /\ RecordResult(p, "succeeded", run[p].git, run[p].rev)
    BY <1>s, <2>0, <2>1 DEF Spared, Status
  <2>2. CASE StopWith(p, "failed") /\ UNCHANGED ex
    BY <1>t, <2>0, <2>2 DEF Stop
  <2> QED
    BY <1>21, <2>1, <2>2 DEF Complete
<1>h. ASSUME run[p].pc \in Undoing \cup {"stopped"}, run'[p].pc \in Undoing,
             run'[p].stop = run[p].stop, env' = env
      PROVE  WorkPlace(p)' /\ ~Ahead(p) /\ ~Ahead(p)'
  <2>1. WorkPlace(p)'
    BY <1>h DEF WorkPlace, Written, InCommit
  <2> QED
    BY <1>a, <1>b, <1>h, <2>1 DEF Backward
<1>22. CASE FinishStopped(p)
  <2>0. run[p].pc = "stopped" /\ UNCHANGED <<ws, grants, env, ex, fx>>
    BY <1>22 DEF FinishStopped, At
  <2>1. CASE Throw(p)
    <3>1. run'[p].pc = "idle"
      BY <1>0, <2>1 DEF Throw
    <3>2. ~Ahead(p) /\ ~Ahead(p)'
      BY <1>a, <1>b, <2>0, <3>1 DEF Before, Backward
    <3> QED
      BY <1>n, <1>u, <1>w, <2>0, <3>1, <3>2
  <2>2. CASE run' = [run EXCEPT ![p].pc = "undo", ![p].todo = run[p].applied]
    <3>1. run'[p].pc = "undo" /\ run'[p].stop = run[p].stop
      BY <1>0, <2>2 DEF RunRecord
    <3>2. WorkPlace(p)' /\ ~Ahead(p) /\ ~Ahead(p)'
      BY <1>h, <2>0, <3>1
    <3> QED
      BY <1>u, <1>w, <2>0, <3>2
  <2> QED
    BY <1>22, <2>1, <2>2 DEF FinishStopped
<1>f. ASSUME NEW n \in File, UndoFails(p, n)
      PROVE  run'[p].pc = "undo" /\ run'[p].stop = run[p].stop
  BY <1>0, <1>f DEF UndoFails, RunRecord
<1>23. CASE UndoFile(p)
  <2>0. /\ run[p].pc = "undo" /\ UNCHANGED <<grants, env, ex, fx>> /\ grants = "consumed"
    BY <1>23, <1>c DEF UndoFile, At
  <2>1. PICK n \in Last(run[p].todo) :
          \/ /\ Ours(n) /\ ws' = [ws EXCEPT !.file[n] = "before"] /\ Goto(p, "undone")
          \/ /\ run' = [run EXCEPT ![p].todo = @ \ {n}] /\ UNCHANGED ws
          \/ UndoFails(p, n) /\ UNCHANGED ws
    BY <1>23 DEF UndoFile
  <2>2. n \in File
    BY <1>0, <2>1
  <2>3. CASE Ours(n) /\ ws' = [ws EXCEPT !.file[n] = "before"] /\ Goto(p, "undone")
    <3>1. Holding("after")' = Holding("after") \ {n} /\ ws'.head = ws.head
      BY <2>2, <2>3, FileChanged DEF Image
    <3>2. run'[p].pc = "undone" /\ run'[p].stop = run[p].stop
      BY <1>0, <2>3 DEF Goto, RunRecord
    <3>3. WorkPlace(p)' /\ ~Ahead(p) /\ ~Ahead(p)'
      BY <1>h, <2>0, <3>2
    <3>4. Stage = "backward" /\ Stage' = "backward"
      BY <1>c, <1>y, <1>z, <2>0, <3>3
    <3>5. n \in Left /\ Left' = Left \ {n}
      <4>1. n # 0 /\ n \in Holding("after")
        BY <2>2, <2>3, ConstantsAssumption DEF File, Ours, Holding
      <4> QED
        BY <3>1, <4>1 DEF Left
    <3> QED
      BY <1>c, <1>r, <1>w, <2>0, <2>2, <3>1, <3>3, <3>4, <3>5, SeenUndo
  <2>4. CASE run' = [run EXCEPT ![p].todo = @ \ {n}] /\ UNCHANGED ws
    <3>1. run'[p].pc = "undo" /\ run'[p].stop = run[p].stop
      BY <1>0, <2>0, <2>4 DEF RunRecord
    <3> QED
      BY <1>h, <1>u, <1>w, <2>0, <2>4, <3>1
  <2>5. CASE UndoFails(p, n) /\ UNCHANGED ws
    BY <1>f, <1>h, <1>u, <1>w, <2>0, <2>2, <2>5
  <2> QED
    BY <2>1, <2>3, <2>4, <2>5
<1>24. CASE RecordUndo(p)
  <2>0. run[p].pc = "undone" /\ UNCHANGED <<grants, env, ex, ws>>
    BY <1>24 DEF RecordUndo, At
  <2>1. PICK n \in Last(run[p].todo) :
          \/ /\ fx' = [fx EXCEPT ![Undo(n)] = "succeeded"]
             /\ run' = [run EXCEPT ![p].pc = "undo", ![p].todo = @ \ {n}]
          \/ UndoFails(p, n) /\ UNCHANGED fx
    BY <1>24 DEF RecordUndo
  <2>2. n \in File
    BY <1>0, <2>1
  <2>3. \A m \in File : fx'[Write(m)] = fx[Write(m)]
    BY <1>0, <2>1, <2>2 DEF Write, Undo
  <2>4. run'[p].pc = "undo" /\ run'[p].stop = run[p].stop
    BY <1>0, <1>f, <2>1, <2>2 DEF RunRecord
  <2> QED
    BY <1>h, <1>u, <1>w, <2>0, <2>3, <2>4
<1>25. CASE RecordStopped(p)
  <2>0. /\ run[p].pc = "undo" /\ run[p].todo = {} /\ UNCHANGED <<fx, ws, grants, env>>
        /\ RecordResult(p, StopStatus(p), run[p].git, PlanRevision)
    BY <1>25 DEF RecordStopped, At
  <2>1. StopStatus(p) # "orphaned" =>
          Withdrawn /\ StopStatus(p) = run[p].stop
    BY <2>0 DEF StopStatus, PlaceFiles, Withdrawn
  <2>2. StopStatus(p) \in Stop
    BY <2>0 DEF StopStatus, WorkPlace, Stop
  <2>3. StopStatus(p) \in Status /\ StopStatus(p) # "succeeded"
    BY <2>2 DEF Status, Stop
  <2> QED
    BY <1>s, <2>0, <2>1, <2>3
<1>26. CASE Reap(p)
  <2>1. /\ run[p].pc = "reap" /\ run'[p].pc \in {"classify", "idle"}
        /\ UNCHANGED <<grants, ws, env, fx>>
    BY <1>0, <1>26 DEF Reap, Goto, Throw, At, RunRecord
  <2>2. ex'.result = ex.result
    BY <1>0, <1>26 DEF Reap, ExecutionRows
  <2>3. ~Ahead(p) /\ ~Ahead(p)'
    BY <1>a, <1>b, <2>1 DEF Before, Backward
  <2> QED
    BY <1>n, <1>u, <1>w, <2>1, <2>2, <2>3
<1>27. CASE Classify(p)
  <2>0. /\ run[p].pc = "classify" /\ UNCHANGED <<grants, fx, env>>
        /\ ws'.file = ws.file /\ ws'.head = ws.head /\ ~Ahead(p)
    BY <1>0, <1>27, <1>a DEF Classify, At, Workspace, Backward
  <2>1. CASE RecoverByUndo(p) /\ UNCHANGED ex
    <3>1. run'[p].pc = "undo" /\ run'[p].stop = "orphaned"
      BY <1>0, <2>1 DEF RecoverByUndo, RunRecord
    <3>2. WorkPlace(p)'
      BY <3>1 DEF WorkPlace, Written, InCommit, Stop
    <3>3. ~Ahead(p)'
      BY <1>b, <3>1 DEF Backward
    <3> QED
      BY <1>u, <1>w, <2>0, <2>1, <3>2, <3>3
  <2>2. CASE Goto(p, "regit") /\ UNCHANGED ex
    <3>1. run'[p].pc = "regit"
      BY <1>0, <2>2 DEF Goto, RunRecord
    <3>2. ~Ahead(p)'
      BY <1>b, <3>1 DEF Backward
    <3> QED
      BY <1>n, <1>u, <1>w, <2>0, <2>2, <3>1, <3>2
  <2>3. CASE \E git \in GitOutcome : RecordResult(p, "orphaned", git, PlanRevision)
    BY <1>s, <2>0, <2>3 DEF Status, Stop
  <2> QED
    BY <1>27, <2>1, <2>2, <2>3 DEF Classify, GitOutcome
<1>28. CASE RecordRecoveredGit(p)
  <2>1. /\ run[p].pc = "regit" /\ run'[p].pc = "reobserve" /\ UNCHANGED <<ws, env, grants, ex>>
        /\ \A n \in File : fx'[Write(n)] = fx[Write(n)]
    BY <1>0, <1>28 DEF RecordRecoveredGit, Goto, At, RunRecord
  <2>2. ~Ahead(p) /\ ~Ahead(p)'
    BY <1>a, <1>b, <2>1 DEF Backward
  <2> QED
    BY <1>n, <1>u, <1>w, <2>1, <2>2
<1>29. CASE CompleteRecovered(p)
  <2>1. run[p].pc = "reobserve" /\ UNCHANGED <<fx, ws, grants, env>>
    BY <1>29 DEF CompleteRecovered, At
  <2>2. CASE RecordResult(p, "succeeded", "committed", CurrentRevision)
    BY <1>s, <2>1, <2>2 DEF PlaceFiles, Status
  <2>3. CASE RecordResult(p, "orphaned", "committed", PlanRevision)
    BY <1>s, <2>1, <2>3 DEF Status, Stop
  <2> QED
    BY <1>29, <2>2, <2>3 DEF CompleteRecovered
<1>1. CASE AcquireClaim(p)
  BY <1>1, <1>c DEF AcquireClaim, At, Driving, Before
<1> QED
  BY <1>1, <1>2, <1>3, <1>4, <1>5, <1>6, <1>7, <1>8, <1>9, <1>10, <1>11, <1>12, <1>13,
       <1>14, <1>15, <1>17, <1>19, <1>20, <1>21, <1>22, <1>23, <1>24, <1>25, <1>26,
       <1>27, <1>28, <1>29, <1>c DEF Execute, Recover

------------------------------------------------------------------------------
(* Everybody.                                                               *)

(* Places outside the execution say nothing of the work.                    *)
LEMMA NoWorkPlace ==
  ASSUME NEW p \in Proc, run[p].pc \in Before \cup After \cup {"claimed"}
  PROVE  WorkPlace(p)
  BY DEF WorkPlace, Before, After, Written, InCommit, Undoing

LEMMA NextNoWorkPlace ==
  ASSUME NEW p \in Proc, run'[p].pc \in Before \cup After \cup {"claimed"}
  PROVE  WorkPlace(p)'
  BY DEF WorkPlace, Before, After, Written, InCommit, Undoing

(* Who goes forward drives an execution whose authority is spent.           *)
LEMMA StageKept ==
  ASSUME ex'.result = ex.result, grants' = "consumed" <=> grants = "consumed",
         \A q \in Proc : Ahead(q)' <=> Ahead(q)
  PROVE  Stage' = Stage
<1>1. (\E q \in Proc : Ahead(q))' <=> \E q \in Proc : Ahead(q)
  OBVIOUS
<1> QED
  BY <1>1 DEF Stage, Ahead, NoResult, PlanRevision

(* Every step keeps what is said of the work, and is one of the contract or  *)
(* none.                                                                     *)
LEMMA ContractStep ==
  ASSUME TypeOK, DriverInv, ChildInv, EffectInv, TruthInv, WorkInv, [Next]_vars
  PROVE  WorkInv' /\ [Contract!Next]_Contract!vars
<1> USE DEF WorkInv
<1>s. ASSUME UNCHANGED <<env, lc>>, NEW q \in Proc, run'[q] = run[q]
      PROVE  WorkPlace(q)'
  BY <1>s DEF WorkPlace
<1>1. ASSUME NEW p \in Proc, DriverMoves(p)
      PROVE  WorkInv' /\ [Contract!Next]_Contract!vars
  <2>1. WorkRows' /\ WorkPlace(p)' /\ [Contract!Next]_Contract!vars
    BY <1>1, DriverSees, DriverImplements DEF DriverMoves, EffectInv, TruthInv
  <2>2. \A q \in Proc : q # p => WorkPlace(q)'
    BY <1>1, NextNoWorkPlace DEF Driving, DriverMoves
  <2> QED
    BY <2>1, <2>2
<1>2. ASSUME NEW p \in Proc, OutsiderMoves(p)
      PROVE  WorkInv' /\ [Contract!Next]_Contract!vars
  <2>1. /\ UNCHANGED <<fx, ws, env>> /\ (grants' = "consumed" <=> grants = "consumed")
        /\ ex'.result = ex.result /\ lc'.commit = lc.commit
    BY <1>2, ServeLeaves, ServeKeeps, ClaimKeeps, CommitKept DEF OutsiderMoves, AcquireClaim
  <2>2. WorkRows'
    BY <2>1 DEF WorkRows
  <2>3. \A q \in Proc : WorkPlace(q)'
    <3>1. ASSUME NEW q \in Proc, run'[q] = run[q] PROVE WorkPlace(q)'
      BY <2>1, <3>1 DEF WorkPlace
    <3> QED
      BY <1>2, <3>1, NextNoWorkPlace DEF OutsiderMoves, OthersStay
  <2>4. \A q \in Proc : Ahead(q)' <=> Ahead(q)
    BY <1>2 DEF OutsiderMoves, OthersStay, Ahead, Driving
  <2>5. Left' = Left
    BY <2>1 DEF Left, Holding
  <2> QED
    BY <2>1, <2>2, <2>3, <2>4, <2>5, StageKept, Unseen
<1>3. ASSUME NEW p \in Proc, ProcessDies(p)
      PROVE  WorkInv' /\ [Contract!Next]_Contract!vars
  <2>1. UNCHANGED <<fx, ws, env, grants, ex, lc>>
    BY <1>3 DEF ProcessDies, Crash
  <2>2. WorkRows'
    BY <2>1 DEF WorkRows
  <2>3. \A q \in Proc : WorkPlace(q)'
    BY <1>3, <1>s, <2>1, NextNoWorkPlace DEF ProcessDies, OthersStay, Before
  <2>4. Left' = Left
    BY <2>1 DEF Left, Holding
  <2>5. ~Ahead(p)' /\ \A q \in Proc : q # p => (Ahead(q)' <=> Ahead(q))
    BY <1>3 DEF ProcessDies, OthersStay, Ahead, Driving, Before
  <2>6. CASE Ahead(p) /\ ex.result = NoResult /\ grants = "consumed"
    <3>1. \A q \in Proc : q # p => ~Driving(q)
      BY <2>6 DEF DriverInv, Ahead
    <3>2. \A q \in Proc : q # p => ~Driving(q)'
      BY <1>3, <3>1 DEF ProcessDies, OthersStay, Driving
    <3>3. Stage = "forward"
      BY <2>6, <3>1, StageOf
    <3>4. Stage' = "backward"
      BY <2>1, <2>5, <2>6, <3>2, NextStageOf
    <3> QED
      BY <2>1, <2>2, <2>3, <2>4, <3>3, <3>4, SeenTurnBack
  <2>7. CASE ~(Ahead(p) /\ ex.result = NoResult /\ grants = "consumed")
    <3>1. Stage' = Stage
      <4>1. CASE ~Ahead(p)
        BY <2>1, <2>5, <4>1, StageKept
      <4>2. CASE ex.result # NoResult \/ grants # "consumed"
        BY <2>1, <4>2 DEF Stage, NoResult, PlanRevision
      <4> QED
        BY <2>7, <4>1, <4>2
    <3> QED
      BY <2>1, <2>2, <2>3, <2>4, <3>1, Unseen
  <2> QED
    BY <2>6, <2>7
<1>4. ASSUME SurroundingsMove, UNCHANGED <<grants, fx>>, env'.ran = env.ran, env'.edits > 0,
             ws'.head = ws.head \/ ws'.head = "other",
             \E n \in Nat : Holding("after")' = Holding("after") \ {n},
             ws'.head = ws.head \/ Holding("after")' = Holding("after")
      PROVE  WorkInv' /\ [Contract!Next]_Contract!vars
  <2>1. UNCHANGED <<run, lc>> /\ ex'.result = ex.result
    BY <1>4 DEF SurroundingsMove
  <2>2. WorkRows'
    BY <1>4, <2>1 DEF WorkRows
  <2>3. \A q \in Proc : WorkPlace(q)'
    BY <1>4, <2>1 DEF WorkPlace
  <2>4. Stage' = Stage
    <3>1. \A q \in Proc : Ahead(q)' <=> Ahead(q)
      BY <2>1 DEF Ahead, Driving
    <3> QED
      BY <1>4, <2>1, <3>1, StageKept
  <2>5. Left' \in {Left} \cup {Left \ {n} : n \in Left}
    <3>0. 0 \notin Holding("after")
      BY ConstantsAssumption DEF Holding, File
    <3>1. CASE Holding("after")' = Holding("after")
      <4>1. Left' = Left \/ (0 \in Left /\ Left' = Left \ {0})
        BY <1>4, <3>0, <3>1 DEF Left
      <4> QED
        BY <4>1
    <3>2. CASE Holding("after")' # Holding("after")
      <4>1. PICK n \in Nat : Holding("after")' = Holding("after") \ {n}
        BY <1>4
      <4>2. n \in Holding("after") /\ ws'.head = ws.head
        BY <1>4, <3>2, <4>1
      <4>3. n \in Left /\ Left' = Left \ {n}
        BY <3>0, <4>1, <4>2 DEF Left
      <4> QED
        BY <4>3
    <3> QED
      BY <3>1, <3>2
  <2> QED
    BY <1>4, <2>1, <2>2, <2>3, <2>4, <2>5, SeenMeddle
<1>5. ASSUME SurroundingsMove, NEW n \in File, NEW image \in Image, ForeignEdit(n, image)
      PROVE  WorkInv' /\ [Contract!Next]_Contract!vars
  <2>1. /\ Holding("after")' = Holding("after") \ {n} /\ ws'.head = ws.head
        /\ UNCHANGED <<grants, fx>>
    BY <1>5, FileChanged DEF ForeignEdit
  <2>2. env'.edits > 0 /\ env'.ran = env.ran
    BY <1>5 DEF ForeignEdit, TypeOK, History
  <2>3. n \in Nat
    BY ConstantsAssumption DEF File
  <2> QED
    BY <1>4, <1>5, <2>1, <2>2, <2>3
<1>6. ASSUME SurroundingsMove, ForeignGit
      PROVE  WorkInv' /\ [Contract!Next]_Contract!vars
  <2>1. /\ ws'.file = ws.file /\ (ws'.head = ws.head \/ ws'.head = "other")
        /\ UNCHANGED <<grants, fx>>
    BY <1>6 DEF ForeignGit, TypeOK, Workspace
  <2>2. env'.edits > 0 /\ env'.ran = env.ran
    BY <1>6 DEF ForeignGit, TypeOK, History
  <2>3. Holding("after")' = Holding("after")
    BY <2>1, FilesUnchanged
  <2>4. 0 \in Nat /\ Holding("after")' = Holding("after") \ {0}
    BY <2>3, ConstantsAssumption DEF Holding, File
  <2> QED
    BY <1>4, <1>6, <2>1, <2>2, <2>3, <2>4
<1>7. ASSUME SurroundingsMove, UNCHANGED <<fx, ws, env, grants>>
      PROVE  WorkInv' /\ [Contract!Next]_Contract!vars
  <2>1. UNCHANGED <<run, lc>> /\ ex'.result = ex.result
    BY <1>7 DEF SurroundingsMove
  <2>2. WorkInv'
    BY <1>7, <1>s, <2>1 DEF WorkRows
  <2>3. \A q \in Proc : Ahead(q)' <=> Ahead(q)
    BY <2>1 DEF Ahead, Driving
  <2>4. Left' = Left
    BY <1>7 DEF Left, Holding
  <2> QED
    BY <1>7, <2>1, <2>2, <2>3, <2>4, StageKept, Unseen
<1>8. CASE SurroundingsMove
  BY <1>5, <1>6, <1>7, <1>8 DEF SurroundingsMove
<1> QED
  BY <1>1, <1>2, <1>3, <1>8, StepKinds

(* At first nothing was done, and the contract is in its initial state.     *)
LEMMA ContractInit == Init => WorkInv /\ Contract!Init
<1> SUFFICES ASSUME Init PROVE WorkInv /\ Contract!Init
  OBVIOUS
<1>1. \A p \in Proc : run[p].pc = "idle" /\ ~Ahead(p)
  BY DEF Init, Idle, Ahead, Driving, Before
<1>2. /\ env.ran = [e \in Forward |-> 0] /\ env.edits = 0 /\ env.touched = {}
      /\ ws.head = "base" /\ Holding("after") = {} /\ grants = "none"
      /\ ex.result = NoResult /\ lc.commit \in BOOLEAN
      /\ fx = [e \in Effect |-> "none"]
  BY DEF Init, Holding
<1>3. WorkRows
  BY <1>2, Effects DEF WorkRows
<1>4. \A p \in Proc : WorkPlace(p)
  BY <1>1, NoWorkPlace DEF Before
<1>5. Stage = "closed" /\ Left = {}
  BY <1>2 DEF Stage, Left
<1>6. Verdict = "none"
  BY <1>2, Verdicts DEF NoResult
<1>7. Contract!Init
  BY <1>2, <1>5, <1>6 DEF Contract!Init, Left
<1> QED
  BY <1>3, <1>4, <1>7 DEF WorkInv

(* The execution of a project change, with its processes, claims, crashes,  *)
(* recoveries and cancellations, implements the contract: each effect at     *)
(* most once and in order, never forward again after a stop or a crash, one  *)
(* verdict, and a true one (executeProjectChange, recoverOnly).              *)
THEOREM ChangeImplementsContract == Spec => ImplementsContract
<1>1. TypeOK /\ DriverInv /\ ChildInv /\ EffectInv /\ TruthInv /\ WorkInv /\ [Next]_vars
        => WorkInv' /\ [Contract!Next]_Contract!vars
  BY ContractStep
<1>2. Init => WorkInv /\ Contract!Init
  BY ContractInit
<1> QED
  BY <1>1, <1>2, ProjectTypeCorrect, DriverInvariant, ChildInvariant, TruthInvariant,
     PTL DEF Spec, ImplementsContract, Contract!Spec

(* What was worked at is what the places and the rows say.                  *)
LEMMA WorkInvariant == Spec => []WorkInv
<1>1. TypeOK /\ DriverInv /\ ChildInv /\ EffectInv /\ TruthInv /\ WorkInv /\ [Next]_vars
        => WorkInv'
  BY ContractStep
<1> QED
  BY <1>1, ContractInit, ProjectTypeCorrect, DriverInvariant, ChildInvariant,
     TruthInvariant, PTL DEF Spec

------------------------------------------------------------------------------
(* What follows from the contract.                                          *)

(* Each effect of the change was performed at most once, a file only after  *)
(* the files before it, the test only on the whole change, the commit only  *)
(* of a tested change whose plan asks for one.                              *)
InOrder ==
  /\ \A e \in Forward : env.ran[e] <= 1
  /\ \A n \in File : env.ran[Write(n)] = 1 => \A m \in 1..(n - 1) : env.ran[Write(m)] = 1
  /\ env.ran[Test] = 1 => \A n \in File : env.ran[Write(n)] = 1
  /\ env.ran[Git] = 1 => env.ran[Test] = 1 /\ lc.commit

(* The contract keeps the order.                                            *)
LEMMA ContractOrder ==
  ASSUME TypeOK, InOrder, [Contract!Next]_Contract!vars
  PROVE  InOrder'
<1>t. env.ran \in [Forward -> 0..2]
  BY DEF TypeOK, History
<1>s. ASSUME env'.ran = env.ran, lc'.commit = lc.commit PROVE InOrder'
  BY <1>s DEF InOrder
<1>o. \A e \in Forward : env.ran[e] \in {0, 1} /\ (env.ran[e] > 0 => env.ran[e] = 1)
  BY <1>t DEF InOrder
<1>p. ASSUME NEW e \in Forward, Contract!Perform(e)
      PROVE  /\ env.ran[e] = 0 /\ env'.ran[e] = 1 /\ lc'.commit = lc.commit
             /\ \A f \in Forward : f # e => env'.ran[f] = env.ran[f]
             /\ \A f \in Forward : env'.ran[f] <= 1
             /\ \A f \in Forward : env.ran[f] = 1 => env'.ran[f] = 1
  <2>1. /\ ~(env.ran[e] > 0) /\ lc'.commit = lc.commit
        /\ env'.ran = [env.ran EXCEPT ![e] = 1]
    BY <1>p DEF Contract!Perform, Contract!Done
  <2>2. env.ran[e] = 0
    BY <1>o, <2>1
  <2> QED
    BY <1>o, <1>t, <2>1, <2>2
<1>w. \A m \in File : Write(m) \in Forward /\ Write(m) # Test /\ Write(m) # Git
  BY Effects
<1>g. Test \in Forward /\ Git \in Forward /\ Test # Git
  BY Effects
<1>1. ASSUME NEW n \in File, Contract!WriteFile(n) PROVE InOrder'
  <2>1. /\ Contract!Perform(Write(n)) /\ n \in Nat
        /\ \A m \in 1..(n - 1) : m \in File /\ env.ran[Write(m)] > 0
    BY <1>1, ConstantsAssumption DEF Contract!WriteFile, Contract!Done, File
  <2>2. \A m \in 1..(n - 1) : env.ran[Write(m)] = 1
    BY <1>o, <1>w, <2>1
  <2>3. \A m \in 1..(n - 1) : env'.ran[Write(m)] = 1
    BY <1>p, <1>w, <2>1, <2>2
  <2>4. env.ran[Write(n)] = 0 /\ env.ran[Test] # 1 /\ env.ran[Git] # 1
    BY <1>p, <1>w, <2>1 DEF InOrder
  <2>5. env'.ran[Test] # 1 /\ env'.ran[Git] # 1
    BY <1>g, <1>p, <1>w, <2>1, <2>4
  <2>6. ASSUME NEW k \in File, env'.ran[Write(k)] = 1, NEW m \in 1..(k - 1)
        PROVE  env'.ran[Write(m)] = 1
    <3>1. CASE k = n
      BY <2>3, <3>1
    <3>2. CASE k # n
      <4>1. Write(k) # Write(n)
        BY <3>2 DEF Write
      <4>2. env.ran[Write(k)] = 1
        BY <1>p, <1>w, <2>1, <2>6, <4>1
      <4>3. env.ran[Write(m)] = 1 /\ m \in File
        BY <2>6, <4>2, ConstantsAssumption DEF InOrder, File
      <4> QED
        BY <1>p, <1>w, <2>1, <4>3
    <3> QED
      BY <3>1, <3>2
  <2>7. \A e \in Forward : env'.ran[e] <= 1
    BY <1>p, <1>w, <2>1
  <2> QED
    BY <2>5, <2>6, <2>7 DEF InOrder
(* A step that performs the test or the commit leaves the writes.           *)
<1>k. ASSUME NEW e \in {Test, Git}, Contract!Perform(e)
      PROVE  \A n \in File : env'.ran[Write(n)] = env.ran[Write(n)]
  BY <1>g, <1>k, <1>p, <1>w
<1>r. \A n \in File : \A m \in 1..(n - 1) : m \in File
  BY ConstantsAssumption DEF File
<1>2. ASSUME Contract!RunTest PROVE InOrder'
  <2>1. Contract!Perform(Test) /\ \A n \in File : env.ran[Write(n)] > 0
    BY <1>2 DEF Contract!RunTest, Contract!Done, Contract!File, File
  <2>2. \A n \in File : env'.ran[Write(n)] = 1
    BY <1>k, <1>o, <1>w, <2>1
  <2>3. env'.ran[Git] # 1
    BY <1>g, <1>p, <2>1 DEF InOrder
  <2>4. \A e \in Forward : env'.ran[e] <= 1
    BY <1>g, <1>p, <2>1
  <2> QED
    BY <1>r, <2>2, <2>3, <2>4 DEF InOrder
<1>3. ASSUME Contract!CommitGit PROVE InOrder'
  <2>1. Contract!Perform(Git) /\ env.ran[Test] > 0 /\ lc.commit
    BY <1>3 DEF Contract!CommitGit, Contract!Done
  <2>2. env.ran[Test] = 1 /\ env'.ran[Test] = 1 /\ lc'.commit
    BY <1>g, <1>o, <1>p, <2>1
  <2>3. \A n \in File : env'.ran[Write(n)] = 1
    BY <1>k, <2>1, <2>2 DEF InOrder
  <2>4. \A e \in Forward : env'.ran[e] <= 1
    BY <1>g, <1>p, <2>1
  <2> QED
    BY <1>r, <2>2, <2>3, <2>4 DEF InOrder
<1>4. CASE \/ Contract!Open \/ Contract!TurnBack \/ Contract!Meddle
           \/ (\E n \in File \cup {0} : Contract!Undo(n))
           \/ (\E v \in {"done", "undone", "doubt"} : Contract!Settle(v))
           \/ UNCHANGED Contract!vars
  BY <1>s, <1>4 DEF Contract!Open, Contract!TurnBack, Contract!Meddle, Contract!Undo,
     Contract!Settle, Contract!vars
<1> QED
  BY <1>1, <1>2, <1>3, <1>4 DEF Contract!Next, Contract!File, File

(* Whichever servers drive, crash and recover, the effects of a change are   *)
(* performed in order and at most once (executeProjectChange).              *)
THEOREM EffectsInOrder == Spec => []InOrder
<1>1. Init => InOrder
  <2> SUFFICES ASSUME Init PROVE InOrder
    OBVIOUS
  <2>1. \A e \in Forward : env.ran[e] = 0
    BY DEF Init
  <2> QED
    BY <2>1, Effects DEF InOrder
<1>2. TypeOK /\ InOrder /\ [Contract!Next]_Contract!vars => InOrder'
  BY ContractOrder
<1> QED
  BY <1>1, <1>2, ChangeImplementsContract, ProjectTypeCorrect, PTL
     DEF Spec, ImplementsContract, Contract!Spec

(* Nothing of the change is in the project, and none of its effects was     *)
(* performed, before all grants were consumed: an approval that expires, is *)
(* revoked or is cancelled until then leaves the project alone (authorize). *)
THEOREM AuthorityComesFirst ==
  Spec => [](grants # "consumed" =>
               Left = {} /\ \A e \in Forward : env.ran[e] = 0)
<1>1. TypeOK /\ EffectInv /\ TruthInv /\ WorkInv =>
        (grants # "consumed" => Left = {} /\ \A e \in Forward : env.ran[e] = 0)
  <2> SUFFICES ASSUME EffectInv, TruthInv, WorkInv, grants # "consumed"
               PROVE  Left = {} /\ \A e \in Forward : env.ran[e] = 0
    OBVIOUS
  <2>1. Left = {}
    BY DEF EffectInv, EffectRows, TruthInv, FileRows, Left
  <2>2. ASSUME NEW e \in Forward PROVE env.ran[e] = 0
    <3>1. e \in {Test, Git} \/ \E n \in File : e = Write(n)
      BY DEF Forward, Test, Git, Write
    <3> QED
      BY <3>1 DEF EffectInv, EffectRows, WorkInv, WorkRows
  <2> QED
    BY <2>1, <2>2
<1> QED
  BY <1>1, WorkInvariant, ChildInvariant, TruthInvariant, ProjectTypeCorrect, PTL

(* Once a result is recorded it stays, no effect is performed any more, and *)
(* nothing comes into the project that the result does not know of: neither *)
(* a server that was overtaken nor a recovery adds to the change.           *)
THEOREM ResultIsLast ==
  Spec => [][ex.result # NoResult =>
               /\ UNCHANGED <<ex.result, env.ran>> /\ Left' \subseteq Left]_vars
<1> DEFINE Last0 == ex.result # NoResult =>
                     /\ UNCHANGED <<ex.result, env.ran>> /\ Left' \subseteq Left
<1>1. TypeOK /\ [Next]_vars /\ [Contract!Next]_Contract!vars => Last0
  <2> SUFFICES ASSUME TypeOK, [Next]_vars, [Contract!Next]_Contract!vars,
                      ex.result # NoResult
               PROVE  /\ UNCHANGED <<ex.result, env.ran>> /\ Left' \subseteq Left
    OBVIOUS
  <2>1. Stage = "settled"
    BY DEF Stage
  <2>2. env'.ran = env.ran /\ Left' \subseteq Left
    BY <2>1 DEF Contract!Next, Contract!vars, Contract!Open, Contract!WriteFile,
       Contract!RunTest, Contract!CommitGit, Contract!Perform, Contract!TurnBack,
       Contract!Undo, Contract!Settle, Contract!Meddle, Left
  <2>3. ex'.result = ex.result
    <3>1. ASSUME NEW p \in Proc, Execute(p) \/ Recover(p) PROVE ex'.result = ex.result
      BY <3>1, DriverCauses
    <3>2. ASSUME NEW p \in Proc, Serve(p) \/ Finalize(p) PROVE ex' = ex
      BY <3>2 DEF Serve, Approve, IssueGrants, RecordGrantSet, Cancel, RevokeRunGrants,
         CloseCancelled, Census, Finalize, FinalObserve, Settle, RecordSuccess
    <3>3. CASE Surroundings
      <4>1. ex' = ex \/ ex' = [ex EXCEPT !.live = FALSE]
        BY <3>3 DEF Surroundings, ForeignEdit, ForeignGit, Expire, LeaseExpires, ChildExits,
           Start, Crash
      <4> QED
        BY <4>1 DEF TypeOK, ExecutionRows
    <3> QED
      BY <3>1, <3>2, <3>3 DEF Next, vars
  <2> QED
    BY <2>2, <2>3
<1>2. TypeOK /\ [Next]_vars /\ [Contract!Next]_Contract!vars => [Last0]_vars
  BY <1>1
<1> QED
  BY <1>2, ChangeImplementsContract, ProjectTypeCorrect, PTL
     DEF Spec, ImplementsContract, Contract!Spec

------------------------------------------------------------------------------
(* A cancellation without a result.                                         *)

(* A change is closed as cancelled, for want of a result, after its grants  *)
(* were consumed (cancelSmallProjectChange, the startup census).            *)
ClosedUnderAuthority ==
  grants = "consumed" /\ \E p \in Proc : CloseCancelled(p) /\ lc' # lc

(* What was closed without a result has no usable grant any more.           *)
CloseInv ==
  /\ lc.granted => grants # "none"
  /\ lc.terminal = "cancelled" /\ ex.result = NoResult =>
       grants # "consumed" /\ (lc.granted => grants = "revoked")

LEMMA CloseStep ==
  ASSUME TypeOK, TerminalInv, CloseInv, Next, ~ClosedUnderAuthority
  PROVE  CloseInv'
<1> USE DEF CloseInv
<1>t. lc \in LifecycleRows
  BY DEF TypeOK
<1>n. NoResult' = NoResult
  BY DEF NoResult, PlanRevision
(* Nothing that is spoken of changes, or only the terminal to another one.  *)
<1>s. ASSUME lc'.granted = lc.granted, grants' = grants,
             ex'.result = ex.result \/ ex'.result # NoResult,
             lc'.terminal = lc.terminal \/ ex'.result # NoResult \/ lc'.terminal # "cancelled"
      PROVE  CloseInv'
  BY <1>n, <1>s
<1>1. ASSUME NEW p \in Proc, Serve(p) PROVE CloseInv'
  <2>1. CASE Approve(p) \/ Cancel(p)
    <3>1. grants' = grants /\ ex' = ex
          /\ (lc' = lc \/ lc' = [lc EXCEPT !.approved = TRUE] \/ lc' = [lc EXCEPT !.cancel = TRUE])
      BY <2>1 DEF Approve, Cancel
    <3> QED
      BY <1>s, <1>t, <3>1 DEF LifecycleRows
  <2>2. CASE IssueGrants(p)
    <3>1. /\ lc' = lc /\ ex' = ex
          /\ grants' = grants \/ (~lc.granted /\ grants = "none" /\ grants' = "issued")
      BY <2>2 DEF IssueGrants
    <3> QED
      BY <1>n, <3>1
  <2>3. CASE RecordGrantSet(p)
    <3>1. /\ grants' = grants /\ ex' = ex
          /\ \/ lc' = lc
             \/ /\ lc' = [lc EXCEPT !.granted = TRUE]
                /\ lc.granted \/ (grants = "issued" /\ lc.terminal = "none")
      BY <2>3 DEF RecordGrantSet
    <3> QED
      BY <1>n, <1>t, <3>1 DEF LifecycleRows
  <2>4. CASE RevokeRunGrants(p)
    <3>1. lc' = lc /\ ex' = ex /\ grants' = IF grants = "issued" THEN "revoked" ELSE grants
      BY <2>4 DEF RevokeRunGrants, Revoked
    <3> QED
      BY <1>n, <3>1
  <2>5. CASE CloseCancelled(p)
    <3>1. /\ grants' = grants /\ ex' = ex
          /\ \/ lc' = lc
             \/ grants # "issued" /\ lc' = [lc EXCEPT !.terminal = "cancelled"]
      BY <2>5 DEF CloseCancelled
    <3>2. lc' = lc \/ grants # "consumed"
      BY <2>5 DEF ClosedUnderAuthority
    <3>3. grants \in {"none", "issued", "consumed", "revoked"}
      BY DEF TypeOK
    <3> QED
      BY <1>n, <1>t, <3>1, <3>2, <3>3 DEF LifecycleRows
  <2>6. CASE Census(p)
    <3>1. /\ ex' = ex
          /\ \/ lc' = lc /\ grants' = grants
             \/ /\ ~lc.granted /\ lc' = [lc EXCEPT !.terminal = "blocked"]
      BY <2>6 DEF Census
    <3> QED
      BY <1>n, <1>t, <3>1 DEF LifecycleRows
  <2> QED
    BY <1>1, <2>1, <2>2, <2>3, <2>4, <2>5, <2>6 DEF Serve
<1>2. ASSUME NEW p \in Proc, Execute(p) \/ Recover(p) PROVE CloseInv'
  <2>1. /\ lc' = lc /\ (ex'.result = ex.result \/ ex.result = NoResult)
    BY <1>2, DriverCauses
  <2>2. CASE Authorize(p)
    <3>1. lc.granted
      BY <2>2 DEF Authorize, At, TerminalInv, PlaceCause
    <3>2. /\ ex'.result = ex.result
          /\ grants' = grants \/ (grants = "issued" /\ grants' = "consumed")
      BY <2>2 DEF Authorize, TypeOK, ExecutionRows
    <3> QED
      BY <1>n, <2>1, <3>1, <3>2
  <2>3. CASE ~Authorize(p)
    <3>1. grants' = grants
      BY <1>2, <2>3 DEF Execute, Recover, AcquireClaim, RecordApprovalSet, Preflight,
         WriteFile, RecordWrite, LaunchSupervisor, RecordSupervisor, StartTest, TestEnds,
         RecordTermination, RecordTest, GitCheck, UpdateRef, UpdateIndex, ProveCommit,
         CompensateRef, CompensateIndex, RecordGit, ObserveAfter, Complete, FinishStopped,
         UndoFile, RecordUndo, RecordStopped, Reap, Classify, RecordRecoveredGit,
         CompleteRecovered
    <3> QED
      BY <1>n, <2>1, <3>1
  <2> QED
    BY <2>2, <2>3
<1>3. ASSUME NEW p \in Proc, Finalize(p) PROVE CloseInv'
  <2>1. grants' = grants /\ ex' = ex
    BY <1>3 DEF Finalize, FinalObserve, Settle, RecordSuccess
  <2>2. \/ lc' = lc \/ lc' = [lc EXCEPT !.receipt = TRUE]
        \/ lc' = [lc EXCEPT !.terminal = ex.result.status]
        \/ \E state \in {"orphaned", "succeeded"} : lc' = [lc EXCEPT !.terminal = state]
    <3>1. CASE FinalObserve(p)
      BY <3>1 DEF FinalObserve
    <3>2. CASE RecordSuccess(p)
      BY <3>2 DEF RecordSuccess, Terminate
    <3>3. CASE Settle(p)
      <4>1. \/ Terminate(p, ex.result.status) \/ Terminate(p, "orphaned")
            \/ lc' = lc \/ lc' = [lc EXCEPT !.receipt = TRUE]
        BY Zenon, <3>3 DEF Settle
      <4> QED
        BY <4>1 DEF Terminate
    <3> QED
      BY <1>3, <3>1, <3>2, <3>3 DEF Finalize
  <2>3. NoResult.status # "cancelled"
    BY DEF NoResult
  <2>4. /\ lc'.granted = lc.granted
        /\ lc'.terminal = lc.terminal \/ ex.result # NoResult \/ lc'.terminal # "cancelled"
    BY <1>t, <2>2, <2>3 DEF LifecycleRows
  <2> QED
    BY <1>s, <2>1, <2>4
<1>4. CASE Surroundings
  <2>1. /\ UNCHANGED <<lc, grants>> /\ (ex' = ex \/ ex' = [ex EXCEPT !.live = FALSE])
    BY <1>4 DEF Surroundings, ForeignEdit, ForeignGit, Expire, LeaseExpires, ChildExits,
       Start, Crash
  <2>2. ex'.result = ex.result
    BY <2>1 DEF TypeOK, ExecutionRows
  <2> QED
    BY <1>s, <2>1, <2>2
<1> QED
  BY <1>1, <1>2, <1>3, <1>4 DEF Next

(* A change that is reported cancelled without a result is not in the       *)
(* project, and never comes into it, unless it was closed after its grants  *)
(* were consumed, as the startup census and a cancellation through another  *)
(* server do (recoverIncompleteSmallProjectChanges).                        *)
THEOREM CancelledIsCleanUnlessConsumed ==
  Init /\ [][Next /\ ~ClosedUnderAuthority]_vars => []CancelledIsClean
<1>1. Init => CloseInv
  BY DEF Init, CloseInv
<1>2. TypeOK /\ TerminalInv /\ CloseInv /\ [Next /\ ~ClosedUnderAuthority]_vars => CloseInv'
  <2>1. TypeOK /\ TerminalInv /\ CloseInv /\ Next /\ ~ClosedUnderAuthority => CloseInv'
    BY CloseStep
  <2>2. CloseInv /\ UNCHANGED vars => CloseInv'
    BY DEF CloseInv, vars, NoResult, PlanRevision
  <2> QED
    BY <2>1, <2>2
<1>3. [Next /\ ~ClosedUnderAuthority]_vars => [Next]_vars
  OBVIOUS
<1>4. CloseInv /\ (grants # "consumed" => Left = {} /\ \A e \in Forward : env.ran[e] = 0)
        => CancelledIsClean
  <2> SUFFICES ASSUME CloseInv, grants # "consumed" => Left = {},
                      lc.terminal = "cancelled", ex.result = NoResult
               PROVE  Holding("after") = {} /\ ws.head # "commit"
    BY DEF CancelledIsClean
  <2>1. Left = {}
    BY DEF CloseInv
  <2> QED
    BY <2>1 DEF Left
<1> QED
  BY <1>1, <1>2, <1>3, <1>4, AuthorityComesFirst, TerminalInvariant, ProjectTypeCorrect,
     PTL DEF Spec

==============================================================================

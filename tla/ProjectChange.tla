---------------------------- MODULE ProjectChange ----------------------------
(***************************************************************************)
(* One project change, from the user's approval to the lifecycle terminal, *)
(* driven by server processes that crash, restart and overlap.             *)
(*                                                                         *)
(* A plan names the files of the change, one focused test and, if asked,   *)
(* one git commit.  The service records the approval, issues one grant per *)
(* effect, and executes: claim the execution, consume all grants in one    *)
(* transaction, write the files in order, run the test in a supervised     *)
(* process group, commit, and record one parent result; a step that fails  *)
(* stops the execution and restores the files in reverse order.  A process *)
(* that takes the claim of a dead one never runs an effect again: it reaps *)
(* the test, looks at files and HEAD, and either finishes a commit that is *)
(* already there or restores the files.  The lifecycle terminal follows    *)
(* from the result, or from a cancellation.                                *)
(*                                                                         *)
(* The SQL of migrations 078 and 079 is one transaction per statement of   *)
(* the services, so a crash falls between any two of the steps below, and  *)
(* so do the steps of another process and the edits of foreign programs.   *)
(* Cancellation requests run in the same thread as the execution and get a *)
(* turn only where the execution awaits.                                   *)
(***************************************************************************)
EXTENDS Integers, FiniteSets

CONSTANTS
  Proc,         \* server processes, each started at most once
  MaxUp,        \* bound on the processes that are up at once
  Files,        \* number of files of the change
  Covered,      \* files that the workspace revision covers
  MaxForeign,   \* bound on the edits of foreign programs
  NoProc        \* no owner

File == 1..Files

ASSUME ConstantsAssumption ==
  /\ Files \in Nat \ {0}
  /\ Covered \subseteq File
  /\ MaxForeign \in Nat
  /\ MaxUp \in Nat
  /\ NoProc \notin Proc

VARIABLES
  lc,       \* rows of the lifecycle repository
  ex,       \* rows of the execution repository: latest claim, approval set, test process, result
  grants,   \* state of the approval grants of the plan
  fx,       \* effect results: of the other terminals only that they are no success
  ws,       \* the workspace: files, HEAD, index entries of the files, foreign dirt or branch
  child,    \* process group of the focused test
  srv,      \* the server processes
  run,      \* the execution a process drives, with its local variables
  expired,  \* the approval window of the plan has passed
  env       \* history: what foreign programs touched, how often each effect ran

vars == <<lc, ex, grants, fx, ws, child, srv, run, expired, env>>

Image    == {"before", "after", "foreign"}
Revision == [Covered -> Image]
Stop     == {"failed", "cancelled", "timed_out", "orphaned"}
Status   == Stop \cup {"succeeded"}
Forward  == ({"write"} \X File) \cup ({"test", "git"} \X {0})
Effect   == Forward \cup ({"undo"} \X File)
Write(n) == <<"write", n>>
Undo(n)  == <<"undo", n>>
Test     == <<"test", 0>>
Git      == <<"git", 0>>

PlanRevision  == [n \in Covered |-> "before"]
AfterRevision == [n \in Covered |-> "after"]

(* The workspace revision is a digest over the files the policy covers. *)
CurrentRevision == [n \in Covered |-> ws.file[n]]

Holding(image) == {n \in File : ws.file[n] = image}
BaselineExact  == ws.head = "base" /\ ~ws.dirt

NoResult == [status |-> "none", git |-> "none", rev |-> PlanRevision]

Idle == [pc |-> "idle", gen |-> 0, todo |-> {}, applied |-> {}, failed |-> {},
         stop |-> "none", test |-> "none", git |-> "none", rev |-> PlanRevision]

Fresh == [state |-> "new", census |-> FALSE, aborting |-> FALSE, cancel |-> "none"]

Init ==
  /\ \E commit \in BOOLEAN :
       lc = [commit |-> commit, approved |-> FALSE, granted |-> FALSE,
             cancel |-> FALSE, receipt |-> FALSE, terminal |-> "none"]
  /\ ex = [gen |-> 0, owner |-> NoProc, live |-> FALSE, set |-> 0,
           group |-> "none", result |-> NoResult]
  /\ grants = "none"
  /\ fx = [e \in Effect |-> "none"]
  /\ ws = [file |-> [n \in File |-> "before"], head |-> "base", index |-> "base", dirt |-> FALSE]
  /\ child = "none"
  /\ srv = [p \in Proc |-> Fresh]
  /\ run = [p \in Proc |-> Idle]
  /\ expired = FALSE
  /\ env = [touched |-> {}, edits |-> 0, ran |-> [e \in Forward |-> 0]]

Up(p) == srv[p].state = "up"

(* The thread of p runs the execution, not a cancellation. *)
At(p, pc) == Up(p) /\ srv[p].cancel = "none" /\ run[p].pc = pc

Goto(p, pc) == run' = [run EXCEPT ![p].pc = pc]

(* The execution throws; a startup census that ran it will try again. *)
Throw(p) ==
  /\ run' = [run EXCEPT ![p] = Idle]
  /\ srv' = [srv EXCEPT ![p].aborting = FALSE]

(* The execution returns; if the startup census ran it, the census is complete. *)
Return(p) ==
  /\ run' = [run EXCEPT ![p] = Idle]
  /\ srv' = [srv EXCEPT ![p].aborting = FALSE, ![p].census = TRUE]

StopWith(p, status) == run' = [run EXCEPT ![p].pc = "stopped", ![p].stop = status]

Counted(e) == [env EXCEPT !.ran[e] = IF @ < 2 THEN @ + 1 ELSE @]

(* The claim of p is the latest one: older generations are fenced off by SQL. *)
Fenced(p) == run[p].gen = ex.gen /\ ex.result = NoResult

-----------------------------------------------------------------------------
(* The surroundings: foreign programs, clocks, crashes. *)

Foreign == env.edits < MaxForeign

ForeignEdit(n, image) ==
  /\ Foreign /\ image # "after" /\ ws.file[n] # image
  /\ ws' = [ws EXCEPT !.file[n] = image]
  /\ env' = [env EXCEPT !.edits = @ + 1, !.touched = @ \cup {n}]
  /\ UNCHANGED <<lc, ex, grants, fx, child, srv, run, expired>>

(* Somebody commits, switches the branch, or dirties other files. *)
ForeignGit ==
  /\ Foreign
  /\ \/ ws.head # "other" /\ ws' = [ws EXCEPT !.head = "other"]
     \/ ~ws.dirt /\ ws' = [ws EXCEPT !.dirt = TRUE]
  /\ env' = [env EXCEPT !.edits = @ + 1]
  /\ UNCHANGED <<lc, ex, grants, fx, child, srv, run, expired>>

(* Once the grants are consumed nothing but a repeated approval asks for the time. *)
Expire ==
  /\ ~expired /\ grants # "consumed"
  /\ expired' = TRUE
  /\ UNCHANGED <<lc, ex, grants, fx, ws, child, srv, run, env>>

(* The lease is asked for by the next claim only, and there is none after the result. *)
LeaseExpires ==
  /\ ex.live /\ ex.result = NoResult
  /\ ex' = [ex EXCEPT !.live = FALSE]
  /\ UNCHANGED <<lc, grants, fx, ws, child, srv, run, expired, env>>

Start(p) ==
  /\ srv[p].state = "new" /\ Cardinality({q \in Proc : Up(q)}) < MaxUp
  /\ srv' = [srv EXCEPT ![p].state = "up"]
  /\ UNCHANGED <<lc, ex, grants, fx, ws, child, run, expired, env>>

(* A supervisor that lost its parent exits before the start message and     *)
(* signals its group after it; a test may ignore that and run on.           *)
Crash(p) ==
  /\ Up(p)
  /\ srv' = [srv EXCEPT ![p] = [Fresh EXCEPT !.state = "dead"]]
  /\ run' = [run EXCEPT ![p] = Idle]
  /\ child' \in IF ex.owner # p THEN {child}
                ELSE CASE child = "gated"   -> {"gone"}
                       [] child = "running" -> {"running", "gone"}
                       [] OTHER             -> {child}
  /\ UNCHANGED <<lc, ex, grants, fx, ws, expired, env>>

ChildExits ==
  /\ child = "running" /\ \A p \in Proc : run[p].pc # "testing"
  /\ child' = "gone"
  /\ UNCHANGED <<lc, ex, grants, fx, ws, srv, run, expired, env>>

-----------------------------------------------------------------------------
(* The application service: approval, cancellation, startup census. *)

Approve(p) ==
  /\ At(p, "idle") /\ srv[p].census
  /\ lc.terminal = "none" /\ ~lc.cancel
  /\ CurrentRevision = PlanRevision /\ ~expired
  /\ lc' = [lc EXCEPT !.approved = TRUE]
  /\ Goto(p, IF lc.granted THEN "claim" ELSE "grant")
  /\ UNCHANGED <<ex, grants, fx, ws, child, srv, expired, env>>

IssueGrants(p) ==
  /\ At(p, "grant")
  /\ \/ lc.granted /\ Goto(p, "claim") /\ UNCHANGED <<grants, srv>>
     \/ ~lc.granted /\ expired /\ Throw(p) /\ UNCHANGED grants
     \/ /\ ~lc.granted /\ ~expired /\ Goto(p, "grantset")
        /\ grants' = IF grants = "none" THEN "issued" ELSE grants
        /\ UNCHANGED srv
  /\ UNCHANGED <<lc, ex, fx, ws, child, expired, env>>

RecordGrantSet(p) ==
  /\ At(p, "grantset")
  /\ \/ /\ lc.granted \/ (grants = "issued" /\ ~expired /\ ~lc.cancel /\ lc.terminal = "none")
        /\ lc' = [lc EXCEPT !.granted = TRUE]
        /\ Goto(p, "claim") /\ UNCHANGED srv
     \/ /\ ~lc.granted /\ (grants # "issued" \/ expired \/ lc.cancel \/ lc.terminal # "none")
        /\ Throw(p) /\ UNCHANGED lc
  /\ UNCHANGED <<ex, grants, fx, ws, child, expired, env>>

(* A cancellation gets the thread only where the execution awaits; a second *)
(* one bears another time and conflicts with the recorded intent.           *)
AwaitPoint == {"idle", "preflight", "starting", "testing", "reap", "observe", "reobserve"}

Cancel(p) ==
  /\ Up(p) /\ srv[p].cancel = "none" /\ run[p].pc \in AwaitPoint
  /\ lc.terminal = "none"
  /\ \/ /\ ex.result = NoResult /\ ~lc.cancel
        /\ lc' = [lc EXCEPT !.cancel = TRUE]
        /\ srv' = [srv EXCEPT ![p].cancel = "revoke"]
        /\ UNCHANGED run
     \/ /\ ex.result # NoResult /\ run[p].pc = "idle"
        /\ Goto(p, "final") /\ UNCHANGED <<lc, srv>>
  /\ UNCHANGED <<ex, grants, fx, ws, child, expired, env>>

Revoked == IF grants = "issued" THEN "revoked" ELSE grants

RevokeRunGrants(p) ==
  /\ Up(p) /\ srv[p].cancel = "revoke"
  /\ grants' = Revoked
  /\ srv' = IF run[p].pc = "idle" THEN [srv EXCEPT ![p].cancel = "close"]
            ELSE [srv EXCEPT ![p].cancel = "none", ![p].aborting = TRUE]
  /\ UNCHANGED <<lc, ex, fx, ws, child, run, expired, env>>

(* Without a result the terminal needs the cancel intent and no usable grant. *)
CloseCancelled(p) ==
  /\ Up(p) /\ srv[p].cancel = "close"
  /\ lc' = IF lc.terminal = "none" /\ ex.result = NoResult /\ grants # "issued"
           THEN [lc EXCEPT !.terminal = "cancelled"] ELSE lc
  /\ srv' = [srv EXCEPT ![p].cancel = "none"]
  /\ UNCHANGED <<ex, grants, fx, ws, child, run, expired, env>>

(* The startup census; no approval is accepted before it is complete. *)
Census(p) ==
  /\ At(p, "idle") /\ ~srv[p].census
  /\ \/ /\ lc.terminal # "none" \/ (ex.result = NoResult /\ ~lc.cancel /\ ~lc.approved)
        /\ Return(p) /\ UNCHANGED <<lc, grants>>
     \/ /\ lc.terminal = "none" /\ ex.result # NoResult
        /\ Goto(p, "final") /\ UNCHANGED <<lc, grants, srv>>
     \/ /\ lc.terminal = "none" /\ ex.result = NoResult /\ lc.cancel
        /\ srv' = [srv EXCEPT ![p].cancel = "revoke"] /\ UNCHANGED <<lc, grants, run>>
     \/ /\ lc.terminal = "none" /\ ex.result = NoResult /\ ~lc.cancel
        /\ lc.approved /\ ~lc.granted /\ expired
        /\ grants' = Revoked /\ lc' = [lc EXCEPT !.terminal = "blocked"] /\ Return(p)
     \/ /\ lc.terminal = "none" /\ ex.result = NoResult /\ ~lc.cancel
        /\ lc.approved /\ (lc.granted \/ ~expired)
        /\ Goto(p, IF lc.granted THEN "claim" ELSE "grant")
        /\ UNCHANGED <<lc, grants, srv>>
  /\ UNCHANGED <<ex, fx, ws, child, expired, env>>

-----------------------------------------------------------------------------
(* executeProjectChange: the claim and the authority. *)

(* An expired lease alone is not enough: its owner must be provably dead; a *)
(* variant takes every expired lease over, another updates the row in place. *)
LeaseOver == ex.owner \in Proc => ~ex.live
ClaimFree == ex.owner \in Proc => ~ex.live /\ srv[ex.owner].state = "dead"

ClaimedInPlace(p) == [ex EXCEPT !.owner = p, !.live = TRUE]
Claimed(p) == [ex EXCEPT !.gen = @ + 1, !.owner = p, !.live = TRUE]

AcquireClaim(p) ==
  /\ At(p, "claim")
  /\ \/ /\ ex.result # NoResult /\ Goto(p, "final") /\ UNCHANGED <<ex, srv>>
     \/ /\ ex.result = NoResult /\ ~ClaimFree /\ Throw(p) /\ UNCHANGED ex
     \/ /\ ex.result = NoResult /\ ClaimFree
        /\ ex' = Claimed(p)
        /\ run' = [run EXCEPT ![p].pc = "claimed", ![p].gen = ex.gen + 1]
        /\ UNCHANGED srv
  /\ UNCHANGED <<lc, grants, fx, ws, child, expired, env>>

(* A consumed set, journalled or not, leads to recovery; a variant executes again. *)
ExecuteAgain(p) == Goto(p, "preflight")
RecoverOnly(p) == Goto(p, "reap")
AlreadyConsumed == ex.set > 0 \/ grants = "consumed"

Authorize(p) ==
  /\ At(p, "claimed") /\ Fenced(p)
  /\ \/ /\ AlreadyConsumed
        /\ ex' = [ex EXCEPT !.set = run[p].gen]
        /\ RecoverOnly(p) /\ UNCHANGED <<grants, srv>>
     \/ /\ ~AlreadyConsumed /\ grants = "issued" /\ ~expired
        /\ grants' = "consumed" /\ Goto(p, "consumed") /\ UNCHANGED <<ex, srv>>
     \/ /\ ~AlreadyConsumed /\ (grants # "issued" \/ expired)
        /\ Throw(p) /\ UNCHANGED <<ex, grants>>
  /\ UNCHANGED <<lc, fx, ws, child, expired, env>>

RecordApprovalSet(p) ==
  /\ At(p, "consumed") /\ Fenced(p)
  /\ ex' = [ex EXCEPT !.set = run[p].gen]
  /\ Goto(p, "preflight")
  /\ UNCHANGED <<lc, grants, fx, ws, child, srv, expired, env>>

(* A test process without a termination event; a variant does not look. *)
NotAsked == FALSE
Outstanding == ex.group = "started"

(* SQL: the terminal truth of a parent result. *)
ResultAdmissible(p, status) ==
  /\ Fenced(p) /\ ex.set = run[p].gen
  /\ status = "succeeded" =>
       /\ \A n \in File : fx[Write(n)] = "succeeded" /\ fx[Undo(n)] = "none"
       /\ fx[Test] = "succeeded"
       /\ lc.commit => fx[Git] = "succeeded"
       /\ ~Outstanding

RecordResult(p, status, git, rev) ==
  /\ ResultAdmissible(p, status)
  /\ ex' = [ex EXCEPT !.result = [status |-> status, git |-> git, rev |-> rev]]
  /\ run' = [run EXCEPT ![p] = [Idle EXCEPT !.pc = "final"]]

(* Environment, revision, HEAD and dirt must still be the planned ones.  Any *)
(* observation of the workspace, here and below, may itself fail.            *)
Preflight(p) ==
  /\ At(p, "preflight")
  /\ \/ RecordResult(p, "failed", "none", PlanRevision)
     \/ /\ CurrentRevision = PlanRevision /\ BaselineExact /\ Holding("before") = File
        /\ run' = [run EXCEPT ![p].pc = "write", ![p].todo = File]
        /\ UNCHANGED ex
  /\ UNCHANGED <<lc, grants, fx, ws, child, srv, expired, env>>

-----------------------------------------------------------------------------
(* executeProjectChange: the forward effects. *)

(* Files are written in the order of the plan and restored against it. *)
First(S) == {n \in S : \A m \in S : n <= m}
Last(S)  == {n \in S : \A m \in S : m <= n}

(* The file must still hold its before image; the write replaces it atomically or fails. *)
WriteFile(p) ==
  /\ At(p, "write") /\ Fenced(p)
  /\ \E n \in First(run[p].todo) :
     \/ /\ ws.file[n] # "before" /\ StopWith(p, "failed") /\ UNCHANGED <<ws, fx, env>>
     \/ /\ ws.file[n] = "before" /\ StopWith(p, "failed")
        /\ fx' = [fx EXCEPT ![Write(n)] = "failed"] /\ UNCHANGED <<ws, env>>
     \/ /\ ws.file[n] = "before"
        /\ ws' = [ws EXCEPT !.file[n] = "after"]
        /\ env' = Counted(Write(n))
        /\ run' = [run EXCEPT ![p].pc = "wrote", ![p].applied = @ \cup {n}]
        /\ UNCHANGED fx
  /\ UNCHANGED <<lc, ex, grants, child, srv, expired>>

(* Exact read-back, the applied event and the effect result; a mismatch is orphaned. *)
RecordWrite(p) ==
  /\ At(p, "wrote") /\ Fenced(p)
  /\ \E n \in First(run[p].todo) :
     \/ /\ ws.file[n] = "after"
        /\ fx' = [fx EXCEPT ![Write(n)] = "succeeded"]
        /\ run' = [run EXCEPT ![p].todo = @ \ {n},
                              ![p].pc = IF run[p].todo = {n} THEN "test" ELSE "write"]
     \/ /\ fx' = [fx EXCEPT ![Write(n)] = "failed"] /\ StopWith(p, "failed")
  /\ UNCHANGED <<lc, ex, grants, ws, child, srv, expired, env>>

(* The supervisor waits for the start message until its identity is durable. *)
LaunchSupervisor(p) ==
  /\ At(p, "test")
  /\ \/ child' = "gated" /\ Goto(p, "gated")
     \/ run' = [run EXCEPT ![p].pc = "terminated", ![p].test = "failed"] /\ UNCHANGED child
  /\ UNCHANGED <<lc, ex, grants, fx, ws, srv, expired, env>>

RecordSupervisor(p) ==
  /\ At(p, "gated") /\ Fenced(p)
  /\ ex' = [ex EXCEPT !.group = "started"]
  /\ Goto(p, "starting")
  /\ UNCHANGED <<lc, grants, fx, ws, child, srv, expired, env>>

StartTest(p) ==
  /\ At(p, "starting")
  /\ child' = "running" /\ env' = Counted(Test) /\ Goto(p, "testing")
  /\ UNCHANGED <<lc, ex, grants, fx, ws, srv, expired>>

(* Success, failure, time-out and abort prove the group empty; otherwise the *)
(* test is orphaned.  A supervisor may die before it starts the test.        *)
TestEnds(p) ==
  /\ At(p, "starting") \/ At(p, "testing")
  /\ \E status \in Status :
       /\ child = "gated" => status \notin {"succeeded", "orphaned"}
       /\ status = "cancelled" => srv[p].aborting
       /\ child' = IF status = "orphaned" THEN child ELSE "gone"
       /\ run' = [run EXCEPT ![p].pc = "tested", ![p].test = status]
  /\ UNCHANGED <<lc, ex, grants, fx, ws, srv, expired, env>>

RecordTermination(p) ==
  /\ At(p, "tested") /\ Fenced(p)
  /\ ex' = IF run[p].test = "orphaned" THEN ex ELSE [ex EXCEPT !.group = "terminated"]
  /\ Goto(p, "terminated")
  /\ UNCHANGED <<lc, grants, fx, ws, child, srv, expired, env>>

RecordTest(p) ==
  /\ At(p, "terminated")
  /\ fx' = [fx EXCEPT ![Test] = IF run[p].test = "succeeded" THEN "succeeded" ELSE "failed"]
  /\ IF run[p].test = "succeeded" THEN Goto(p, IF lc.commit THEN "commit" ELSE "gitcheck")
     ELSE StopWith(p, run[p].test)
  /\ UNCHANGED <<lc, ex, grants, ws, child, srv, expired, env>>

(* Git sees a file as dirty unless it equals the entry of HEAD. *)
TargetsDirty == ws.head = "base" /\ Holding("before") = {}
TargetsClean == ws.head = "commit" /\ ws.index = "commit" /\ Holding("after") = File

GitCheck(p) ==
  /\ At(p, "gitcheck")
  /\ \/ BaselineExact /\ TargetsDirty /\ Goto(p, "observe")
     \/ StopWith(p, "failed")
  /\ UNCHANGED <<lc, ex, grants, fx, ws, child, srv, expired, env>>

GitEnds(p, outcome) == run' = [run EXCEPT ![p].pc = "gitdone", ![p].git = outcome]

(* Compare-and-swap of the branch from the baseline to the prepared commit. *)
UpdateRef(p) ==
  /\ At(p, "commit")
  /\ \/ /\ BaselineExact /\ TargetsDirty
        /\ ws' = [ws EXCEPT !.head = "commit"] /\ env' = Counted(Git) /\ Goto(p, "index")
     \/ GitEnds(p, "failed") /\ UNCHANGED <<ws, env>>
  /\ UNCHANGED <<lc, ex, grants, fx, child, srv, expired>>

UpdateIndex(p) ==
  /\ At(p, "index")
  /\ \/ ws' = [ws EXCEPT !.index = "commit"] /\ Goto(p, "proof")
     \/ Goto(p, "compensate") /\ UNCHANGED ws
  /\ UNCHANGED <<lc, ex, grants, fx, child, srv, expired, env>>

ProveCommit(p) ==
  /\ At(p, "proof")
  /\ IF TargetsClean /\ ~ws.dirt THEN GitEnds(p, "committed") ELSE Goto(p, "compensate")
  /\ UNCHANGED <<lc, ex, grants, fx, ws, child, srv, expired, env>>

CompensateRef(p) ==
  /\ At(p, "compensate")
  /\ \/ /\ ws.head = "commit" /\ ws' = [ws EXCEPT !.head = "base"] /\ Goto(p, "unindex")
     \/ GitEnds(p, "in_doubt") /\ UNCHANGED ws
  /\ UNCHANGED <<lc, ex, grants, fx, child, srv, expired, env>>

CompensateIndex(p) ==
  /\ At(p, "unindex")
  /\ \/ ws' = [ws EXCEPT !.index = "base"] /\ GitEnds(p, "compensated")
     \/ GitEnds(p, "in_doubt") /\ UNCHANGED ws
  /\ UNCHANGED <<lc, ex, grants, fx, child, srv, expired, env>>

(* A variant takes a compensated commit for a commit. *)
CommitSeen(p) == run[p].git \in {"committed", "compensated"}
Committed(p) == run[p].git = "committed"

RecordGit(p) ==
  /\ At(p, "gitdone") /\ Fenced(p)
  /\ CASE Committed(p) ->
            fx' = [fx EXCEPT ![Git] = "succeeded"] /\ Goto(p, "observe")
       [] run[p].git = "in_doubt" ->
            fx' = [fx EXCEPT ![Git] = "failed"] /\ StopWith(p, "orphaned")
       [] OTHER -> fx' = [fx EXCEPT ![Git] = "failed"] /\ StopWith(p, "failed")
  /\ UNCHANGED <<lc, ex, grants, ws, child, srv, expired, env>>

(* After a commit a revision that cannot be observed orphans the change. *)
ObserveAfter(p) ==
  /\ At(p, "observe")
  /\ \/ /\ run' = [run EXCEPT ![p].pc = "complete", ![p].rev = CurrentRevision] /\ UNCHANGED ex
     \/ /\ run[p].git # "committed" /\ StopWith(p, "failed") /\ UNCHANGED ex
     \/ run[p].git = "committed" /\ RecordResult(p, "orphaned", "committed", PlanRevision)
  /\ UNCHANGED <<lc, grants, fx, ws, child, srv, expired, env>>

Complete(p) ==
  /\ At(p, "complete")
  /\ IF Holding("after") = File
     THEN RecordResult(p, "succeeded", run[p].git, run[p].rev)
     ELSE StopWith(p, "failed") /\ UNCHANGED ex
  /\ UNCHANGED <<lc, grants, fx, ws, child, srv, expired, env>>

-----------------------------------------------------------------------------
(* finishStopped and rollbackApplied. *)

(* A test that is not proven ended fences off rollback and result. *)
FinishStopped(p) ==
  /\ At(p, "stopped")
  /\ IF Outstanding THEN Throw(p)
     ELSE /\ run' = [run EXCEPT ![p].pc = "undo", ![p].todo = run[p].applied]
          /\ UNCHANGED srv
  /\ UNCHANGED <<lc, ex, grants, fx, ws, child, expired, env>>

UndoFails(p, n) ==
  run' = [run EXCEPT ![p].pc = "undo", ![p].todo = @ \ {n}, ![p].failed = @ \cup {n}]

(* Only the exact after image is overwritten; a variant spares the old one only. *)
NotRestored(n) == ws.file[n] # "before"
Ours(n) == ws.file[n] = "after"

UndoFile(p) ==
  /\ At(p, "undo") /\ Fenced(p)
  /\ \E n \in Last(run[p].todo) :
     \/ /\ Ours(n) /\ ws' = [ws EXCEPT !.file[n] = "before"] /\ Goto(p, "undone")
     \/ ws.file[n] = "before" /\ run' = [run EXCEPT ![p].todo = @ \ {n}] /\ UNCHANGED ws
     \/ ws.file[n] # "before" /\ UndoFails(p, n) /\ UNCHANGED ws
  /\ UNCHANGED <<lc, ex, grants, fx, child, srv, expired, env>>

RecordUndo(p) ==
  /\ At(p, "undone")
  /\ \E n \in Last(run[p].todo) :
     IF ws.file[n] = "before"
     THEN /\ fx' = [fx EXCEPT ![Undo(n)] = "succeeded"]
          /\ run' = [run EXCEPT ![p].pc = "undo", ![p].todo = @ \ {n}]
     ELSE UndoFails(p, n) /\ UNCHANGED fx
  /\ UNCHANGED <<lc, ex, grants, ws, child, srv, expired, env>>

(* A variant reports the stop whether the files were restored or not. *)
StopAsIs(p) == run[p].stop
StopStatus(p) == IF run[p].failed = {} THEN run[p].stop ELSE "orphaned"

RecordStopped(p) ==
  /\ At(p, "undo") /\ run[p].todo = {}
  /\ RecordResult(p, StopStatus(p), run[p].git, PlanRevision)
  /\ UNCHANGED <<lc, grants, fx, ws, child, srv, expired, env>>

-----------------------------------------------------------------------------
(* recoverOnly. *)

Reap(p) ==
  /\ At(p, "reap") /\ Fenced(p)
  /\ \/ ~Outstanding /\ Goto(p, "classify") /\ UNCHANGED <<ex, child, srv>>
     \/ /\ Outstanding
        /\ child' = "gone" /\ ex' = [ex EXCEPT !.group = "terminated"]
        /\ Goto(p, "classify") /\ UNCHANGED srv
     \/ Outstanding /\ Throw(p) /\ UNCHANGED <<ex, child>>
  /\ UNCHANGED <<lc, grants, fx, ws, expired, env>>

RecoverByUndo(p) ==
  run' = [run EXCEPT ![p].pc = "undo", ![p].todo = Holding("after"),
                     ![p].stop = "orphaned", ![p].git = "reverted"]

ForwardComplete ==
  /\ \A n \in File : fx[Write(n)] = "succeeded" /\ fx[Undo(n)] = "none"
  /\ fx[Test] = "succeeded"
  /\ fx[Git] \in {"none", "succeeded"}

(* The files are looked at once; with a commit in the plan HEAD decides. *)
Classify(p) ==
  /\ At(p, "classify") /\ Fenced(p)
  /\ LET drift    == Holding("foreign") # {}
         allAfter == Holding("after") = File
     IN
     \/ /\ ~drift /\ (lc.commit => BaselineExact)
        /\ RecoverByUndo(p)
        /\ ws' = IF lc.commit /\ allAfter THEN [ws EXCEPT !.index = "base"] ELSE ws
        /\ UNCHANGED ex
     \/ /\ lc.commit /\ ~ws.dirt /\ ws.head = "commit" /\ allAfter
        /\ ws' = [ws EXCEPT !.index = "commit"]
        /\ IF ForwardComplete THEN Goto(p, "regit") /\ UNCHANGED ex
           ELSE RecordResult(p, "orphaned", "committed", PlanRevision)
     \/ /\ lc.commit \/ drift
        /\ RecordResult(p, "orphaned", IF lc.commit THEN "in_doubt" ELSE "none", PlanRevision)
        /\ UNCHANGED ws
  /\ UNCHANGED <<lc, grants, fx, child, srv, expired, env>>

RecordRecoveredGit(p) ==
  /\ At(p, "regit") /\ Fenced(p)
  /\ fx' = [fx EXCEPT ![Git] = "succeeded"]
  /\ Goto(p, "reobserve")
  /\ UNCHANGED <<lc, ex, grants, ws, child, srv, expired, env>>

CompleteRecovered(p) ==
  /\ At(p, "reobserve")
  /\ \/ RecordResult(p, "succeeded", "committed", CurrentRevision)
     \/ RecordResult(p, "orphaned", "committed", PlanRevision)
  /\ UNCHANGED <<lc, grants, fx, ws, child, srv, expired, env>>

-----------------------------------------------------------------------------
(* finalizeResult: the lifecycle terminal of a recorded result. *)

FinalObserve(p) ==
  /\ At(p, "final")
  /\ CASE lc.terminal # "none" -> Return(p)
       [] lc.terminal = "none" /\ lc.receipt -> Goto(p, "receipted") /\ UNCHANGED srv
       [] OTHER -> /\ run' = [run EXCEPT ![p].pc = "settle", ![p].rev = CurrentRevision]
                   /\ UNCHANGED srv
  /\ UNCHANGED <<lc, ex, grants, fx, ws, child, expired, env>>

(* SQL: a terminal is written once; unless orphaned it names the revision of its result. *)
TerminalAdmissible(state, rev) ==
  /\ lc.terminal = "none"
  /\ state # "succeeded" => ~lc.receipt
  /\ state \in {"failed", "cancelled", "timed_out"} => rev = PlanRevision
  /\ state = "succeeded" => lc.receipt /\ lc.granted /\ ~lc.cancel

Terminate(p, state) ==
  IF TerminalAdmissible(state, run[p].rev)
  THEN lc' = [lc EXCEPT !.terminal = state] /\ Return(p)
  ELSE Throw(p) /\ UNCHANGED lc

Settle(p) ==
  /\ At(p, "settle")
  /\ LET result == ex.result IN
     CASE result.status # "succeeded" -> Terminate(p, result.status)
       [] result.status = "succeeded"
          /\ (lc.cancel \/ run[p].rev # result.rev \/ run[p].rev # AfterRevision)
            -> Terminate(p, "orphaned")
       [] OTHER -> IF lc.receipt \/ lc.terminal # "none" THEN Throw(p) /\ UNCHANGED lc
                   ELSE /\ lc' = [lc EXCEPT !.receipt = TRUE]
                        /\ Goto(p, "receipted") /\ UNCHANGED srv
  /\ UNCHANGED <<ex, grants, fx, ws, child, expired, env>>

RecordSuccess(p) ==
  /\ At(p, "receipted") /\ Terminate(p, "succeeded")
  /\ UNCHANGED <<ex, grants, fx, ws, child, expired, env>>

-----------------------------------------------------------------------------
Serve(p) ==
  \/ Approve(p) \/ IssueGrants(p) \/ RecordGrantSet(p)
  \/ Cancel(p) \/ RevokeRunGrants(p) \/ CloseCancelled(p) \/ Census(p)

Execute(p) ==
  \/ AcquireClaim(p) \/ Authorize(p) \/ RecordApprovalSet(p) \/ Preflight(p)
  \/ WriteFile(p) \/ RecordWrite(p)
  \/ LaunchSupervisor(p) \/ RecordSupervisor(p) \/ StartTest(p) \/ TestEnds(p)
  \/ RecordTermination(p) \/ RecordTest(p)
  \/ GitCheck(p) \/ UpdateRef(p) \/ UpdateIndex(p) \/ ProveCommit(p)
  \/ CompensateRef(p) \/ CompensateIndex(p) \/ RecordGit(p)
  \/ ObserveAfter(p) \/ Complete(p)
  \/ FinishStopped(p) \/ UndoFile(p) \/ RecordUndo(p) \/ RecordStopped(p)

Recover(p) == Reap(p) \/ Classify(p) \/ RecordRecoveredGit(p) \/ CompleteRecovered(p)

Finalize(p) == FinalObserve(p) \/ Settle(p) \/ RecordSuccess(p)

Surroundings ==
  \/ \E n \in File, image \in Image : ForeignEdit(n, image)
  \/ ForeignGit \/ Expire \/ LeaseExpires \/ ChildExits
  \/ \E p \in Proc : Start(p) \/ Crash(p)

Next == Surroundings \/ \E p \in Proc : Serve(p) \/ Execute(p) \/ Recover(p) \/ Finalize(p)

Spec == Init /\ [][Next]_vars

(* A turn of the thread ends, the event loop serves the next one, a lease   *)
(* ends, a group that lost its supervisor ends or is reaped at last.  The   *)
(* startup census is retried every second.                                  *)
Reaped(p) == Reap(p) /\ run'[p].pc = "classify"

FairSpec ==
  /\ Spec
  /\ WF_vars(LeaseExpires) /\ WF_vars(ChildExits)
  /\ \A p \in Proc :
       /\ WF_vars(Execute(p) \/ Recover(p) \/ Finalize(p))
       /\ WF_vars(IssueGrants(p) \/ RecordGrantSet(p))
       /\ WF_vars(RevokeRunGrants(p) \/ CloseCancelled(p))
       /\ SF_vars(Reaped(p)) /\ SF_vars(Census(p))

-----------------------------------------------------------------------------
Pcs == {"idle", "grant", "grantset", "claim", "claimed", "consumed", "preflight",
        "write", "wrote", "test", "gated", "starting", "testing", "tested",
        "terminated", "commit", "index", "proof", "compensate", "unindex", "gitdone",
        "gitcheck", "observe", "complete", "stopped", "undo", "undone", "reap",
        "classify", "regit", "reobserve", "final", "settle", "receipted"}
GitOutcome == {"none", "failed", "committed", "compensated", "in_doubt", "reverted"}

LifecycleRows == [commit : BOOLEAN, approved : BOOLEAN, granted : BOOLEAN, cancel : BOOLEAN,
                  receipt : BOOLEAN, terminal : Status \cup {"none", "blocked"}]

ResultRow == [status : Status \cup {"none"}, git : GitOutcome, rev : Revision]

ExecutionRows == [gen : Nat, owner : Proc \cup {NoProc}, live : BOOLEAN, set : Nat,
                  group : {"none", "started", "terminated"}, result : ResultRow]

Workspace == [file : [File -> Image], head : {"base", "commit", "other"},
              index : {"base", "commit"}, dirt : BOOLEAN]

ServerRecord == [state : {"new", "up", "dead"}, census : BOOLEAN, aborting : BOOLEAN,
                 cancel : {"none", "revoke", "close"}]

RunRecord == [pc : Pcs, gen : Nat, todo : SUBSET File, applied : SUBSET File,
              failed : SUBSET File, stop : Stop \cup {"none"},
              test : Status \cup {"none"}, git : GitOutcome, rev : Revision]

History == [touched : SUBSET File, edits : Nat, ran : [Forward -> 0..2]]

(* No process holds a claim that was never recorded. *)
ClaimsRecorded == \A p \in Proc : run[p].gen <= ex.gen

TypeOK ==
  /\ lc \in LifecycleRows /\ ex \in ExecutionRows
  /\ grants \in {"none", "issued", "consumed", "revoked"}
  /\ fx \in [Effect -> {"none", "succeeded", "failed"}]
  /\ ws \in Workspace
  /\ child \in {"none", "gated", "running", "gone"}
  /\ srv \in [Proc -> ServerRecord] /\ run \in [Proc -> RunRecord]
  /\ expired \in BOOLEAN
  /\ env \in History
  /\ ClaimsRecorded

-----------------------------------------------------------------------------
Before == {"idle", "grant", "grantset", "claim"}
After  == {"final", "settle", "receipted"}
Backward == {"stopped", "undo", "undone", "reap", "classify", "regit", "reobserve"}

(* p has the claim and has not returned a result. *)
Driving(p) == run[p].pc \notin Before \cup After

(* One process at a time drives the execution: a claim changes hands only   *)
(* when its owner is dead, however late its lease (acquireClaim).           *)
SingleDriver == \A p, q \in Proc : Driving(p) /\ Driving(q) => p = q

(* Files are restored, and a result recorded, only when the process group   *)
(* of the test is known to be gone (finishStopped, recoverOnly): a test     *)
(* that still runs could write into the restored files.                     *)
TestFenced ==
  (ex.result # NoResult \/ \E p \in Proc : run[p].pc \in {"undo", "undone", "classify"})
    => child \notin {"gated", "running"}

(* A failed, cancelled or timed out change leaves nothing behind: every     *)
(* file that holds the new content is restored, and HEAD keeps the commit   *)
(* only if a foreign edit of the files undid what the commit says.          *)
FailureRestores ==
  ex.result.status \in {"failed", "cancelled", "timed_out"} =>
    /\ Holding("after") = {}
    /\ ws.head = "commit" => env.touched # {}

(* Success is not claimed for less than the whole change: all files, the    *)
(* test and the commit, but for what foreign programs did to them.          *)
SuccessIsReal ==
  ex.result.status = "succeeded" =>
    /\ File \ env.touched \subseteq Holding("after")
    /\ env.ran[Test] = 1
    /\ lc.commit => env.ran[Git] = 1 /\ ws.head # "base"

(* The terminal that the user is shown tells the truth about the project,   *)
(* whichever process wrote it and whatever others were doing: a failed or   *)
(* timed out change left no file behind, a success is whole and nobody had  *)
(* cancelled it, cancelled is what somebody cancelled, and a blocked change *)
(* never had an effect and never will (finalizeResult, the startup census). *)
TerminalIsTrue ==
  /\ lc.terminal \in {"failed", "timed_out"} => Holding("after") = {}
  /\ lc.terminal = "succeeded" =>
       ~lc.cancel /\ env.ran[Test] = 1 /\ File \ env.touched \subseteq Holding("after")
  /\ lc.terminal = "cancelled" => lc.cancel
  /\ lc.terminal = "blocked" => \A e \in Forward : env.ran[e] = 0

(* A content that is neither the old nor the new one belongs to somebody    *)
(* else: no write and no rollback overwrites it (rollbackApplied).          *)
ForeignKept ==
  [][\A n \in File : ws.file[n] = "foreign" /\ ws'.file[n] # "foreign"
                       => env'.edits > env.edits]_vars

(* The execution keeps its contract: each effect once and in order, never   *)
(* forward again after a stop or a crash, one true verdict, nothing after.  *)
Stage ==
  IF ex.result # NoResult THEN "settled"
  ELSE IF grants # "consumed" THEN "closed"
  ELSE IF \E p \in Proc : Driving(p) /\ run[p].pc \notin Backward \cup {"claimed"}
       THEN "forward" ELSE "backward"

Verdict == CASE ex.result.status = "succeeded" -> "done"
             [] ex.result.status = "orphaned"  -> "doubt"
             [] ex.result.status = "none"      -> "none"
             [] OTHER                          -> "undone"

Contract == INSTANCE ChangeContract
  WITH stage <- Stage, ran <- env.ran, meddled <- (env.edits > 0), commits <- lc.commit,
       verdict <- Verdict,
       left <- Holding("after") \cup (IF ws.head = "commit" THEN {0} ELSE {})

ImplementsContract == Contract!Spec

(* A change that was cancelled is reported cancelled, without a result,     *)
(* only if nothing of it is in the project.                                 *)
CancelledIsClean ==
  lc.terminal = "cancelled" /\ ex.result = NoResult =>
    Holding("after") = {} /\ ws.head # "commit"

(* Once the result of the change is recorded, a server that stays up gets   *)
(* through its startup census.                                              *)
ResultSettles ==
  \A p \in Proc : (Up(p) /\ ex.result # NoResult) ~> (srv[p].census \/ ~Up(p))
=============================================================================

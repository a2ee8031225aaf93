---------------------------- MODULE EffectAuthority ----------------------------
(***************************************************************************)
(* The M2 effect authority (src/src/effects): every change the workbench   *)
(* makes to a project file is an "effect" that has to be requested,        *)
(* approved by its user with an expiring single-use grant, claimed by the  *)
(* process that executes it and closed by one immutable result.  The       *)
(* ledger is an SQLite database shared by several processes; a process     *)
(* runs JavaScript to completion between two awaits, so that only other    *)
(* processes, foreign edits of the workspace and crashes come between two  *)
(* statements of a handler, while handlers of one process interleave where *)
(* they await the observation of the workspace.                            *)
(*                                                                         *)
(* A member of Procs is one incarnation of the program: it boots once and  *)
(* never returns after a crash, so that a restart is the boot of another   *)
(* incarnation.                                                            *)
(***************************************************************************)
EXTENDS Integers

CONSTANTS
  Effects,    \* effect identities (a run and an idempotency key)
  Procs,      \* incarnations of the program that share the ledger
  Stable,     \* the incarnations that do not crash
  Opaque,     \* the incarnations whose death nobody can prove: "unknown:"
              \* identity, or a /proc entry that cannot be read
  Paths,      \* files of the project
  Contents,   \* byte contents of a file
  Edits,      \* contents that somebody else may put into a file
  Nil,        \* the content of a missing file, and the null digest
  NoProc, NoEffect,
  Kind,       \* "write" (fs.write v1), "create" (v3) or "read" of an effect
  Target,     \* the file an effect is about
  Payload,    \* the bytes an effect writes
  TTL,        \* lifetime of a grant
  MaxTime     \* bound of the clock

Kinds == {"write", "create", "read"}
Images == Contents \cup {Nil}

ASSUME SetsAssumption == /\ Stable \subseteq Procs
                         /\ Opaque \subseteq Procs
                         /\ Edits \subseteq Images
                         /\ NoProc \notin Procs
                         /\ NoEffect \notin Effects
                         /\ Nil \notin Contents
ASSUME EffectAssumption == /\ Kind \in [Effects -> Kinds]
                           /\ Target \in [Effects -> Paths]
                           /\ Payload \in [Effects -> Contents]
ASSUME TimeAssumption == TTL \in Nat \ {0} /\ MaxTime \in Nat

VARIABLES
  \* the world
  now,        \* wall clock
  file,       \* the project's files
  \* the ledger
  requested,  \* registered EffectRequests
  revision,   \* the workspace revision each request was prepared for
  pending,    \* effects with a row in m2_pending_effect_payloads
  grant,      \* state of the effect's ApprovalGrant
  issued,     \* when it was issued
  claim,      \* owner of the execution claim
  preterm,    \* reason of the pre-execution terminal claim
  invalid,    \* durably invalidated requests
  result,     \* the immutable EffectResult
  receipt,    \* the rollback receipt's observation code
  \* the processes
  proc,       \* life of each incarnation
  turn,       \* the synchronous section a process is in
  exec,       \* executions of a process (activeEffects)
  \* history
  runs,       \* provider starts of each effect
  wrote       \* effects whose provider changed the target

world  == <<now, file>>
ledger == <<requested, revision, pending, grant, issued, claim, preterm,
            invalid, result, receipt>>
procs  == <<proc, turn, exec>>
ghosts == <<runs, wrote>>
vars   == <<world, ledger, procs, ghosts>>

-------------------------------------------------------------------------------
(* Results.  The status, whether a rollback is owed, the two digests and   *)
(* whether an evidence reference proves that the target was missing.       *)

Statuses == {"none", "succeeded", "failed", "cancelled", "timed_out",
             "orphaned"}
Results == [status : Statuses, debt : BOOLEAN, before : Images,
            after : Images, proof : BOOLEAN]

Clean(status) == [status |-> status, debt |-> FALSE, before |-> Nil,
                  after |-> Nil, proof |-> FALSE]
NoResult == Clean("none")
Succeeded(before, after, proof) ==
  [status |-> "succeeded", debt |-> FALSE, before |-> before, after |-> after,
   proof |-> proof]
Owing(status, before, after, proof) ==
  [status |-> status, debt |-> TRUE, before |-> before, after |-> after,
   proof |-> proof]

Terminal(e) == result[e] # NoResult

(* A variant that believes the write was made.                             *)
OptimisticRecovery(e) == Succeeded(Nil, Payload[e], TRUE)

(* What restart recovery writes for a claim whose owner is dead.           *)
RecoveryResult(e) == IF Kind[e] = "read" THEN Clean("orphaned")
                     ELSE Owing("orphaned", Nil, Nil, FALSE)

(* Variants that forget the evidence of the late answer, or keep it for    *)
(* reads too.                                                              *)
ForgetfulInterrupted(e, r) == {Clean(s) : s \in {"cancelled", "timed_out"}}
IndebtedInterrupted(e, r) ==
  {Owing(s, r.before, r.after, r.proof) : s \in {"cancelled", "timed_out"}}

(* The broker's outcomes for a provider that answered r, when a            *)
(* cancellation or the timer may have been settled first.  A read never    *)
(* inherits write-style evidence.                                          *)
Interrupted(e, r) ==
  {IF Kind[e] = "read" THEN Clean(s) ELSE Owing(s, r.before, r.after, r.proof) :
     s \in {"cancelled", "timed_out"}}
Outcomes(e, r) == {r} \cup Interrupted(e, r)

(* A variant that takes every null digest for a missing file.              *)
NullMeansMissing(e, r) == r.before = Nil

(* classifyRollbackObservation of a target whose content is c.             *)
KnownMissingBefore(e, r) ==
  /\ r.before = Nil
  /\ r.proof \/ (Kind[e] = "write" /\ r.after # Nil)
Classify(e, r, c) ==
  CASE c = Payload[e]                             -> "matches_forward"
    [] c # Nil /\ c # Payload[e] /\ c = r.before  -> "matches_before"
    [] c = Nil /\ KnownMissingBefore(e, r)        -> "matches_before"
    [] OTHER                                      -> "foreign"
ReceiptCodes == {"none", "matches_forward", "matches_before", "foreign"}

(* buildEffectSettlement: the debt a reader of the ledger still sees.      *)
DebtOpen(e) == result[e].debt /\ receipt[e] \notin {"matches_forward",
                                                   "matches_before"}

-------------------------------------------------------------------------------
(* Turns.  op is the handler (the boot phases are handlers of their own),  *)
(* at the statement it is about to run; the other fields are its locals.   *)

BootPhases == {"expireGrants", "cleanPending", "recoverClaims", "receipts"}
Ops == BootPhases \cup {"none", "request", "approve", "cancel"}
Labels == {"idle", "scan", "store", "storePut", "recover", "recoverPut", "recoverDel",
           "expire", "issue", "enter", "consume", "revoke", "before", "read",
           "write", "verify", "commit", "cleanup", "receiptPut"}
Turn(op, at, e) == [op |-> op, at |-> at, e |-> e, clk |-> 0, seen |-> Nil,
                    out |-> NoResult, todo |-> {}]
Idle == Turn("none", "idle", NoEffect)

At(p, label) == proc[p] \in {"boot", "up"} /\ turn[p].at = label
Goto(p, label) == turn' = [turn EXCEPT ![p].at = label]
Free(p) == proc[p] = "up" /\ turn[p].at = "idle"

(* A variant that leaves the execution in activeEffects.                   *)
FinishStillActive(p) == turn' = [turn EXCEPT ![p] = Idle] /\ UNCHANGED exec

(* The end of work on one effect: a boot phase goes on with its next row,  *)
(* any other handler returns and leaves activeEffects.                     *)
Finish(p) ==
  IF turn[p].op \in BootPhases
  THEN turn' = [turn EXCEPT ![p].at = "scan", ![p].e = NoEffect,
                            ![p].seen = Nil]
       /\ UNCHANGED exec
  ELSE turn' = [turn EXCEPT ![p] = Idle]
       /\ exec' = IF turn[p].op = "approve"
                  THEN [exec EXCEPT ![p][turn[p].e] = "none"] ELSE exec

(* Variants that take an unknown owner, or any owner, for dead.            *)
UnknownIsDead(q) == q # NoProc /\ (proc[q] = "dead" \/ q \in Opaque)
AnyoneIsDead(q) == q # NoProc /\ q \notin Opaque

(* isProvablyDead: only an explicit sign of absence is proof.              *)
ProvablyDead(q) == q # NoProc /\ proc[q] = "dead" /\ q \notin Opaque

Expired(e, t) == issued[e] + TTL <= t

(* A DELETE that may fail and is then left to a later retry.               *)
TryDeletePending(e) == pending' \in {pending \ {e}, pending}

-------------------------------------------------------------------------------
(* Ledger transactions shared by several handlers.                         *)

(* terminalizeInactiveApprovalGrant: an inactive grant that was never      *)
(* consumed becomes a cancellation, and the effect's payload is released.  *)
Inactive(e, t) == grant[e] = "revoked" \/ Expired(e, t)
Terminalizable(e) ==
  /\ grant[e] \in {"active", "revoked"}
  /\ claim[e] = NoProc /\ ~Terminal(e) /\ e \notin invalid
  /\ Inactive(e, now)
UnlistedReason(revoked) == "APPROVAL_GRANT_INACTIVE"  \* not a CHECKed code
Reason(revoked) == IF revoked THEN "APPROVAL_GRANT_REVOKED"
                   ELSE "APPROVAL_GRANT_EXPIRED"
TerminalizeGrant(e) ==
  /\ preterm' = [preterm EXCEPT ![e] = Reason(grant[e] = "revoked")]
  /\ result' = [result EXCEPT ![e] = Clean("cancelled")]
  /\ pending' = pending \ {e}

(* revokeApprovalGrant: revocation and cancellation are one transaction;   *)
(* a pre-execution terminal fences the grant row off.                      *)
RevokeGrant(e) ==
  /\ grant[e] = "active" /\ preterm[e] = "none"
  /\ grant' = [grant EXCEPT ![e] = "revoked"]
  /\ preterm' = [preterm EXCEPT ![e] = Reason(TRUE)]
  /\ result' = [result EXCEPT ![e] = Clean("cancelled")]
  /\ pending' = pending \ {e}

(* A variant without the fence.                                            *)
UnfencedConsumable(e, t) == grant[e] = "active" /\ issued[e] <= t /\ ~Expired(e, t)

(* consumeApprovalGrant, inside BEGIN IMMEDIATE, at a clock read before    *)
(* the transaction began; the pre-execution terminal fences it off.        *)
Consumable(e, t) ==
  /\ grant[e] = "active" /\ issued[e] <= t /\ ~Expired(e, t)
  /\ preterm[e] = "none"

(* recordEffectResult: the first result wins and needs its authority.      *)
Recordable(e) == ~Terminal(e) /\ claim[e] # NoProc /\ grant[e] = "consumed"

-------------------------------------------------------------------------------
Init ==
  /\ now = 0
  /\ file \in [Paths -> Edits \cup {Nil}]
  /\ requested = {} /\ pending = {} /\ invalid = {}
  /\ revision = [e \in Effects |-> file]
  /\ grant = [e \in Effects |-> "none"]
  /\ issued = [e \in Effects |-> 0]
  /\ claim = [e \in Effects |-> NoProc]
  /\ preterm = [e \in Effects |-> "none"]
  /\ result = [e \in Effects |-> NoResult]
  /\ receipt = [e \in Effects |-> "none"]
  /\ proc = [p \in Procs |-> "unborn"]
  /\ turn = [p \in Procs |-> Idle]
  /\ exec = [p \in Procs |-> [e \in Effects |-> "none"]]
  /\ runs = [e \in Effects |-> 0]
  /\ wrote = {}

(* ---- The world ---- *)

Tick ==
  /\ now < MaxTime
  /\ now' = now + 1
  /\ UNCHANGED <<file, ledger, procs, ghosts>>

(* Somebody else edits, creates or deletes a file of the project.          *)
ForeignEdit(f, c) ==
  /\ file[f] # c
  /\ file' = [file EXCEPT ![f] = c]
  /\ UNCHANGED <<now, ledger, procs, ghosts>>

(* The tool broker invalidates a request that has neither grant nor        *)
(* result; the trigger drops its pending payload.                          *)
InvalidateEffect(e) ==
  /\ e \in requested \ invalid
  /\ grant[e] = "none" /\ ~Terminal(e)
  /\ invalid' = invalid \cup {e}
  /\ pending' = pending \ {e}
  /\ UNCHANGED <<world, requested, revision, grant, issued, claim, preterm,
                 result, receipt, procs, ghosts>>

(* ---- Boot: the start of createEffectFileRuntime, phase by phase ---- *)

RowsOf(phase) ==
  CASE phase = "expireGrants" ->
         {e \in pending : /\ grant[e] \in {"active", "revoked"}
                          /\ claim[e] = NoProc /\ ~Terminal(e)
                          /\ Inactive(e, now)}
    [] phase = "cleanPending" -> {e \in pending : Terminal(e)}
    [] phase = "recoverClaims" ->
         {e \in pending : grant[e] = "consumed" /\ ~Terminal(e)}
    [] OTHER ->  \* "receipts"
         {e \in Effects : result[e].debt /\ receipt[e] = "none"}
SkippingPhase(phase) ==  \* a variant that forgets the claims
  CASE phase = "expireGrants"  -> "cleanPending"
    [] OTHER                   -> "receipts"
NextPhase(phase) ==
  CASE phase = "expireGrants"  -> "cleanPending"
    [] phase = "cleanPending"  -> "recoverClaims"
    [] OTHER                   -> "receipts"
StartPhase(p, phase) ==
  turn' = [turn EXCEPT ![p] = [Turn(phase, "scan", NoEffect) EXCEPT
                                 !.todo = RowsOf(phase)]]

Boot(p) ==
  /\ proc[p] = "unborn"
  /\ proc' = [proc EXCEPT ![p] = "boot"]
  /\ StartPhase(p, "expireGrants")
  /\ UNCHANGED <<world, ledger, exec, ghosts>>

BootNextPhase(p) ==
  /\ At(p, "scan") /\ turn[p].todo = {}
  /\ IF turn[p].op = "receipts"
     THEN /\ proc' = [proc EXCEPT ![p] = "up"]
          /\ turn' = [turn EXCEPT ![p] = Idle]
     ELSE /\ StartPhase(p, NextPhase(turn[p].op))
          /\ UNCHANGED proc
  /\ UNCHANGED <<world, ledger, exec, ghosts>>

(* The phases take their rows one by one; the row is off the list when its *)
(* first statement has run.                                                *)
Row(p, phase, e) == At(p, "scan") /\ turn[p].op = phase /\ e \in turn[p].todo
Drop(p, e) == turn' = [turn EXCEPT ![p].todo = @ \ {e}]

BootExpireGrant(p, e) ==
  /\ Row(p, "expireGrants", e)
  /\ Drop(p, e)
  /\ \/ Terminalizable(e) /\ TerminalizeGrant(e)
     \/ ~Terminalizable(e) /\ UNCHANGED <<preterm, result, pending>>
  /\ UNCHANGED <<world, requested, revision, grant, issued, claim, invalid,
                 receipt, proc, exec, ghosts>>

BootCleanPending(p, e) ==
  /\ Row(p, "cleanPending", e)
  /\ Drop(p, e)
  /\ TryDeletePending(e)
  /\ UNCHANGED <<world, requested, revision, grant, issued, claim, preterm,
                 invalid, result, receipt, proc, exec, ghosts>>

BootRecoverClaim(p, e) ==
  /\ Row(p, "recoverClaims", e)
  /\ turn' = [turn EXCEPT ![p].todo = @ \ {e}, ![p].e = e, ![p].at = "recover"]
  /\ UNCHANGED <<world, ledger, proc, exec, ghosts>>

(* reconcileRollbackReceipts reads the target, then records what it saw.   *)
BootObserveRollback(p, e) ==
  /\ Row(p, "receipts", e)
  /\ turn' = [turn EXCEPT ![p].todo = @ \ {e}, ![p].e = e,
                          ![p].at = "receiptPut", ![p].seen = file[Target[e]]]
  /\ UNCHANGED <<world, ledger, proc, exec, ghosts>>

(* The first receipt stands, whatever a second observer saw; and a variant *)
(* that lets the last one stand.                                           *)
LatestReceipt(e, code) == code
FirstReceipt(e, code) == IF receipt[e] = "none" THEN code ELSE receipt[e]

RecordRollbackReceipt(p) ==
  LET e == turn[p].e
  IN /\ At(p, "receiptPut")
     /\ receipt' = [receipt EXCEPT ![e] =
                      FirstReceipt(e, Classify(e, result[e], turn[p].seen))]
     /\ Finish(p)
     /\ UNCHANGED <<world, requested, revision, pending, grant, issued, claim,
                    preterm, invalid, result, proc, ghosts>>

(* The process dies: its turn and its executions are lost.                 *)
Crash(p) ==
  /\ p \notin Stable /\ proc[p] \in {"boot", "up"}
  /\ proc' = [proc EXCEPT ![p] = "dead"]
  /\ turn' = [turn EXCEPT ![p] = Idle]
  /\ exec' = [exec EXCEPT ![p] = [e \in Effects |-> "none"]]
  /\ UNCHANGED <<world, ledger, ghosts>>

(* ---- requestFilesystemEffect ---- *)

(* registerEffectRequest: the first request fixes the bytes, its workspace *)
(* revision among them; a retry must reproduce them.                       *)
RegisterConflict(e) == e \in requested /\ revision[e] # file

RegisterEffectRequest(p, e) ==
  /\ Free(p) /\ ~RegisterConflict(e)
  /\ requested' = requested \cup {e}
  /\ revision' = [revision EXCEPT ![e] = file]
  /\ turn' = [turn EXCEPT ![p] = Turn("request", "store", e)]
  /\ UNCHANGED <<world, pending, grant, issued, claim, preterm, invalid,
                 result, receipt, proc, exec, ghosts>>

(* The caller may have cancelled; removeTerminalPending; without a result  *)
(* storePending comes next, which an invalidation blocks and a result      *)
(* recorded meanwhile does not.                                            *)
RequestTerminal(p) ==
  LET e == turn[p].e
  IN /\ At(p, "store")
     /\ \/ Finish(p) /\ UNCHANGED pending
        \/ Terminal(e) /\ TryDeletePending(e) /\ Finish(p)
        \/ ~Terminal(e) /\ Goto(p, "storePut") /\ UNCHANGED <<pending, exec>>
     /\ UNCHANGED <<world, requested, revision, grant, issued, claim, preterm,
                    invalid, result, receipt, proc, ghosts>>

StorePending(p) ==
  LET e == turn[p].e
  IN /\ At(p, "storePut")
     /\ pending' = IF e \in invalid THEN pending ELSE pending \cup {e}
     /\ Finish(p)
     /\ UNCHANGED <<world, requested, revision, grant, issued, claim, preterm,
                    invalid, result, receipt, proc, ghosts>>

(* ---- approveFilesystemEffect, up to the consumed grant ---- *)

(* The caller's pending row, and no execution of it in this process.       *)
Approachable(p, e) == /\ Free(p) /\ e \in pending /\ e \notin invalid
                      /\ exec[p][e] = "none"

ApproveFilesystemEffect(p, e) ==
  /\ Approachable(p, e)
  /\ turn' = [turn EXCEPT ![p] = Turn("approve", "recover", e)]
  /\ UNCHANGED <<world, ledger, proc, exec, ghosts>>

(* recoverConsumedEffect, in an approval and in the boot phase: a terminal *)
(* effect only loses its payload; a claim whose owner is provably dead     *)
(* goes on to its orphaned result; any other is left alone.                *)
Recoverable(e) == grant[e] = "consumed" /\ ProvablyDead(claim[e])

RecoverTerminal(p) ==
  LET e == turn[p].e
  IN /\ At(p, "recover") /\ Terminal(e)
     /\ TryDeletePending(e)
     /\ Finish(p)
     /\ UNCHANGED <<world, requested, revision, grant, issued, claim, preterm,
                    invalid, result, receipt, proc, ghosts>>

RecoverDeadOwner(p) ==
  LET e == turn[p].e
  IN /\ At(p, "recover") /\ ~Terminal(e) /\ Recoverable(e)
     /\ Goto(p, "recoverPut")
     /\ UNCHANGED <<world, ledger, proc, exec, ghosts>>

RecoverNothing(p) ==
  LET e == turn[p].e
  IN /\ At(p, "recover") /\ ~Terminal(e) /\ ~Recoverable(e)
     /\ IF turn[p].op = "approve" THEN Goto(p, "expire") /\ UNCHANGED exec
                                  ELSE Finish(p)
     /\ UNCHANGED <<world, ledger, proc, ghosts>>

RecoverRecordResult(p) ==
  LET e == turn[p].e
  IN /\ At(p, "recoverPut")
     /\ \/ Recordable(e) /\ result' = [result EXCEPT ![e] = RecoveryResult(e)]
        \/ result[e] = RecoveryResult(e) /\ UNCHANGED result
     /\ Goto(p, "recoverDel")
     /\ UNCHANGED <<world, requested, revision, pending, grant, issued, claim,
                    preterm, invalid, receipt, proc, exec, ghosts>>

(* Another process recovered the effect in between, as a rule at another   *)
(* millisecond: RESULT_CONFLICT is thrown, and at boot the runtime module  *)
(* then never loads.                                                       *)
RecoverConflict(p) ==
  /\ At(p, "recoverPut") /\ ~Recordable(turn[p].e)
  /\ IF turn[p].op = "approve"
     THEN Finish(p) /\ UNCHANGED proc
     ELSE /\ proc' = [proc EXCEPT ![p] = "dead"]
          /\ turn' = [turn EXCEPT ![p] = Idle]
          /\ UNCHANGED exec
  /\ UNCHANGED <<world, ledger, ghosts>>

RecoverDeletePending(p) ==
  LET e == turn[p].e
  IN /\ At(p, "recoverDel")
     /\ pending' = pending \ {e}
     /\ Finish(p)
     /\ UNCHANGED <<world, requested, revision, grant, issued, claim, preterm,
                    invalid, result, receipt, proc, ghosts>>

(* An inactive grant becomes a cancellation; a consumed one is in doubt    *)
(* and refuses the approval.                                               *)
ApproveExpire(p) ==
  LET e == turn[p].e
  IN /\ At(p, "expire")
     /\ \/ /\ Terminalizable(e)
           /\ TerminalizeGrant(e)
           /\ Finish(p)
        \/ /\ grant[e] = "consumed" \/ Terminal(e)
           /\ Finish(p)
           /\ UNCHANGED <<preterm, result, pending>>
        \/ /\ grant[e] # "consumed" /\ ~Terminal(e) /\ ~Terminalizable(e)
           /\ Goto(p, "issue")
           /\ UNCHANGED <<preterm, result, pending, exec>>
     /\ UNCHANGED <<world, requested, revision, grant, issued, claim, invalid,
                    receipt, proc, ghosts>>

(* issuer.issue: an effect has at most one grant, ever; an existing one is *)
(* handed back whatever its state, or is a GRANT_CONFLICT when it appears  *)
(* while the new one is being made.                                        *)
IssueApprovalGrant(p) ==
  LET e == turn[p].e
      next == IF turn[p].op = "approve" THEN "enter" ELSE "revoke"
  IN /\ At(p, "issue")
     /\ \/ /\ ~Terminal(e) /\ grant[e] = "none" /\ e \notin invalid
           /\ grant' = [grant EXCEPT ![e] = "active"]
           /\ issued' = [issued EXCEPT ![e] = now]
           /\ Goto(p, next) /\ UNCHANGED exec
        \/ /\ ~Terminal(e) /\ grant[e] # "none"
           /\ Goto(p, next) /\ UNCHANGED <<grant, issued, exec>>
        \/ /\ Terminal(e) \/ grant[e] # "none" \/ e \in invalid
           /\ Finish(p) /\ UNCHANGED <<grant, issued>>
     /\ UNCHANGED <<world, requested, revision, pending, claim, preterm,
                    invalid, result, receipt, proc, ghosts>>

(* broker.execute: activeEffects, the existing result, a call cancelled by *)
(* now, the clock of the consumption.                                      *)
EnterExecute(p) ==
  LET e == turn[p].e
  IN /\ At(p, "enter")
     /\ \/ /\ Terminal(e)
           /\ TryDeletePending(e)
           /\ Finish(p)
        \/ /\ ~Terminal(e)
           /\ turn' = [turn EXCEPT ![p].at = "consume", ![p].clk = now]
           /\ exec' = [exec EXCEPT ![p][e] = "running"]
           /\ UNCHANGED pending
        \/ ~Terminal(e) /\ Finish(p) /\ UNCHANGED pending
     /\ UNCHANGED <<world, requested, revision, grant, issued, claim, preterm,
                    invalid, result, receipt, proc, ghosts>>

ConsumeApprovalGrant(p) ==
  LET e == turn[p].e
  IN /\ At(p, "consume")
     /\ \/ /\ Consumable(e, turn[p].clk)
           /\ grant' = [grant EXCEPT ![e] = "consumed"]
           /\ claim' = [claim EXCEPT ![e] = p]
           /\ exec' = [exec EXCEPT ![p][e] = "observing"]
           /\ turn' = [turn EXCEPT ![p] = Idle]
        \/ /\ ~Consumable(e, turn[p].clk)
           /\ Finish(p)
           /\ UNCHANGED <<grant, claim>>
     /\ UNCHANGED <<world, requested, revision, pending, issued, preterm,
                    invalid, result, receipt, proc, ghosts>>

(* ---- broker.execute after the consumption ---- *)

(* observeExactProject answers with the revision of that moment.           *)
Observe(p, e) ==
  /\ Free(p) /\ exec[p][e] = "observing"
  /\ exec' = [exec EXCEPT ![p][e] = IF file = revision[e] THEN "match" ELSE "stale"]
  /\ UNCHANGED <<world, ledger, proc, turn, ghosts>>

Committing(p, e, r) == turn' = [turn EXCEPT ![p] = [Turn("approve", "commit", e)
                                                      EXCEPT !.out = r]]
Running(p, e) == exec' = [exec EXCEPT ![p][e] = "running"]

(* The timer or the caller's cancellation wins the race, the observation   *)
(* fails, or there is no provider: nothing has started.                    *)
ObserveAbort(p, e) ==
  /\ Free(p) /\ exec[p][e] \in {"observing", "match", "stale"}
  /\ \E s \in {"cancelled", "timed_out", "failed"} : Committing(p, e, Clean(s))
  /\ Running(p, e)
  /\ UNCHANGED <<world, ledger, proc, ghosts>>

WorkspaceStale(p, e) ==
  /\ Free(p) /\ exec[p][e] = "stale"
  /\ Committing(p, e, Clean("failed"))
  /\ Running(p, e)
  /\ UNCHANGED <<world, ledger, proc, ghosts>>

(* The provider starts: from here to the result it awaits only promises    *)
(* that are settled already, so that no other handler comes between.       *)
FirstStatement(e) == CASE Kind[e] = "write"  -> "before"
                       [] Kind[e] = "create" -> "write"
                       [] Kind[e] = "read"   -> "read"
StartProvider(p, e) ==
  /\ Free(p) /\ exec[p][e] = "match"
  /\ turn' = [turn EXCEPT ![p] = Turn("approve", FirstStatement(e), e)]
  /\ Running(p, e)
  /\ runs' = [runs EXCEPT ![e] = @ + 1]
  /\ UNCHANGED <<world, ledger, proc, wrote>>

(* The provider settled with r.                                            *)
Settle(p, e, r) ==
  \E out \in Outcomes(e, r) :
    turn' = [turn EXCEPT ![p].at = "commit", ![p].out = out]

(* An error before the effect: path, hardlink, parent or abort checks.     *)
PreEffectFailure(p) ==
  LET e == turn[p].e
  IN /\ At(p, "before") \/ At(p, "write") \/ At(p, "read")
     /\ \E s \in {"failed", "cancelled"} : Settle(p, e, Clean(s))
     /\ UNCHANGED <<world, ledger, proc, exec, ghosts>>

ReadBefore(p) ==
  /\ At(p, "before")
  /\ turn' = [turn EXCEPT ![p].at = "write", ![p].seen = file[Target[turn[p].e]]]
  /\ UNCHANGED <<world, ledger, proc, exec, ghosts>>

(* writeProjectFileAtomic renames over whatever is there by now;           *)
(* createProjectFileAtomic links, which never clobbers.                    *)
Blocked(e) == Kind[e] = "create" /\ file[Target[e]] # Nil

WriteFile(p) ==
  LET e == turn[p].e
  IN /\ At(p, "write") /\ ~Blocked(e)
     /\ file' = [file EXCEPT ![Target[e]] = Payload[e]]
     /\ wrote' = wrote \cup {e}
     /\ Goto(p, "verify")
     /\ UNCHANGED <<now, ledger, proc, exec, runs>>

(* After the rename or link: the durability boundary may fail, then the    *)
(* target is read back and compared.  Everything that is not an exact      *)
(* read-back is an applied effect of unknown state.                        *)
UnconfirmedIsClean(e, seen) == Clean("failed")  \* a variant of Unconfirmed
Unconfirmed(e, seen) ==
  IF Kind[e] = "create" THEN Owing("orphaned", Nil, Nil, TRUE)
                        ELSE Owing("orphaned", seen, Payload[e], FALSE)
MismatchIsClean(e, seen, c) == Clean("failed")  \* a variant of Mismatch
Mismatch(e, seen, c) ==
  IF Kind[e] = "create" THEN Owing("orphaned", Nil, Nil, TRUE)
                        ELSE Owing("orphaned", seen, c, TRUE)
Applied(e, seen) ==
  IF Kind[e] = "create" THEN Succeeded(Nil, Payload[e], TRUE)
                        ELSE Succeeded(seen, Payload[e], FALSE)
VerifyWrite(p) ==
  LET e == turn[p].e
      c == file[Target[e]]
  IN /\ At(p, "verify")
     /\ \/ Settle(p, e, Unconfirmed(e, turn[p].seen))
        \/ Settle(p, e, Mismatch(e, turn[p].seen, Nil))
        \/ c # Payload[e] /\ Settle(p, e, Mismatch(e, turn[p].seen, c))
        \/ c = Payload[e] /\ Settle(p, e, Applied(e, turn[p].seen))
     /\ UNCHANGED <<world, ledger, proc, exec, ghosts>>

ReadFile(p) ==
  LET e == turn[p].e
      c == file[Target[e]]
  IN /\ At(p, "read")
     /\ c # Nil /\ Settle(p, e, Succeeded(Nil, c, FALSE))
     /\ UNCHANGED <<world, ledger, proc, exec, ghosts>>

(* commitOutcome: without the stored result the call fails and leaves the  *)
(* claim open; removeTerminalPending follows the stored one.               *)
CommitResult(p) ==
  LET e == turn[p].e
  IN /\ At(p, "commit") /\ Recordable(e)
     /\ result' = [result EXCEPT ![e] = turn[p].out]
     /\ Goto(p, "cleanup")
     /\ UNCHANGED <<world, requested, revision, pending, grant, issued, claim,
                    preterm, invalid, receipt, proc, exec, ghosts>>

UncommittedReleased(p) ==  \* a variant that releases the payload anyway
  /\ At(p, "commit")
  /\ Goto(p, "cleanup")
  /\ UNCHANGED <<world, ledger, proc, exec, ghosts>>
ResultUncommitted(p) ==
  /\ At(p, "commit")
  /\ Finish(p)
  /\ UNCHANGED <<world, ledger, proc, ghosts>>

Cleanup(p) ==
  /\ At(p, "cleanup")
  /\ TryDeletePending(turn[p].e)
  /\ Finish(p)
  /\ UNCHANGED <<world, requested, revision, grant, issued, claim, preterm,
                 invalid, result, receipt, proc, ghosts>>

(* ---- cancelFilesystemWrite ---- *)

(* A terminal effect only loses its payload, a consumed grant refuses, and *)
(* an effect without a grant gets one to revoke.                           *)
CancelFilesystemWrite(p, e) ==
  /\ Free(p) /\ e \in pending /\ exec[p][e] = "none"
  /\ \/ /\ Terminal(e)
        /\ TryDeletePending(e)
        /\ UNCHANGED turn
     \/ /\ ~Terminal(e) /\ grant[e] # "consumed"
        /\ turn' = [turn EXCEPT ![p] =
                      Turn("cancel", IF grant[e] = "none" THEN "issue" ELSE "revoke", e)]
        /\ UNCHANGED pending
  /\ UNCHANGED <<world, requested, revision, grant, issued, claim, preterm,
                 invalid, result, receipt, proc, exec, ghosts>>

CancelRevoke(p) ==
  LET e == turn[p].e
  IN /\ At(p, "revoke")
     /\ \/ RevokeGrant(e) /\ Goto(p, "cleanup")
        \/ /\ grant[e] = "revoked"
           /\ Goto(p, "cleanup")
           /\ UNCHANGED <<grant, preterm, result, pending>>
        \/ /\ grant[e] = "consumed" \/ (grant[e] = "active" /\ preterm[e] # "none")
           /\ Finish(p)
           /\ UNCHANGED <<grant, preterm, result, pending>>
     /\ UNCHANGED <<world, requested, revision, issued, claim, invalid, receipt,
                    proc, exec, ghosts>>

-------------------------------------------------------------------------------
(* The synchronous steps of a handler, the continuations of an execution,  *)
(* and the calls users make.                                               *)

BootStep(p) ==
  \/ BootNextPhase(p)
  \/ \E e \in Effects : \/ BootExpireGrant(p, e) \/ BootCleanPending(p, e)
                        \/ BootRecoverClaim(p, e) \/ BootObserveRollback(p, e)
  \/ RecordRollbackReceipt(p)
RecoverStep(p) ==
  \/ RecoverTerminal(p) \/ RecoverDeadOwner(p) \/ RecoverNothing(p)
  \/ RecoverRecordResult(p) \/ RecoverConflict(p) \/ RecoverDeletePending(p)
HandlerStep(p) ==
  \/ RequestTerminal(p) \/ StorePending(p)
  \/ ApproveExpire(p) \/ IssueApprovalGrant(p) \/ EnterExecute(p)
  \/ ConsumeApprovalGrant(p) \/ CancelRevoke(p)
ProviderStep(p) ==
  \/ PreEffectFailure(p) \/ ReadBefore(p) \/ WriteFile(p) \/ VerifyWrite(p)
  \/ ReadFile(p) \/ CommitResult(p) \/ ResultUncommitted(p) \/ Cleanup(p)
Step(p) == BootStep(p) \/ RecoverStep(p) \/ HandlerStep(p) \/ ProviderStep(p)

Continue(p, e) == \/ Observe(p, e) \/ ObserveAbort(p, e)
                  \/ WorkspaceStale(p, e) \/ StartProvider(p, e)

Call(p, e) == \/ RegisterEffectRequest(p, e) \/ ApproveFilesystemEffect(p, e)
              \/ CancelFilesystemWrite(p, e)

Next ==
  \/ Tick
  \/ \E f \in Paths, c \in Edits : ForeignEdit(f, c)
  \/ \E e \in Effects : InvalidateEffect(e)
  \/ \E p \in Procs : Boot(p) \/ Crash(p) \/ Step(p)
  \/ \E p \in Procs, e \in Effects : Continue(p, e) \/ Call(p, e)

Spec == Init /\ [][Next]_vars

(* JavaScript runs a turn to its end; the event loop serves every settled  *)
(* promise before it takes infinitely many later calls, and the 120 s      *)
(* timer settles each race; a stable incarnation is eventually started.    *)
Fairness == /\ \A p \in Procs : WF_vars(Step(p))
            /\ \A p \in Stable : WF_vars(Boot(p))
            /\ \A p \in Procs, e \in Effects : SF_vars(Continue(p, e))
FairSpec == Spec /\ Fairness

-------------------------------------------------------------------------------
(* Properties.                                                             *)

TurnRecords == [op : Ops, at : Labels, e : Effects \cup {NoEffect}, clk : Nat,
                seen : Images, out : Results, todo : SUBSET Effects]
ExecStates == {"none", "observing", "match", "stale", "running"}

(* Every variable keeps its type: the ledger's rows, the processes and     *)
(* their turns.                                                            *)
TypeOK ==
  /\ now \in Nat /\ file \in [Paths -> Images]
  /\ requested \subseteq Effects /\ pending \subseteq Effects
  /\ invalid \subseteq Effects /\ wrote \subseteq Effects
  /\ revision \in [Effects -> [Paths -> Images]]
  /\ grant \in [Effects -> {"none", "active", "consumed", "revoked"}]
  /\ issued \in [Effects -> Nat]
  /\ claim \in [Effects -> Procs \cup {NoProc}]
  /\ preterm \in [Effects -> {"none", "APPROVAL_GRANT_REVOKED",
                              "APPROVAL_GRANT_EXPIRED"}]
  /\ result \in [Effects -> Results]
  /\ receipt \in [Effects -> ReceiptCodes]
  /\ proc \in [Procs -> {"unborn", "boot", "up", "dead"}]
  /\ turn \in [Procs -> TurnRecords]
  /\ exec \in [Procs -> [Effects -> ExecStates]]
  /\ runs \in [Effects -> Nat]

(* An effect is either executed or refused, never both, whichever of the   *)
(* approval, the cancellation, the expiry and the invalidation gets to the *)
(* ledger first: a claim is exactly a consumed grant, a pre-execution      *)
(* terminal excludes the claim and is a clean cancellation, and an         *)
(* invalidated request never had a grant.                                  *)
AuthorityExclusive ==
  \A e \in Effects :
    /\ (claim[e] # NoProc) <=> (grant[e] = "consumed")
    /\ preterm[e] # "none" => claim[e] = NoProc /\ result[e] = Clean("cancelled")
    /\ grant[e] = "revoked" => preterm[e] = "APPROVAL_GRANT_REVOKED"
    /\ Terminal(e) => claim[e] # NoProc \/ preterm[e] # "none"
    /\ e \in invalid => grant[e] = "none"

(* Executing p of e: p's handler is between the consumed grant and the     *)
(* recorded result.                                                        *)
Executing(p, e) ==
  \/ exec[p][e] \in {"observing", "match", "stale"}
  \/ turn[p].e = e /\ turn[p].at \in {"before", "read", "write", "verify", "commit"}

(* While a process executes an effect, it owns the claim and nobody else   *)
(* has closed the effect: restart recovery by another process, a second    *)
(* approval or an expired grant never take a live execution's authority.   *)
LiveOwnerKeepsAuthority ==
  \A p \in Procs, e \in Effects :
    Executing(p, e) => claim[e] = p /\ ~Terminal(e)

(* A project that a provider changed is never reported unchanged: the      *)
(* terminal result is a success or carries rollback debt, and no effect is *)
(* changed without the claim, an invalidated or refused one least of all.  *)
NoSilentEffect ==
  \A e \in wrote :
    /\ claim[e] # NoProc /\ Kind[e] # "read"
    /\ Terminal(e) => result[e].status = "succeeded" \/ result[e].debt

(* The converse: success is reported only for a change that was made.      *)
SuccessIsReal ==
  \A e \in Effects :
    result[e].status = "succeeded" => runs[e] = 1 /\ (Kind[e] = "read" \/ e \in wrote)

(* A claim without a result keeps its pending row, the only way restart    *)
(* recovery and the next approval can find it.                             *)
PendingRecoverable ==
  \A e \in Effects : claim[e] # NoProc /\ ~Terminal(e) => e \in pending

(* A debt is discharged as "restored" only if the effect was applied: what *)
(* is found missing after a crash whose before image nobody read stays a   *)
(* debt.                                                                   *)
DischargeNeedsEvidence ==
  \A e \in Effects : receipt[e] = "matches_before" => e \in wrote

(* The ledger is append-only: an approval is issued once and moves only    *)
(* from active to consumed or revoked, a claim never changes hands, a      *)
(* result and a receipt are never replaced.                                *)
LedgerAppendOnly ==
  [][\A e \in Effects :
       /\ grant[e] # "none" => issued'[e] = issued[e]
       /\ grant'[e] # grant[e] =>
            <<grant[e], grant'[e]>> \in {<<"none", "active">>,
                       <<"active", "consumed">>, <<"active", "revoked">>}
       /\ claim[e] # NoProc => claim'[e] = claim[e]
       /\ Terminal(e) => result'[e] = result[e]
       /\ receipt[e] # "none" => receipt'[e] = receipt[e]]_vars

(* An effect in doubt stays open: a claim is closed by its owner, at the   *)
(* end of the execution, or after the owner's proven death by recovery.    *)
ClosedByOwnerOrHeir ==
  [][\A e \in Effects :
       claim[e] # NoProc /\ ~Terminal(e) /\ Terminal(e)' =>
         \/ turn[claim[e]].at = "commit" /\ turn[claim[e]].e = e
         \/ proc[claim[e]] = "dead" /\ claim[e] \notin Opaque]_vars

(* The ledger keeps the promise of EffectLedger to whoever reads it.       *)
PhaseOf(e) == IF Terminal(e) THEN "closed"
              ELSE IF claim[e] # NoProc THEN "claimed" ELSE "open"
VerdictOf(e) ==
  IF ~Terminal(e)                         THEN "none"
  ELSE IF preterm[e] # "none"             THEN "refused"
  ELSE IF result[e].status = "succeeded"  THEN "succeeded"
  ELSE IF DebtOpen(e)                     THEN "debt"
  ELSE IF result[e].debt                  THEN "discharged" ELSE "clean"
Ledger == INSTANCE EffectLedger WITH
            Reads   <- {e \in Effects : Kind[e] = "read"},
            phase   <- [e \in Effects |-> PhaseOf(e)],
            starts  <- runs,
            changed <- wrote,
            verdict <- [e \in Effects |-> VerdictOf(e)]
ImplementsLedger == Ledger!Spec

(* An execution ends, whether the observation, the provider and the        *)
(* storage answer or fail, or the process dies.                            *)
ExecutionEnds ==
  \A p \in Procs, e \in Effects : exec[p][e] # "none" ~> exec[p][e] = "none"

(* A claim orphaned by a provably dead owner is closed once a stable       *)
(* incarnation boots after the death.                                      *)
Orphaned(e) == ~Terminal(e) /\ ProvablyDead(claim[e])
OrphanRecovered ==
  \A e \in Effects :
    Orphaned(e) /\ (\E s \in Stable : proc[s] = "unborn") ~> Terminal(e)

(* What effect-broker.js:305 says of the exact retry, by which a client    *)
(* that lost the answer gets back to its terminal result: it reproduces    *)
(* the registered bytes and does not turn into a conflict.                 *)
RetryReproducesRequest == \A e \in Effects : Terminal(e) => ~RegisterConflict(e)

===============================================================================

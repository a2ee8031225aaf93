--------------------------- MODULE EffectTruthProofs ---------------------------
(***************************************************************************)
(* The effect authority tells the truth: what its results and receipts say *)
(* of the project is what the provider did to it, and no claim gets lost   *)
(* before its result.  Neither is inductive alone: what a result says was  *)
(* decided at an earlier statement of the owner's handler, a payload is    *)
(* released by a statement that follows the one which saw the result, and  *)
(* a grant is only issued for a payload that was seen some statements ago. *)
(* StageInv is what each statement of a handler may rely on, RowInv what   *)
(* each row of the ledger says; they are inductive together.               *)
(***************************************************************************)
EXTENDS EffectSafetyProofs

-------------------------------------------------------------------------------
(* The invariant.                                                          *)

(* The result r tells the truth about e: success was made, a change is a   *)
(* success or a debt, and a debt that shows an image of the target, or     *)
(* proof that there was none, is the debt of a change.                     *)
Shows(r) == r.before # Nil \/ r.after # Nil \/ r.proof
Honest(e, r) ==
  /\ r.status # "none"
  /\ r.status = "succeeded" => runs[e] = 1 /\ (Kind[e] = "read" \/ e \in wrote)
  /\ e \in wrote => r.status = "succeeded" \/ r.debt
  /\ r.debt => Kind[e] # "read" /\ (Shows(r) => e \in wrote)

(* An effect that has its payload, or will not need it any more.           *)
Held(e) == e \in pending \/ Terminal(e) \/ e \in invalid

Fresh(e)   == runs[e] = 0 /\ e \notin wrote
Begun(e)   == runs[e] = 1 /\ e \notin wrote
Changed(e) == runs[e] = 1 /\ e \in wrote

(* What the statement relies on that p's handler, at the turn t, is about  *)
(* to run.                                                                 *)
TurnOK(t) ==
  /\ t.at \in {"before", "write"} => Begun(t.e) /\ Kind[t.e] # "read"
  /\ t.at = "read" => Begun(t.e) /\ Kind[t.e] = "read"
  /\ t.at = "verify" => Changed(t.e) /\ Kind[t.e] # "read"
  /\ t.at = "commit" => Honest(t.e, t.out)
  /\ t.at \in {"recoverDel", "cleanup"} => Terminal(t.e)
  /\ t.at = "receiptPut" => result[t.e].debt
  /\ t.at \in {"expire", "issue"} => t.op \in {"approve", "cancel"}
  /\ t.op \in {"approve", "cancel"} /\ t.at \in {"recover", "expire", "issue"} => Held(t.e)
  /\ t.op = "cleanPending" => \A f \in t.todo : Terminal(f)
  /\ t.op = "receipts" => \A f \in t.todo : result[f].debt
StageOK(p) ==
  /\ TurnOK(turn[p])
  /\ \A e \in Effects : exec[p][e] \in Waiting => Fresh(e)
StageInv == \A p \in Procs : StageOK(p)

(* What the row of e relies on.                                            *)
RowOK(e) ==
  /\ claim[e] = NoProc => Fresh(e)
  /\ e \in wrote => Kind[e] # "read"
  /\ Terminal(e) => Honest(e, result[e])
  /\ receipt[e] # "none" => result[e].debt
  /\ receipt[e] = "matches_before" => e \in wrote
  /\ grant[e] # "none" /\ ~Terminal(e) => e \in pending
RowInv == \A e \in Effects : RowOK(e)

-------------------------------------------------------------------------------
(* The steps that say or do something.                                     *)

Refuses(e) ==
  /\ claim[e] = NoProc /\ ~Terminal(e)
  /\ \E r : r # "none" /\ preterm' = [preterm EXCEPT ![e] = r]
  /\ result' = [result EXCEPT ![e] = Clean("cancelled")]
  /\ UNCHANGED <<claim, receipt, runs, wrote>>
Claims(p, e) ==
  /\ claim[e] = NoProc /\ ~Terminal(e)
  /\ claim' = [claim EXCEPT ![e] = p]
  /\ UNCHANGED <<preterm, result, receipt, runs, wrote>>
Closing(p, e) == IF turn[p].at = "commit" THEN turn[p].out ELSE RecoveryResult(e)
Closes(p, e) ==
  /\ At(p, "recoverPut") \/ At(p, "commit")
  /\ turn[p].e = e /\ Recordable(e)
  /\ result' = [result EXCEPT ![e] = Closing(p, e)]
  /\ UNCHANGED <<claim, preterm, receipt, runs, wrote>>
Settles(p, e) ==
  /\ At(p, "receiptPut") /\ turn[p].e = e
  /\ receipt' = [receipt EXCEPT ![e] =
                   FirstReceipt(e, Classify(e, result[e], turn[p].seen))]
  /\ UNCHANGED <<claim, preterm, result, runs, wrote>>
Starts(p, e) ==
  /\ Free(p) /\ exec[p][e] = "match" /\ Running(p, e)
  /\ turn' = [turn EXCEPT ![p] = Turn("approve", FirstStatement(e), e)]
  /\ runs' = [runs EXCEPT ![e] = @ + 1]
  /\ UNCHANGED <<claim, preterm, result, receipt, wrote>>
Writes(p, e) ==
  /\ At(p, "write") /\ turn[p].e = e
  /\ Goto(p, "verify") /\ UNCHANGED exec
  /\ wrote' = wrote \cup {e}
  /\ UNCHANGED <<claim, preterm, result, receipt, runs>>
Quiet == UNCHANGED <<claim, preterm, result, receipt, runs, wrote>>
TruthMove ==
  \/ Quiet
  \/ \E e \in Effects : Refuses(e)
  \/ \E p \in Procs, e \in Effects :
       Claims(p, e) \/ Closes(p, e) \/ Settles(p, e) \/ Starts(p, e) \/ Writes(p, e)

(* A refusal of a grant that is not consumed is one of an open effect.       *)
LEMMA RefusalStep ==
  ASSUME AuthorityExclusive, NEW e \in Effects, Terminalizes(e) \/ Revokes(e),
         UNCHANGED <<receipt, runs, wrote>>
  PROVE  Refuses(e)
  <1>1. CASE Terminalizes(e)
    BY <1>1 DEF Terminalizes, Terminalizable, TerminalizeGrant, Refuses, Reason
  <1>2. CASE Revokes(e)
    <2>1. /\ grant[e] = "active" /\ preterm[e] = "none"
          /\ preterm' = [preterm EXCEPT ![e] = "APPROVAL_GRANT_REVOKED"]
          /\ result' = [result EXCEPT ![e] = Clean("cancelled")] /\ UNCHANGED claim
      BY <1>2 DEF Revokes, RevokeGrant, Reason
    <2>2. claim[e] = NoProc /\ ~Terminal(e)
      BY <2>1 DEF AuthorityExclusive
    <2> QED
      BY <2>1, <2>2 DEF Refuses
  <1> QED
    BY <1>1, <1>2

(* Every step is quiet about results, receipts and the provider's deeds,   *)
(* or is one of six that are not, about one effect.                        *)
LEMMA TruthStep ==
  ASSUME TypeOK, ProcessInv, AuthorityExclusive, [Next]_vars
  PROVE  TruthMove
  <1> USE DEF world, ledger, procs, ghosts
  <1>e. \A p \in Procs : turn[p].at # "idle" /\ turn[p].at # "scan" => turn[p].e \in Effects
    BY DEF ProcessInv, ProcessOK
  <1>q. ASSUME Quiet PROVE TruthMove
    BY <1>q DEF TruthMove
  <1>r. ASSUME NEW e \in Effects, Refuses(e) PROVE TruthMove
    BY <1>r DEF TruthMove
  <1>1. CASE Tick \/ UNCHANGED vars
    BY <1>1, <1>q DEF Tick, vars, Quiet
  <1>2. ASSUME NEW f \in Paths, NEW c \in Edits, ForeignEdit(f, c)
        PROVE  TruthMove
    BY <1>2, <1>q DEF ForeignEdit, Quiet
  <1>3. ASSUME NEW e \in Effects, InvalidateEffect(e)
        PROVE  TruthMove
    BY <1>3, <1>q DEF InvalidateEffect, Quiet
  <1>4. ASSUME NEW p \in Procs, Boot(p) \/ Crash(p)
        PROVE  TruthMove
    BY <1>4, <1>q DEF Boot, Crash, Quiet
  <1>5. ASSUME NEW p \in Procs, BootStep(p)
        PROVE  TruthMove
    <2>1. ASSUME NEW e \in Effects, BootExpireGrant(p, e)
          PROVE  TruthMove
      <3>1. CASE Terminalizable(e) /\ TerminalizeGrant(e)
        <4>1. Terminalizes(e) /\ UNCHANGED <<receipt, runs, wrote>>
          BY <2>1, <3>1 DEF BootExpireGrant, Terminalizes
        <4> QED
          BY <1>r, <4>1, RefusalStep
      <3> QED
        BY <2>1, <3>1, <1>q DEF BootExpireGrant, Quiet
    <2>2. CASE RecordRollbackReceipt(p)
      <3>1. turn[p].e \in Effects /\ Settles(p, turn[p].e)
        BY <2>2, <1>e DEF RecordRollbackReceipt, Settles, At
      <3> QED
        BY <3>1 DEF TruthMove
    <2>3. CASE BootNextPhase(p) \/ \E e \in Effects :
                 BootCleanPending(p, e) \/ BootRecoverClaim(p, e) \/ BootObserveRollback(p, e)
      BY <2>3, <1>q DEF BootNextPhase, BootCleanPending, BootRecoverClaim,
         BootObserveRollback, Quiet
    <2> QED
      BY <1>5, <2>1, <2>2, <2>3 DEF BootStep
  <1>6. ASSUME NEW p \in Procs, RecoverStep(p)
        PROVE  TruthMove
    <2>1. CASE RecoverRecordResult(p)
      <3>1. turn[p].e \in Effects
        BY <2>1, <1>e DEF RecoverRecordResult, At
      <3>2. CASE Recordable(turn[p].e)
                 /\ result' = [result EXCEPT ![turn[p].e] = RecoveryResult(turn[p].e)]
        <4>1. Closes(p, turn[p].e)
          BY <2>1, <3>2 DEF RecoverRecordResult, Closes, Closing, At
        <4> QED
          BY <3>1, <4>1 DEF TruthMove
      <3> QED
        BY <2>1, <3>2, <1>q DEF RecoverRecordResult, Quiet
    <2>2. CASE ~RecoverRecordResult(p)
      BY <1>6, <2>2, <1>q DEF RecoverStep, RecoverTerminal, RecoverDeadOwner,
         RecoverNothing, RecoverConflict, RecoverDeletePending, Quiet
    <2> QED
      BY <2>1, <2>2
  <1>7. ASSUME NEW p \in Procs, HandlerStep(p)
        PROVE  TruthMove
    <2>1. CASE RequestTerminal(p) \/ StorePending(p) \/ EnterExecute(p)
                 \/ IssueApprovalGrant(p)
      BY <2>1, <1>q DEF RequestTerminal, StorePending, EnterExecute, IssueApprovalGrant,
         Quiet
    <2>2. CASE ApproveExpire(p)
      <3>1. turn[p].e \in Effects
        BY <2>2, <1>e DEF ApproveExpire, At
      <3>2. CASE Terminalizable(turn[p].e) /\ TerminalizeGrant(turn[p].e)
        <4>1. Terminalizes(turn[p].e) /\ UNCHANGED <<receipt, runs, wrote>>
          BY <2>2, <3>2 DEF ApproveExpire, Terminalizes
        <4> QED
          BY <1>r, <3>1, <4>1, RefusalStep
      <3> QED
        BY <2>2, <3>2, <1>q DEF ApproveExpire, Quiet
    <2>4. CASE ConsumeApprovalGrant(p)
      <3>1. turn[p].e \in Effects
        BY <2>4, <1>e DEF ConsumeApprovalGrant, At
      <3>2. CASE Consumes(p, turn[p].e)
        <4>1. grant[turn[p].e] = "active" /\ preterm[turn[p].e] = "none"
          BY <3>2 DEF Consumes, Consumable
        <4>2. claim[turn[p].e] = NoProc /\ ~Terminal(turn[p].e)
          BY <3>1, <4>1 DEF AuthorityExclusive
        <4>3. Claims(p, turn[p].e)
          BY <2>4, <3>2, <4>2 DEF ConsumeApprovalGrant, Consumes, Claims
        <4> QED
          BY <3>1, <4>3 DEF TruthMove
      <3> QED
        BY <2>4, <3>2, <1>q DEF ConsumeApprovalGrant, Consumes, Quiet
    <2>5. CASE CancelRevoke(p)
      <3>1. turn[p].e \in Effects
        BY <2>5, <1>e DEF CancelRevoke, At
      <3>2. CASE RevokeGrant(turn[p].e)
        <4>1. Revokes(turn[p].e) /\ UNCHANGED <<receipt, runs, wrote>>
          BY <2>5, <3>2 DEF CancelRevoke, Revokes
        <4> QED
          BY <1>r, <3>1, <4>1, RefusalStep
      <3> QED
        BY <2>5, <3>2, <1>q DEF CancelRevoke, Quiet
    <2> QED
      BY <1>7, <2>1, <2>2, <2>4, <2>5 DEF HandlerStep
  <1>8. ASSUME NEW p \in Procs, ProviderStep(p)
        PROVE  TruthMove
    <2>1. CASE CommitResult(p)
      <3>1. turn[p].e \in Effects /\ Closes(p, turn[p].e)
        BY <2>1, <1>e DEF CommitResult, Closes, Closing, At
      <3> QED
        BY <3>1 DEF TruthMove
    <2>2. CASE WriteFile(p)
      <3>1. turn[p].e \in Effects /\ Writes(p, turn[p].e)
        BY <2>2, <1>e DEF WriteFile, Writes, At
      <3> QED
        BY <3>1 DEF TruthMove
    <2>3. CASE ~CommitResult(p) /\ ~WriteFile(p)
      BY <1>8, <2>3, <1>q DEF ProviderStep, PreEffectFailure, ReadBefore,
         VerifyWrite, ReadFile, ResultUncommitted, Cleanup, Quiet
    <2> QED
      BY <2>1, <2>2, <2>3
  <1>9. ASSUME NEW p \in Procs, NEW e \in Effects, Continue(p, e) \/ Call(p, e)
        PROVE  TruthMove
    <2>1. CASE StartProvider(p, e)
      BY <2>1 DEF StartProvider, Starts, TruthMove
    <2> QED
      BY <1>9, <2>1, <1>q DEF Continue, Observe, ObserveAbort, WorkspaceStale,
         Call, RegisterEffectRequest, ApproveFilesystemEffect, CancelFilesystemWrite, Quiet
  <1> QED
    BY <1>1, <1>2, <1>3, <1>4, <1>5, <1>6, <1>7, <1>8, <1>9 DEF Next, Step

-------------------------------------------------------------------------------
(* What a step keeps.                                                      *)

(* A result stands.                                                          *)
LEMMA ResultKept ==
  ASSUME TypeOK, TruthMove, NEW e \in Effects, Terminal(e)
  PROVE  result'[e] = result[e] /\ Terminal(e)'
  <1>t. result \in [Effects -> Results]
    BY DEF TypeOK
  <1>1. result'[e] = result[e]
    BY <1>t DEF TruthMove, Quiet, Refuses, Claims, Closes, Settles, Starts, Writes,
       Recordable, Terminal
  <1> QED
    BY <1>1 DEF Terminal

(* So does an invalidation, whose effect has no grant.                       *)
LEMMA InvalidKept ==
  ASSUME LedgerMove
  PROVE  invalid \subseteq invalid'
  BY DEF LedgerMove, Terminalizes, Revokes, Issues, Invalidates, Consumes, Records

(* What a handler that is not at a statement of the provider is sure of,   *)
(* and its executions that wait, come from this: another process's         *)
(* provider is about effects that it has claimed itself.                   *)
LEMMA DeedsOwned ==
  ASSUME LiveOwnerKeepsAuthority, NEW p \in Procs, NEW e \in Effects,
         Starts(p, e) \/ Writes(p, e)
  PROVE  Executing(p, e) /\ claim[e] = p /\ ~Terminal(e)
  <1>1. Executing(p, e)
    BY DEF Starts, Writes, Executing, At
  <1> QED
    BY <1>1 DEF LiveOwnerKeepsAuthority

(* The deeds done for an effect are those of its claim's owner.              *)
LEMMA DeedsKept ==
  ASSUME TypeOK, TruthMove, NEW e \in Effects,
         ~\E p \in Procs : Starts(p, e) \/ Writes(p, e)
  PROVE  runs'[e] = runs[e] /\ (e \in wrote' <=> e \in wrote)
  <1>t. runs \in [Effects -> Nat]
    BY DEF TypeOK
  <1>1. ASSUME NEW p \in Procs, NEW f \in Effects, Starts(p, f) \/ Writes(p, f)
        PROVE  runs'[e] = runs[e] /\ (e \in wrote' <=> e \in wrote)
    <2>1. f # e
      BY <1>1
    <2> QED
      BY <1>t, <1>1, <2>1 DEF Starts, Writes
  <1> QED
    BY <1>1 DEF TruthMove, Quiet, Refuses, Claims, Closes, Settles

(* A handler that finishes makes none of its executions wait.                *)
LEMMA FinishWait ==
  ASSUME TypeOK, NEW p \in Procs, Finish(p)
  PROVE  \A q \in Procs, e \in Effects : exec'[q][e] \in Waiting => exec[q][e] \in Waiting
  <1>1. exec \in [Procs -> [Effects -> ExecStates]]
    BY DEF TypeOK
  <1>2. CASE exec' = [exec EXCEPT ![p][turn[p].e] = "none"]
    BY <1>1, <1>2 DEF Waiting
  <1> QED
    BY <1>2 DEF Finish

(* An execution comes to wait by its grant's consumption only.               *)
LEMMA WaitStep ==
  ASSUME TypeOK, ProcessInv, [Next]_vars, NEW p \in Procs, NEW e \in Effects,
         exec'[p][e] \in Waiting
  PROVE  exec[p][e] \in Waiting \/ Consumes(p, e)
  <1> USE DEF world, ledger, procs, ghosts
  <1>t. exec \in [Procs -> [Effects -> ExecStates]]
    BY DEF TypeOK
  <1> DEFINE Goal == exec[p][e] \in Waiting \/ Consumes(p, e)
  <1>n. "none" \notin Waiting /\ "running" \notin Waiting
    BY DEF Waiting
  <1>u. ASSUME UNCHANGED exec PROVE Goal
    BY <1>u
  <1>r. ASSUME NEW q \in Procs, NEW f \in Effects,
               exec' = [exec EXCEPT ![q][f] = "running"]
        PROVE  Goal
    BY <1>r, <1>n, <1>t
  <1>f. ASSUME NEW q \in Procs, Finish(q)
        PROVE  Goal
    BY <1>f, FinishWait
  <1>e. \A q \in Procs : turn[q].at # "idle" /\ turn[q].at # "scan" => turn[q].e \in Effects
    BY DEF ProcessInv, ProcessOK
  <1>1. CASE Tick \/ UNCHANGED vars
    BY <1>1, <1>u DEF Tick, vars
  <1>2. CASE (\E f \in Paths, c \in Edits : ForeignEdit(f, c))
               \/ \E f \in Effects : InvalidateEffect(f)
    BY <1>2, <1>u DEF ForeignEdit, InvalidateEffect
  <1>3. ASSUME NEW q \in Procs, Boot(q) \/ Crash(q)
        PROVE  Goal
    BY <1>3, <1>u, <1>n, <1>t DEF Boot, Crash
  <1>4. ASSUME NEW q \in Procs, BootStep(q)
        PROVE  Goal
    BY <1>4, <1>u, <1>f DEF BootStep, BootNextPhase, BootExpireGrant, BootCleanPending,
       BootRecoverClaim, BootObserveRollback, RecordRollbackReceipt
  <1>5. ASSUME NEW q \in Procs, RecoverStep(q)
        PROVE  Goal
    BY <1>5, <1>u, <1>f DEF RecoverStep, RecoverTerminal, RecoverDeadOwner,
       RecoverNothing, RecoverRecordResult, RecoverConflict, RecoverDeletePending
  <1>6. ASSUME NEW q \in Procs, HandlerStep(q)
        PROVE  Goal
    <2>1. CASE EnterExecute(q)
      <3>1. turn[q].e \in Effects
        BY <2>1, <1>e DEF EnterExecute, At
      <3>2. Finish(q) \/ exec' = [exec EXCEPT ![q][turn[q].e] = "running"]
        BY <2>1 DEF EnterExecute
      <3> QED
        BY <3>1, <3>2, <1>r, <1>f
    <2>2. CASE ConsumeApprovalGrant(q)
      <3>1. turn[q].e \in Effects
        BY <2>2, <1>e DEF ConsumeApprovalGrant, At
      <3>2. Finish(q) \/ Consumes(q, turn[q].e)
        BY <2>2 DEF ConsumeApprovalGrant, Consumes
      <3>3. CASE Consumes(q, turn[q].e)
        <4>1. exec' = [exec EXCEPT ![q][turn[q].e] = "observing"]
          BY <3>3 DEF Consumes
        <4>2. exec'[p][e] = exec[p][e] \/ (p = q /\ e = turn[q].e)
          BY <4>1, <1>t
        <4> QED
          BY <3>3, <4>2
      <3> QED
        BY <3>2, <3>3, <1>f
    <2>3. CASE ~EnterExecute(q) /\ ~ConsumeApprovalGrant(q)
      BY <1>6, <2>3, <1>u, <1>f DEF HandlerStep, RequestTerminal, StorePending,
         ApproveExpire, IssueApprovalGrant, CancelRevoke
    <2> QED
      BY <2>1, <2>2, <2>3
  <1>7. ASSUME NEW q \in Procs, ProviderStep(q)
        PROVE  Goal
    BY <1>7, <1>u, <1>f DEF ProviderStep, PreEffectFailure, ReadBefore, WriteFile,
       VerifyWrite, ReadFile, CommitResult, ResultUncommitted, Cleanup
  <1>8. ASSUME NEW q \in Procs, NEW f \in Effects, Continue(q, f) \/ Call(q, f)
        PROVE  Goal
    <2>1. CASE Observe(q, f)
      <3>1. exec[q][f] \in Waiting
        BY <2>1 DEF Observe, Waiting
      <3>2. exec'[p][e] = exec[p][e] \/ (p = q /\ e = f)
        BY <2>1, <1>t DEF Observe
      <3> QED
        BY <3>1, <3>2
    <2> QED
      BY <1>8, <2>1, <1>u, <1>r DEF Continue, ObserveAbort, WorkspaceStale, StartProvider,
         Running, Call, RegisterEffectRequest, ApproveFilesystemEffect,
         CancelFilesystemWrite
  <1> QED
    BY <1>1, <1>2, <1>3, <1>4, <1>5, <1>6, <1>7, <1>8 DEF Next, Step

(* A payload is released once the effect is closed or invalidated, and a   *)
(* grant is issued for a payload that is there.                            *)
LEMMA PendingStep ==
  ASSUME TypeOK, ProcessInv, AuthorityExclusive, StageInv, [Next]_vars, NEW e \in Effects
  PROVE  /\ e \in pending => e \in pending' \/ Terminal(e)' \/ e \in invalid'
         /\ grant[e] = "none" /\ grant'[e] # "none" => e \in pending'
  <1> USE DEF world, ledger, procs, ghosts
  <1>t. /\ grant \in [Effects -> {"none", "active", "consumed", "revoked"}]
        /\ result \in [Effects -> Results]
    BY DEF TypeOK
  <1> DEFINE Goal == /\ e \in pending => e \in pending' \/ Terminal(e)' \/ e \in invalid'
                     /\ grant[e] = "none" /\ grant'[e] # "none" => e \in pending'
  <1>k. Terminal(e) => Terminal(e)'
    BY ResultKept, TruthStep
  <1>e. \A p \in Procs : turn[p].at # "idle" /\ turn[p].at # "scan" => turn[p].e \in Effects
    BY DEF ProcessInv, ProcessOK
  <1>u. ASSUME UNCHANGED grant, pending \subseteq pending' PROVE Goal
    BY <1>u
  <1>d. ASSUME UNCHANGED grant, NEW f, pending \ {f} \subseteq pending',
               f \in Effects => Terminal(f) \/ Terminal(f)'
        PROVE  Goal
    BY <1>d, <1>k
  <1>c. ASSUME UNCHANGED grant, NEW f \in Effects, pending' = pending \ {f},
               result' = [result EXCEPT ![f] = Clean("cancelled")]
        PROVE  Goal
    <2>1. Terminal(f)'
      BY <1>c, <1>t, CancelledIsTerminal DEF Terminal, NoResult, Clean
    <2> QED
      BY <1>c, <1>d, <2>1
  <1>1. CASE Tick \/ UNCHANGED vars
    BY <1>1, <1>u DEF Tick, vars
  <1>2. ASSUME NEW f \in Paths, NEW c \in Edits, ForeignEdit(f, c)
        PROVE  Goal
    BY <1>2, <1>u DEF ForeignEdit
  <1>3. ASSUME NEW f \in Effects, InvalidateEffect(f)
        PROVE  Goal
    BY <1>3 DEF InvalidateEffect
  <1>4. ASSUME NEW p \in Procs, Boot(p) \/ Crash(p)
        PROVE  Goal
    BY <1>4, <1>u DEF Boot, Crash
  <1>5. ASSUME NEW p \in Procs, BootStep(p)
        PROVE  Goal
    <2>1. ASSUME NEW f \in Effects, BootExpireGrant(p, f)
          PROVE  Goal
      BY <2>1, <1>u, <1>c DEF BootExpireGrant, TerminalizeGrant
    <2>2. ASSUME NEW f \in Effects, BootCleanPending(p, f)
          PROVE  Goal
      <3>1. Terminal(f)
        BY <2>2 DEF BootCleanPending, Row, StageInv, StageOK, TurnOK
      <3> QED
        BY <2>2, <3>1, <1>d DEF BootCleanPending, TryDeletePending
    <2>3. CASE ~\E f \in Effects : BootExpireGrant(p, f) \/ BootCleanPending(p, f)
      BY <1>5, <2>3, <1>u DEF BootStep, BootNextPhase, BootRecoverClaim,
         BootObserveRollback, RecordRollbackReceipt
    <2> QED
      BY <2>1, <2>2, <2>3
  <1>6. ASSUME NEW p \in Procs, RecoverStep(p)
        PROVE  Goal
    <2>1. CASE RecoverTerminal(p)
      BY <2>1, <1>d DEF RecoverTerminal, TryDeletePending
    <2>2. CASE RecoverDeletePending(p)
      <3>1. Terminal(turn[p].e)
        BY <2>2 DEF RecoverDeletePending, At, StageInv, StageOK, TurnOK
      <3> QED
        BY <2>2, <3>1, <1>d DEF RecoverDeletePending
    <2>3. CASE ~RecoverTerminal(p) /\ ~RecoverDeletePending(p)
      BY <1>6, <2>3, <1>u DEF RecoverStep, RecoverDeadOwner, RecoverNothing,
         RecoverRecordResult, RecoverConflict
    <2> QED
      BY <2>1, <2>2, <2>3
  <1>7. ASSUME NEW p \in Procs, HandlerStep(p)
        PROVE  Goal
    <2>1. CASE RequestTerminal(p) \/ EnterExecute(p)
      BY <2>1, <1>u, <1>d DEF RequestTerminal, EnterExecute, TryDeletePending
    <2>2. CASE StorePending(p)
      BY <2>2, <1>u DEF StorePending
    <2>3. CASE ApproveExpire(p)
      <3>1. turn[p].e \in Effects
        BY <2>3, <1>e DEF ApproveExpire, At
      <3> QED
        BY <2>3, <3>1, <1>u, <1>c DEF ApproveExpire, TerminalizeGrant
    <2>4. CASE IssueApprovalGrant(p)
      <3>1. turn[p].e \in Effects /\ UNCHANGED pending
        BY <2>4, <1>e DEF IssueApprovalGrant, At
      <3>2. CASE grant' = grant
        BY <3>1, <3>2
      <3>3. CASE grant' # grant
        <4>1. /\ ~Terminal(turn[p].e) /\ turn[p].e \notin invalid
              /\ grant' = [grant EXCEPT ![turn[p].e] = "active"]
          BY <2>4, <3>3 DEF IssueApprovalGrant
        <4>2. turn[p].op \in {"approve", "cancel"}
          BY <2>4 DEF IssueApprovalGrant, At, StageInv, StageOK, TurnOK
        <4>3. Held(turn[p].e)
          BY <2>4, <4>2 DEF IssueApprovalGrant, At, StageInv, StageOK, TurnOK
        <4>4. turn[p].e \in pending
          BY <4>1, <4>3 DEF Held
        <4> QED
          BY <1>t, <3>1, <4>1, <4>4
      <3> QED
        BY <3>2, <3>3
    <2>5. CASE ConsumeApprovalGrant(p)
      <3>1. turn[p].e \in Effects /\ UNCHANGED pending
        BY <2>5, <1>e DEF ConsumeApprovalGrant, At
      <3>2. grant' = grant \/ (grant[turn[p].e] = "active"
                               /\ grant' = [grant EXCEPT ![turn[p].e] = "consumed"])
        BY <2>5 DEF ConsumeApprovalGrant, Consumable
      <3> QED
        BY <1>t, <3>1, <3>2
    <2>6. CASE CancelRevoke(p)
      <3>1. turn[p].e \in Effects
        BY <2>6, <1>e DEF CancelRevoke, At
      <3>2. CASE RevokeGrant(turn[p].e)
        <4>0. PICK f \in Effects : f = turn[p].e
          BY <3>1
        <4>1. /\ grant[f] = "active" /\ grant' = [grant EXCEPT ![f] = "revoked"]
              /\ result' = [result EXCEPT ![f] = Clean("cancelled")]
              /\ pending' = pending \ {f}
          BY <3>2, <4>0 DEF RevokeGrant
        <4>2. Terminal(f)'
          BY <4>1, <1>t, CancelledIsTerminal DEF Terminal, NoResult, Clean
        <4> QED
          BY <1>t, <4>1, <4>2
      <3> QED
        BY <2>6, <3>2, <1>u DEF CancelRevoke
    <2> QED
      BY <1>7, <2>1, <2>2, <2>3, <2>4, <2>5, <2>6 DEF HandlerStep
  <1>8. ASSUME NEW p \in Procs, ProviderStep(p)
        PROVE  Goal
    <2>1. CASE Cleanup(p)
      <3>1. Terminal(turn[p].e)
        BY <2>1 DEF Cleanup, At, StageInv, StageOK, TurnOK
      <3> QED
        BY <2>1, <3>1, <1>d DEF Cleanup, TryDeletePending
    <2>2. CASE ~Cleanup(p)
      BY <1>8, <2>2, <1>u DEF ProviderStep, PreEffectFailure, ReadBefore, WriteFile,
         VerifyWrite, ReadFile, CommitResult, ResultUncommitted
    <2> QED
      BY <2>1, <2>2
  <1>9. ASSUME NEW p \in Procs, NEW f \in Effects, Continue(p, f) \/ Call(p, f)
        PROVE  Goal
    <2>1. CASE CancelFilesystemWrite(p, f)
      BY <2>1, <1>u, <1>d DEF CancelFilesystemWrite, TryDeletePending
    <2> QED
      BY <1>9, <2>1, <1>u DEF Continue, Observe, ObserveAbort, WorkspaceStale, StartProvider,
         Call, RegisterEffectRequest, ApproveFilesystemEffect
  <1> QED
    BY <1>1, <1>2, <1>3, <1>4, <1>5, <1>6, <1>7, <1>8, <1>9 DEF Next, Step

-------------------------------------------------------------------------------
(* The stages.                                                             *)

(* What was held stays held.                                                 *)
LEMMA HeldKept ==
  ASSUME TypeOK, ProcessInv, AuthorityExclusive, StageInv, [Next]_vars,
         NEW e \in Effects, Held(e)
  PROVE  Held(e)'
  BY PendingStep, ResultKept, TruthStep, InvalidKept, LedgerStep DEF Held

(* A debt is a result.                                                       *)
LEMMA DebtKept ==
  ASSUME TypeOK, TruthMove, NEW e \in Effects, result[e].debt
  PROVE  result'[e].debt
  <1>1. Terminal(e)
    BY DEF Terminal, NoResult, Clean
  <1> QED
    BY <1>1, ResultKept

(* The rows a boot phase has listed stay what they were.                     *)
LEMMA TodoKept ==
  ASSUME TypeOK, TruthMove, StageInv, NEW p \in Procs,
         turn'[p].op = turn[p].op, turn'[p].todo \subseteq turn[p].todo
  PROVE  /\ turn'[p].op = "cleanPending" => \A f \in turn'[p].todo : Terminal(f)'
         /\ turn'[p].op = "receipts" => \A f \in turn'[p].todo : result'[f].debt
  <1>1. turn[p].todo \subseteq Effects
    BY DEF TypeOK, TurnRecords
  <1> QED
    BY <1>1, ResultKept, DebtKept DEF StageInv, StageOK, TurnOK

(* A handler that relies on no more than before the step still may: no     *)
(* other handler breaks a stage whose effect's deeds it does not change.   *)
LEMMA TurnPersists ==
  ASSUME TypeOK, ProcessInv, AuthorityExclusive, StageInv, [Next]_vars, NEW p \in Procs,
         TurnOK(turn'[p]),
         turn'[p].at \in Provider =>
           /\ runs'[turn'[p].e] = runs[turn'[p].e]
           /\ turn'[p].e \in wrote' <=> turn'[p].e \in wrote
  PROVE  TurnOK(turn[p])'
  <1>1. ProcessOK(p)' /\ turn'[p] \in TurnRecords
    BY ProcessNext, TypeNext DEF ProcessInv, TypeOK
  <1>2. PICK t \in TurnRecords : t = turn'[p]
    BY <1>1
  <1>3. t.at # "idle" /\ t.at # "scan" => t.e \in Effects
    BY <1>1, <1>2 DEF ProcessOK
  <1>4. t.todo \subseteq Effects
    BY DEF TurnRecords
  <1>5. t.at \in Provider => runs'[t.e] = runs[t.e] /\ (t.e \in wrote' <=> t.e \in wrote)
    BY <1>2
  <1>6. /\ t.at \in {"before", "write"} => (Begun(t.e) /\ Kind[t.e] # "read")'
        /\ t.at = "read" => (Begun(t.e) /\ Kind[t.e] = "read")'
        /\ t.at = "verify" => (Changed(t.e) /\ Kind[t.e] # "read")'
        /\ t.at = "commit" => Honest(t.e, t.out)'
    BY <1>2, <1>5 DEF TurnOK, Begun, Changed, Honest, Provider, Started
  <1>7. /\ t.at \in {"recoverDel", "cleanup"} => Terminal(t.e)'
        /\ t.at = "receiptPut" => (result[t.e].debt)'
    BY <1>2, <1>3, ResultKept, DebtKept, TruthStep DEF TurnOK
  <1>8. t.op \in {"approve", "cancel"} /\ t.at \in {"recover", "expire", "issue"}
          => Held(t.e)'
    BY <1>2, <1>3, HeldKept DEF TurnOK
  <1>9. /\ t.op = "cleanPending" => \A f \in t.todo : Terminal(f)'
        /\ t.op = "receipts" => \A f \in t.todo : (result[f].debt)'
    BY <1>2, <1>4, ResultKept, DebtKept, TruthStep DEF TurnOK
  <1>10. t.at \in {"expire", "issue"} => t.op \in {"approve", "cancel"}
    BY <1>2 DEF TurnOK
  <1>11. TurnOK(t)'
    BY <1>6, <1>7, <1>8, <1>9, <1>10 DEF TurnOK
  <1> QED
    BY <1>2, <1>11 DEF TurnOK

(* Nothing is relied on after the end of a handler but the phase's rows.     *)
LEMMA FinishTurn ==
  ASSUME TypeOK, StageInv, NEW p \in Procs, Finish(p)
  PROVE  TurnOK(turn'[p]) /\ turn'[p].at \notin Provider
  <1>1. CASE turn[p].op \in BootPhases
    <2>1. turn'[p].at = "scan" /\ turn'[p].op = turn[p].op /\ turn'[p].todo = turn[p].todo
      BY <1>1, FinishFacts
    <2>2. TurnOK(turn[p])
      BY DEF StageInv, StageOK
    <2> QED
      BY <1>1, <2>1, <2>2 DEF TurnOK, BootPhases, Provider, Started
  <1>2. CASE turn[p].op \notin BootPhases
    <2>1. turn'[p].at = "idle" /\ turn'[p].op = "none" /\ turn'[p].todo = {}
      BY <1>2, FinishFacts, IdleFacts
    <2> QED
      BY <2>1 DEF TurnOK, Provider, Started
  <1> QED
    BY <1>1, <1>2

(* A handler that stands at a statement which relies on nothing.             *)
LEMMA PlainTurn ==
  ASSUME StageInv, NEW p \in Procs,
         turn'[p].at \in {"idle", "scan", "store", "storePut", "recoverPut", "enter",
                          "consume", "revoke"} \/ turn'[p].at = "recover",
         turn'[p].at = "recover" => turn'[p].op \notin {"approve", "cancel"},
         \/ turn'[p].op \notin BootPhases
         \/ turn'[p].op = turn[p].op /\ turn'[p].todo \subseteq turn[p].todo
  PROVE  TurnOK(turn'[p]) /\ turn'[p].at \notin Provider
  <1>1. TurnOK(turn[p])
    BY DEF StageInv, StageOK
  <1> QED
    BY <1>1 DEF TurnOK, BootPhases, Provider, Started

(* The boot phases list the rows that their statements rely on.              *)
LEMMA StageBoot ==
  ASSUME TypeOK, ProcessInv, StageInv, NEW p \in Procs, Boot(p) \/ Crash(p) \/ BootStep(p)
  PROVE  TurnOK(turn'[p]) /\ turn'[p].at \notin Provider
  <1> USE DEF world, ledger, procs, ghosts
  <1>t. turn \in [Procs -> TurnRecords]
    BY DEF TypeOK
  <1>o. TurnOK(turn[p])
    BY DEF StageInv, StageOK
  <1>p. ASSUME NEW phase \in BootPhases, StartPhase(p, phase)
        PROVE  TurnOK(turn'[p]) /\ turn'[p].at \notin Provider
    <2>1. turn'[p] = [Turn(phase, "scan", NoEffect) EXCEPT !.todo = RowsOf(phase)]
      BY <1>p, <1>t DEF StartPhase
    <2>2. turn'[p].at = "scan" /\ turn'[p].op = phase /\ turn'[p].todo = RowsOf(phase)
      BY <2>1 DEF Turn
    <2>3. phase = "cleanPending" => \A f \in RowsOf(phase) : Terminal(f)
      BY DEF RowsOf
    <2>4. phase = "receipts" =>
            RowsOf(phase) = {e \in Effects : result[e].debt /\ receipt[e] = "none"}
      BY Zenon DEF RowsOf
    <2> QED
      BY <2>2, <2>3, <2>4 DEF TurnOK, BootPhases, Provider, Started
  <1>i. ASSUME turn' = [turn EXCEPT ![p] = Idle]
        PROVE  TurnOK(turn'[p]) /\ turn'[p].at \notin Provider
    <2>1. turn'[p].at = "idle" /\ turn'[p].op = "none" /\ turn'[p].todo = {}
      BY <1>i, <1>t, IdleFacts
    <2> QED
      BY <2>1 DEF TurnOK, Provider, Started
  <1>1. CASE Boot(p) \/ Crash(p)
    BY <1>1, <1>p, <1>i DEF Boot, Crash, BootPhases
  <1>2. CASE BootNextPhase(p)
    BY <1>2, <1>p, <1>i DEF BootNextPhase, NextPhase, BootPhases
  <1>3. ASSUME NEW e \in Effects, BootExpireGrant(p, e) \/ BootCleanPending(p, e)
        PROVE  TurnOK(turn'[p]) /\ turn'[p].at \notin Provider
    <2>1. /\ turn'[p].at = "scan" /\ turn'[p].op = turn[p].op
          /\ turn'[p].todo \subseteq turn[p].todo
      BY <1>3, <1>t DEF BootExpireGrant, BootCleanPending, Row, At, Drop, TurnRecords
    <2> QED
      BY <2>1, PlainTurn
  <1>4. ASSUME NEW e \in Effects, BootRecoverClaim(p, e)
        PROVE  TurnOK(turn'[p]) /\ turn'[p].at \notin Provider
    <2>1. /\ turn'[p].at = "recover" /\ turn'[p].op = "recoverClaims"
          /\ turn[p].op = turn'[p].op /\ turn'[p].todo \subseteq turn[p].todo
      BY <1>4, <1>t DEF BootRecoverClaim, Row, At, TurnRecords
    <2> QED
      BY <2>1, PlainTurn
  <1>5. ASSUME NEW e \in Effects, BootObserveRollback(p, e)
        PROVE  TurnOK(turn'[p]) /\ turn'[p].at \notin Provider
    <2>1. /\ turn'[p].at = "receiptPut" /\ turn'[p].op = "receipts" /\ turn'[p].e = e
          /\ turn'[p].todo \subseteq turn[p].todo /\ e \in turn[p].todo
          /\ turn[p].op = "receipts"
      BY <1>5, <1>t DEF BootObserveRollback, Row, At, TurnRecords
    <2> QED
      BY <1>o, <2>1 DEF TurnOK, Provider, Started
  <1>6. CASE RecordRollbackReceipt(p)
    BY <1>6, FinishTurn DEF RecordRollbackReceipt
  <1> QED
    BY <1>1, <1>2, <1>3, <1>4, <1>5, <1>6 DEF BootStep

(* Restart recovery deletes the payload of an effect it has seen closed.     *)
LEMMA StageRecover ==
  ASSUME TypeOK, ProcessInv, AuthorityExclusive, StageInv, [Next]_vars, NEW p \in Procs,
         RecoverStep(p)
  PROVE  TurnOK(turn[p])'
  <1> USE DEF world, ledger, procs, ghosts
  <1>t. turn \in [Procs -> TurnRecords] /\ result \in [Effects -> Results]
    BY DEF TypeOK
  <1>o. TurnOK(turn[p])
    BY DEF StageInv, StageOK
  <1>k. ASSUME TurnOK(turn'[p]), turn'[p].at \notin Provider PROVE TurnOK(turn[p])'
    BY <1>k, TurnPersists
  <1>f. ASSUME Finish(p) PROVE TurnOK(turn[p])'
    BY <1>f, <1>k, FinishTurn
  <1>1. CASE RecoverTerminal(p) \/ RecoverDeletePending(p)
    BY <1>1, <1>f DEF RecoverTerminal, RecoverDeletePending
  <1>2. CASE RecoverDeadOwner(p)
    <2>1. /\ turn'[p].at = "recoverPut" /\ turn'[p].op = turn[p].op
          /\ turn'[p].todo = turn[p].todo
      BY <1>2, <1>t, GotoFacts DEF RecoverDeadOwner
    <2> QED
      BY <2>1, <1>k, PlainTurn
  <1>3. CASE RecoverNothing(p)
    <2>1. CASE turn[p].op = "approve"
      <3>1. turn[p].at = "recover" /\ Goto(p, "expire")
        BY <1>3, <2>1 DEF RecoverNothing, At
      <3>2. /\ turn'[p].at = "expire" /\ turn'[p].op = "approve" /\ turn'[p].e = turn[p].e
        BY <1>t, <2>1, <3>1, GotoFacts
      <3>3. TurnOK(turn'[p]) /\ turn'[p].at \notin Provider
        BY <1>o, <2>1, <3>1, <3>2 DEF TurnOK, Provider, Started
      <3> QED
        BY <1>k, <3>3
    <2> QED
      BY <1>3, <2>1, <1>f DEF RecoverNothing
  <1>4. CASE RecoverRecordResult(p)
    <2>0. turn[p].at = "recoverPut"
      BY <1>4 DEF RecoverRecordResult, At
    <2>1. PICK e \in Effects : e = turn[p].e
      BY <2>0 DEF ProcessInv, ProcessOK
    <2>2. /\ turn'[p].at = "recoverDel" /\ turn'[p].op = turn[p].op /\ turn'[p].e = e
          /\ turn'[p].todo = turn[p].todo
      BY <1>4, <1>t, <2>1, GotoFacts DEF RecoverRecordResult
    <2>3. result'[e] = RecoveryResult(e)
      BY <1>4, <1>t, <2>1 DEF RecoverRecordResult
    <2>4. Terminal(e)'
      BY <2>3 DEF Terminal, RecoveryResult, Clean, Owing, NoResult
    <2>5. /\ turn'[p].op = "cleanPending" => \A f \in turn'[p].todo : Terminal(f)'
          /\ turn'[p].op = "receipts" => \A f \in turn'[p].todo : result'[f].debt
      BY <2>2, TodoKept, TruthStep
    <2> QED
      BY <2>2, <2>4, <2>5 DEF TurnOK
  <1>5. CASE RecoverConflict(p)
    <2>1. CASE turn' = [turn EXCEPT ![p] = Idle]
      <3>1. turn'[p].at = "idle" /\ turn'[p].op = "none"
        BY <1>t, <2>1, IdleFacts
      <3>2. turn'[p].op \notin BootPhases
        BY <3>1 DEF BootPhases
      <3> QED
        BY <3>1, <3>2, <1>k, PlainTurn
    <2> QED
      BY <1>5, <2>1, <1>f DEF RecoverConflict
  <1> QED
    BY <1>1, <1>2, <1>3, <1>4, <1>5 DEF RecoverStep

(* The handlers come to the issue of a grant with the payload in hand, and *)
(* to the release of a payload with the effect closed.                     *)
LEMMA StageHandler ==
  ASSUME TypeOK, ProcessInv, AuthorityExclusive, StageInv, [Next]_vars, NEW p \in Procs,
         HandlerStep(p)
  PROVE  TurnOK(turn[p])'
  <1> USE DEF world, ledger, procs, ghosts
  <1>t. turn \in [Procs -> TurnRecords] /\ result \in [Effects -> Results]
    BY DEF TypeOK
  <1>o. TurnOK(turn[p])
    BY DEF StageInv, StageOK
  <1>k. ASSUME TurnOK(turn'[p]), turn'[p].at \notin Provider PROVE TurnOK(turn[p])'
    BY <1>k, TurnPersists
  <1>f. ASSUME Finish(p) PROVE TurnOK(turn[p])'
    BY <1>f, <1>k, FinishTurn
  <1>g. ASSUME NEW at \in {"storePut", "enter", "revoke"}, Goto(p, at)
        PROVE  TurnOK(turn[p])'
    <2>1. turn'[p].at = at /\ turn'[p].op = turn[p].op /\ turn'[p].todo = turn[p].todo
      BY <1>g, <1>t, GotoFacts
    <2> QED
      BY <2>1, <1>k, PlainTurn
  <1>1. CASE RequestTerminal(p) \/ StorePending(p)
    BY <1>1, <1>f, <1>g DEF RequestTerminal, StorePending
  <1>2. CASE ApproveExpire(p)
    <2>1. CASE Goto(p, "issue")
      <3>1. turn[p].at = "expire"
        BY <1>2 DEF ApproveExpire, At
      <3>2. turn'[p].at = "issue" /\ turn'[p].op = turn[p].op /\ turn'[p].e = turn[p].e
        BY <1>t, <2>1, GotoFacts
      <3>3. TurnOK(turn'[p]) /\ turn'[p].at \notin Provider
        BY <1>o, <3>1, <3>2 DEF TurnOK, Provider, Started
      <3> QED
        BY <1>k, <3>3
    <2> QED
      BY <1>2, <2>1, <1>f DEF ApproveExpire
  <1>3. CASE IssueApprovalGrant(p)
    BY <1>3, <1>f, <1>g DEF IssueApprovalGrant
  <1>4. CASE EnterExecute(p)
    <2>1. CASE turn' = [turn EXCEPT ![p].at = "consume", ![p].clk = now]
      <3>1. /\ turn'[p].at = "consume" /\ turn'[p].op = turn[p].op
            /\ turn'[p].todo = turn[p].todo
        BY <1>t, <2>1 DEF TurnRecords
      <3> QED
        BY <3>1, <1>k, PlainTurn
    <2> QED
      BY <1>4, <2>1, <1>f DEF EnterExecute
  <1>5. CASE ConsumeApprovalGrant(p)
    <2>1. CASE turn' = [turn EXCEPT ![p] = Idle]
      <3>1. turn'[p].at = "idle" /\ turn'[p].op = "none"
        BY <1>t, <2>1, IdleFacts
      <3>2. turn'[p].op \notin BootPhases
        BY <3>1 DEF BootPhases
      <3> QED
        BY <3>1, <3>2, <1>k, PlainTurn
    <2> QED
      BY <1>5, <2>1, <1>f DEF ConsumeApprovalGrant
  <1>6. CASE CancelRevoke(p)
    <2>0. turn[p].at = "revoke"
      BY <1>6 DEF CancelRevoke, At
    <2>1. PICK e \in Effects : e = turn[p].e
      BY <2>0 DEF ProcessInv, ProcessOK
    <2>2. CASE Goto(p, "cleanup")
      <3>1. /\ turn'[p].at = "cleanup" /\ turn'[p].op = turn[p].op /\ turn'[p].e = e
            /\ turn'[p].todo = turn[p].todo
        BY <1>t, <2>1, <2>2, GotoFacts
      <3>2. Terminal(e)'
        <4>1. CASE RevokeGrant(e)
          <5>1. result' = [result EXCEPT ![e] = Clean("cancelled")]
            BY <4>1 DEF RevokeGrant
          <5> QED
            BY <1>t, <5>1, CancelledIsTerminal DEF Terminal, NoResult, Clean
        <4>2. CASE grant[e] = "revoked"
          <5>1. Terminal(e)
            BY <4>2, CancelledIsTerminal DEF AuthorityExclusive, Terminal
          <5> QED
            BY <5>1, ResultKept, TruthStep
        <4>3. CASE Finish(p)
          <5>1. turn'[p].at \in {"scan", "idle"}
            BY <4>3, FinishFacts, IdleFacts
          <5> QED
            BY <3>1, <5>1
        <4> QED
          BY <1>6, <2>1, <4>1, <4>2, <4>3 DEF CancelRevoke
      <3>3. /\ turn'[p].op = "cleanPending" => \A f \in turn'[p].todo : Terminal(f)'
            /\ turn'[p].op = "receipts" => \A f \in turn'[p].todo : result'[f].debt
        BY <3>1, TodoKept, TruthStep
      <3> QED
        BY <3>1, <3>2, <3>3 DEF TurnOK
    <2> QED
      BY <1>6, <2>2, <1>f DEF CancelRevoke
  <1> QED
    BY <1>1, <1>2, <1>3, <1>4, <1>5, <1>6 DEF HandlerStep

(* A result that says nothing is honest about an unchanged project.          *)
LEMMA CleanHonest ==
  ASSUME NEW e \in Effects, NEW s \in {"failed", "cancelled", "timed_out", "orphaned"},
         e \notin wrote
  PROVE  Honest(e, Clean(s))
  BY DEF Honest, Clean

(* A cancellation or a timer that wins the race keeps a result honest.       *)
LEMMA SettleHonest ==
  ASSUME NEW e \in Effects, NEW r, NEW out \in Outcomes(e, r), Honest(e, r),
         Kind[e] = "read" => e \notin wrote,
         Kind[e] # "read" /\ Shows(r) => e \in wrote
  PROVE  Honest(e, out)
  <1>1. CASE out = r
    BY <1>1
  <1>2. CASE out \in Interrupted(e, r)
    <2>1. PICK s \in {"cancelled", "timed_out"} :
            out = IF Kind[e] = "read" THEN Clean(s)
                  ELSE Owing(s, r.before, r.after, r.proof)
      BY <1>2 DEF Interrupted
    <2>2. CASE Kind[e] = "read"
      BY <2>1, <2>2, CleanHonest
    <2>3. CASE Kind[e] # "read"
      BY <2>1, <2>3 DEF Honest, Owing, Shows
    <2> QED
      BY <2>2, <2>3
  <1> QED
    BY <1>1, <1>2 DEF Outcomes

(* The provider's outcomes are honest about what it has done.                *)
LEMMA StageProvider ==
  ASSUME TypeOK, ProcessInv, AuthorityExclusive, StageInv, [Next]_vars, NEW p \in Procs,
         ProviderStep(p)
  PROVE  TurnOK(turn[p])'
  <1> USE DEF world, ledger, procs, ghosts
  <1>t. /\ turn \in [Procs -> TurnRecords] /\ result \in [Effects -> Results]
        /\ runs \in [Effects -> Nat]
    BY DEF TypeOK
  <1>o. TurnOK(turn[p])
    BY DEF StageInv, StageOK
  <1>k. ASSUME TurnOK(turn'[p]), turn'[p].at \notin Provider \/ UNCHANGED <<runs, wrote>>
        PROVE  TurnOK(turn[p])'
    BY <1>k, TurnPersists
  <1>f. ASSUME Finish(p) PROVE TurnOK(turn[p])'
    BY <1>f, <1>k, FinishTurn
  <1>a. turn[p].at \in Provider => turn[p].op = "approve" /\ turn[p].e \in Effects
    BY DEF ProcessInv, ProcessOK, Provider, Started
  <1>s. ASSUME turn[p].at \in Started, NEW r, Settle(p, turn[p].e, r),
               Honest(turn[p].e, r),
               Kind[turn[p].e] = "read" => turn[p].e \notin wrote,
               Kind[turn[p].e] # "read" /\ Shows(r) => turn[p].e \in wrote,
               UNCHANGED <<runs, wrote>>
        PROVE  TurnOK(turn[p])'
    <2>1. PICK out \in Outcomes(turn[p].e, r) :
            turn' = [turn EXCEPT ![p].at = "commit", ![p].out = out]
      BY <1>s DEF Settle
    <2>2. /\ turn'[p].at = "commit" /\ turn'[p].out = out /\ turn'[p].e = turn[p].e
          /\ turn'[p].op = "approve"
      BY <1>t, <1>a, <1>s, <2>1 DEF TurnRecords, Provider
    <2>3. Honest(turn[p].e, out)
      BY <1>a, <1>s, SettleHonest DEF Provider
    <2>4. TurnOK(turn'[p])
      BY <2>2, <2>3 DEF TurnOK
    <2> QED
      BY <1>k, <1>s, <2>4
  <1>1. CASE PreEffectFailure(p)
    <2>1. PICK s \in {"failed", "cancelled"} : Settle(p, turn[p].e, Clean(s))
      BY <1>1 DEF PreEffectFailure
    <2>2. turn[p].at \in Started /\ turn[p].e \notin wrote /\ UNCHANGED <<runs, wrote>>
      BY <1>o, <1>1 DEF PreEffectFailure, At, TurnOK, Begun, Started
    <2>3. Honest(turn[p].e, Clean(s)) /\ ~Shows(Clean(s))
      BY <1>a, <2>2, CleanHonest DEF Clean, Shows, Provider
    <2> QED
      BY <1>s, <2>1, <2>2, <2>3
  <1>2. CASE ReadBefore(p)
    <2>1. /\ turn[p].at = "before" /\ UNCHANGED <<runs, wrote>>
          /\ turn' = [turn EXCEPT ![p].at = "write", ![p].seen = file[Target[turn[p].e]]]
      BY <1>2 DEF ReadBefore, At
    <2>2. turn'[p].at = "write" /\ turn'[p].e = turn[p].e /\ turn'[p].op = "approve"
      BY <1>t, <1>a, <2>1 DEF TurnRecords, Provider, Started
    <2>3. TurnOK(turn'[p])
      BY <1>o, <2>1, <2>2 DEF TurnOK
    <2> QED
      BY <1>k, <2>1, <2>3
  <1>3. CASE WriteFile(p)
    <2>0. turn[p].at = "write" /\ turn[p].at \in Provider
      BY <1>3 DEF WriteFile, At, Provider, Started
    <2>1. PICK e \in Effects : e = turn[p].e
      BY <2>0, <1>a
    <2>2. turn'[p].at = "verify" /\ turn'[p].e = e /\ turn'[p].op = "approve"
      BY <1>3, <1>t, <1>a, <2>0, <2>1, GotoFacts DEF WriteFile
    <2>3. runs' = runs /\ e \in wrote'
      BY <1>3, <2>1 DEF WriteFile
    <2>4. runs[e] = 1 /\ Kind[e] # "read"
      BY <1>o, <2>0, <2>1 DEF TurnOK, Begun
    <2> QED
      BY <2>2, <2>3, <2>4 DEF TurnOK, Changed
  <1>4. CASE VerifyWrite(p)
    <2>1. /\ turn[p].at \in Started /\ UNCHANGED <<runs, wrote>>
          /\ Changed(turn[p].e) /\ Kind[turn[p].e] # "read"
      BY <1>o, <1>4 DEF VerifyWrite, At, TurnOK, Started
    <2>2. PICK r : /\ Settle(p, turn[p].e, r)
                   /\ \/ r = Unconfirmed(turn[p].e, turn[p].seen)
                      \/ \E c : r = Mismatch(turn[p].e, turn[p].seen, c)
                      \/ r = Applied(turn[p].e, turn[p].seen)
      BY <1>4 DEF VerifyWrite
    <2>3. Honest(turn[p].e, r)
      BY <2>1, <2>2 DEF Honest, Changed, Unconfirmed, Mismatch, Applied, Owing, Succeeded
    <2> QED
      BY <1>s, <2>1, <2>2, <2>3 DEF Changed
  <1>5. CASE ReadFile(p)
    <2>1. PICK c : Settle(p, turn[p].e, Succeeded(Nil, c, FALSE))
      BY <1>5 DEF ReadFile
    <2>2. /\ turn[p].at \in Started /\ UNCHANGED <<runs, wrote>>
          /\ Begun(turn[p].e) /\ Kind[turn[p].e] = "read"
      BY <1>o, <1>5 DEF ReadFile, At, TurnOK, Started
    <2>3. Honest(turn[p].e, Succeeded(Nil, c, FALSE))
      BY <2>2 DEF Honest, Begun, Succeeded
    <2> QED
      BY <1>s, <2>1, <2>2, <2>3 DEF Begun
  <1>6. CASE CommitResult(p)
    <2>0. turn[p].at = "commit" /\ turn[p].at \in Provider
      BY <1>6 DEF CommitResult, At, Provider, Started
    <2>1. PICK e \in Effects : e = turn[p].e
      BY <2>0, <1>a
    <2>2. turn'[p].at = "cleanup" /\ turn'[p].e = e /\ turn'[p].op = "approve"
      BY <1>6, <1>t, <1>a, <2>0, <2>1, GotoFacts DEF CommitResult
    <2>3. result'[e] = turn[p].out /\ turn[p].out.status # "none"
      BY <1>6, <1>o, <1>t, <2>0, <2>1 DEF CommitResult, TurnOK, Honest
    <2>4. Terminal(e)'
      BY <2>3 DEF Terminal, NoResult, Clean
    <2> QED
      BY <2>2, <2>4 DEF TurnOK
  <1>7. CASE ResultUncommitted(p) \/ Cleanup(p)
    BY <1>7, <1>f DEF ResultUncommitted, Cleanup
  <1> QED
    BY <1>1, <1>2, <1>3, <1>4, <1>5, <1>6, <1>7 DEF ProviderStep

(* An execution that has waited so far has done nothing.                     *)
LEMMA StageFree ==
  ASSUME TypeOK, ProcessInv, AuthorityExclusive, StageInv, [Next]_vars, NEW p \in Procs,
         NEW e \in Effects, Continue(p, e) \/ Call(p, e)
  PROVE  TurnOK(turn[p])'
  <1> USE DEF world, ledger, procs, ghosts
  <1>t. turn \in [Procs -> TurnRecords] /\ runs \in [Effects -> Nat]
    BY DEF TypeOK
  <1>w. exec[p][e] \in Waiting => Fresh(e)
    BY DEF StageInv, StageOK
  <1>k. ASSUME TurnOK(turn'[p]), turn'[p].at \notin Provider \/ UNCHANGED <<runs, wrote>>
        PROVE  TurnOK(turn[p])'
    BY <1>k, TurnPersists
  <1>f. \A op, at : /\ Turn(op, at, e).at = at /\ Turn(op, at, e).e = e
                    /\ Turn(op, at, e).op = op /\ Turn(op, at, e).todo = {}
    BY DEF Turn
  <1>u. ASSUME turn' = turn, turn[p].at = "idle" PROVE TurnOK(turn[p])'
    <2>1. TurnOK(turn'[p]) /\ turn'[p].at \notin Provider
      BY <1>u, PlainTurn
    <2> QED
      BY <1>k, <2>1
  <1>1. CASE Observe(p, e)
    BY <1>1, <1>u DEF Observe, Free
  <1>2. CASE ObserveAbort(p, e) \/ WorkspaceStale(p, e)
    <2>1. PICK s \in {"failed", "cancelled", "timed_out", "orphaned"} :
            Committing(p, e, Clean(s))
      BY <1>2 DEF ObserveAbort, WorkspaceStale
    <2>2. UNCHANGED <<runs, wrote>> /\ Fresh(e)
      BY <1>2, <1>w DEF ObserveAbort, WorkspaceStale, Waiting
    <2>3. turn'[p] = [Turn("approve", "commit", e) EXCEPT !.out = Clean(s)]
      BY <1>t, <2>1 DEF Committing
    <2>4. /\ turn'[p].at = "commit" /\ turn'[p].e = e /\ turn'[p].op = "approve"
          /\ turn'[p].out = Clean(s)
      BY <2>3 DEF Turn
    <2>5. Honest(e, Clean(s))
      BY <2>2, CleanHonest DEF Fresh
    <2>6. TurnOK(turn'[p])
      BY <2>4, <2>5 DEF TurnOK
    <2> QED
      BY <1>k, <2>2, <2>6
  <1>3. CASE StartProvider(p, e)
    <2>1. Fresh(e)
      BY <1>3, <1>w DEF StartProvider, Waiting
    <2>2. turn'[p].at = FirstStatement(e) /\ turn'[p].e = e /\ turn'[p].op = "approve"
      BY <1>3, <1>t, <1>f DEF StartProvider
    <2>3. runs'[e] = 1 /\ e \notin wrote'
      BY <1>3, <1>t, <2>1 DEF StartProvider, Fresh
    <2>4. \/ FirstStatement(e) \in {"before", "write"} /\ Kind[e] # "read"
          \/ FirstStatement(e) = "read" /\ Kind[e] = "read"
      BY EffectAssumption DEF FirstStatement, Kinds
    <2> QED
      BY <2>2, <2>3, <2>4 DEF TurnOK, Begun
  <1>4. CASE Call(p, e)
    <2>1. CASE RegisterEffectRequest(p, e)
      <3>1. turn'[p].at = "store" /\ turn'[p].op = "request"
        BY <1>f, <1>t, <2>1 DEF RegisterEffectRequest
      <3>2. turn'[p].op \notin BootPhases
        BY <3>1 DEF BootPhases
      <3> QED
        BY <1>k, <3>1, <3>2, PlainTurn
    <2>2. ASSUME e \in pending, NEW op \in {"approve", "cancel"},
                 NEW at \in {"recover", "issue", "revoke"},
                 turn' = [turn EXCEPT ![p] = Turn(op, at, e)]
          PROVE  TurnOK(turn[p])'
      <3>1. turn'[p].at = at /\ turn'[p].op = op /\ turn'[p].e = e
        BY <1>f, <1>t, <2>2
      <3>2. TurnOK(turn'[p]) /\ turn'[p].at \notin Provider
        BY <2>2, <3>1 DEF TurnOK, Held, Provider, Started
      <3> QED
        BY <1>k, <3>2
    <2>3. CASE ApproveFilesystemEffect(p, e)
      BY <2>2, <2>3 DEF ApproveFilesystemEffect, Approachable
    <2>4. CASE CancelFilesystemWrite(p, e)
      BY <1>u, <2>2, <2>4 DEF CancelFilesystemWrite, Free
    <2> QED
      BY <1>4, <2>1, <2>3, <2>4 DEF Call
  <1> QED
    BY <1>1, <1>2, <1>3, <1>4 DEF Continue

-------------------------------------------------------------------------------
(* The induction.                                                          *)

(* A handler that does not move may go on to rely on what it relied on: a  *)
(* provider's statement is about an effect that nobody else executes.      *)
LEMMA StageUnmoved ==
  ASSUME TypeOK, ProcessInv, AuthorityExclusive, LiveOwnerKeepsAuthority, StageInv,
         [Next]_vars, NEW p \in Procs, turn'[p] = turn[p]
  PROVE  TurnOK(turn[p])'
  <1>1. TurnOK(turn'[p])
    BY DEF StageInv, StageOK
  <1>2. ASSUME turn[p].at \in Provider
        PROVE  /\ runs'[turn[p].e] = runs[turn[p].e]
               /\ turn[p].e \in wrote' <=> turn[p].e \in wrote
    <2>1. PICK e \in Effects : e = turn[p].e
      BY <1>2 DEF ProcessInv, ProcessOK, Provider, Started
    <2>2. claim[e] = p
      BY <1>2, <2>1 DEF LiveOwnerKeepsAuthority, Executing, Provider, Started
    <2>3. ASSUME NEW q \in Procs, Starts(q, e) \/ Writes(q, e)
          PROVE  FALSE
      <3>1. q = p
        BY <2>2, <2>3, DeedsOwned
      <3>2. ~Starts(p, e)
        BY <1>2 DEF Starts, Free, Provider, Started
      <3>3. Writes(p, e) => turn[p].at = "write" /\ turn'[p].at = "verify"
        BY GotoFacts DEF Writes, At, TypeOK
      <3> QED
        BY <2>3, <3>1, <3>2, <3>3
    <2> QED
      BY <2>1, <2>3, DeedsKept, TruthStep
  <1> QED
    BY <1>1, <1>2, TurnPersists

(* Every statement of every handler may rely on its stage.                   *)
LEMMA StageNext ==
  ASSUME TypeOK, ProcessInv, AuthorityExclusive, LiveOwnerKeepsAuthority, StageInv, RowInv,
         [Next]_vars
  PROVE  StageInv'
  <1> SUFFICES ASSUME NEW p \in Procs
               PROVE  StageOK(p)'
    BY DEF StageInv
  <1>1. ASSUME NEW e \in Effects, exec'[p][e] \in Waiting
        PROVE  Fresh(e)'
    <2>n. p # NoProc /\ \A q \in Procs : q # NoProc
      BY SetsAssumption
    <2>1. Fresh(e) /\ claim[e] \in {p, NoProc}
      <3>1. CASE exec[p][e] \in Waiting
        BY <3>1 DEF StageInv, StageOK, LiveOwnerKeepsAuthority, Executing, Waiting
      <3>2. CASE Consumes(p, e)
        BY <3>2 DEF Consumes, Consumable, AuthorityExclusive, RowInv, RowOK
      <3> QED
        BY <1>1, <3>1, <3>2, WaitStep
    <2>2. ASSUME NEW q \in Procs, Starts(q, e) \/ Writes(q, e)
          PROVE  FALSE
      <3>1. q = p
        BY <2>n, <2>1, <2>2, DeedsOwned
      <3>2. CASE Starts(p, e)
        <4>1. exec'[p][e] = "running"
          BY <3>2 DEF Starts, Running, TypeOK
        <4> QED
          BY <1>1, <4>1 DEF Waiting
      <3>3. CASE Writes(p, e)
        <4>1. turn[p].at = "write" /\ turn[p].e = e /\ exec' = exec
          BY <3>3 DEF Writes, At
        <4>2. exec[p][e] = "running"
          BY <4>1 DEF ProcessInv, ProcessOK, Provider, Started
        <4> QED
          BY <1>1, <4>1, <4>2 DEF Waiting
      <3> QED
        BY <2>2, <3>1, <3>2, <3>3
    <2> QED
      BY <2>1, <2>2, DeedsKept, TruthStep DEF Fresh
  <1>2. TurnOK(turn[p])'
    <2>1. CASE Tick \/ UNCHANGED vars \/ (\E f \in Paths, c \in Edits : ForeignEdit(f, c))
                 \/ \E e \in Effects : InvalidateEffect(e)
      <3>1. turn' = turn
        BY <2>1 DEF Tick, vars, procs, ForeignEdit, InvalidateEffect
      <3> QED
        BY <3>1, StageUnmoved
    <2>2. ASSUME NEW q \in Procs, Boot(q) \/ Crash(q) \/ Step(q)
                                  \/ \E e \in Effects : Continue(q, e) \/ Call(q, e)
          PROVE  TurnOK(turn[p])'
      <3>1. CASE q # p
        <4>1. Others(q)
          BY <2>2, ProcessBoot, ProcessRecover, ProcessHandler, ProcessProvider,
             ProcessFree, ProcessLife DEF Step
        <4>2. turn'[p] = turn[p]
          BY <3>1, <4>1 DEF Others
        <4> QED
          BY <4>2, StageUnmoved
      <3>2. CASE q = p /\ (Boot(p) \/ Crash(p) \/ BootStep(p))
        <4>1. TurnOK(turn'[p]) /\ turn'[p].at \notin Provider
          BY <3>2, StageBoot
        <4> QED
          BY <4>1, TurnPersists
      <3>3. CASE q = p /\ ~(Boot(p) \/ Crash(p) \/ BootStep(p))
        BY <2>2, <3>3, StageRecover, StageHandler, StageProvider, StageFree DEF Step
      <3> QED
        BY <3>1, <3>2, <3>3
    <2> QED
      BY <2>1, <2>2 DEF Next
  <1> QED
    BY <1>1, <1>2 DEF StageOK

(* A target is found as it was before only when somebody knows how it was.   *)
LEMMA BeforeShows ==
  ASSUME NEW e \in Effects, NEW r, NEW c, Classify(e, r, c) = "matches_before"
  PROVE  Shows(r)
  <1>1. Payload[e] # Nil
    BY SetsAssumption, EffectAssumption
  <1>2. CASE c = Payload[e]
    <2>1. Classify(e, r, c) = "matches_forward"
      BY <1>1, <1>2, Zenon DEF Classify
    <2> QED
      BY <2>1
  <1>3. CASE c # Payload[e] /\ c # Nil /\ c = r.before
    BY <1>3 DEF Shows
  <1>4. CASE c = Nil /\ KnownMissingBefore(e, r)
    BY <1>4 DEF KnownMissingBefore, Shows
  <1>5. CASE /\ c # Payload[e] /\ ~(c # Nil /\ c = r.before)
             /\ ~(c = Nil /\ KnownMissingBefore(e, r))
    <2>1. Classify(e, r, c) = "foreign"
      BY <1>5, Zenon DEF Classify
    <2> QED
      BY <2>1
  <1> QED
    BY <1>2, <1>3, <1>4, <1>5

(* What closes a claim is honest: a commit knows what its provider did, and *)
(* recovery owes what it cannot know.                                       *)
LEMMA ClosingHonest ==
  ASSUME StageInv, RowInv, NEW p \in Procs, NEW e \in Effects, Closes(p, e)
  PROVE  Honest(e, Closing(p, e))
  <1>1. CASE turn[p].at = "commit"
    BY <1>1 DEF Closes, Closing, StageInv, StageOK, TurnOK
  <1>2. CASE turn[p].at # "commit"
    BY <1>2 DEF Closing, RecoveryResult, Honest, Clean, Owing, Shows, RowInv, RowOK
  <1> QED
    BY <1>1, <1>2

(* The rows stay truthful: only the owner's provider changes the project,  *)
(* a refusal is of an effect that nobody executes, a commit records what   *)
(* its stage knows, recovery owes what it cannot know, and a receipt       *)
(* matches an image that the result shows.                                 *)
LEMMA RowNext ==
  ASSUME TypeOK, ProcessInv, AuthorityExclusive, AuthorityExclusive',
         LiveOwnerKeepsAuthority, StageInv, RowInv, [Next]_vars
  PROVE  RowInv'
  <1> SUFFICES ASSUME NEW e \in Effects
               PROVE  RowOK(e)'
    BY DEF RowInv
  <1>t. /\ result \in [Effects -> Results]
        /\ receipt \in [Effects -> ReceiptCodes]
        /\ claim \in [Effects -> Procs \cup {NoProc}]
    BY DEF TypeOK
  <1>n. \A q \in Procs : q # NoProc
    BY SetsAssumption
  <1>m. TruthMove
    BY TruthStep
  <1>o. RowOK(e)
    BY DEF RowInv
  <1>k. claim[e] = NoProc \/ Terminal(e) =>
          runs'[e] = runs[e] /\ (e \in wrote' <=> e \in wrote)
    BY <1>m, <1>n, DeedsOwned, DeedsKept
  <1>1. claim'[e] = NoProc => Fresh(e)'
    <2>1. claim'[e] = NoProc => claim[e] = NoProc
      BY ClaimKept, LedgerStep
    <2> QED
      BY <1>k, <1>o, <2>1 DEF RowOK, Fresh
  <1>2. e \in wrote' => Kind[e] # "read"
    <2>1. ASSUME NEW p \in Procs, Writes(p, e) PROVE Kind[e] # "read"
      BY <2>1 DEF Writes, At, StageInv, StageOK, TurnOK
    <2>2. ASSUME NEW p \in Procs, Starts(p, e) PROVE wrote' = wrote
      BY <2>2 DEF Starts
    <2> QED
      BY <1>m, <1>o, <2>1, <2>2, DeedsKept DEF RowOK
  <1>3. Terminal(e)' => Honest(e, result[e])'
    <2>1. CASE Terminal(e)
      <3>1. result'[e] = result[e]
        BY <1>m, <2>1, ResultKept
      <3> QED
        BY <1>k, <1>o, <2>1, <3>1 DEF RowOK, Honest
    <2>2. CASE ~Terminal(e) /\ result'[e] # result[e]
      <3>1. CASE \E f \in Effects : Refuses(f)
        <4>1. Refuses(e)
          BY <1>t, <2>2, <3>1 DEF Refuses
        <4>2. e \notin wrote /\ wrote' = wrote /\ result'[e] = Clean("cancelled")
          BY <1>o, <1>t, <4>1 DEF Refuses, RowOK, Fresh
        <4> QED
          BY <4>2 DEF Honest, Clean
      <3>2. CASE \E p \in Procs, f \in Effects : Closes(p, f)
        <4>1. PICK p \in Procs : Closes(p, e)
          BY <1>t, <2>2, <3>2 DEF Closes
        <4>2. Honest(e, Closing(p, e))
          BY <4>1, ClosingHonest
        <4>3. result'[e] = Closing(p, e) /\ UNCHANGED <<runs, wrote>>
          BY <1>t, <4>1 DEF Closes
        <4> QED
          BY <4>2, <4>3 DEF Honest
      <3> QED
        BY <1>m, <2>2, <3>1, <3>2 DEF TruthMove, Quiet, Claims, Settles, Starts, Writes
    <2> QED
      BY <2>1, <2>2 DEF Terminal
  <1>4. \/ receipt'[e] = receipt[e]
        \/ \E p \in Procs : /\ Settles(p, e) /\ receipt[e] = "none"
                            /\ receipt'[e] = Classify(e, result[e], turn[p].seen)
    <2>1. CASE \E p \in Procs, f \in Effects : Settles(p, f)
      <3>1. PICK p \in Procs, f \in Effects : Settles(p, f)
        BY <2>1
      <3>2. CASE f # e
        BY <1>t, <3>1, <3>2 DEF Settles
      <3>3. CASE f = e
        BY <1>t, <3>1, <3>3 DEF Settles, FirstReceipt
      <3> QED
        BY <3>2, <3>3
    <2> QED
      BY <1>m, <2>1 DEF TruthMove, Quiet, Refuses, Claims, Closes, Starts, Writes
  <1>5. receipt'[e] # "none" => result'[e].debt
    <2>1. ASSUME NEW p \in Procs, Settles(p, e) PROVE result[e].debt
      BY <2>1 DEF Settles, At, StageInv, StageOK, TurnOK
    <2> QED
      BY <1>4, <1>m, <1>o, <2>1, DebtKept DEF RowOK
  <1>6. receipt'[e] = "matches_before" => e \in wrote'
    <2>1. CASE receipt'[e] = receipt[e]
      BY <1>o, <2>1, <1>m DEF RowOK, TruthMove, Quiet, Refuses, Claims, Closes, Settles,
         Starts, Writes
    <2>2. ASSUME NEW p \in Procs, Settles(p, e), receipt'[e] = "matches_before",
                 receipt'[e] = Classify(e, result[e], turn[p].seen)
          PROVE  e \in wrote'
      <3>1. result[e].debt /\ wrote' = wrote
        BY <2>2 DEF Settles, At, StageInv, StageOK, TurnOK
      <3>2. Terminal(e)
        BY <3>1 DEF Terminal, NoResult, Clean
      <3>3. Shows(result[e])
        BY <2>2, BeforeShows
      <3> QED
        BY <1>o, <3>1, <3>2, <3>3 DEF RowOK, Honest
    <2> QED
      BY <1>4, <2>1, <2>2
  <1>7. grant'[e] # "none" /\ ~Terminal(e)' => e \in pending'
    <2>1. grant[e] = "none" /\ grant'[e] # "none" => e \in pending'
      BY PendingStep
    <2>2. ASSUME grant[e] # "none", grant'[e] # "none", ~Terminal(e)'
          PROVE  e \in pending'
      <3>1. e \in pending
        BY <1>m, <1>o, <2>2, ResultKept DEF RowOK
      <3>2. e \notin invalid'
        BY <2>2 DEF AuthorityExclusive
      <3> QED
        BY <2>2, <3>1, <3>2, PendingStep
    <2> QED
      BY <2>1, <2>2
  <1> QED
    BY <1>1, <1>2, <1>3, <1>5, <1>6, <1>7 DEF RowOK

(* An empty ledger says nothing, and nobody relies on anything.              *)
LEMMA TruthInit == Init => StageInv /\ RowInv
  <1> SUFFICES ASSUME Init
               PROVE  StageInv /\ RowInv
    OBVIOUS
  <1>1. ASSUME NEW p \in Procs PROVE StageOK(p)
    <2>1. /\ turn[p].at = "idle" /\ turn[p].op = "none"
          /\ \A e \in Effects : exec[p][e] = "none"
      BY IdleFacts DEF Init
    <2> QED
      BY <2>1 DEF StageOK, TurnOK, Waiting
  <1>2. ASSUME NEW e \in Effects PROVE RowOK(e)
    BY <1>2 DEF Init, RowOK, Fresh, Terminal
  <1> QED
    BY <1>1, <1>2 DEF StageInv, RowInv

(* The whole invariant of the effect authority.                              *)
LEMMA Truth == Spec => [](TypeOK /\ AuthorityExclusive /\ LiveOwnerKeepsAuthority
                          /\ StageInv /\ RowInv)
  <1>1. TypeOK /\ ProcessInv /\ AuthorityExclusive /\ LiveOwnerKeepsAuthority
          /\ AuthorityExclusive' /\ StageInv /\ RowInv /\ [Next]_vars
          => StageInv' /\ RowInv'
    BY StageNext, RowNext
  <1> QED
    BY <1>1, Ownership, TruthInit, PTL DEF Spec

-------------------------------------------------------------------------------
(* What a reader of the ledger may believe.                                *)

(* A project that a provider changed is never reported unchanged, whoever  *)
(* closed the effect, and only a claimed effect has changed it.            *)
THEOREM ChangeIsNeverSilent == Spec => []NoSilentEffect
  <1>1. TypeOK /\ RowInv => NoSilentEffect
    <2> SUFFICES ASSUME TypeOK, RowInv, NEW e \in wrote
                 PROVE  /\ claim[e] # NoProc /\ Kind[e] # "read"
                        /\ Terminal(e) => result[e].status = "succeeded" \/ result[e].debt
      BY DEF NoSilentEffect
    <2>1. e \in Effects
      BY DEF TypeOK
    <2> QED
      BY <2>1 DEF RowInv, RowOK, Fresh, Honest
  <1> QED
    BY <1>1, Truth, PTL

(* Success is reported only for an effect whose provider started once and, *)
(* unless it reads, changed the project.                                   *)
THEOREM SuccessIsMade == Spec => []SuccessIsReal
  <1>1. RowInv => SuccessIsReal
    <2> SUFFICES ASSUME RowInv, NEW e \in Effects, result[e].status = "succeeded"
                 PROVE  runs[e] = 1 /\ (Kind[e] = "read" \/ e \in wrote)
      BY DEF SuccessIsReal
    <2>1. Terminal(e)
      BY DEF Terminal, NoResult, Clean
    <2> QED
      BY <2>1 DEF RowInv, RowOK, Honest
  <1> QED
    BY <1>1, Truth, PTL

(* A claim without a result keeps its payload, by which restart recovery   *)
(* and the next approval find it.                                          *)
THEOREM ClaimsAreRecoverable == Spec => []PendingRecoverable
  <1>1. AuthorityExclusive /\ RowInv => PendingRecoverable
    BY DEF AuthorityExclusive, RowInv, RowOK, PendingRecoverable
  <1> QED
    BY <1>1, Truth, PTL

(* A debt is discharged as restored only if the effect was applied.          *)
THEOREM DischargeHasEvidence == Spec => []DischargeNeedsEvidence
  <1>1. RowInv => DischargeNeedsEvidence
    BY DEF RowInv, RowOK, DischargeNeedsEvidence
  <1> QED
    BY <1>1, Truth, PTL

-------------------------------------------------------------------------------
(* The ledger's promise.                                                   *)

(* The verdict a reader sees, case by case, before and after a step.         *)
VerdictIs(e) ==
  /\ ~Terminal(e) => VerdictOf(e) = "none"
  /\ Terminal(e) /\ preterm[e] # "none" => VerdictOf(e) = "refused"
  /\ Terminal(e) /\ preterm[e] = "none" =>
       /\ result[e].status = "succeeded" => VerdictOf(e) = "succeeded"
       /\ result[e].status # "succeeded" =>
            /\ DebtOpen(e) => VerdictOf(e) = "debt"
            /\ result[e].debt /\ ~DebtOpen(e) => VerdictOf(e) = "discharged"
            /\ ~result[e].debt => VerdictOf(e) = "clean"
LEMMA Verdicts ==
  ASSUME NEW e \in Effects
  PROVE  VerdictIs(e) /\ VerdictIs(e)'
  BY DEF VerdictIs, VerdictOf, DebtOpen

(* A reader of a row that a step leaves alone sees what he saw.              *)
Untouched(e) == /\ claim'[e] = claim[e] /\ preterm'[e] = preterm[e]
                /\ result'[e] = result[e] /\ receipt'[e] = receipt[e]
LEMMA RowUnseen ==
  ASSUME NEW e \in Effects, Untouched(e), TypeOK
  PROVE  PhaseOf(e)' = PhaseOf(e) /\ VerdictOf(e)' = VerdictOf(e)
  <1>1. PhaseOf(e)' = PhaseOf(e)
    BY DEF Untouched, PhaseOf, Terminal
  <1>2. result[e].debt \in BOOLEAN
    BY DEF TypeOK, Results
  <1>3. (Terminal(e)' <=> Terminal(e)) /\ (DebtOpen(e)' <=> DebtOpen(e))
    BY DEF Untouched, Terminal, DebtOpen
  <1>4. DebtOpen(e) => result[e].debt
    BY DEF DebtOpen
  <1> QED
    BY <1>1, <1>2, <1>3, <1>4, Verdicts DEF VerdictIs, Untouched

(* Every step is a step of the ledger that EffectLedger specifies, or its  *)
(* readers do not see it.                                                  *)
LEMMA LedgerRefinement ==
  ASSUME TypeOK, ProcessInv, AuthorityExclusive, LiveOwnerKeepsAuthority, StageInv, RowInv,
         [Next]_vars
  PROVE  [Ledger!Next]_Ledger!vars
  <1> DEFINE phase   == [e \in Effects |-> PhaseOf(e)]
             verdict == [e \in Effects |-> VerdictOf(e)]
             Reads   == {e \in Effects : Kind[e] = "read"}
  <1>t. /\ result \in [Effects -> Results] /\ receipt \in [Effects -> ReceiptCodes]
        /\ claim \in [Effects -> Procs \cup {NoProc}] /\ runs \in [Effects -> Nat]
        /\ DOMAIN preterm = Effects /\ wrote \subseteq Effects
    BY DEF TypeOK
  <1>n. \A q \in Procs : q # NoProc
    BY SetsAssumption
  (* What the readers see when only the row of f changes.                  *)
  <1>a. ASSUME \A e \in Effects : Untouched(e)
        PROVE  phase' = phase /\ verdict' = verdict
    BY <1>a, RowUnseen
  <1>f. ASSUME NEW f \in Effects, \A e \in Effects \ {f} : Untouched(e)
        PROVE  /\ phase' = [phase EXCEPT ![f] = PhaseOf(f)']
               /\ verdict' = [verdict EXCEPT ![f] = VerdictOf(f)']
    <2>1. \A e \in Effects \ {f} : PhaseOf(e)' = PhaseOf(e) /\ VerdictOf(e)' = VerdictOf(e)
      BY <1>f, RowUnseen
    <2> QED
      BY <2>1
  <1>1. CASE Quiet
    <2>1. phase' = phase /\ verdict' = verdict /\ UNCHANGED <<runs, wrote>>
      BY <1>1, <1>a DEF Quiet, Untouched
    <2> QED
      BY <2>1 DEF Ledger!vars
  <1>2. ASSUME NEW f \in Effects, Refuses(f)
        PROVE  [Ledger!Next]_Ledger!vars
    <2>1. \A e \in Effects \ {f} : Untouched(e)
      BY <1>2, <1>t DEF Refuses, Untouched
    <2>2. claim[f] = NoProc /\ ~Terminal(f) /\ UNCHANGED <<runs, wrote>>
      BY <1>2 DEF Refuses
    <2>3. Terminal(f)' /\ preterm'[f] # "none"
      BY <1>2, <1>t, CancelledIsTerminal DEF Refuses, Terminal, NoResult, Clean
    <2>4. PhaseOf(f) = "open" /\ PhaseOf(f)' = "closed"
      BY <2>2, <2>3 DEF PhaseOf
    <2>5. VerdictOf(f)' = "refused"
      BY <2>3, Verdicts DEF VerdictIs
    <2>6. Ledger!Refuse(f)
      BY <1>f, <2>1, <2>2, <2>4, <2>5 DEF Ledger!Refuse
    <2> QED
      BY <2>6 DEF Ledger!Next
  <1>3. ASSUME NEW p \in Procs, NEW f \in Effects, Claims(p, f)
        PROVE  [Ledger!Next]_Ledger!vars
    <2>1. \A e \in Effects \ {f} : Untouched(e)
      BY <1>3, <1>t DEF Claims, Untouched
    <2>2. /\ claim[f] = NoProc /\ ~Terminal(f) /\ claim'[f] # NoProc
          /\ UNCHANGED <<runs, wrote>>
      BY <1>3, <1>t, <1>n DEF Claims
    <2>3. ~Terminal(f)'
      BY <1>3, <2>2 DEF Claims, Terminal
    <2>4. PhaseOf(f) = "open" /\ PhaseOf(f)' = "claimed"
      BY <2>2, <2>3 DEF PhaseOf
    <2>5. VerdictOf(f)' = VerdictOf(f)
      BY <2>2, <2>3, Verdicts DEF VerdictIs
    <2>6. verdict' = verdict
      BY <1>f, <2>1, <2>5
    <2>7. Ledger!Claim(f)
      BY <1>f, <2>1, <2>2, <2>4, <2>6 DEF Ledger!Claim
    <2> QED
      BY <2>7 DEF Ledger!Next
  <1>4. ASSUME NEW p \in Procs, NEW f \in Effects, Closes(p, f)
        PROVE  [Ledger!Next]_Ledger!vars
    <2>1. \A e \in Effects \ {f} : Untouched(e)
      BY <1>4, <1>t DEF Closes, Untouched
    <2>2. /\ claim[f] # NoProc /\ ~Terminal(f) /\ UNCHANGED <<runs, wrote>>
          /\ preterm'[f] = preterm[f] /\ receipt'[f] = receipt[f]
          /\ result'[f] = Closing(p, f)
      BY <1>4, <1>t DEF Closes, Recordable
    <2>3. preterm[f] = "none" /\ receipt[f] = "none"
      <3>1. ~result[f].debt
        BY <2>2 DEF Terminal, NoResult, Clean
      <3> QED
        BY <2>2, <3>1 DEF AuthorityExclusive, RowInv, RowOK
    <2>4. Honest(f, Closing(p, f))
      BY <1>4, ClosingHonest
    <2>5. Terminal(f)'
      BY <2>2, <2>4 DEF Honest, Terminal, NoResult, Clean
    <2>6. PhaseOf(f) = "claimed" /\ PhaseOf(f)' = "closed"
      BY <2>2, <2>5 DEF PhaseOf
    <2>7. VerdictOf(f)' \in {"succeeded", "clean", "debt"} /\ Ledger!Truthful(f, VerdictOf(f)')
      <3>v. VerdictIs(f)'
        BY Verdicts
      <3>0. preterm'[f] = "none"
        BY <2>2, <2>3
      <3>1. CASE result'[f].status = "succeeded"
        <4>1. VerdictOf(f)' = "succeeded"
          BY <2>5, <3>0, <3>1, <3>v DEF VerdictIs
        <4>2. runs[f] = 1 /\ f \in wrote \cup Reads
          BY <2>2, <2>4, <3>1 DEF Honest
        <4> QED
          BY <4>1, <4>2 DEF Ledger!Truthful
      <3>2. CASE result'[f].status # "succeeded" /\ result'[f].debt
        <4>1. DebtOpen(f)'
          BY <2>2, <2>3, <3>2 DEF DebtOpen
        <4>2. VerdictOf(f)' = "debt"
          BY <2>5, <3>0, <3>2, <3>v, <4>1 DEF VerdictIs
        <4>3. f \notin Reads
          BY <2>2, <2>4, <3>2 DEF Honest
        <4> QED
          BY <4>2, <4>3 DEF Ledger!Truthful
      <3>3. CASE result'[f].status # "succeeded" /\ ~result'[f].debt
        <4>1. VerdictOf(f)' = "clean"
          BY <2>5, <3>0, <3>3, <3>v DEF VerdictIs
        <4>2. f \notin wrote
          BY <2>2, <2>4, <3>3 DEF Honest
        <4> QED
          BY <4>1, <4>2 DEF Ledger!Truthful
      <3> QED
        BY <3>1, <3>2, <3>3
    <2>8. Ledger!Close(f)
      BY <1>f, <2>1, <2>2, <2>6, <2>7 DEF Ledger!Close
    <2> QED
      BY <2>8 DEF Ledger!Next
  <1>5. ASSUME NEW p \in Procs, NEW f \in Effects, Settles(p, f)
        PROVE  [Ledger!Next]_Ledger!vars
    <2>1. \A e \in Effects \ {f} : Untouched(e)
      BY <1>5, <1>t DEF Settles, Untouched
    <2>2. UNCHANGED <<claim, preterm, result, runs, wrote>> /\ result[f].debt
      BY <1>5 DEF Settles, At, StageInv, StageOK, TurnOK
    <2>3. Terminal(f) /\ (Terminal(f)' <=> Terminal(f))
      BY <2>2 DEF Terminal, NoResult, Clean
    <2>4. PhaseOf(f) = "closed" /\ PhaseOf(f)' = "closed"
      BY <2>3 DEF PhaseOf
    <2>p. phase' = phase
      BY <1>f, <2>1, <2>4
    <2>5. preterm[f] = "none" /\ preterm'[f] = "none"
      BY <2>2 DEF AuthorityExclusive, Clean
    <2>6. receipt'[f] = receipt[f] \/ receipt[f] = "none"
      BY <1>5, <1>t DEF Settles, FirstReceipt
    <2>7. CASE VerdictOf(f)' = VerdictOf(f)
      <3>1. verdict' = verdict
        BY <1>f, <2>1, <2>7
      <3> QED
        BY <2>2, <2>p, <3>1 DEF Ledger!vars
    <2>8. CASE VerdictOf(f)' # VerdictOf(f)
      <3>1. receipt[f] = "none"
        <4>1. receipt'[f] # receipt[f]
          BY <2>2, <2>8, RowUnseen DEF Untouched
        <4> QED
          BY <2>6, <4>1
      <3>2. result[f].status # "succeeded"
        BY <2>2, <2>3, <2>5, <2>8, Verdicts DEF VerdictIs
      <3>3. VerdictOf(f) = "debt"
        <4>1. DebtOpen(f)
          BY <2>2, <3>1 DEF DebtOpen
        <4> QED
          BY <2>3, <2>5, <3>2, <4>1, Verdicts DEF VerdictIs
      <3>4. VerdictOf(f)' = "discharged"
        <4>1. VerdictOf(f)' \in {"debt", "discharged"}
          BY <2>2, <2>3, <2>5, <3>2, Verdicts DEF VerdictIs
        <4> QED
          BY <2>8, <3>3, <4>1
      <3>5. Ledger!Discharge(f)
        BY <1>f, <2>1, <2>2, <2>p, <3>3, <3>4 DEF Ledger!Discharge
      <3> QED
        BY <3>5 DEF Ledger!Next
    <2> QED
      BY <2>7, <2>8
  <1>6. ASSUME NEW p \in Procs, NEW f \in Effects, Starts(p, f)
        PROVE  [Ledger!Next]_Ledger!vars
    <2>1. phase' = phase /\ verdict' = verdict /\ wrote' = wrote
      BY <1>6, <1>a DEF Starts, Untouched
    <2>2. claim[f] # NoProc /\ ~Terminal(f)
      BY <1>6, <1>n, DeedsOwned
    <2>3. PhaseOf(f) = "claimed"
      BY <2>2 DEF PhaseOf
    <2>4. runs[f] = 0
      BY <1>6 DEF Starts, StageInv, StageOK, Fresh, Waiting
    <2>5. runs' = [runs EXCEPT ![f] = 1]
      BY <1>6, <2>4 DEF Starts
    <2>6. Ledger!Start(f)
      BY <2>1, <2>3, <2>4, <2>5 DEF Ledger!Start
    <2> QED
      BY <2>6 DEF Ledger!Next
  <1>7. ASSUME NEW p \in Procs, NEW f \in Effects, Writes(p, f)
        PROVE  [Ledger!Next]_Ledger!vars
    <2>1. phase' = phase /\ verdict' = verdict /\ runs' = runs /\ wrote' = wrote \cup {f}
      BY <1>7, <1>a DEF Writes, Untouched
    <2>2. claim[f] # NoProc /\ ~Terminal(f)
      BY <1>7, <1>n, DeedsOwned
    <2>3. PhaseOf(f) = "claimed"
      BY <2>2 DEF PhaseOf
    <2>4. runs[f] = 1 /\ f \notin wrote \cup Reads
      BY <1>7 DEF Writes, At, StageInv, StageOK, TurnOK, Begun
    <2>5. Ledger!Change(f)
      BY <2>1, <2>3, <2>4 DEF Ledger!Change
    <2> QED
      BY <2>5 DEF Ledger!Next
  <1> QED
    BY <1>1, <1>2, <1>3, <1>4, <1>5, <1>6, <1>7, TruthStep DEF TruthMove

(* An empty ledger is an empty ledger.                                       *)
LEMMA LedgerRefinementInit == Init => Ledger!Init
  <1> SUFFICES ASSUME Init
               PROVE  Ledger!Init
    OBVIOUS
  <1>1. ASSUME NEW e \in Effects PROVE PhaseOf(e) = "open" /\ VerdictOf(e) = "none"
    <2>1. ~Terminal(e) /\ claim[e] = NoProc
      BY DEF Init, Terminal
    <2> QED
      BY <2>1, Verdicts DEF PhaseOf, VerdictIs
  <1> QED
    BY <1>1 DEF Init, Ledger!Init

(* The effect authority, with its processes, grants, crashes, recovery and *)
(* receipts, implements the ledger: one claim or refusal, one start under  *)
(* the claim, one change, and one verdict that hides no change.            *)
THEOREM AuthorityImplementsLedger == Spec => ImplementsLedger
  <1>1. TypeOK /\ ProcessInv /\ AuthorityExclusive /\ LiveOwnerKeepsAuthority
          /\ StageInv /\ RowInv /\ [Next]_vars => [Ledger!Next]_Ledger!vars
    BY LedgerRefinement
  <1> QED
    BY <1>1, LedgerRefinementInit, Truth, Types, PTL DEF Spec, ImplementsLedger, Ledger!Spec

-------------------------------------------------------------------------------
(* What follows from the ledger's promise.                                 *)

(* A step that the ledger allows starts the provider of no effect twice,    *)
(* and leaves an effect alone that is closed.                              *)
LEMMA LedgerAllows ==
  ASSUME [Ledger!Next]_Ledger!vars, runs \in [Effects -> Nat], NEW e \in Effects
  PROVE  /\ runs[e] <= 1 => runs'[e] <= 1
         /\ Terminal(e) => Terminal(e)' /\ runs'[e] = runs[e] /\ (e \in wrote' <=> e \in wrote)
  <1> DEFINE phase   == [f \in Effects |-> PhaseOf(f)]
             verdict == [f \in Effects |-> VerdictOf(f)]
  <1>p. /\ Terminal(e) <=> phase[e] = "closed"
        /\ Terminal(e)' <=> phase'[e] = "closed"
    BY DEF PhaseOf
  <1> DEFINE Kept == /\ runs[e] <= 1 => runs'[e] <= 1
                     /\ phase[e] = "closed" => /\ phase'[e] = "closed" /\ runs'[e] = runs[e]
                                               /\ e \in wrote' <=> e \in wrote
  <1>d. phase = [f \in Effects |-> phase[f]]
    OBVIOUS
  <1>0. CASE UNCHANGED Ledger!vars
    <2>1. phase' = phase /\ runs' = runs /\ wrote' = wrote
      BY <1>0 DEF Ledger!vars
    <2> QED
      BY <1>p, <2>1
  <1>1. ASSUME NEW f \in Effects, Ledger!Claim(f) \/ Ledger!Refuse(f) \/ Ledger!Close(f)
        PROVE  Kept
    <2>1. /\ phase[f] # "closed" /\ runs' = runs /\ wrote' = wrote
          /\ \E q : phase' = [phase EXCEPT ![f] = q]
      BY <1>1 DEF Ledger!Claim, Ledger!Refuse, Ledger!Close
    <2> HIDE DEF phase
    <2> QED
      BY <1>d, <2>1
  <1>2. ASSUME NEW f \in Effects, Ledger!Start(f)
        PROVE  Kept
    <2>1. /\ phase[f] = "claimed" /\ phase' = phase /\ wrote' = wrote
          /\ runs' = [runs EXCEPT ![f] = 1]
      BY <1>2 DEF Ledger!Start
    <2> HIDE DEF phase
    <2> QED
      BY <1>d, <2>1
  <1>3. ASSUME NEW f \in Effects, Ledger!Change(f)
        PROVE  Kept
    <2>1. /\ phase[f] = "claimed" /\ phase' = phase /\ runs' = runs
          /\ wrote' = wrote \cup {f}
      BY <1>3 DEF Ledger!Change
    <2> HIDE DEF phase
    <2> QED
      BY <1>d, <2>1
  <1>4. ASSUME NEW f \in Effects, Ledger!Discharge(f)
        PROVE  Kept
    <2>1. phase' = phase /\ runs' = runs /\ wrote' = wrote
      BY <1>4 DEF Ledger!Discharge
    <2> QED
      BY <2>1
  <1>5. CASE Ledger!Next
    <2>1. Kept
      BY <1>1, <1>2, <1>3, <1>4, <1>5 DEF Ledger!Next
    <2> HIDE DEF phase
    <2> QED
      BY <1>p, <2>1
  <1> QED
    BY <1>0, <1>5

(* The provider of an effect starts at most once, with however many         *)
(* approvals, retries, crashes and recoveries.                             *)
THEOREM ProviderStartsOnce == Spec => [](\A e \in Effects : runs[e] <= 1)
  <1> DEFINE Once == \A e \in Effects : runs[e] <= 1
  <1>1. Init => Once
    <2> SUFFICES ASSUME Init, NEW e \in Effects PROVE runs[e] <= 1
      OBVIOUS
    <2>1. runs[e] = 0
      BY DEF Init
    <2> QED
      BY <2>1
  <1>2. TypeOK /\ Once /\ [Ledger!Next]_Ledger!vars => Once'
    <2> SUFFICES ASSUME TypeOK, Once, [Ledger!Next]_Ledger!vars, NEW e \in Effects
                 PROVE  runs'[e] <= 1
      OBVIOUS
    <2>1. runs \in [Effects -> Nat] /\ runs[e] <= 1
      BY DEF TypeOK
    <2> QED
      BY <2>1, LedgerAllows
  <1> QED
    BY <1>1, <1>2, AuthorityImplementsLedger, TypeCorrect, PTL
       DEF Spec, ImplementsLedger, Ledger!Spec

(* Once an effect is closed it stays closed, and its provider neither       *)
(* starts nor changes the project any more: not even that of an execution  *)
(* whose timer, cancellation or recovery closed it from outside.           *)
THEOREM ClosedIsOver ==
  Spec => [][\A e \in Effects : Terminal(e) =>
               /\ Terminal(e)' /\ runs'[e] = runs[e]
               /\ e \in wrote' <=> e \in wrote]_vars
  <1> DEFINE Over == \A e \in Effects : Terminal(e) =>
                       /\ Terminal(e)' /\ runs'[e] = runs[e]
                       /\ e \in wrote' <=> e \in wrote
  <1>1. TypeOK /\ [Ledger!Next]_Ledger!vars => Over
    BY LedgerAllows DEF TypeOK
  <1>2. TypeOK /\ [Ledger!Next]_Ledger!vars => [Over]_vars
    BY <1>1
  <1> QED
    BY <1>2, AuthorityImplementsLedger, TypeCorrect, PTL
       DEF Spec, ImplementsLedger, Ledger!Spec

===============================================================================

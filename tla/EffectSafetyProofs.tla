--------------------------- MODULE EffectSafetyProofs --------------------------
(***************************************************************************)
(* Types and safety of the effect authority for every number of effects,   *)
(* incarnations and files.  TypeOK is not inductive: the effect a handler  *)
(* works on is an effect only because of where the handler is, and the     *)
(* process that runs a statement is alive only because of the statement.   *)
(* ProcessInv adds that.  LedgerStep then says which rows a step of any    *)
(* process may change, and how; the ledger properties speak of seven kinds *)
(* of step instead of forty actions.                                       *)
(***************************************************************************)
EXTENDS EffectAuthority, TLAPS

-------------------------------------------------------------------------------
(* Types.                                                                  *)

Started == {"before", "read", "write", "verify"}
Provider == Started \cup {"commit"}
Recovering == {"recover", "recoverPut", "recoverDel"}
BootLabels == {"scan", "receiptPut"} \cup Recovering

(* What the life of a process says about its handler and executions: the   *)
(* dead have none, a booting process runs its phases only, and the         *)
(* provider's statements belong to a running approval.                     *)
ProcessOK(p) ==
  /\ proc[p] \in {"unborn", "dead"} => turn[p].at = "idle"
  /\ proc[p] # "up" => \A e \in Effects : exec[p][e] = "none"
  /\ proc[p] = "boot" => turn[p].op \in BootPhases /\ turn[p].at \in BootLabels
  /\ proc[p] = "up" => turn[p].op \notin BootPhases /\ turn[p].at # "scan"
  /\ proc[p] = "up" /\ turn[p].at \in Recovering => turn[p].op = "approve"
  /\ turn[p].at # "idle" /\ turn[p].at # "scan" => turn[p].e \in Effects
  /\ turn[p].at \in Provider =>
       turn[p].op = "approve" /\ exec[p][turn[p].e] = "running"
ProcessInv == \A p \in Procs : ProcessOK(p)

-------------------------------------------------------------------------------
(* Types.                                                                  *)

(* The results that broker, recovery and repository build are results.       *)
LEMMA ResultTypes ==
  /\ NoResult \in Results
  /\ \A s \in Statuses : Clean(s) \in Results
  /\ \A b, a \in Images, q \in BOOLEAN : Succeeded(b, a, q) \in Results
  /\ \A s \in Statuses, b, a \in Images, q \in BOOLEAN : Owing(s, b, a, q) \in Results
  BY DEF NoResult, Clean, Succeeded, Owing, Results, Statuses, Images

(* A settled cancellation or timer turns a result into a result.             *)
LEMMA OutcomeTypes ==
  \A e \in Effects, r \in Results : Outcomes(e, r) \subseteq Results
  BY ResultTypes DEF Outcomes, Interrupted, Results, Statuses

(* A fresh turn is a turn.                                                   *)
LEMMA TurnTypes ==
  \A op \in Ops, at \in Labels, e \in Effects \cup {NoEffect} :
    Turn(op, at, e) \in TurnRecords
  BY ResultTypes DEF Turn, TurnRecords, Images

(* The initial state is typed.                                               *)
LEMMA TypeInit == Init => TypeOK
  <1> SUFFICES ASSUME Init PROVE TypeOK
    OBVIOUS
  <1>1. Idle \in TurnRecords
    BY TurnTypes DEF Idle, Ops, Labels
  <1>2. file \in [Paths -> Images]
    BY SetsAssumption DEF Init, Images
  <1> QED
    BY <1>1, <1>2, ResultTypes DEF Init, TypeOK, ExecStates, ReceiptCodes

(* The ways in which a handler moves on.                                   *)
LEMMA TurnMoves ==
  ASSUME turn \in [Procs -> TurnRecords], NEW p \in Procs
  PROVE  /\ \A at \in Labels : Goto(p, at) => turn' \in [Procs -> TurnRecords]
         /\ \A r \in TurnRecords :
              turn' = [turn EXCEPT ![p] = r] => turn' \in [Procs -> TurnRecords]
         /\ \A at \in Labels, t \in Nat :
              turn' = [turn EXCEPT ![p].at = at, ![p].clk = t]
                => turn' \in [Procs -> TurnRecords]
         /\ \A at \in Labels, c \in Images :
              turn' = [turn EXCEPT ![p].at = at, ![p].seen = c]
                => turn' \in [Procs -> TurnRecords]
         /\ \A at \in Labels, r \in Results :
              turn' = [turn EXCEPT ![p].at = at, ![p].out = r]
                => turn' \in [Procs -> TurnRecords]
         /\ \A at \in Labels, e \in Effects, c \in Images :
              turn' = [turn EXCEPT ![p].todo = @ \ {e}, ![p].e = e, ![p].at = at,
                                   ![p].seen = c]
                => turn' \in [Procs -> TurnRecords]
         /\ \A at \in Labels, e \in Effects \cup {NoEffect}, c \in Images :
              turn' = [turn EXCEPT ![p].at = at, ![p].e = e, ![p].seen = c]
                => turn' \in [Procs -> TurnRecords]
  <1>1. ASSUME NEW at \in Labels, Goto(p, at) PROVE turn' \in [Procs -> TurnRecords]
    BY <1>1 DEF Goto, TurnRecords
  <1>2. ASSUME NEW r \in TurnRecords, turn' = [turn EXCEPT ![p] = r]
        PROVE  turn' \in [Procs -> TurnRecords]
    BY <1>2
  <1>3. ASSUME NEW at \in Labels, NEW t \in Nat,
               turn' = [turn EXCEPT ![p].at = at, ![p].clk = t]
        PROVE  turn' \in [Procs -> TurnRecords]
    BY <1>3 DEF TurnRecords
  <1>4. ASSUME NEW at \in Labels, NEW c \in Images,
               turn' = [turn EXCEPT ![p].at = at, ![p].seen = c]
        PROVE  turn' \in [Procs -> TurnRecords]
    BY <1>4 DEF TurnRecords
  <1>5. ASSUME NEW at \in Labels, NEW r \in Results,
               turn' = [turn EXCEPT ![p].at = at, ![p].out = r]
        PROVE  turn' \in [Procs -> TurnRecords]
    BY <1>5 DEF TurnRecords
  <1>6. ASSUME NEW at \in Labels, NEW e \in Effects, NEW c \in Images,
               turn' = [turn EXCEPT ![p].todo = @ \ {e}, ![p].e = e, ![p].at = at,
                                    ![p].seen = c]
        PROVE  turn' \in [Procs -> TurnRecords]
    <2>1. turn[p] \in TurnRecords
      OBVIOUS
    <2>2. [turn[p] EXCEPT !.todo = @ \ {e}, !.e = e, !.at = at, !.seen = c] \in TurnRecords
      BY <2>1 DEF TurnRecords
    <2>3. turn' = [turn EXCEPT ![p] = [turn[p] EXCEPT !.todo = @ \ {e}, !.e = e,
                                                      !.at = at, !.seen = c]]
      BY <1>6
    <2> QED
      BY <2>2, <2>3
  <1>7. ASSUME NEW at \in Labels, NEW e \in Effects \cup {NoEffect}, NEW c \in Images,
               turn' = [turn EXCEPT ![p].at = at, ![p].e = e, ![p].seen = c]
        PROVE  turn' \in [Procs -> TurnRecords]
    BY ZenonT(60), <1>7 DEF TurnRecords
  <1> QED
    BY <1>1, <1>2, <1>3, <1>4, <1>5, <1>6, <1>7

(* A handler that finishes leaves turns and executions typed.                *)
LEMMA FinishType ==
  ASSUME TypeOK, NEW p \in Procs, Finish(p)
  PROVE  /\ turn' \in [Procs -> TurnRecords]
         /\ exec' \in [Procs -> [Effects -> ExecStates]]
  <1>1. Idle \in TurnRecords
    BY TurnTypes DEF Idle, Ops, Labels
  <1>2. turn' \in [Procs -> TurnRecords]
    <2>1. turn \in [Procs -> TurnRecords]
      BY DEF TypeOK
    <2>2. CASE turn' = [turn EXCEPT ![p].at = "scan", ![p].e = NoEffect, ![p].seen = Nil]
      <3>1. "scan" \in Labels /\ Nil \in Images /\ NoEffect \in Effects \cup {NoEffect}
        BY DEF Labels, Images
      <3> QED
        BY <2>1, <2>2, <3>1, TurnMoves
    <2>3. CASE turn' = [turn EXCEPT ![p] = Idle]
      BY <1>1, <2>1, <2>3
    <2> QED
      BY <2>2, <2>3 DEF Finish
  <1>3. exec' \in [Procs -> [Effects -> ExecStates]]
    <2>1. CASE UNCHANGED exec
      BY <2>1 DEF TypeOK
    <2>2. CASE exec' = [exec EXCEPT ![p][turn[p].e] = "none"]
      BY <2>2 DEF TypeOK, ExecStates
    <2> QED
      BY <2>1, <2>2 DEF Finish
  <1> QED
    BY <1>2, <1>3

(* The boot phases keep the types.                                           *)
LEMMA TypeBoot ==
  ASSUME TypeOK, NEW p \in Procs, BootStep(p)
  PROVE  TypeOK'
  <1> USE DEF world, ledger, procs, ghosts
  <1>t. /\ turn \in [Procs -> TurnRecords]
        /\ turn[p].todo \subseteq Effects
        /\ turn[p].e \in Effects \cup {NoEffect}
    BY DEF TypeOK, TurnRecords
  <1>1. CASE BootNextPhase(p)
    <2>1. NextPhase(turn[p].op) \in BootPhases
      BY DEF NextPhase, BootPhases
    <2>2. \A phase : RowsOf(phase) \subseteq Effects
      BY DEF RowsOf, TypeOK
    <2>3. \A phase \in BootPhases :
            [Turn(phase, "scan", NoEffect) EXCEPT !.todo = RowsOf(phase)] \in TurnRecords
      <3> TAKE phase \in BootPhases
      <3>1. Turn(phase, "scan", NoEffect) \in TurnRecords
        BY TurnTypes DEF Ops, Labels
      <3> QED
        BY <3>1, <2>2 DEF TurnRecords
    <2>4. turn' \in [Procs -> TurnRecords]
      <3>1. Idle \in TurnRecords
        BY TurnTypes DEF Idle, Ops, Labels
      <3> QED
        BY <1>1, <1>t, <2>1, <2>3, <3>1 DEF BootNextPhase, StartPhase
    <2>5. proc' \in [Procs -> {"unborn", "boot", "up", "dead"}]
      BY <1>1 DEF BootNextPhase, TypeOK
    <2> QED
      BY <1>1, <2>4, <2>5 DEF BootNextPhase, TypeOK
  <1>2. ASSUME NEW e \in Effects, BootExpireGrant(p, e)
        PROVE  TypeOK'
    <2>1. turn' \in [Procs -> TurnRecords]
      BY <1>2, <1>t DEF BootExpireGrant, Drop, TurnRecords
    <2>2. preterm' \in [Effects -> {"none", "APPROVAL_GRANT_REVOKED", "APPROVAL_GRANT_EXPIRED"}]
      BY <1>2 DEF BootExpireGrant, TypeOK, TerminalizeGrant, Reason
    <2>3. result' \in [Effects -> Results]
      <3>1. Clean("cancelled") \in Results
        BY ResultTypes DEF Statuses
      <3> QED
        BY ZenonT(60), <1>2, <3>1 DEF BootExpireGrant, TypeOK, TerminalizeGrant
    <2>4. pending' \subseteq Effects
      BY <1>2 DEF BootExpireGrant, TypeOK, TerminalizeGrant
    <2> QED
      BY <1>2, <2>1, <2>2, <2>3, <2>4 DEF BootExpireGrant, TypeOK
  <1>3. ASSUME NEW e \in Effects, BootCleanPending(p, e)
        PROVE  TypeOK'
    <2>1. turn' \in [Procs -> TurnRecords]
      BY <1>3, <1>t DEF BootCleanPending, Drop, TurnRecords
    <2> QED
      BY <1>3, <2>1 DEF BootCleanPending, TypeOK, TryDeletePending
  <1>4. ASSUME NEW e \in Effects, BootRecoverClaim(p, e)
        PROVE  TypeOK'
    <2>1. turn' \in [Procs -> TurnRecords]
      <3>1. turn' = [turn EXCEPT ![p].todo = @ \ {e}, ![p].e = e, ![p].at = "recover"]
        BY <1>4 DEF BootRecoverClaim
      <3>2. "recover" \in Labels
        BY DEF Labels
      <3> QED
        BY ZenonT(60), <1>t, <3>1, <3>2 DEF TurnRecords
    <2> QED
      BY <1>4, <2>1 DEF BootRecoverClaim, TypeOK
  <1>5. ASSUME NEW e \in Effects, BootObserveRollback(p, e)
        PROVE  TypeOK'
    <2>1. file[Target[e]] \in Images
      BY EffectAssumption DEF TypeOK
    <2>2. turn' \in [Procs -> TurnRecords]
      <3>1. turn' = [turn EXCEPT ![p].todo = @ \ {e}, ![p].e = e,
                                 ![p].at = "receiptPut", ![p].seen = file[Target[e]]]
        BY <1>5 DEF BootObserveRollback
      <3>2. "receiptPut" \in Labels
        BY DEF Labels
      <3> QED
        BY <1>t, <2>1, <3>1, <3>2, TurnMoves
    <2> QED
      BY <1>5, <2>2 DEF BootObserveRollback, TypeOK
  <1>6. CASE RecordRollbackReceipt(p)
    <2>1. receipt' \in [Effects -> ReceiptCodes]
      BY <1>6 DEF RecordRollbackReceipt, TypeOK, FirstReceipt, Classify, ReceiptCodes
    <2>2. /\ turn' \in [Procs -> TurnRecords]
          /\ exec' \in [Procs -> [Effects -> ExecStates]]
      BY <1>6, FinishType DEF RecordRollbackReceipt
    <2> QED
      BY <1>6, <2>1, <2>2 DEF RecordRollbackReceipt, TypeOK
  <1> QED
    BY <1>1, <1>2, <1>3, <1>4, <1>5, <1>6 DEF BootStep

(* Restart recovery keeps the types.                                         *)
LEMMA TypeRecover ==
  ASSUME TypeOK, NEW p \in Procs, RecoverStep(p)
  PROVE  TypeOK'
  <1> USE DEF world, ledger, procs, ghosts
  <1>t. /\ turn \in [Procs -> TurnRecords]
        /\ turn[p].e \in Effects \cup {NoEffect}
    BY DEF TypeOK, TurnRecords
  <1>l. /\ "recoverPut" \in Labels /\ "recoverDel" \in Labels /\ "expire" \in Labels
        /\ Idle \in TurnRecords
    BY TurnTypes DEF Labels, Ops, Idle
  <1>1. CASE RecoverTerminal(p)
    BY <1>1, FinishType DEF RecoverTerminal, TryDeletePending, TypeOK
  <1>2. CASE RecoverDeadOwner(p)
    <2>1. turn' \in [Procs -> TurnRecords]
      BY <1>2, <1>t, <1>l, TurnMoves DEF RecoverDeadOwner
    <2> QED
      BY <1>2, <2>1 DEF RecoverDeadOwner, TypeOK
  <1>3. CASE RecoverNothing(p)
    <2>1. turn' \in [Procs -> TurnRecords]
      BY <1>3, <1>t, <1>l, TurnMoves, FinishType DEF RecoverNothing
    <2>2. exec' \in [Procs -> [Effects -> ExecStates]]
      BY <1>3, FinishType DEF RecoverNothing, TypeOK
    <2> QED
      BY <1>3, <2>1, <2>2 DEF RecoverNothing, TypeOK
  <1>4. CASE RecoverRecordResult(p)
    <2>1. turn' \in [Procs -> TurnRecords]
      BY <1>4, <1>t, <1>l, TurnMoves DEF RecoverRecordResult
    <2>2. \A e : RecoveryResult(e) \in Results
      <3>1. Nil \in Images /\ "orphaned" \in Statuses /\ FALSE \in BOOLEAN
        BY DEF Images, Statuses
      <3> QED
        BY <3>1, ResultTypes DEF RecoveryResult
    <2>3. result' \in [Effects -> Results]
      BY <1>4, <2>2 DEF RecoverRecordResult, TypeOK
    <2> QED
      BY <1>4, <2>1, <2>3 DEF RecoverRecordResult, TypeOK
  <1>5. CASE RecoverConflict(p)
    <2>1. turn' \in [Procs -> TurnRecords] /\ exec' \in [Procs -> [Effects -> ExecStates]]
      BY <1>5, <1>t, <1>l, TurnMoves, FinishType DEF RecoverConflict, TypeOK
    <2>2. proc' \in [Procs -> {"unborn", "boot", "up", "dead"}]
      BY <1>5 DEF RecoverConflict, TypeOK
    <2> QED
      BY <1>5, <2>1, <2>2 DEF RecoverConflict, TypeOK
  <1>6. CASE RecoverDeletePending(p)
    BY <1>6, FinishType DEF RecoverDeletePending, TypeOK
  <1> QED
    BY <1>1, <1>2, <1>3, <1>4, <1>5, <1>6 DEF RecoverStep

(* The statements of request, approval and cancellation keep the types.      *)
LEMMA TypeHandler ==
  ASSUME TypeOK, ProcessInv, NEW p \in Procs, HandlerStep(p)
  PROVE  TypeOK'
  <1> USE DEF world, ledger, procs, ghosts
  <1>t. /\ turn \in [Procs -> TurnRecords]
        /\ turn[p].e \in Effects \cup {NoEffect}
        /\ now \in Nat
    BY DEF TypeOK, TurnRecords
  <1>l. /\ "storePut" \in Labels /\ "issue" \in Labels /\ "enter" \in Labels
        /\ "revoke" \in Labels /\ "consume" \in Labels /\ "cleanup" \in Labels
        /\ Idle \in TurnRecords
    BY TurnTypes DEF Labels, Ops, Idle
  <1>e. turn[p].at # "idle" /\ turn[p].at # "scan" => turn[p].e \in Effects
    BY DEF ProcessInv, ProcessOK
  <1>r. Clean("cancelled") \in Results
    BY ResultTypes DEF Statuses
  <1>1. CASE RequestTerminal(p)
    <2>1. turn' \in [Procs -> TurnRecords] /\ exec' \in [Procs -> [Effects -> ExecStates]]
      BY <1>1, <1>t, <1>l, TurnMoves, FinishType DEF RequestTerminal, TypeOK
    <2>2. pending' \subseteq Effects
      BY <1>1 DEF RequestTerminal, TryDeletePending, TypeOK
    <2> QED
      BY <1>1, <2>1, <2>2 DEF RequestTerminal, TypeOK
  <1>2. CASE StorePending(p)
    <2>1. turn[p].e \in Effects => pending' \subseteq Effects
      BY <1>2 DEF StorePending, TypeOK
    <2> QED
      BY <1>2, <1>e, <2>1, FinishType DEF StorePending, At, TypeOK
  <1>3. CASE ApproveExpire(p)
    <2>1. turn' \in [Procs -> TurnRecords] /\ exec' \in [Procs -> [Effects -> ExecStates]]
      BY <1>3, <1>t, <1>l, TurnMoves, FinishType DEF ApproveExpire, TypeOK
    <2>2. preterm' \in [Effects -> {"none", "APPROVAL_GRANT_REVOKED",
                                    "APPROVAL_GRANT_EXPIRED"}]
      BY <1>3 DEF ApproveExpire, TerminalizeGrant, Reason, TypeOK
    <2>4. result' \in [Effects -> Results]
      BY <1>3, <1>r DEF ApproveExpire, TerminalizeGrant, TypeOK
    <2>3. pending' \subseteq Effects
      BY <1>3 DEF ApproveExpire, TerminalizeGrant, TypeOK
    <2> QED
      BY <1>3, <2>1, <2>2, <2>3, <2>4 DEF ApproveExpire, TypeOK
  <1>4. CASE IssueApprovalGrant(p)
    <2>1. turn' \in [Procs -> TurnRecords] /\ exec' \in [Procs -> [Effects -> ExecStates]]
      BY <1>4, <1>t, <1>l, TurnMoves, FinishType DEF IssueApprovalGrant, TypeOK
    <2>2. /\ grant' \in [Effects -> {"none", "active", "consumed", "revoked"}]
          /\ issued' \in [Effects -> Nat]
      BY ZenonT(60), <1>4, <1>t DEF IssueApprovalGrant, TypeOK
    <2> QED
      BY <1>4, <2>1, <2>2 DEF IssueApprovalGrant, TypeOK
  <1>x. \A x \in ExecStates, f \in Effects :
          [exec EXCEPT ![p][f] = x] \in [Procs -> [Effects -> ExecStates]]
    BY DEF TypeOK
  <1>5. CASE EnterExecute(p)
    <2>1. CASE Finish(p) /\ TryDeletePending(turn[p].e)
      BY <1>5, <2>1, FinishType DEF EnterExecute, TryDeletePending, TypeOK
    <2>2. CASE /\ turn' = [turn EXCEPT ![p].at = "consume", ![p].clk = now]
               /\ exec' = [exec EXCEPT ![p][turn[p].e] = "running"]
               /\ UNCHANGED pending
      <3>1. turn' \in [Procs -> TurnRecords]
        BY <2>2, <1>t, <1>l, TurnMoves
      <3>2. exec' \in [Procs -> [Effects -> ExecStates]]
        BY <1>5, <2>2, <1>e, <1>x DEF EnterExecute, At, ExecStates
      <3> QED
        BY <1>5, <2>2, <3>1, <3>2 DEF EnterExecute, TypeOK
    <2> QED
      BY <1>5, <2>1, <2>2 DEF EnterExecute, TryDeletePending
  <1>6. CASE ConsumeApprovalGrant(p)
    <2>1. CASE Finish(p) /\ UNCHANGED <<grant, claim>>
      BY <1>6, <2>1, FinishType DEF ConsumeApprovalGrant, TypeOK
    <2>2. CASE /\ grant' = [grant EXCEPT ![turn[p].e] = "consumed"]
               /\ claim' = [claim EXCEPT ![turn[p].e] = p]
               /\ exec' = [exec EXCEPT ![p][turn[p].e] = "observing"]
               /\ turn' = [turn EXCEPT ![p] = Idle]
      <3>1. turn' \in [Procs -> TurnRecords]
        BY <2>2, <1>t, <1>l, TurnMoves
      <3>2. exec' \in [Procs -> [Effects -> ExecStates]]
        BY <1>6, <2>2, <1>e, <1>x DEF ConsumeApprovalGrant, At, ExecStates
      <3>3. grant' \in [Effects -> {"none", "active", "consumed", "revoked"}]
        BY <2>2 DEF TypeOK
      <3>4. claim' \in [Effects -> Procs \cup {NoProc}]
        BY <2>2 DEF TypeOK
      <3> QED
        BY <1>6, <3>1, <3>2, <3>3, <3>4 DEF ConsumeApprovalGrant, TypeOK
    <2> QED
      BY <1>6, <2>1, <2>2 DEF ConsumeApprovalGrant
  <1>7. CASE CancelRevoke(p)
    <2>1. turn' \in [Procs -> TurnRecords] /\ exec' \in [Procs -> [Effects -> ExecStates]]
      BY <1>7, <1>t, <1>l, TurnMoves, FinishType DEF CancelRevoke, TypeOK
    <2>2. preterm' \in [Effects -> {"none", "APPROVAL_GRANT_REVOKED",
                                    "APPROVAL_GRANT_EXPIRED"}]
      BY <1>7 DEF CancelRevoke, RevokeGrant, Reason, TypeOK
    <2>4. result' \in [Effects -> Results]
      BY ZenonT(60), <1>7, <1>r DEF CancelRevoke, RevokeGrant, TypeOK
    <2>5. grant' \in [Effects -> {"none", "active", "consumed", "revoked"}]
      <3>1. grant' = [grant EXCEPT ![turn[p].e] = "revoked"] \/ grant' = grant
        BY <1>7 DEF CancelRevoke, RevokeGrant
      <3> QED
        BY <3>1 DEF TypeOK
    <2>3. pending' \subseteq Effects
      BY <1>7 DEF CancelRevoke, RevokeGrant, TypeOK
    <2> QED
      BY <1>7, <2>1, <2>2, <2>3, <2>4, <2>5 DEF CancelRevoke, TypeOK
  <1> QED
    BY <1>1, <1>2, <1>3, <1>4, <1>5, <1>6, <1>7 DEF HandlerStep

(* The provider and the commit of its outcome keep the types.                *)
LEMMA TypeProvider ==
  ASSUME TypeOK, ProcessInv, NEW p \in Procs, ProviderStep(p)
  PROVE  TypeOK'
  <1> USE DEF world, ledger, procs, ghosts
  <1> DEFINE e == turn[p].e
  <1>t. /\ turn \in [Procs -> TurnRecords]
        /\ turn[p].out \in Results /\ turn[p].seen \in Images
    BY DEF TypeOK, TurnRecords
  <1>e. turn[p].at # "idle" /\ turn[p].at # "scan" => e \in Effects
    BY DEF ProcessInv, ProcessOK
  <1>l. /\ "write" \in Labels /\ "verify" \in Labels /\ "commit" \in Labels
        /\ "cleanup" \in Labels
    BY DEF Labels
  <1>s. ASSUME e \in Effects, NEW r \in Results, Settle(p, e, r)
        PROVE  turn' \in [Procs -> TurnRecords]
    BY <1>s, <1>t, <1>l, TurnMoves, OutcomeTypes DEF Settle
  <1>f. e \in Effects => /\ file[Target[e]] \in Images /\ Payload[e] \in Images
                         /\ Target[e] \in Paths
    BY EffectAssumption DEF TypeOK, Images
  <1>1. CASE PreEffectFailure(p)
    <2>1. \A s \in {"failed", "cancelled"} : Clean(s) \in Results
      BY ResultTypes DEF Statuses
    <2> QED
      BY <1>1, <1>e, <1>s, <2>1 DEF PreEffectFailure, At, TypeOK
  <1>2. CASE ReadBefore(p)
    <2>1. turn' \in [Procs -> TurnRecords]
      BY <1>2, <1>t, <1>e, <1>l, <1>f, TurnMoves DEF ReadBefore, At
    <2> QED
      BY <1>2, <2>1 DEF ReadBefore, TypeOK
  <1>3. CASE WriteFile(p)
    <2>1. turn' \in [Procs -> TurnRecords]
      BY <1>3, <1>t, <1>l, TurnMoves DEF WriteFile
    <2>2. file' \in [Paths -> Images] /\ wrote' \subseteq Effects
      BY <1>3, <1>e, <1>f DEF WriteFile, At, TypeOK
    <2> QED
      BY <1>3, <2>1, <2>2 DEF WriteFile, TypeOK
  <1>4. CASE VerifyWrite(p)
    <2>1. e \in Effects
      BY <1>4, <1>e DEF VerifyWrite, At
    <2>2. Nil \in Images /\ "orphaned" \in Statuses /\ {TRUE, FALSE} \subseteq BOOLEAN
      BY DEF Images, Statuses
    <2>3. \A c \in Images : Mismatch(e, turn[p].seen, c) \in Results
      BY <1>t, <2>2, ResultTypes DEF Mismatch
    <2>4. /\ Unconfirmed(e, turn[p].seen) \in Results
          /\ Applied(e, turn[p].seen) \in Results
      BY <1>t, <1>f, <2>1, <2>2, ResultTypes DEF Unconfirmed, Applied
    <2>5. \E r \in Results : Settle(p, e, r)
      BY <1>4, <1>f, <2>1, <2>2, <2>3, <2>4 DEF VerifyWrite
    <2> QED
      BY <1>4, <1>s, <2>1, <2>5 DEF VerifyWrite, TypeOK
  <1>5. CASE ReadFile(p)
    <2>1. e \in Effects
      BY <1>5, <1>e DEF ReadFile, At
    <2>2. Nil \in Images /\ FALSE \in BOOLEAN
      BY DEF Images
    <2>3. Succeeded(Nil, file[Target[e]], FALSE) \in Results
      BY <1>f, <2>1, <2>2, ResultTypes
    <2> QED
      BY <1>5, <1>s, <2>1, <2>3 DEF ReadFile, TypeOK
  <1>6. CASE CommitResult(p)
    <2>1. turn' \in [Procs -> TurnRecords]
      BY <1>6, <1>t, <1>l, TurnMoves DEF CommitResult
    <2>2. result' \in [Effects -> Results]
      BY <1>6, <1>t DEF CommitResult, TypeOK
    <2> QED
      BY <1>6, <2>1, <2>2 DEF CommitResult, TypeOK
  <1>7. CASE ResultUncommitted(p)
    BY <1>7, FinishType DEF ResultUncommitted, TypeOK
  <1>8. CASE Cleanup(p)
    BY <1>8, FinishType DEF Cleanup, TryDeletePending, TypeOK
  <1> QED
    BY <1>1, <1>2, <1>3, <1>4, <1>5, <1>6, <1>7, <1>8 DEF ProviderStep

(* The continuations of an execution keep the types.                         *)
LEMMA TypeContinue ==
  ASSUME TypeOK, NEW p \in Procs, NEW e \in Effects, Continue(p, e)
  PROVE  TypeOK'
  <1> USE DEF world, ledger, procs, ghosts
  <1>t. /\ turn \in [Procs -> TurnRecords]
        /\ \A x \in ExecStates : [exec EXCEPT ![p][e] = x] \in [Procs -> [Effects -> ExecStates]]
        /\ {"running", "match", "stale"} \subseteq ExecStates
    BY DEF TypeOK, ExecStates
  <1>c. ASSUME NEW r \in Results, Committing(p, e, r)
        PROVE  turn' \in [Procs -> TurnRecords]
    <2>1. Turn("approve", "commit", e) \in TurnRecords
      BY TurnTypes DEF Ops, Labels
    <2>2. [Turn("approve", "commit", e) EXCEPT !.out = r] \in TurnRecords
      BY <2>1 DEF TurnRecords
    <2> QED
      BY <1>c, <1>t, <2>2, TurnMoves DEF Committing
  <1>r. \A s \in {"cancelled", "timed_out", "failed"} : Clean(s) \in Results
    BY ResultTypes DEF Statuses
  <1>1. CASE Observe(p, e)
    <2>1. exec' \in [Procs -> [Effects -> ExecStates]]
      BY <1>1, <1>t DEF Observe
    <2> QED
      BY <1>1, <2>1 DEF Observe, TypeOK
  <1>2. CASE ObserveAbort(p, e)
    <2>1. turn' \in [Procs -> TurnRecords]
      BY <1>2, <1>c, <1>r DEF ObserveAbort
    <2> QED
      BY <1>2, <1>t, <2>1 DEF ObserveAbort, Running, TypeOK
  <1>3. CASE WorkspaceStale(p, e)
    <2>1. turn' \in [Procs -> TurnRecords]
      BY <1>3, <1>c, <1>r DEF WorkspaceStale
    <2> QED
      BY <1>3, <1>t, <2>1 DEF WorkspaceStale, Running, TypeOK
  <1>4. CASE StartProvider(p, e)
    <2>1. FirstStatement(e) \in Labels
      BY EffectAssumption DEF FirstStatement, Kinds, Labels
    <2>2. turn' \in [Procs -> TurnRecords]
      BY <1>4, <1>t, <2>1, TurnTypes, TurnMoves DEF StartProvider, Ops
    <2>3. runs' \in [Effects -> Nat]
      BY <1>4 DEF StartProvider, TypeOK
    <2> QED
      BY <1>4, <1>t, <2>2, <2>3 DEF StartProvider, Running, TypeOK
  <1> QED
    BY <1>1, <1>2, <1>3, <1>4 DEF Continue

(* The calls of users keep the types.                                        *)
LEMMA TypeCall ==
  ASSUME TypeOK, NEW p \in Procs, NEW e \in Effects, Call(p, e)
  PROVE  TypeOK'
  <1> USE DEF world, ledger, procs, ghosts
  <1>t. turn \in [Procs -> TurnRecords]
    BY DEF TypeOK
  <1>l. /\ Turn("request", "store", e) \in TurnRecords
        /\ Turn("approve", "recover", e) \in TurnRecords
        /\ Turn("cancel", "issue", e) \in TurnRecords
        /\ Turn("cancel", "revoke", e) \in TurnRecords
    BY TurnTypes DEF Ops, Labels
  <1>1. CASE RegisterEffectRequest(p, e)
    <2>1. turn' \in [Procs -> TurnRecords]
      BY <1>1, <1>t, <1>l, TurnMoves DEF RegisterEffectRequest
    <2>2. revision' \in [Effects -> [Paths -> Images]] /\ requested' \subseteq Effects
      BY <1>1 DEF RegisterEffectRequest, TypeOK
    <2> QED
      BY <1>1, <2>1, <2>2 DEF RegisterEffectRequest, TypeOK
  <1>2. CASE ApproveFilesystemEffect(p, e)
    <2>1. turn' \in [Procs -> TurnRecords]
      BY <1>2, <1>t, <1>l, TurnMoves DEF ApproveFilesystemEffect
    <2> QED
      BY <1>2, <2>1 DEF ApproveFilesystemEffect, TypeOK
  <1>3. CASE CancelFilesystemWrite(p, e)
    <2>1. turn' \in [Procs -> TurnRecords]
      BY <1>3, <1>t, <1>l, TurnMoves DEF CancelFilesystemWrite
    <2>2. pending' \subseteq Effects
      BY <1>3 DEF CancelFilesystemWrite, TryDeletePending, TypeOK
    <2> QED
      BY <1>3, <2>1, <2>2 DEF CancelFilesystemWrite, TypeOK
  <1> QED
    BY <1>1, <1>2, <1>3 DEF Call

(* Boot and crash keep the types.                                            *)
LEMMA TypeLife ==
  ASSUME TypeOK, NEW p \in Procs, Boot(p) \/ Crash(p)
  PROVE  TypeOK'
  <1> USE DEF world, ledger, procs, ghosts
  <1>t. turn \in [Procs -> TurnRecords]
    BY DEF TypeOK
  <1>1. CASE Boot(p)
    <2>1. RowsOf("expireGrants") \subseteq Effects
      BY DEF RowsOf, TypeOK
    <2>2. Turn("expireGrants", "scan", NoEffect) \in TurnRecords
      BY TurnTypes DEF Ops, BootPhases, Labels
    <2>3. [Turn("expireGrants", "scan", NoEffect) EXCEPT !.todo = RowsOf("expireGrants")]
            \in TurnRecords
      BY <2>1, <2>2 DEF TurnRecords
    <2>4. turn' \in [Procs -> TurnRecords]
      BY <1>1, <1>t, <2>3, TurnMoves DEF Boot, StartPhase
    <2>5. proc' \in [Procs -> {"unborn", "boot", "up", "dead"}]
      BY <1>1 DEF Boot, TypeOK
    <2> QED
      BY <1>1, <2>4, <2>5 DEF Boot, TypeOK
  <1>2. CASE Crash(p)
    <2>1. turn' \in [Procs -> TurnRecords]
      <3>1. Idle \in TurnRecords
        BY TurnTypes DEF Idle, Ops, Labels
      <3> QED
        BY <1>2, <1>t, <3>1, TurnMoves DEF Crash
    <2>2. exec' \in [Procs -> [Effects -> ExecStates]]
      BY <1>2 DEF Crash, TypeOK, ExecStates
    <2>3. proc' \in [Procs -> {"unborn", "boot", "up", "dead"}]
      BY <1>2 DEF Crash, TypeOK
    <2> QED
      BY <1>2, <2>1, <2>2, <2>3 DEF Crash, TypeOK
  <1> QED
    BY <1>1, <1>2

(* Every step keeps the types.                                               *)
LEMMA TypeNext ==
  ASSUME TypeOK, ProcessInv, [Next]_vars
  PROVE  TypeOK'
  <1> USE DEF world, ledger, procs, ghosts
  <1>1. CASE Tick
    BY <1>1 DEF Tick, TypeOK
  <1>2. ASSUME NEW f \in Paths, NEW c \in Edits, ForeignEdit(f, c)
        PROVE  TypeOK'
    BY <1>2, SetsAssumption DEF ForeignEdit, TypeOK
  <1>3. ASSUME NEW e \in Effects, InvalidateEffect(e)
        PROVE  TypeOK'
    BY <1>3 DEF InvalidateEffect, TypeOK
  <1>4. CASE UNCHANGED vars
    BY <1>4 DEF vars, TypeOK
  <1> QED
    BY <1>1, <1>2, <1>3, <1>4, TypeBoot, TypeRecover, TypeHandler, TypeProvider,
       TypeContinue, TypeCall, TypeLife DEF Next, Step

-------------------------------------------------------------------------------
(* Processes.  A step of p leaves every other process alone.               *)

Others(p) == \A q \in Procs \ {p} :
               proc'[q] = proc[q] /\ turn'[q] = turn[q] /\ exec'[q] = exec[q]

(* Where a handler is after it moved on or finished.                       *)
LEMMA GotoFacts ==
  ASSUME turn \in [Procs -> TurnRecords], NEW p \in Procs, NEW at, Goto(p, at)
  PROVE  /\ turn'[p] = [turn[p] EXCEPT !.at = at]
         /\ \A q \in Procs \ {p} : turn'[q] = turn[q]
         /\ turn'[p].at = at /\ turn'[p].op = turn[p].op /\ turn'[p].e = turn[p].e
         /\ turn'[p].todo = turn[p].todo /\ turn'[p].out = turn[p].out
  BY DEF Goto, TurnRecords

(* Where a handler and its execution are after it finished.                  *)
LEMMA FinishFacts ==
  ASSUME TypeOK, NEW p \in Procs, Finish(p)
  PROVE  /\ \A q \in Procs \ {p} : turn'[q] = turn[q] /\ exec'[q] = exec[q]
         /\ turn[p].op \in BootPhases =>
              /\ turn'[p].at = "scan" /\ turn'[p].op = turn[p].op
              /\ turn'[p].todo = turn[p].todo /\ exec' = exec
         /\ turn[p].op \notin BootPhases => turn'[p] = Idle
         /\ turn[p].op = "approve" => exec'[p] = [exec[p] EXCEPT ![turn[p].e] = "none"]
         /\ turn[p].op # "approve" => exec' = exec
  <1>1. /\ turn \in [Procs -> TurnRecords]
        /\ exec \in [Procs -> [Effects -> ExecStates]]
    BY DEF TypeOK
  <1>2. CASE turn[p].op \in BootPhases
    <2>1. turn[p].op # "approve"
      BY <1>2 DEF BootPhases
    <2> QED
      BY <1>1, <1>2, <2>1 DEF Finish, TurnRecords
  <1>3. CASE turn[p].op \notin BootPhases
    BY <1>1, <1>3 DEF Finish
  <1> QED
    BY <1>2, <1>3

(* The fields of the idle turn.                                              *)
LEMMA IdleFacts == Idle.at = "idle" /\ Idle.op = "none" /\ Idle.todo = {}
  BY DEF Idle, Turn

(* The three ways in which a handler moves on keep ProcessOK of its        *)
(* process: it finishes, it goes to its next statement, or it is not a     *)
(* boot phase.                                                             *)
LEMMA FinishProcess ==
  ASSUME TypeOK, ProcessInv, NEW p \in Procs, Finish(p), UNCHANGED proc,
         proc[p] \in {"boot", "up"}
  PROVE  ProcessOK(p)' /\ Others(p)
  <1>1. Others(p)
    BY FinishFacts DEF Others
  <1>p. ProcessOK(p)
    BY DEF ProcessInv
  <1>2. CASE turn[p].op \in BootPhases
    <2>1. turn'[p].at = "scan" /\ turn'[p].op = turn[p].op /\ exec' = exec
      BY <1>2, FinishFacts
    <2>2. /\ "scan" \notin {"unborn", "dead", "idle"} \cup Provider \cup Recovering
          /\ "scan" \in BootLabels
      BY DEF Provider, Started, Recovering, BootLabels
    <2>3. proc'[p] \notin {"unborn", "dead"}
      OBVIOUS
    <2> QED
      BY <1>1, <1>2, <1>p, <2>1, <2>2, <2>3 DEF ProcessOK
  <1>3. CASE turn[p].op \notin BootPhases
    <2>1. proc[p] = "up"
      BY <1>3, <1>p DEF ProcessOK
    <2>2. turn'[p].at = "idle"
      BY <1>3, FinishFacts, IdleFacts
    <2>5. turn'[p].op \notin BootPhases
      BY <1>3, FinishFacts, IdleFacts DEF BootPhases
    <2>3. "idle" \notin Provider \cup Recovering
      BY DEF Provider, Started, Recovering
    <2>4. proc'[p] = "up"
      BY <2>1
    <2> QED
      BY <1>1, <2>2, <2>3, <2>4, <2>5 DEF ProcessOK
  <1> QED
    BY <1>2, <1>3

(* A handler that moves to a statement its process may run.                  *)
LEMMA MoveProcess ==
  ASSUME ProcessInv, NEW p \in Procs, NEW at, at \notin {"scan", "idle"},
         turn'[p].at = at, turn'[p].op = turn[p].op, turn'[p].e \in Effects,
         UNCHANGED <<proc, exec>>, proc[p] \in {"boot", "up"},
         at \in Provider => turn[p].at \in Provider /\ turn'[p].e = turn[p].e,
         at \in Recovering => proc[p] = "boot" \/ turn[p].at \in Recovering,
         proc[p] = "boot" => at \in BootLabels
  PROVE  ProcessOK(p)'
  <1>1. ProcessOK(p) /\ proc'[p] = proc[p] /\ proc[p] \notin {"unborn", "dead"} /\ exec' = exec
    BY DEF ProcessInv
  <1>2. /\ proc[p] = "boot" => turn[p].op \in BootPhases
        /\ proc[p] = "up" => turn[p].op \notin BootPhases
    BY <1>1 DEF ProcessOK
  <1>3. proc[p] # "up" => \A e \in Effects : exec[p][e] = "none"
    BY <1>1 DEF ProcessOK
  <1>4. proc[p] = "up" /\ at \in Recovering => turn[p].op = "approve"
    BY <1>1 DEF ProcessOK
  <1>5. at \in Provider => turn[p].op = "approve" /\ exec[p][turn[p].e] = "running"
    BY <1>1 DEF ProcessOK
  <1> QED
    BY <1>1, <1>2, <1>3, <1>4, <1>5 DEF ProcessOK

(* The same for a handler that only goes to its next statement.              *)
LEMMA GotoProcess ==
  ASSUME TypeOK, ProcessInv, NEW p \in Procs, NEW at, at \notin {"scan", "idle"},
         Goto(p, at), UNCHANGED <<proc, exec>>, proc[p] \in {"boot", "up"},
         turn[p].at # "idle" /\ turn[p].at # "scan",
         at \in Provider => turn[p].at \in Provider,
         at \in Recovering => turn[p].at \in Recovering,
         proc[p] = "boot" => at \in BootLabels
  PROVE  ProcessOK(p)' /\ Others(p)
  <1>1. turn \in [Procs -> TurnRecords]
    BY DEF TypeOK
  <1>2. Others(p)
    BY <1>1, GotoFacts DEF Others
  <1>3. turn'[p].at = at /\ turn'[p].op = turn[p].op /\ turn'[p].e = turn[p].e
    BY <1>1, GotoFacts
  <1>4. turn[p].e \in Effects
    BY DEF ProcessInv, ProcessOK
  <1> QED
    BY <1>2, <1>3, <1>4, MoveProcess

(* ProcessInv follows from the process that moved.                           *)
LEMMA OthersProcess ==
  ASSUME ProcessInv, NEW p \in Procs, ProcessOK(p)', Others(p)
  PROVE  ProcessInv'
  <1> SUFFICES ASSUME NEW q \in Procs \ {p} PROVE ProcessOK(q)'
    BY DEF ProcessInv
  <1>1. proc'[q] = proc[q] /\ turn'[q] = turn[q] /\ exec'[q] = exec[q]
    BY DEF Others
  <1> QED
    BY <1>1 DEF ProcessInv, ProcessOK

(* A boot phase keeps its process in order and leaves the others alone.      *)
LEMMA ProcessBoot ==
  ASSUME TypeOK, ProcessInv, NEW p \in Procs, BootStep(p)
  PROVE  ProcessOK(p)' /\ Others(p)
  <1> USE DEF world, ledger, procs, ghosts
  <1>t. /\ turn \in [Procs -> TurnRecords]
        /\ proc \in [Procs -> {"unborn", "boot", "up", "dead"}]
        /\ exec \in [Procs -> [Effects -> ExecStates]]
    BY DEF TypeOK
  <1>p. ProcessOK(p)
    BY DEF ProcessInv
  <1>l. /\ "scan" \notin {"unborn", "dead", "idle"} \cup Provider \cup Recovering
        /\ "scan" \in BootLabels
        /\ "idle" \notin Provider \cup Recovering
        /\ "recover" \notin Provider \cup {"scan", "idle"} /\ "recover" \in BootLabels
        /\ "receiptPut" \notin Provider \cup Recovering \cup {"scan", "idle"}
        /\ "receiptPut" \in BootLabels
    BY DEF Provider, Started, Recovering, BootLabels
  <1>1. CASE BootNextPhase(p)
    <2>1. Others(p)
      BY <1>1, <1>t DEF BootNextPhase, StartPhase, Others
    <2>2. CASE turn[p].op = "receipts"
      <3>1. proc'[p] = "up" /\ turn'[p] = Idle
        BY <1>1, <1>t, <2>2 DEF BootNextPhase
      <3>2. turn'[p].at = "idle" /\ turn'[p].op \notin BootPhases
        BY <3>1, IdleFacts DEF BootPhases
      <3> QED
        BY <1>l, <2>1, <3>1, <3>2 DEF ProcessOK
    <2>3. CASE turn[p].op # "receipts"
      <3>1. /\ turn'[p] = [Turn(NextPhase(turn[p].op), "scan", NoEffect) EXCEPT
                             !.todo = RowsOf(NextPhase(turn[p].op))]
            /\ proc' = proc /\ exec' = exec
        BY <1>1, <1>t, <2>3 DEF BootNextPhase, StartPhase
      <3>2. turn'[p].at = "scan" /\ turn'[p].op \in BootPhases
        BY <3>1 DEF Turn, NextPhase, BootPhases
      <3>3. proc[p] = "boot"
        BY <1>1, <1>p DEF BootNextPhase, At, ProcessOK
      <3> QED
        BY <1>p, <1>l, <2>1, <3>1, <3>2, <3>3 DEF ProcessOK
    <2> QED
      BY <2>2, <2>3
  <1>2. ASSUME NEW e \in Effects, NEW phase, Row(p, phase, e), Drop(p, e),
               UNCHANGED <<proc, exec>>
        PROVE  ProcessOK(p)' /\ Others(p)
    <2>1. /\ turn'[p].at = "scan" /\ turn'[p].op = turn[p].op
          /\ \A q \in Procs \ {p} : turn'[q] = turn[q]
      BY <1>2, <1>t DEF Row, At, Drop, TurnRecords
    <2>2. proc[p] = "boot"
      BY <1>2, <1>p DEF Row, At, ProcessOK
    <2>3. Others(p)
      BY <1>2, <2>1 DEF Others
    <2> QED
      BY <1>2, <1>p, <1>l, <2>1, <2>2, <2>3 DEF ProcessOK
  <1>3. ASSUME NEW e \in Effects, BootExpireGrant(p, e)
        PROVE  ProcessOK(p)' /\ Others(p)
    BY <1>2, <1>3 DEF BootExpireGrant
  <1>4. ASSUME NEW e \in Effects, BootCleanPending(p, e)
        PROVE  ProcessOK(p)' /\ Others(p)
    BY <1>2, <1>4 DEF BootCleanPending
  <1>5. ASSUME NEW e \in Effects, BootRecoverClaim(p, e)
        PROVE  ProcessOK(p)' /\ Others(p)
    <2>1. /\ turn'[p].at = "recover" /\ turn'[p].op = turn[p].op /\ turn'[p].e = e
          /\ \A q \in Procs \ {p} : turn'[q] = turn[q]
      BY <1>5, <1>t DEF BootRecoverClaim, TurnRecords
    <2>2. /\ proc[p] \in {"boot", "up"} /\ UNCHANGED <<proc, exec>>
          /\ turn[p].at = "scan" /\ turn[p].op = "recoverClaims"
      BY <1>5 DEF BootRecoverClaim, Row, At
    <2>3. Others(p)
      BY <2>1, <2>2 DEF Others
    <2>4. proc[p] = "boot"
      BY <1>p, <2>2 DEF ProcessOK, BootPhases
    <2> QED
      BY <1>l, <2>1, <2>2, <2>3, <2>4, MoveProcess
  <1>6. ASSUME NEW e \in Effects, BootObserveRollback(p, e)
        PROVE  ProcessOK(p)' /\ Others(p)
    <2>1. /\ turn'[p].at = "receiptPut" /\ turn'[p].op = turn[p].op /\ turn'[p].e = e
          /\ \A q \in Procs \ {p} : turn'[q] = turn[q]
      BY <1>6, <1>t DEF BootObserveRollback, TurnRecords
    <2>2. proc[p] \in {"boot", "up"} /\ UNCHANGED <<proc, exec>>
      BY <1>6 DEF BootObserveRollback, Row, At
    <2>3. Others(p)
      BY <2>1, <2>2 DEF Others
    <2> QED
      BY <1>l, <2>1, <2>2, <2>3, MoveProcess
  <1>7. CASE RecordRollbackReceipt(p)
    BY <1>7, FinishProcess DEF RecordRollbackReceipt, At
  <1> QED
    BY <1>1, <1>3, <1>4, <1>5, <1>6, <1>7 DEF BootStep

(* So does restart recovery.                                                 *)
LEMMA ProcessRecover ==
  ASSUME TypeOK, ProcessInv, NEW p \in Procs, RecoverStep(p)
  PROVE  ProcessOK(p)' /\ Others(p)
  <1> USE DEF world, ledger, procs, ghosts
  <1>t. /\ turn \in [Procs -> TurnRecords]
        /\ proc \in [Procs -> {"unborn", "boot", "up", "dead"}]
    BY DEF TypeOK
  <1>p. ProcessOK(p)
    BY DEF ProcessInv
  <1>l. /\ {"recover", "recoverPut", "recoverDel"} \subseteq
             (Recovering \cap BootLabels) \ (Provider \cup {"scan", "idle"})
        /\ "expire" \notin Provider \cup Recovering \cup {"scan", "idle"}
        /\ "idle" \notin Provider \cup Recovering
        /\ "approve" \notin BootPhases
    BY DEF Provider, Started, Recovering, BootLabels, BootPhases
  <1>1. CASE RecoverTerminal(p)
    BY <1>1, FinishProcess DEF RecoverTerminal, At
  <1>2. CASE RecoverDeadOwner(p)
    <2>1. /\ proc[p] \in {"boot", "up"} /\ turn[p].at = "recover"
          /\ Goto(p, "recoverPut") /\ UNCHANGED <<proc, exec>>
      BY <1>2 DEF RecoverDeadOwner, At
    <2> QED
      BY <1>l, <2>1, GotoProcess
  <1>3. CASE RecoverNothing(p)
    <2>1. /\ proc[p] \in {"boot", "up"} /\ turn[p].at = "recover" /\ UNCHANGED proc
          /\ \/ turn[p].op = "approve" /\ Goto(p, "expire") /\ UNCHANGED exec
             \/ Finish(p)
      BY <1>3 DEF RecoverNothing, At
    <2>2. CASE turn[p].op = "approve" /\ Goto(p, "expire") /\ UNCHANGED exec
      <3>1. proc[p] # "boot"
        BY <1>p, <1>l, <2>2 DEF ProcessOK
      <3> QED
        BY <1>l, <2>1, <2>2, <3>1, GotoProcess
    <2> QED
      BY <2>1, <2>2, FinishProcess
  <1>4. CASE RecoverRecordResult(p)
    <2>1. /\ proc[p] \in {"boot", "up"} /\ turn[p].at = "recoverPut"
          /\ Goto(p, "recoverDel") /\ UNCHANGED <<proc, exec>>
      BY <1>4 DEF RecoverRecordResult, At
    <2> QED
      BY <1>l, <2>1, GotoProcess
  <1>5. CASE RecoverConflict(p)
    <2>1. proc[p] \in {"boot", "up"} /\ turn[p].at = "recoverPut"
      BY <1>5 DEF RecoverConflict, At
    <2>2. CASE Finish(p) /\ UNCHANGED proc
      BY <2>1, <2>2, FinishProcess
    <2>3. CASE /\ turn[p].op # "approve"
               /\ proc' = [proc EXCEPT ![p] = "dead"]
               /\ turn' = [turn EXCEPT ![p] = Idle]
               /\ UNCHANGED exec
      <3>1. Others(p) /\ proc'[p] = "dead" /\ turn'[p] = Idle
        BY <1>t, <2>3 DEF Others
      <3>2. turn'[p].at = "idle"
        BY <3>1, IdleFacts
      <3>3. \A e \in Effects : exec'[p][e] = "none"
        BY <1>p, <1>l, <2>1, <2>3 DEF ProcessOK
      <3> QED
        BY <1>l, <3>1, <3>2, <3>3 DEF ProcessOK
    <2> QED
      BY <1>5, <2>2, <2>3 DEF RecoverConflict
  <1>6. CASE RecoverDeletePending(p)
    BY <1>6, FinishProcess DEF RecoverDeletePending, At
  <1> QED
    BY <1>1, <1>2, <1>3, <1>4, <1>5, <1>6 DEF RecoverStep

(* So do the statements of request, approval and cancellation.               *)
LEMMA ProcessHandler ==
  ASSUME TypeOK, ProcessInv, NEW p \in Procs, HandlerStep(p)
  PROVE  ProcessOK(p)' /\ Others(p)
  <1> USE DEF world, ledger, procs, ghosts
  <1>t. /\ turn \in [Procs -> TurnRecords]
        /\ exec \in [Procs -> [Effects -> ExecStates]]
    BY DEF TypeOK
  <1>p. ProcessOK(p)
    BY DEF ProcessInv
  <1>l. /\ {"storePut", "issue", "enter", "revoke", "consume", "cleanup"} \cap
             (Provider \cup Recovering \cup {"scan", "idle"}) = {}
        /\ {"store", "storePut", "expire", "issue", "enter", "consume", "revoke"} \cap
             BootLabels = {}
        /\ "idle" \notin Provider \cup Recovering
    BY DEF Provider, Started, Recovering, BootLabels
  <1>up. ASSUME At(p, turn[p].at), turn[p].at \notin BootLabels PROVE proc[p] = "up"
    BY <1>up, <1>p DEF At, ProcessOK
  <1>g. ASSUME proc[p] = "up", turn[p].at # "idle", turn[p].at # "scan",
               NEW at \in {"storePut", "issue", "enter", "revoke", "consume", "cleanup"},
               Goto(p, at), UNCHANGED <<proc, exec>>
        PROVE  ProcessOK(p)' /\ Others(p)
    BY <1>g, <1>l, GotoProcess
  <1>1. CASE RequestTerminal(p)
    <2>1. /\ At(p, turn[p].at) /\ turn[p].at = "store" /\ UNCHANGED proc
          /\ Finish(p) \/ (Goto(p, "storePut") /\ UNCHANGED exec)
      BY <1>1 DEF RequestTerminal, At
    <2>2. proc[p] = "up"
      BY <1>up, <1>l, <2>1
    <2> QED
      BY <1>g, <2>1, <2>2, FinishProcess
  <1>2. CASE StorePending(p)
    BY <1>2, FinishProcess DEF StorePending, At
  <1>3. CASE ApproveExpire(p)
    <2>1. /\ At(p, turn[p].at) /\ turn[p].at = "expire" /\ UNCHANGED proc
          /\ Finish(p) \/ (Goto(p, "issue") /\ UNCHANGED exec)
      BY <1>3 DEF ApproveExpire, At
    <2>2. proc[p] = "up"
      BY <1>up, <1>l, <2>1
    <2> QED
      BY <1>g, <2>1, <2>2, FinishProcess
  <1>4. CASE IssueApprovalGrant(p)
    <2>1. /\ At(p, turn[p].at) /\ turn[p].at = "issue" /\ UNCHANGED proc
          /\ \/ Finish(p)
             \/ (Goto(p, "enter") \/ Goto(p, "revoke")) /\ UNCHANGED exec
      BY <1>4 DEF IssueApprovalGrant, At
    <2>2. proc[p] = "up"
      BY <1>up, <1>l, <2>1
    <2> QED
      BY <1>g, <2>1, <2>2, FinishProcess
  <1>5. CASE EnterExecute(p)
    <2>1. /\ At(p, turn[p].at) /\ turn[p].at = "enter" /\ UNCHANGED proc
          /\ \/ Finish(p)
             \/ /\ turn' = [turn EXCEPT ![p].at = "consume", ![p].clk = now]
                /\ exec' = [exec EXCEPT ![p][turn[p].e] = "running"]
      BY <1>5 DEF EnterExecute, At
    <2>2. proc[p] = "up"
      BY <1>up, <1>l, <2>1
    <2>3. CASE /\ turn' = [turn EXCEPT ![p].at = "consume", ![p].clk = now]
               /\ exec' = [exec EXCEPT ![p][turn[p].e] = "running"]
      <3>1. /\ turn'[p].at = "consume" /\ turn'[p].op = turn[p].op
            /\ turn'[p].e = turn[p].e
            /\ \A q \in Procs \ {p} : turn'[q] = turn[q]
        BY <1>t, <2>3 DEF TurnRecords
      <3>2. Others(p)
        BY <1>t, <2>1, <2>3, <3>1 DEF Others
      <3>3. proc'[p] = "up" /\ turn[p].e \in Effects /\ turn[p].op \notin BootPhases
        BY <1>p, <2>1, <2>2 DEF ProcessOK
      <3> QED
        BY <1>l, <3>1, <3>2, <3>3 DEF ProcessOK
    <2> QED
      BY <2>1, <2>2, <2>3, FinishProcess
  <1>6. CASE ConsumeApprovalGrant(p)
    <2>1. /\ At(p, turn[p].at) /\ turn[p].at = "consume" /\ UNCHANGED proc
          /\ \/ Finish(p)
             \/ /\ turn' = [turn EXCEPT ![p] = Idle]
                /\ exec' = [exec EXCEPT ![p][turn[p].e] = "observing"]
      BY <1>6 DEF ConsumeApprovalGrant, At
    <2>2. proc[p] = "up"
      BY <1>up, <1>l, <2>1
    <2>3. CASE /\ turn' = [turn EXCEPT ![p] = Idle]
               /\ exec' = [exec EXCEPT ![p][turn[p].e] = "observing"]
      <3>1. Others(p) /\ turn'[p] = Idle
        BY <1>t, <2>1, <2>3 DEF Others
      <3>2. turn'[p].at = "idle" /\ turn'[p].op \notin BootPhases
        BY <3>1, IdleFacts DEF BootPhases
      <3>3. proc'[p] = "up"
        BY <2>1, <2>2
      <3> QED
        BY <1>l, <3>1, <3>2, <3>3 DEF ProcessOK
    <2> QED
      BY <2>1, <2>2, <2>3, FinishProcess
  <1>7. CASE CancelRevoke(p)
    <2>1. /\ At(p, turn[p].at) /\ turn[p].at = "revoke" /\ UNCHANGED proc
          /\ Finish(p) \/ (Goto(p, "cleanup") /\ UNCHANGED exec)
      BY <1>7 DEF CancelRevoke, At
    <2>2. proc[p] = "up"
      BY <1>up, <1>l, <2>1
    <2> QED
      BY <1>g, <2>1, <2>2, FinishProcess
  <1> QED
    BY <1>1, <1>2, <1>3, <1>4, <1>5, <1>6, <1>7 DEF HandlerStep

(* So do the provider and the commit of its outcome.                         *)
LEMMA ProcessProvider ==
  ASSUME TypeOK, ProcessInv, NEW p \in Procs, ProviderStep(p)
  PROVE  ProcessOK(p)' /\ Others(p)
  <1> USE DEF world, ledger, procs, ghosts
  <1>t. turn \in [Procs -> TurnRecords]
    BY DEF TypeOK
  <1>p. ProcessOK(p)
    BY DEF ProcessInv
  <1>l. /\ Provider \cap (BootLabels \cup Recovering \cup {"scan", "idle"}) = {}
        /\ {"before", "read", "write", "verify", "commit"} \subseteq Provider
        /\ "cleanup" \notin Provider \cup Recovering \cup {"scan", "idle"}
    BY DEF Provider, Started, Recovering, BootLabels
  <1>up. ASSUME At(p, turn[p].at), turn[p].at \in Provider PROVE proc[p] = "up"
    BY <1>up, <1>p, <1>l DEF At, ProcessOK
  <1>m. ASSUME turn[p].at \in Provider, At(p, turn[p].at), NEW at \in Provider,
               UNCHANGED <<proc, exec>>,
               turn'[p].at = at /\ turn'[p].op = turn[p].op /\ turn'[p].e = turn[p].e,
               \A q \in Procs \ {p} : turn'[q] = turn[q]
        PROVE  ProcessOK(p)' /\ Others(p)
    <2>1. Others(p)
      BY <1>m DEF Others
    <2>2. proc[p] = "up" /\ turn[p].e \in Effects
      BY <1>m, <1>up, <1>p, <1>l DEF ProcessOK
    <2> QED
      BY <1>m, <1>l, <2>1, <2>2, MoveProcess
  <1>s. ASSUME turn[p].at \in Provider, At(p, turn[p].at), UNCHANGED <<proc, exec>>,
               NEW e, NEW r, Settle(p, e, r)
        PROVE  ProcessOK(p)' /\ Others(p)
    <2>1. PICK out : turn' = [turn EXCEPT ![p].at = "commit", ![p].out = out]
      BY <1>s DEF Settle
    <2>2. /\ turn'[p].at = "commit" /\ turn'[p].op = turn[p].op /\ turn'[p].e = turn[p].e
          /\ \A q \in Procs \ {p} : turn'[q] = turn[q]
      BY <1>t, <2>1 DEF TurnRecords
    <2> QED
      BY <1>s, <1>m, <1>l, <2>2
  <1>1. CASE PreEffectFailure(p)
    <2>1. /\ turn[p].at \in Provider /\ At(p, turn[p].at) /\ UNCHANGED <<proc, exec>>
          /\ \E s \in {"failed", "cancelled"} : Settle(p, turn[p].e, Clean(s))
      BY <1>1, <1>l DEF PreEffectFailure, At
    <2> QED
      BY <1>s, <2>1
  <1>2. CASE ReadBefore(p)
    <2>1. /\ turn[p].at \in Provider /\ At(p, turn[p].at) /\ UNCHANGED <<proc, exec>>
          /\ turn' = [turn EXCEPT ![p].at = "write", ![p].seen = file[Target[turn[p].e]]]
      BY <1>2, <1>l DEF ReadBefore, At
    <2>2. /\ turn'[p].at = "write" /\ turn'[p].op = turn[p].op /\ turn'[p].e = turn[p].e
          /\ \A q \in Procs \ {p} : turn'[q] = turn[q]
      BY <1>t, <2>1 DEF TurnRecords
    <2> QED
      BY <1>m, <1>l, <2>1, <2>2
  <1>3. CASE WriteFile(p)
    <2>1. /\ turn[p].at \in Provider /\ At(p, turn[p].at) /\ UNCHANGED <<proc, exec>>
          /\ Goto(p, "verify")
      BY <1>3, <1>l DEF WriteFile, At
    <2> QED
      BY <1>m, <1>l, <1>t, <2>1, GotoFacts
  <1>4. CASE VerifyWrite(p)
    <2>1. /\ turn[p].at \in Provider /\ At(p, turn[p].at) /\ UNCHANGED <<proc, exec>>
          /\ \E r : Settle(p, turn[p].e, r)
      BY <1>4, <1>l DEF VerifyWrite, At
    <2> QED
      BY <1>s, <2>1
  <1>5. CASE ReadFile(p)
    <2>1. /\ turn[p].at \in Provider /\ At(p, turn[p].at) /\ UNCHANGED <<proc, exec>>
          /\ \E r : Settle(p, turn[p].e, r)
      BY <1>5, <1>l DEF ReadFile, At
    <2> QED
      BY <1>s, <2>1
  <1>6. CASE CommitResult(p)
    <2>1. /\ turn[p].at = "commit" /\ At(p, turn[p].at) /\ UNCHANGED <<proc, exec>>
          /\ Goto(p, "cleanup")
      BY <1>6 DEF CommitResult, At
    <2>2. proc[p] = "up"
      BY <1>up, <1>l, <2>1
    <2> QED
      BY <1>l, <2>1, <2>2, GotoProcess
  <1>7. CASE ResultUncommitted(p)
    BY <1>7, FinishProcess DEF ResultUncommitted, At
  <1>8. CASE Cleanup(p)
    BY <1>8, FinishProcess DEF Cleanup, At
  <1> QED
    BY <1>1, <1>2, <1>3, <1>4, <1>5, <1>6, <1>7, <1>8 DEF ProviderStep

(* A process that is up with an idle handler starts one, or goes on with   *)
(* an execution.                                                           *)
LEMMA ProcessFree ==
  ASSUME TypeOK, ProcessInv, NEW p \in Procs, NEW e \in Effects,
         Continue(p, e) \/ Call(p, e)
  PROVE  ProcessOK(p)' /\ Others(p)
  <1> USE DEF world, ledger, procs, ghosts
  <1>t. /\ turn \in [Procs -> TurnRecords]
        /\ exec \in [Procs -> [Effects -> ExecStates]]
    BY DEF TypeOK
  <1>p. ProcessOK(p)
    BY DEF ProcessInv
  <1>l. /\ Provider \cap (Recovering \cup {"scan", "idle"}) = {}
        /\ {"store", "issue", "revoke", "idle"} \cap (Provider \cup Recovering) = {}
        /\ "recover" \notin Provider
        /\ {"request", "approve", "cancel", "none"} \cap BootPhases = {}
    BY DEF Provider, Started, Recovering, BootPhases
  <1>f. \A op, at : /\ Turn(op, at, e).op = op /\ Turn(op, at, e).at = at
                    /\ Turn(op, at, e).e = e
    BY DEF Turn
  <1>a. ASSUME proc[p] = "up", NEW r, turn' = [turn EXCEPT ![p] = r],
               r.op = "approve", r.e = e, r.at \in Provider, Running(p, e), UNCHANGED proc
        PROVE  ProcessOK(p)' /\ Others(p)
    <2>1. Others(p) /\ turn'[p] = r
      BY <1>a, <1>t DEF Others, Running
    <2>2. exec'[p][e] = "running" /\ proc'[p] = "up"
      BY <1>a, <1>t DEF Running
    <2> QED
      BY <1>a, <1>l, <2>1, <2>2 DEF ProcessOK
  <1>b. ASSUME proc[p] = "up", NEW r, turn' = [turn EXCEPT ![p] = r],
               UNCHANGED <<proc, exec>>, r.e = e, r.op \notin BootPhases,
               r.at \in {"store", "issue", "revoke"} \/ (r.at = "recover" /\ r.op = "approve")
        PROVE  ProcessOK(p)' /\ Others(p)
    <2>1. Others(p) /\ turn'[p] = r /\ proc'[p] = "up"
      BY <1>b, <1>t DEF Others
    <2> QED
      BY <1>b, <1>l, <2>1 DEF ProcessOK
  <1>1. CASE Observe(p, e)
    <2>1. proc[p] = "up" /\ turn[p].at = "idle" /\ UNCHANGED <<proc, turn>>
      BY <1>1 DEF Observe, Free
    <2>2. Others(p)
      BY <1>1, <1>t DEF Observe, Others
    <2> QED
      BY <1>p, <1>l, <2>1, <2>2 DEF ProcessOK
  <1>c. ASSUME NEW r, Free(p), Committing(p, e, r), Running(p, e), UNCHANGED proc
        PROVE  ProcessOK(p)' /\ Others(p)
    <2> DEFINE t == [Turn("approve", "commit", e) EXCEPT !.out = r]
    <2>1. t.op = "approve" /\ t.e = e /\ t.at = "commit"
      BY DEF Turn
    <2>2. "commit" \in Provider
      BY DEF Provider
    <2>3. proc[p] = "up" /\ turn' = [turn EXCEPT ![p] = t]
      BY <1>c DEF Free, Committing
    <2> HIDE DEF t
    <2> QED
      BY <1>a, <1>c, <2>1, <2>2, <2>3
  <1>2. CASE ObserveAbort(p, e) \/ WorkspaceStale(p, e)
    BY <1>2, <1>c DEF ObserveAbort, WorkspaceStale
  <1>3. CASE StartProvider(p, e)
    <2>1. FirstStatement(e) \in Provider
      BY EffectAssumption DEF FirstStatement, Kinds, Provider, Started
    <2> DEFINE t == Turn("approve", FirstStatement(e), e)
    <2>2. /\ proc[p] = "up" /\ Running(p, e) /\ UNCHANGED proc
          /\ turn' = [turn EXCEPT ![p] = t]
      BY <1>3 DEF StartProvider, Free
    <2>3. t.op = "approve" /\ t.e = e /\ t.at \in Provider
      BY <1>f, <2>1
    <2> HIDE DEF t
    <2> QED
      BY <1>a, <2>2, <2>3
  <1>4. CASE RegisterEffectRequest(p, e)
    <2> DEFINE t == Turn("request", "store", e)
    <2>1. proc[p] = "up" /\ UNCHANGED <<proc, exec>> /\ turn' = [turn EXCEPT ![p] = t]
      BY <1>4 DEF RegisterEffectRequest, Free
    <2>2. t.op = "request" /\ t.at = "store" /\ t.e = e
      BY <1>f
    <2> HIDE DEF t
    <2> QED
      BY <1>b, <1>l, <2>1, <2>2
  <1>5. CASE ApproveFilesystemEffect(p, e)
    <2> DEFINE t == Turn("approve", "recover", e)
    <2>1. proc[p] = "up" /\ UNCHANGED <<proc, exec>> /\ turn' = [turn EXCEPT ![p] = t]
      BY <1>5 DEF ApproveFilesystemEffect, Approachable, Free
    <2>2. t.op = "approve" /\ t.at = "recover" /\ t.e = e
      BY <1>f
    <2> HIDE DEF t
    <2> QED
      BY <1>b, <1>l, <2>1, <2>2
  <1>6. CASE CancelFilesystemWrite(p, e)
    <2> DEFINE t == Turn("cancel", IF grant[e] = "none" THEN "issue" ELSE "revoke", e)
    <2>1. /\ proc[p] = "up" /\ turn[p].at = "idle" /\ UNCHANGED <<proc, exec>>
          /\ UNCHANGED turn \/ turn' = [turn EXCEPT ![p] = t]
      BY <1>6 DEF CancelFilesystemWrite, Free
    <2>2. t.op = "cancel" /\ t.at \in {"issue", "revoke"} /\ t.e = e
      BY <1>f
    <2> HIDE DEF t
    <2>3. CASE UNCHANGED turn
      <3>1. Others(p)
        BY <2>1, <2>3 DEF Others
      <3> QED
        BY <1>p, <1>l, <2>1, <2>3, <3>1 DEF ProcessOK
    <2> QED
      BY <1>b, <1>l, <2>1, <2>2, <2>3
  <1> QED
    BY <1>1, <1>2, <1>3, <1>4, <1>5, <1>6 DEF Continue, Call

(* So do boot and crash.                                                     *)
LEMMA ProcessLife ==
  ASSUME TypeOK, ProcessInv, NEW p \in Procs, Boot(p) \/ Crash(p)
  PROVE  ProcessOK(p)' /\ Others(p)
  <1> USE DEF world, ledger, procs, ghosts
  <1>t. /\ turn \in [Procs -> TurnRecords]
        /\ proc \in [Procs -> {"unborn", "boot", "up", "dead"}]
        /\ exec \in [Procs -> [Effects -> ExecStates]]
    BY DEF TypeOK
  <1>p. ProcessOK(p)
    BY DEF ProcessInv
  <1>l. /\ "scan" \notin Provider \cup Recovering /\ "scan" \in BootLabels
        /\ "idle" \notin Provider \cup Recovering
        /\ "expireGrants" \in BootPhases
    BY DEF Provider, Started, Recovering, BootLabels, BootPhases
  <1>1. CASE Boot(p)
    <2>1. /\ Others(p) /\ proc[p] = "unborn" /\ proc'[p] = "boot" /\ exec' = exec
          /\ turn'[p] = [Turn("expireGrants", "scan", NoEffect) EXCEPT
                           !.todo = RowsOf("expireGrants")]
      BY <1>1, <1>t DEF Boot, StartPhase, Others
    <2>2. turn'[p].at = "scan" /\ turn'[p].op = "expireGrants"
      BY <2>1 DEF Turn
    <2> QED
      BY <1>p, <1>l, <2>1, <2>2 DEF ProcessOK
  <1>2. CASE Crash(p)
    <2>1. /\ Others(p) /\ proc'[p] = "dead" /\ turn'[p] = Idle
          /\ \A e \in Effects : exec'[p][e] = "none"
      BY <1>2, <1>t DEF Crash, Others
    <2>2. turn'[p].at = "idle"
      BY <2>1, IdleFacts
    <2> QED
      BY <1>l, <2>1, <2>2 DEF ProcessOK
  <1> QED
    BY <1>1, <1>2

(* Every step keeps every process in order.                                  *)
LEMMA ProcessNext ==
  ASSUME TypeOK, ProcessInv, [Next]_vars
  PROVE  ProcessInv'
  <1> USE DEF world, ledger, procs, ghosts
  <1>1. ASSUME UNCHANGED procs PROVE ProcessInv'
    BY <1>1 DEF ProcessInv, ProcessOK
  <1>2. CASE Tick \/ UNCHANGED vars
    BY <1>1, <1>2 DEF Tick, vars
  <1>3. ASSUME NEW f \in Paths, NEW c \in Edits, ForeignEdit(f, c)
        PROVE  ProcessInv'
    BY <1>1, <1>3 DEF ForeignEdit
  <1>4. ASSUME NEW e \in Effects, InvalidateEffect(e)
        PROVE  ProcessInv'
    BY <1>1, <1>4 DEF InvalidateEffect
  <1> QED
    BY <1>2, <1>3, <1>4, ProcessBoot, ProcessRecover, ProcessHandler,
       ProcessProvider, ProcessFree, ProcessLife, OthersProcess DEF Next, Step

(* Before boot every process is in order.                                    *)
LEMMA ProcessInit == Init => ProcessInv
  <1> SUFFICES ASSUME Init, NEW p \in Procs PROVE ProcessOK(p)
    BY DEF ProcessInv
  <1>1. /\ turn[p].at = "idle" /\ proc[p] = "unborn"
        /\ \A e \in Effects : exec[p][e] = "none"
    BY IdleFacts DEF Init
  <1>2. "idle" \notin Provider \cup Recovering
    BY DEF Provider, Started, Recovering
  <1> QED
    BY <1>1, <1>2 DEF ProcessOK

(* TypeOK and ProcessInv together are inductive.                             *)
LEMMA Types == Spec => [](TypeOK /\ ProcessInv)
  <1>1. Init => TypeOK /\ ProcessInv
    BY TypeInit, ProcessInit
  <1>2. TypeOK /\ ProcessInv /\ [Next]_vars => (TypeOK /\ ProcessInv)'
    BY TypeNext, ProcessNext
  <1> QED
    BY <1>1, <1>2, PTL DEF Spec

(* Type correctness: every handler leaves the ledger, the processes and    *)
(* their locals within their types.                                        *)
THEOREM TypeCorrect == Spec => []TypeOK
  BY Types, PTL

(* A statement of a handler runs only in a process whose life allows it:   *)
(* the dead have no handler and no execution left, a booting process runs  *)
(* its phases, and a provider's statements belong to a running approval.   *)
THEOREM ProcessCorrect == Spec => []ProcessInv
  BY Types, PTL

-------------------------------------------------------------------------------
(* The steps of the ledger.                                                *)

Terminalizes(e) ==
  /\ Terminalizable(e) /\ TerminalizeGrant(e)
  /\ UNCHANGED <<grant, issued, claim, invalid>>
Revokes(e) == RevokeGrant(e) /\ UNCHANGED <<issued, claim, invalid>>
Issues(e) ==
  /\ ~Terminal(e) /\ grant[e] = "none" /\ e \notin invalid
  /\ grant' = [grant EXCEPT ![e] = "active"]
  /\ issued' = [issued EXCEPT ![e] = now]
  /\ UNCHANGED <<claim, preterm, result, invalid>>
Consumes(p, e) ==
  /\ At(p, "consume") /\ turn[p].e = e /\ Consumable(e, turn[p].clk)
  /\ grant' = [grant EXCEPT ![e] = "consumed"]
  /\ claim' = [claim EXCEPT ![e] = p]
  /\ exec' = [exec EXCEPT ![p][e] = "observing"]
  /\ turn' = [turn EXCEPT ![p] = Idle]
  /\ UNCHANGED <<issued, preterm, result, invalid>>
Records(p, e, r) ==
  /\ At(p, "recoverPut") \/ At(p, "commit")
  /\ turn[p].e = e /\ Recordable(e)
  /\ result' = [result EXCEPT ![e] = r]
  /\ Goto(p, IF turn[p].at = "commit" THEN "cleanup" ELSE "recoverDel")
  /\ UNCHANGED <<grant, issued, claim, preterm, invalid, exec>>
Invalidates(e) ==
  /\ grant[e] = "none" /\ invalid' = invalid \cup {e}
  /\ UNCHANGED <<grant, issued, claim, preterm, result>>
LedgerMove ==
  \/ UNCHANGED <<grant, issued, claim, preterm, result, invalid>>
  \/ \E e \in Effects : Terminalizes(e) \/ Revokes(e) \/ Issues(e) \/ Invalidates(e)
  \/ \E p \in Procs, e \in Effects : Consumes(p, e) \/ \E r : Records(p, e, r)

(* Every step leaves grants, claims, refusals, results and invalidations   *)
(* alone or is one of the ledger's transactions on one effect.             *)
LEMMA LedgerStep ==
  ASSUME TypeOK, ProcessInv, [Next]_vars
  PROVE  LedgerMove
  <1> USE DEF world, ledger, procs, ghosts
  <1>e. \A p \in Procs : turn[p].at # "idle" /\ turn[p].at # "scan" => turn[p].e \in Effects
    BY DEF ProcessInv, ProcessOK
  <1>u. ASSUME UNCHANGED <<grant, issued, claim, preterm, result, invalid>>
        PROVE  LedgerMove
    BY <1>u DEF LedgerMove
  <1>1. CASE Tick \/ UNCHANGED vars
    BY <1>1, <1>u DEF Tick, vars
  <1>2. ASSUME NEW f \in Paths, NEW c \in Edits, ForeignEdit(f, c)
        PROVE  LedgerMove
    BY <1>2, <1>u DEF ForeignEdit
  <1>3. ASSUME NEW e \in Effects, InvalidateEffect(e)
        PROVE  LedgerMove
    BY <1>3 DEF InvalidateEffect, Invalidates, LedgerMove
  <1>4. ASSUME NEW p \in Procs, Boot(p) \/ Crash(p)
        PROVE  LedgerMove
    BY <1>4, <1>u DEF Boot, Crash
  <1>5. ASSUME NEW p \in Procs, BootStep(p)
        PROVE  LedgerMove
    <2>1. ASSUME NEW e \in Effects, BootExpireGrant(p, e)
          PROVE  LedgerMove
      BY <2>1, <1>u DEF BootExpireGrant, Terminalizes, LedgerMove
    <2>2. CASE ~\E e \in Effects : BootExpireGrant(p, e)
      BY <1>5, <2>2, <1>u DEF BootStep, BootNextPhase, BootCleanPending,
         BootRecoverClaim, BootObserveRollback, RecordRollbackReceipt
    <2> QED
      BY <2>1, <2>2
  <1>6. ASSUME NEW p \in Procs, RecoverStep(p)
        PROVE  LedgerMove
    <2>1. CASE RecoverRecordResult(p)
      <3>1. turn[p].e \in Effects
        BY <2>1, <1>e DEF RecoverRecordResult, At
      <3>2. CASE Recordable(turn[p].e)
                 /\ result' = [result EXCEPT ![turn[p].e] = RecoveryResult(turn[p].e)]
        <4>1. Records(p, turn[p].e, RecoveryResult(turn[p].e))
          BY <2>1, <3>2 DEF RecoverRecordResult, Records, At
        <4> QED
          BY <3>1, <4>1 DEF LedgerMove
      <3> QED
        BY <2>1, <3>2, <1>u DEF RecoverRecordResult
    <2>2. CASE ~RecoverRecordResult(p)
      BY <1>6, <2>2, <1>u DEF RecoverStep, RecoverTerminal, RecoverDeadOwner,
         RecoverNothing, RecoverConflict, RecoverDeletePending
    <2> QED
      BY <2>1, <2>2
  <1>7. ASSUME NEW p \in Procs, HandlerStep(p)
        PROVE  LedgerMove
    <2>1. CASE RequestTerminal(p) \/ StorePending(p) \/ EnterExecute(p)
      BY <2>1, <1>u DEF RequestTerminal, StorePending, EnterExecute
    <2>2. CASE ApproveExpire(p)
      <3>1. turn[p].e \in Effects
        BY <2>2, <1>e DEF ApproveExpire, At
      <3>2. CASE Terminalizable(turn[p].e) /\ TerminalizeGrant(turn[p].e)
        BY <2>2, <3>1, <3>2 DEF ApproveExpire, Terminalizes, LedgerMove
      <3> QED
        BY <2>2, <3>2, <1>u DEF ApproveExpire
    <2>3. CASE IssueApprovalGrant(p)
      <3>1. turn[p].e \in Effects
        BY <2>3, <1>e DEF IssueApprovalGrant, At
      <3>2. Issues(turn[p].e) \/ UNCHANGED <<grant, issued, claim, preterm, result, invalid>>
        BY <2>3 DEF IssueApprovalGrant, Issues
      <3> QED
        BY <3>1, <3>2 DEF LedgerMove
    <2>4. CASE ConsumeApprovalGrant(p)
      <3>1. turn[p].e \in Effects
        BY <2>4, <1>e DEF ConsumeApprovalGrant, At
      <3>2. Consumes(p, turn[p].e)
              \/ UNCHANGED <<grant, issued, claim, preterm, result, invalid>>
        BY <2>4 DEF ConsumeApprovalGrant, Consumes
      <3> QED
        BY <3>1, <3>2 DEF LedgerMove
    <2>5. CASE CancelRevoke(p)
      <3>1. turn[p].e \in Effects
        BY <2>5, <1>e DEF CancelRevoke, At
      <3>2. Revokes(turn[p].e) \/ UNCHANGED <<grant, issued, claim, preterm, result, invalid>>
        BY <2>5 DEF CancelRevoke, Revokes
      <3> QED
        BY <3>1, <3>2 DEF LedgerMove
    <2> QED
      BY <1>7, <2>1, <2>2, <2>3, <2>4, <2>5 DEF HandlerStep
  <1>8. ASSUME NEW p \in Procs, ProviderStep(p)
        PROVE  LedgerMove
    <2>1. CASE CommitResult(p)
      <3>1. turn[p].e \in Effects
        BY <2>1, <1>e DEF CommitResult, At
      <3>2. Records(p, turn[p].e, turn[p].out)
        BY <2>1 DEF CommitResult, Records, At
      <3> QED
        BY <3>1, <3>2 DEF LedgerMove
    <2>2. CASE ~CommitResult(p)
      BY <1>8, <2>2, <1>u DEF ProviderStep, PreEffectFailure, ReadBefore, WriteFile,
         VerifyWrite, ReadFile, ResultUncommitted, Cleanup
    <2> QED
      BY <2>1, <2>2
  <1>9. ASSUME NEW p \in Procs, NEW e \in Effects, Continue(p, e) \/ Call(p, e)
        PROVE  LedgerMove
    BY <1>9, <1>u DEF Continue, Observe, ObserveAbort, WorkspaceStale, StartProvider,
       Call, RegisterEffectRequest, ApproveFilesystemEffect, CancelFilesystemWrite
  <1> QED
    BY <1>1, <1>2, <1>3, <1>4, <1>5, <1>6, <1>7, <1>8, <1>9 DEF Next, Step

-------------------------------------------------------------------------------
(* The ledger.                                                             *)

(* Terminal results that the ledger's own transactions write.              *)
LEMMA CancelledIsTerminal == Clean("cancelled") # NoResult
  BY DEF Clean, NoResult

(* AuthorityExclusive is inductive: each transaction's guard excludes the  *)
(* others'.                                                                *)
LEMMA AuthorityNext ==
  ASSUME TypeOK, AuthorityExclusive, LedgerMove
  PROVE  AuthorityExclusive'
  <1>t. /\ grant \in [Effects -> {"none", "active", "consumed", "revoked"}]
        /\ claim \in [Effects -> Procs \cup {NoProc}]
        /\ preterm \in [Effects -> {"none", "APPROVAL_GRANT_REVOKED",
                                    "APPROVAL_GRANT_EXPIRED"}]
        /\ result \in [Effects -> Results]
    BY DEF TypeOK
  <1>1. CASE UNCHANGED <<grant, issued, claim, preterm, result, invalid>>
    BY <1>1 DEF AuthorityExclusive, Terminal
  <1>2. ASSUME NEW e \in Effects, Terminalizes(e)
        PROVE  AuthorityExclusive'
    <2>1. /\ grant[e] \in {"active", "revoked"} /\ claim[e] = NoProc /\ ~Terminal(e)
          /\ e \notin invalid
          /\ preterm' = [preterm EXCEPT ![e] = Reason(grant[e] = "revoked")]
          /\ result' = [result EXCEPT ![e] = Clean("cancelled")]
          /\ UNCHANGED <<grant, claim, invalid>>
      BY <1>2 DEF Terminalizes, Terminalizable, TerminalizeGrant
    <2>2. /\ Reason(grant[e] = "revoked") # "none"
          /\ grant[e] = "revoked" => Reason(grant[e] = "revoked") = "APPROVAL_GRANT_REVOKED"
      BY DEF Reason
    <2> QED
      BY <1>t, <2>1, <2>2 DEF AuthorityExclusive, Terminal
  <1>3. ASSUME NEW e \in Effects, Revokes(e)
        PROVE  AuthorityExclusive'
    <2>1. /\ grant[e] = "active" /\ preterm[e] = "none"
          /\ grant' = [grant EXCEPT ![e] = "revoked"]
          /\ preterm' = [preterm EXCEPT ![e] = "APPROVAL_GRANT_REVOKED"]
          /\ result' = [result EXCEPT ![e] = Clean("cancelled")]
          /\ UNCHANGED <<claim, invalid>>
      BY <1>3 DEF Revokes, RevokeGrant, Reason
    <2> QED
      BY <1>t, <2>1 DEF AuthorityExclusive, Terminal
  <1>4. ASSUME NEW e \in Effects, Issues(e)
        PROVE  AuthorityExclusive'
    BY <1>t, <1>4, CancelledIsTerminal DEF Issues, AuthorityExclusive, Terminal
  <1>5. ASSUME NEW e \in Effects, Invalidates(e)
        PROVE  AuthorityExclusive'
    BY <1>t, <1>5 DEF Invalidates, AuthorityExclusive, Terminal
  <1>6. ASSUME NEW p \in Procs, NEW e \in Effects, Consumes(p, e)
        PROVE  AuthorityExclusive'
    <2>1. /\ grant[e] = "active" /\ preterm[e] = "none"
          /\ grant' = [grant EXCEPT ![e] = "consumed"]
          /\ claim' = [claim EXCEPT ![e] = p]
          /\ UNCHANGED <<preterm, result, invalid>>
      BY <1>6 DEF Consumes, Consumable
    <2>2. p # NoProc
      BY SetsAssumption
    <2> QED
      BY <1>t, <2>1, <2>2 DEF AuthorityExclusive, Terminal
  <1>7. ASSUME NEW p \in Procs, NEW e \in Effects, NEW r, Records(p, e, r)
        PROVE  AuthorityExclusive'
    <2>1. /\ ~Terminal(e) /\ claim[e] # NoProc
          /\ result' = [result EXCEPT ![e] = r]
          /\ UNCHANGED <<grant, claim, preterm, invalid>>
      BY <1>7 DEF Records, Recordable
    <2> QED
      BY <1>t, <2>1 DEF AuthorityExclusive, Terminal
  <1> QED
    BY <1>1, <1>2, <1>3, <1>4, <1>5, <1>6, <1>7 DEF LedgerMove

(* An empty ledger is exclusive.                                             *)
LEMMA AuthorityInit == Init => AuthorityExclusive
  <1> SUFFICES ASSUME Init, NEW e \in Effects
               PROVE  /\ claim[e] = NoProc /\ grant[e] = "none" /\ preterm[e] = "none"
                      /\ ~Terminal(e) /\ invalid = {}
    BY DEF AuthorityExclusive
  <1> QED
    BY DEF Init, Terminal

(* The types, the processes and the ledger are inductive together.           *)
LEMMA Authority == Spec => [](TypeOK /\ ProcessInv /\ AuthorityExclusive)
  <1>1. AuthorityExclusive /\ TypeOK /\ ProcessInv /\ [Next]_vars => AuthorityExclusive'
    BY AuthorityNext, LedgerStep
  <1> QED
    BY <1>1, Types, AuthorityInit, PTL DEF Spec

(* An effect is executed or refused, never both, however many processes    *)
(* approve, cancel, expire, invalidate and recover it at once.             *)
THEOREM AuthorityIsExclusive == Spec => []AuthorityExclusive
  BY Authority, PTL

(* The ledger is append-only: no later approval, recovery, cancellation or *)
(* receipt changes what an earlier transaction decided.                    *)
THEOREM LedgerIsAppendOnly == Spec => LedgerAppendOnly
  <1> DEFINE Kept(e) ==
        /\ grant[e] # "none" => issued'[e] = issued[e]
        /\ grant'[e] # grant[e] =>
             <<grant[e], grant'[e]>> \in {<<"none", "active">>,
                        <<"active", "consumed">>, <<"active", "revoked">>}
        /\ claim[e] # NoProc => claim'[e] = claim[e]
        /\ Terminal(e) => result'[e] = result[e]
        /\ receipt[e] # "none" => receipt'[e] = receipt[e]
  <1>1. ASSUME TypeOK, AuthorityExclusive, LedgerMove, NEW e \in Effects,
               receipt[e] # "none" => receipt'[e] = receipt[e]
        PROVE  Kept(e)
    <2>t. /\ grant \in [Effects -> {"none", "active", "consumed", "revoked"}]
          /\ issued \in [Effects -> Nat]
          /\ claim \in [Effects -> Procs \cup {NoProc}]
          /\ result \in [Effects -> Results]
      BY <1>1 DEF TypeOK
    <2>1. CASE UNCHANGED <<grant, issued, claim, preterm, result, invalid>>
      BY <1>1, <2>1
    <2>2. ASSUME NEW f \in Effects, Terminalizes(f) PROVE Kept(e)
      BY <1>1, <2>2, <2>t DEF Terminalizes, Terminalizable, TerminalizeGrant, Terminal
    <2>3. ASSUME NEW f \in Effects, Revokes(f) PROVE Kept(e)
      <3>1. ~Terminal(f)
        BY <2>3, <1>1 DEF Revokes, RevokeGrant, AuthorityExclusive
      <3> QED
        BY <1>1, <2>3, <2>t, <3>1 DEF Revokes, RevokeGrant, Terminal
    <2>4. ASSUME NEW f \in Effects, Issues(f) PROVE Kept(e)
      BY <1>1, <2>4, <2>t DEF Issues, Terminal
    <2>5. ASSUME NEW f \in Effects, Invalidates(f) PROVE Kept(e)
      BY <1>1, <2>5 DEF Invalidates
    <2>6. ASSUME NEW p \in Procs, NEW f \in Effects, Consumes(p, f) PROVE Kept(e)
      <3>1. /\ grant[f] = "active"
            /\ grant' = [grant EXCEPT ![f] = "consumed"]
            /\ claim' = [claim EXCEPT ![f] = p]
            /\ UNCHANGED <<issued, preterm, result, invalid>>
        BY <2>6 DEF Consumes, Consumable
      <3>2. claim[f] = NoProc
        BY <3>1, <1>1 DEF AuthorityExclusive
      <3> QED
        BY <1>1, <2>t, <3>1, <3>2 DEF Terminal
    <2>7. ASSUME NEW p \in Procs, NEW f \in Effects, NEW r, Records(p, f, r)
          PROVE  Kept(e)
      BY <1>1, <2>7, <2>t DEF Records, Recordable, Terminal
    <2> QED
      BY <1>1, <2>1, <2>2, <2>3, <2>4, <2>5, <2>6, <2>7 DEF LedgerMove
  <1>2. ASSUME TypeOK, [Next]_vars, NEW e \in Effects, receipt[e] # "none"
        PROVE  receipt'[e] = receipt[e]
    <2> USE DEF world, ledger, procs, ghosts
    <2>1. ASSUME NEW p \in Procs, RecordRollbackReceipt(p) PROVE receipt'[e] = receipt[e]
      BY <1>2, <2>1 DEF RecordRollbackReceipt, FirstReceipt, TypeOK
    <2>2. CASE ~\E p \in Procs : RecordRollbackReceipt(p)
      <3>1. ASSUME NEW p \in Procs, Boot(p) \/ Crash(p) \/ Step(p) PROVE UNCHANGED receipt
        <4>1. CASE Boot(p) \/ Crash(p)
          BY <4>1 DEF Boot, Crash
        <4>2. CASE BootStep(p)
          BY <2>2, <4>2 DEF BootStep, BootNextPhase, BootExpireGrant, BootCleanPending,
             BootRecoverClaim, BootObserveRollback
        <4>3. CASE RecoverStep(p)
          BY <4>3 DEF RecoverStep, RecoverTerminal, RecoverDeadOwner, RecoverNothing,
             RecoverRecordResult, RecoverConflict, RecoverDeletePending
        <4>4. CASE HandlerStep(p)
          BY <4>4 DEF HandlerStep, RequestTerminal, StorePending, ApproveExpire,
             IssueApprovalGrant, EnterExecute, ConsumeApprovalGrant, CancelRevoke
        <4>5. CASE ProviderStep(p)
          BY <4>5 DEF ProviderStep, PreEffectFailure, ReadBefore, WriteFile, VerifyWrite,
             ReadFile, CommitResult, ResultUncommitted, Cleanup
        <4> QED
          BY <3>1, <4>1, <4>2, <4>3, <4>4, <4>5 DEF Step
      <3>2. ASSUME NEW p \in Procs, NEW f \in Effects, Continue(p, f) \/ Call(p, f)
            PROVE  UNCHANGED receipt
        BY <3>2 DEF Continue, Observe, ObserveAbort, WorkspaceStale, StartProvider,
           Call, RegisterEffectRequest, ApproveFilesystemEffect, CancelFilesystemWrite
      <3>3. CASE Tick \/ UNCHANGED vars
        BY <3>3 DEF Tick, vars
      <3>4. ASSUME NEW f \in Paths, NEW c \in Edits, ForeignEdit(f, c)
            PROVE  UNCHANGED receipt
        BY <3>4 DEF ForeignEdit
      <3>5. ASSUME NEW f \in Effects, InvalidateEffect(f)
            PROVE  UNCHANGED receipt
        BY <3>5 DEF InvalidateEffect
      <3> QED
        BY <1>2, <3>1, <3>2, <3>3, <3>4, <3>5 DEF Next
    <2> QED
      BY <2>1, <2>2
  <1>3. TypeOK /\ ProcessInv /\ AuthorityExclusive /\ [Next]_vars
          => [\A e \in Effects : Kept(e)]_vars
    BY <1>1, <1>2, LedgerStep
  <1> QED
    BY <1>3, Authority, PTL DEF Spec, LedgerAppendOnly

-------------------------------------------------------------------------------
(* Executions.                                                             *)

Waiting == {"observing", "match", "stale"}

(* What a step may do to p's executions: p comes to write a recovery       *)
(* result only past the owner's proven death, and starts to execute an     *)
(* effect only by consuming its grant.                                     *)
Moved(p) ==
  /\ turn'[p].at = "recoverPut" =>
       \/ turn[p].at = "recoverPut" /\ turn'[p].e = turn[p].e
       \/ Recoverable(turn'[p].e)
  /\ \A e \in Effects : Executing(p, e)' => Executing(p, e) \/ Consumes(p, e)

(* A move to a statement outside the provider that starts no wait.           *)
LEMMA PlainMove ==
  ASSUME NEW p \in Procs, turn'[p].at \notin Provider \cup {"recoverPut"},
         \A e \in Effects : exec'[p][e] \in Waiting => exec[p][e] \in Waiting
  PROVE  Moved(p)
  BY DEF Moved, Executing, Provider, Started, Waiting

(* A move inside the provider, on the same effect.                           *)
LEMMA ProviderMove ==
  ASSUME NEW p \in Procs, turn[p].at \in Provider, turn'[p].at \in Provider,
         turn'[p].e = turn[p].e, UNCHANGED exec
  PROVE  Moved(p)
  BY DEF Moved, Executing, Provider, Started

(* The end of a handler starts nothing.                                      *)
LEMMA FinishMove ==
  ASSUME TypeOK, NEW p \in Procs, Finish(p)
  PROVE  Moved(p)
  <1>1. turn'[p].at \in {"scan", "idle"}
    BY FinishFacts, IdleFacts
  <1>2. turn'[p].at \notin Provider \cup {"recoverPut"}
    BY <1>1 DEF Provider, Started
  <1>3. \A e \in Effects : exec'[p][e] \in Waiting => exec[p][e] \in Waiting
    <2>1. CASE turn[p].op = "approve"
      <3>1. exec'[p] = [exec[p] EXCEPT ![turn[p].e] = "none"]
        BY <2>1, FinishFacts
      <3>2. exec[p] \in [Effects -> ExecStates]
        BY DEF TypeOK
      <3> QED
        BY <3>1, <3>2 DEF Waiting
    <2>2. CASE turn[p].op # "approve"
      BY <2>2, FinishFacts
    <2> QED
      BY <2>1, <2>2
  <1> QED
    BY <1>2, <1>3, PlainMove

(* A move to the next statement outside the provider starts nothing.         *)
LEMMA GotoMove ==
  ASSUME TypeOK, NEW p \in Procs, NEW at, at \notin Provider \cup {"recoverPut"},
         Goto(p, at), UNCHANGED exec
  PROVE  Moved(p)
  <1>1. turn'[p].at = at
    BY GotoFacts DEF TypeOK
  <1> QED
    BY <1>1, PlainMove

(* The boot phases move their process as Moved says.                         *)
LEMMA MovedBoot ==
  ASSUME TypeOK, ProcessInv, NEW p \in Procs, BootStep(p)
  PROVE  Moved(p)
  <1> USE DEF world, ledger, procs, ghosts
  <1>t. turn \in [Procs -> TurnRecords]
    BY DEF TypeOK
  <1>m. ASSUME turn'[p].at \in {"idle", "scan", "recover", "receiptPut"}, UNCHANGED exec
        PROVE  Moved(p)
    <2>1. turn'[p].at \notin Provider \cup {"recoverPut"}
      BY <1>m DEF Provider, Started
    <2> QED
      BY <1>m, <2>1, PlainMove
  <1>1. CASE BootNextPhase(p)
    <2>1. turn'[p] \in
            {Idle, [Turn(NextPhase(turn[p].op), "scan", NoEffect) EXCEPT
                      !.todo = RowsOf(NextPhase(turn[p].op))]}
      BY <1>1, <1>t DEF BootNextPhase, StartPhase
    <2>2. turn'[p].at \in {"idle", "scan"}
      BY <2>1, IdleFacts DEF Turn
    <2> QED
      BY <1>1, <1>m, <2>2 DEF BootNextPhase
  <1>2. ASSUME NEW e \in Effects, BootExpireGrant(p, e) \/ BootCleanPending(p, e)
        PROVE  Moved(p)
    <2>1. turn'[p].at = "scan" /\ UNCHANGED exec
      BY <1>2, <1>t DEF BootExpireGrant, BootCleanPending, Row, At, Drop, TurnRecords
    <2> QED
      BY <1>m, <2>1
  <1>3. ASSUME NEW e \in Effects, BootRecoverClaim(p, e) \/ BootObserveRollback(p, e)
        PROVE  Moved(p)
    <2>1. turn'[p].at \in {"recover", "receiptPut"} /\ UNCHANGED exec
      BY <1>3, <1>t DEF BootRecoverClaim, BootObserveRollback, TurnRecords
    <2> QED
      BY <1>m, <2>1
  <1>4. CASE RecordRollbackReceipt(p)
    BY <1>4, FinishMove DEF RecordRollbackReceipt
  <1> QED
    BY <1>1, <1>2, <1>3, <1>4 DEF BootStep

(* Restart recovery does, past the proof that the owner is dead.             *)
LEMMA MovedRecover ==
  ASSUME TypeOK, ProcessInv, NEW p \in Procs, RecoverStep(p)
  PROVE  Moved(p)
  <1> USE DEF world, ledger, procs, ghosts
  <1>t. turn \in [Procs -> TurnRecords]
    BY DEF TypeOK
  <1>l. {"expire", "recoverDel", "idle"} \cap (Provider \cup {"recoverPut"}) = {}
    BY DEF Provider, Started
  <1>1. CASE RecoverTerminal(p) \/ RecoverDeletePending(p)
    BY <1>1, FinishMove DEF RecoverTerminal, RecoverDeletePending
  <1>2. CASE RecoverDeadOwner(p)
    <2>1. /\ turn'[p].at = "recoverPut" /\ turn'[p].e = turn[p].e
          /\ Recoverable(turn[p].e) /\ UNCHANGED exec
      BY <1>2, <1>t, GotoFacts DEF RecoverDeadOwner
    <2>2. "recoverPut" \notin Provider
      BY DEF Provider, Started
    <2> QED
      BY <2>1, <2>2 DEF Moved, Executing, Provider, Started
  <1>3. CASE RecoverNothing(p)
    <2>1. Finish(p) \/ (Goto(p, "expire") /\ UNCHANGED exec)
      BY <1>3 DEF RecoverNothing
    <2> QED
      BY <1>l, <2>1, FinishMove, GotoMove
  <1>4. CASE RecoverRecordResult(p)
    BY <1>4, <1>l, GotoMove DEF RecoverRecordResult
  <1>5. CASE RecoverConflict(p)
    <2>1. CASE turn' = [turn EXCEPT ![p] = Idle] /\ UNCHANGED exec
      <3>1. turn'[p].at = "idle"
        BY <1>t, <2>1, IdleFacts
      <3> QED
        BY <1>l, <2>1, <3>1, PlainMove
    <2> QED
      BY <1>5, <2>1, FinishMove DEF RecoverConflict
  <1> QED
    BY <1>1, <1>2, <1>3, <1>4, <1>5 DEF RecoverStep

(* The handlers do; an execution starts with the consumption.                *)
LEMMA MovedHandler ==
  ASSUME TypeOK, ProcessInv, NEW p \in Procs, HandlerStep(p)
  PROVE  Moved(p)
  <1> USE DEF world, ledger, procs, ghosts
  <1>t. /\ turn \in [Procs -> TurnRecords]
        /\ exec \in [Procs -> [Effects -> ExecStates]]
    BY DEF TypeOK
  <1>l. {"storePut", "issue", "enter", "revoke", "consume", "cleanup", "idle"}
          \cap (Provider \cup {"recoverPut"}) = {}
    BY DEF Provider, Started
  <1>g. ASSUME UNCHANGED exec,
               NEW at \in {"storePut", "issue", "enter", "revoke", "cleanup"}, Goto(p, at)
        PROVE  Moved(p)
    BY <1>g, <1>l, GotoMove
  <1>1. CASE RequestTerminal(p)
    BY <1>1, <1>g, FinishMove DEF RequestTerminal
  <1>2. CASE StorePending(p)
    BY <1>2, FinishMove DEF StorePending
  <1>3. CASE ApproveExpire(p)
    BY <1>3, <1>g, FinishMove DEF ApproveExpire
  <1>4. CASE IssueApprovalGrant(p)
    <2>1. Finish(p) \/ (UNCHANGED exec /\ (Goto(p, "enter") \/ Goto(p, "revoke")))
      BY <1>4 DEF IssueApprovalGrant
    <2> QED
      BY <1>g, <2>1, FinishMove
  <1>5. CASE EnterExecute(p)
    <2>1. CASE /\ turn' = [turn EXCEPT ![p].at = "consume", ![p].clk = now]
               /\ exec' = [exec EXCEPT ![p][turn[p].e] = "running"]
      <3>1. turn'[p].at = "consume"
        BY <1>t, <2>1 DEF TurnRecords
      <3>2. \A e \in Effects : exec'[p][e] \in Waiting => exec[p][e] \in Waiting
        BY <1>t, <2>1 DEF Waiting
      <3> QED
        BY <1>l, <3>1, <3>2, PlainMove
    <2> QED
      BY <1>5, <2>1, FinishMove DEF EnterExecute
  <1>6. CASE ConsumeApprovalGrant(p)
    <2>1. Finish(p) \/ (turn[p].e \in Effects /\ Consumes(p, turn[p].e))
      BY <1>6 DEF ConsumeApprovalGrant, Consumes, At, ProcessInv, ProcessOK
    <2>2. CASE turn[p].e \in Effects /\ Consumes(p, turn[p].e)
      <3>1. turn'[p].at = "idle" /\ exec' = [exec EXCEPT ![p][turn[p].e] = "observing"]
        BY <1>t, <2>2, IdleFacts DEF Consumes
      <3>2. \A e \in Effects \ {turn[p].e} : exec'[p][e] = exec[p][e]
        BY <1>t, <3>1
      <3> QED
        BY <1>l, <2>2, <3>1, <3>2 DEF Moved, Executing, Provider, Started
    <2> QED
      BY <2>1, <2>2, FinishMove
  <1>7. CASE CancelRevoke(p)
    BY <1>7, <1>g, FinishMove DEF CancelRevoke
  <1> QED
    BY <1>1, <1>2, <1>3, <1>4, <1>5, <1>6, <1>7 DEF HandlerStep

(* The provider and the commit of its outcome do.                            *)
LEMMA MovedProvider ==
  ASSUME TypeOK, ProcessInv, NEW p \in Procs, ProviderStep(p)
  PROVE  Moved(p)
  <1> USE DEF world, ledger, procs, ghosts
  <1>t. turn \in [Procs -> TurnRecords]
    BY DEF TypeOK
  <1>l. /\ {"before", "read", "write", "verify", "commit"} \subseteq Provider
        /\ "cleanup" \notin Provider \cup {"recoverPut"}
    BY DEF Provider, Started
  <1>s. ASSUME turn[p].at \in Provider, UNCHANGED exec, NEW e, NEW r, Settle(p, e, r)
        PROVE  Moved(p)
    <2>1. PICK out : turn' = [turn EXCEPT ![p].at = "commit", ![p].out = out]
      BY <1>s DEF Settle
    <2>2. turn'[p].at = "commit" /\ turn'[p].e = turn[p].e
      BY <1>t, <2>1 DEF TurnRecords
    <2> QED
      BY <1>s, <1>l, <2>2, ProviderMove
  <1>1. CASE PreEffectFailure(p) \/ VerifyWrite(p) \/ ReadFile(p)
    <2>1. turn[p].at \in Provider /\ UNCHANGED exec /\ \E r : Settle(p, turn[p].e, r)
      BY <1>1, <1>l DEF PreEffectFailure, VerifyWrite, ReadFile, At
    <2> QED
      BY <1>s, <2>1
  <1>2. CASE ReadBefore(p)
    <2>1. /\ turn[p].at \in Provider /\ UNCHANGED exec
          /\ turn' = [turn EXCEPT ![p].at = "write", ![p].seen = file[Target[turn[p].e]]]
      BY <1>2, <1>l DEF ReadBefore, At
    <2>2. turn'[p].at = "write" /\ turn'[p].e = turn[p].e
      BY <1>t, <2>1 DEF TurnRecords
    <2> QED
      BY <1>l, <2>1, <2>2, ProviderMove
  <1>3. CASE WriteFile(p)
    <2>1. turn[p].at \in Provider /\ UNCHANGED exec /\ Goto(p, "verify")
      BY <1>3, <1>l DEF WriteFile, At
    <2> QED
      BY ZenonT(60), <1>l, <1>t, <2>1, GotoFacts, ProviderMove
  <1>4. CASE CommitResult(p)
    BY <1>4, <1>l, GotoMove DEF CommitResult
  <1>5. CASE ResultUncommitted(p) \/ Cleanup(p)
    BY <1>5, FinishMove DEF ResultUncommitted, Cleanup
  <1> QED
    BY <1>1, <1>2, <1>3, <1>4, <1>5 DEF ProviderStep

(* The continuations and the calls of users do.                              *)
LEMMA MovedFree ==
  ASSUME TypeOK, ProcessInv, NEW p \in Procs, NEW e \in Effects,
         Continue(p, e) \/ Call(p, e)
  PROVE  Moved(p)
  <1> USE DEF world, ledger, procs, ghosts
  <1>t. /\ turn \in [Procs -> TurnRecords]
        /\ exec \in [Procs -> [Effects -> ExecStates]]
    BY DEF TypeOK
  <1>l. {"idle", "store", "recover", "issue", "revoke"}
          \cap (Provider \cup {"recoverPut"}) = {}
    BY DEF Provider, Started
  <1>f. \A op, at : Turn(op, at, e).at = at /\ Turn(op, at, e).e = e
    BY DEF Turn
  <1>a. ASSUME exec[p][e] \in Waiting, NEW r, turn' = [turn EXCEPT ![p] = r],
               r.e = e, r.at \in Provider, Running(p, e)
        PROVE  Moved(p)
    <2>1. turn'[p] = r /\ "recoverPut" \notin Provider
      BY <1>a, <1>t DEF Provider, Started
    <2>2. \A f \in Effects : exec'[p][f] \in Waiting => exec[p][f] \in Waiting
      BY <1>a, <1>t DEF Running, Waiting
    <2> QED
      BY <1>a, <2>1, <2>2 DEF Moved, Executing, Waiting
  <1>1. CASE Observe(p, e)
    <2>1. exec[p][e] \in Waiting /\ turn[p].at = "idle" /\ turn' = turn
      BY <1>1 DEF Observe, Free, Waiting
    <2>2. \A f \in Effects : exec'[p][f] \in Waiting => exec[p][f] \in Waiting
      BY <1>1, <1>t, <2>1 DEF Observe, Waiting
    <2> QED
      BY <1>l, <2>1, <2>2, PlainMove
  <1>2. CASE ObserveAbort(p, e) \/ WorkspaceStale(p, e)
    <2>1. PICK r : exec[p][e] \in Waiting /\ Committing(p, e, r) /\ Running(p, e)
      BY <1>2 DEF ObserveAbort, WorkspaceStale, Waiting
    <2> DEFINE t == [Turn("approve", "commit", e) EXCEPT !.out = r]
    <2>2. t.e = e /\ t.at \in Provider
      BY DEF Turn, Provider
    <2>3. turn' = [turn EXCEPT ![p] = t]
      BY <2>1 DEF Committing
    <2> HIDE DEF t
    <2> QED
      BY <1>a, <2>1, <2>2, <2>3
  <1>3. CASE StartProvider(p, e)
    <2> DEFINE t == Turn("approve", FirstStatement(e), e)
    <2>1. FirstStatement(e) \in Provider
      BY EffectAssumption DEF FirstStatement, Kinds, Provider, Started
    <2>2. t.e = e /\ t.at \in Provider
      BY <1>f, <2>1
    <2>3. /\ exec[p][e] \in Waiting /\ Running(p, e)
          /\ turn' = [turn EXCEPT ![p] = t]
      BY <1>3 DEF StartProvider, Waiting
    <2> HIDE DEF t
    <2> QED
      BY <1>a, <2>2, <2>3
  <1>b. ASSUME NEW r, turn' = [turn EXCEPT ![p] = r] \/ UNCHANGED turn,
               turn[p].at = "idle", r.at \in {"store", "recover", "issue", "revoke"},
               UNCHANGED exec
        PROVE  Moved(p)
    <2>1. turn'[p].at \notin Provider \cup {"recoverPut"}
      BY <1>b, <1>l, <1>t
    <2> QED
      BY <1>b, <2>1, PlainMove
  <1>4. CASE Call(p, e)
    <2>1. PICK at \in {"store", "recover", "issue", "revoke"}, op \in Ops :
            /\ turn[p].at = "idle" /\ UNCHANGED exec
            /\ turn' = [turn EXCEPT ![p] = Turn(op, at, e)] \/ UNCHANGED turn
      BY <1>4 DEF Call, RegisterEffectRequest, ApproveFilesystemEffect, Approachable,
         CancelFilesystemWrite, Free, Ops
    <2> DEFINE t == Turn(op, at, e)
    <2>2. t.at = at
      BY <1>f
    <2> HIDE DEF t
    <2> QED
      BY <1>b, <2>1, <2>2 DEF t
  <1> QED
    BY <1>1, <1>2, <1>3, <1>4 DEF Continue

(* Whatever process takes a step, every process is moved only as Moved     *)
(* says, and the dead stay dead.                                           *)
LEMMA MovedNext ==
  ASSUME TypeOK, ProcessInv, [Next]_vars, NEW p \in Procs
  PROVE  /\ Moved(p)
         /\ proc[p] = "dead" => proc'[p] = "dead"
  <1> USE DEF world, ledger, procs, ghosts
  <1>t. /\ turn \in [Procs -> TurnRecords]
        /\ exec \in [Procs -> [Effects -> ExecStates]]
        /\ proc \in [Procs -> {"unborn", "boot", "up", "dead"}]
    BY DEF TypeOK
  <1> DEFINE Goal == Moved(p) /\ (proc[p] = "dead" => proc'[p] = "dead")
  <1>u. ASSUME turn'[p] = turn[p], exec'[p] = exec[p], proc'[p] = proc[p]
        PROVE  Goal
    BY <1>u DEF Moved, Executing
  <1>1. CASE Tick \/ UNCHANGED vars
    BY <1>1, <1>u DEF Tick, vars
  <1>2. ASSUME NEW f \in Paths, NEW c \in Edits, ForeignEdit(f, c)
        PROVE  Goal
    BY <1>2, <1>u DEF ForeignEdit
  <1>3. ASSUME NEW e \in Effects, InvalidateEffect(e)
        PROVE  Goal
    BY <1>3, <1>u DEF InvalidateEffect
  <1>4. ASSUME NEW q \in Procs, Boot(q) \/ Crash(q) \/ Step(q)
                               \/ \E e \in Effects : Continue(q, e) \/ Call(q, e)
        PROVE  Goal
    <2>1. CASE q # p
      <3>1. Others(q)
        BY <1>4, ProcessBoot, ProcessRecover, ProcessHandler, ProcessProvider,
           ProcessFree, ProcessLife DEF Step
      <3> QED
        BY <1>u, <2>1, <3>1 DEF Others
    <2>2. CASE q = p
      <3>1. CASE Boot(p)
        <4>1. turn'[p] = [Turn("expireGrants", "scan", NoEffect) EXCEPT
                            !.todo = RowsOf("expireGrants")]
          BY <3>1, <1>t DEF Boot, StartPhase
        <4>2. turn'[p].at = "scan"
          BY <4>1 DEF Turn
        <4>3. "scan" \notin Provider \cup {"recoverPut"}
          BY DEF Provider, Started
        <4>4. proc[p] # "dead" /\ exec' = exec
          BY <3>1 DEF Boot
        <4> QED
          BY <4>2, <4>3, <4>4, PlainMove
      <3>2. CASE Crash(p)
        <4>1. turn'[p] = Idle /\ exec'[p] = [e \in Effects |-> "none"] /\ proc'[p] = "dead"
          BY <3>2, <1>t DEF Crash
        <4>2. turn'[p].at \notin Provider \cup {"recoverPut"}
          BY <4>1, IdleFacts DEF Provider, Started
        <4>3. \A e \in Effects : exec'[p][e] \notin Waiting
          BY <4>1 DEF Waiting
        <4> QED
          BY <4>1, <4>2, <4>3, PlainMove
      <3>3. CASE Step(p) \/ \E e \in Effects : Continue(p, e) \/ Call(p, e)
        <4>1. Moved(p)
          BY <3>3, MovedBoot, MovedRecover, MovedHandler, MovedProvider, MovedFree DEF Step
        <4>2. ProcessOK(p)
          BY DEF ProcessInv
        <4>3. CASE proc[p] = "dead"
          <5>1. turn[p].at = "idle"
            BY <4>2, <4>3 DEF ProcessOK
          <5>2. ~At(p, "idle") /\ ~Free(p) /\ ~\E l : At(p, l)
            BY <4>3 DEF At, Free
          <5>3. ~Step(p)
            BY <5>2 DEF Step, BootStep, BootNextPhase, BootExpireGrant, BootCleanPending,
               BootRecoverClaim, BootObserveRollback, Row, RecordRollbackReceipt,
               RecoverStep, RecoverTerminal, RecoverDeadOwner, RecoverNothing,
               RecoverRecordResult, RecoverConflict, RecoverDeletePending,
               HandlerStep, RequestTerminal, StorePending, ApproveExpire,
               IssueApprovalGrant, EnterExecute, ConsumeApprovalGrant, CancelRevoke,
               ProviderStep, PreEffectFailure, ReadBefore, WriteFile, VerifyWrite,
               ReadFile, CommitResult, ResultUncommitted, Cleanup
          <5>4. \A e \in Effects : ~Continue(p, e) /\ ~Call(p, e)
            BY <5>2 DEF Continue, Observe, ObserveAbort, WorkspaceStale, StartProvider,
               Call, RegisterEffectRequest, ApproveFilesystemEffect, Approachable,
               CancelFilesystemWrite
          <5> QED
            BY <3>3, <5>3, <5>4
        <4> QED
          BY <4>1, <4>3
      <3> QED
        BY <1>4, <2>2, <3>1, <3>2, <3>3
    <2> QED
      BY <2>1, <2>2
  <1> QED
    BY <1>1, <1>2, <1>3, <1>4 DEF Next

-------------------------------------------------------------------------------
(* Ownership.                                                              *)

(* Who is about to write a recovery result has proof of the owner's death. *)
HeirInv == \A p \in Procs :
             turn[p].at = "recoverPut" => ProvablyDead(claim[turn[p].e])

(* A claim never changes hands.                                              *)
LEMMA ClaimKept ==
  ASSUME TypeOK, AuthorityExclusive, LedgerMove, NEW e \in Effects, claim[e] # NoProc
  PROVE  claim'[e] = claim[e]
  <1>t. claim \in [Effects -> Procs \cup {NoProc}]
    BY DEF TypeOK
  <1>1. ASSUME NEW p \in Procs, NEW f \in Effects, Consumes(p, f)
        PROVE  claim'[e] = claim[e]
    <2>1. grant[f] = "active" /\ claim' = [claim EXCEPT ![f] = p]
      BY <1>1 DEF Consumes, Consumable
    <2>2. claim[f] = NoProc
      BY <2>1 DEF AuthorityExclusive
    <2> QED
      BY <1>t, <2>1, <2>2
  <1>2. CASE ~\E p \in Procs, f \in Effects : Consumes(p, f)
    BY <1>2 DEF LedgerMove, Terminalizes, Revokes, Issues, Invalidates, Records
  <1> QED
    BY <1>1, <1>2

(* The proof of the death stays good until the recovery result is written.   *)
LEMMA HeirNext ==
  ASSUME TypeOK, ProcessInv, AuthorityExclusive, HeirInv, [Next]_vars
  PROVE  HeirInv'
  <1> SUFFICES ASSUME NEW p \in Procs, turn'[p].at = "recoverPut"
               PROVE  ProvablyDead(claim[turn[p].e])'
    BY DEF HeirInv
  <1> DEFINE e == turn'[p].e
  <1>1. ProvablyDead(claim[e])
    BY MovedNext DEF Moved, Recoverable, HeirInv
  <1>2. e \in Effects
    BY ProcessNext DEF ProcessInv, ProcessOK
  <1>3. claim'[e] = claim[e] /\ claim[e] \in Procs
    BY <1>1, <1>2, ClaimKept, LedgerStep DEF ProvablyDead, TypeOK
  <1>4. proc'[claim[e]] = "dead"
    BY <1>1, <1>3, MovedNext DEF ProvablyDead
  <1> QED
    BY <1>1, <1>3, <1>4 DEF ProvablyDead

(* An execution has its claim: it started with the consumption, nobody     *)
(* else consumes the grant, only its own commit and the heir of a dead     *)
(* owner write a result, and a dead owner executes nothing.                *)
LEMMA OwnerNext ==
  ASSUME TypeOK, ProcessInv, AuthorityExclusive, HeirInv, LiveOwnerKeepsAuthority,
         [Next]_vars
  PROVE  LiveOwnerKeepsAuthority'
  <1>t. /\ claim \in [Effects -> Procs \cup {NoProc}]
        /\ result \in [Effects -> Results]
        /\ turn \in [Procs -> TurnRecords]
    BY DEF TypeOK
  <1> SUFFICES ASSUME NEW p \in Procs, NEW e \in Effects, Executing(p, e)'
               PROVE  claim'[e] = p /\ ~Terminal(e)'
    BY DEF LiveOwnerKeepsAuthority
  <1>n. p # NoProc
    BY SetsAssumption
  <1>1. CASE Consumes(p, e)
    <2>1. /\ grant[e] = "active" /\ preterm[e] = "none" /\ result' = result
          /\ claim' = [claim EXCEPT ![e] = p]
      BY <1>1 DEF Consumes, Consumable
    <2>2. ~Terminal(e)
      BY <2>1 DEF AuthorityExclusive
    <2> QED
      BY <1>t, <2>1, <2>2 DEF Terminal
  <1>2. CASE Executing(p, e)
    <2>1. claim[e] = p /\ ~Terminal(e)
      BY <1>2 DEF LiveOwnerKeepsAuthority
    <2>2. claim'[e] = p
      BY <1>n, <2>1, ClaimKept, LedgerStep
    <2>3. ASSUME NEW f \in Effects, Terminalizes(f) \/ Revokes(f)
          PROVE  result'[e] = result[e]
      <3>1. claim[f] = NoProc
        BY <2>3 DEF Terminalizes, Terminalizable, Revokes, RevokeGrant, AuthorityExclusive
      <3>2. \E r : result' = [result EXCEPT ![f] = r]
        BY <2>3 DEF Terminalizes, TerminalizeGrant, Revokes, RevokeGrant
      <3> QED
        BY <1>n, <1>t, <2>1, <3>1, <3>2
    <2>4. ASSUME NEW q \in Procs, NEW r, Records(q, e, r) PROVE FALSE
      <3>1. CASE At(q, "commit")
        <4>1. Executing(q, e)
          BY <2>4, <3>1 DEF Records, At, Executing
        <4>2. q = p
          BY <2>1, <4>1 DEF LiveOwnerKeepsAuthority
        <4>3. exec[p][e] = "running" /\ exec' = exec
          BY <2>4, <3>1, <4>2 DEF Records, At, ProcessInv, ProcessOK, Provider
        <4>4. turn'[p].at = "cleanup"
          BY <1>t, <2>4, <3>1, <4>2, GotoFacts DEF Records, At
        <4> QED
          BY <4>3, <4>4 DEF Executing
      <3>2. CASE At(q, "recoverPut")
        <4>1. proc[p] = "dead"
          BY <2>1, <2>4, <3>2 DEF Records, At, HeirInv, ProvablyDead
        <4>2. exec[p][e] = "none" /\ turn[p].at = "idle"
          BY <4>1 DEF ProcessInv, ProcessOK
        <4> QED
          BY <1>2, <4>2 DEF Executing
      <3> QED
        BY <2>4, <3>1, <3>2 DEF Records
    <2>5. ASSUME NEW q \in Procs, NEW f \in Effects, NEW r, Records(q, f, r)
          PROVE  result'[e] = result[e]
      BY <1>t, <2>4, <2>5 DEF Records
    <2>6. result'[e] = result[e]
      BY <2>3, <2>5, LedgerStep DEF LedgerMove, Issues, Invalidates, Consumes
    <2> QED
      BY <2>1, <2>2, <2>6 DEF Terminal
  <1> QED
    BY <1>1, <1>2, MovedNext DEF Moved

(* Before boot nobody executes or recovers.                                  *)
LEMMA OwnerInit == Init => HeirInv /\ LiveOwnerKeepsAuthority
  <1> SUFFICES ASSUME Init, NEW p \in Procs
               PROVE  turn[p].at = "idle" /\ \A e \in Effects : exec[p][e] = "none"
    BY DEF HeirInv, LiveOwnerKeepsAuthority, Executing
  <1> QED
    BY IdleFacts DEF Init

(* The whole invariant of ownership is inductive.                            *)
LEMMA Ownership == Spec => [](TypeOK /\ ProcessInv /\ AuthorityExclusive
                              /\ HeirInv /\ LiveOwnerKeepsAuthority)
  <1>1. TypeOK /\ ProcessInv /\ AuthorityExclusive /\ HeirInv /\ LiveOwnerKeepsAuthority
          /\ [Next]_vars => (HeirInv /\ LiveOwnerKeepsAuthority)'
    BY HeirNext, OwnerNext
  <1> QED
    BY <1>1, Authority, OwnerInit, PTL DEF Spec

(* While a process is between the consumed grant and the recorded result,  *)
(* it owns the claim and nobody else has closed the effect.                *)
THEOREM LiveOwnerKeeps == Spec => []LiveOwnerKeepsAuthority
  BY Ownership, PTL

(* A claim is closed by its owner's commit, or, after the owner's proven   *)
(* death, by restart recovery: an owner of unknown fate keeps its effect   *)
(* in doubt for ever.                                                      *)
THEOREM ClosedByOwner == Spec => ClosedByOwnerOrHeir
  <1> DEFINE Closed(e) ==
        claim[e] # NoProc /\ ~Terminal(e) /\ Terminal(e)' =>
          \/ turn[claim[e]].at = "commit" /\ turn[claim[e]].e = e
          \/ proc[claim[e]] = "dead" /\ claim[e] \notin Opaque
  <1>1. ASSUME TypeOK, AuthorityExclusive, HeirInv, LiveOwnerKeepsAuthority, LedgerMove,
               NEW e \in Effects, claim[e] # NoProc, ~Terminal(e), Terminal(e)'
        PROVE  \/ turn[claim[e]].at = "commit" /\ turn[claim[e]].e = e
               \/ proc[claim[e]] = "dead" /\ claim[e] \notin Opaque
    <2>t. result \in [Effects -> Results]
      BY <1>1 DEF TypeOK
    <2>1. result'[e] # result[e]
      BY <1>1 DEF Terminal
    <2>2. ASSUME NEW f \in Effects, Terminalizes(f) \/ Revokes(f) PROVE FALSE
      <3>1. claim[f] = NoProc
        BY <1>1, <2>2 DEF Terminalizes, Terminalizable, Revokes, RevokeGrant,
           AuthorityExclusive
      <3>2. \E r : result' = [result EXCEPT ![f] = r]
        BY <2>2 DEF Terminalizes, TerminalizeGrant, Revokes, RevokeGrant
      <3> QED
        BY <1>1, <2>t, <2>1, <3>1, <3>2
    <2>r. PICK p \in Procs, f \in Effects : \E r : Records(p, f, r)
      BY <1>1, <2>1, <2>2 DEF LedgerMove, Issues, Invalidates, Consumes
    <2>3. PICK r : Records(p, f, r)
      BY <2>r
    <2>4. f = e
      BY <2>t, <2>1, <2>3 DEF Records
    <2>5. CASE At(p, "commit")
      <3>1. Executing(p, e) /\ turn[p].at = "commit" /\ turn[p].e = e
        BY <2>3, <2>4, <2>5 DEF Records, At, Executing
      <3> QED
        BY <1>1, <3>1 DEF LiveOwnerKeepsAuthority
    <2>6. CASE At(p, "recoverPut")
      BY <1>1, <2>3, <2>4, <2>6 DEF Records, At, HeirInv, ProvablyDead
    <2> QED
      BY <2>3, <2>5, <2>6 DEF Records
  <1>2. TypeOK /\ ProcessInv /\ AuthorityExclusive /\ HeirInv /\ LiveOwnerKeepsAuthority
          /\ [Next]_vars => [\A e \in Effects : Closed(e)]_vars
    BY <1>1, LedgerStep
  <1> QED
    BY <1>2, Ownership, PTL DEF Spec, ClosedByOwnerOrHeir

===============================================================================

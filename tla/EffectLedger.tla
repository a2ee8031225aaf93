------------------------------ MODULE EffectLedger ------------------------------
(***************************************************************************)
(* What the effect authority promises about one project effect, without    *)
(* processes, grants, clocks or files: it is claimed or refused once, its  *)
(* provider starts at most once and under the claim, the project changes   *)
(* at most once and never after the effect is closed, and the verdict that *)
(* closes it hides no change: a changed project is a success or a debt,    *)
(* and a debt is discharged only by a later observation.                   *)
(***************************************************************************)
EXTENDS Naturals

CONSTANTS Effects,  \* effect identities
          Reads     \* those of them that may not change the project

VARIABLES phase,    \* "open", "claimed" or "closed"
          starts,   \* provider starts
          changed,  \* effects that changed the project
          verdict   \* what a reader of the ledger is told

vars == <<phase, starts, changed, verdict>>

Init == /\ phase = [e \in Effects |-> "open"]
        /\ starts = [e \in Effects |-> 0]
        /\ changed = {}
        /\ verdict = [e \in Effects |-> "none"]

Claim(e) == /\ phase[e] = "open"
            /\ phase' = [phase EXCEPT ![e] = "claimed"]
            /\ UNCHANGED <<starts, changed, verdict>>

Refuse(e) == /\ phase[e] = "open"
             /\ phase' = [phase EXCEPT ![e] = "closed"]
             /\ verdict' = [verdict EXCEPT ![e] = "refused"]
             /\ UNCHANGED <<starts, changed>>

Start(e) == /\ phase[e] = "claimed" /\ starts[e] = 0
            /\ starts' = [starts EXCEPT ![e] = 1]
            /\ UNCHANGED <<phase, changed, verdict>>

Change(e) == /\ phase[e] = "claimed" /\ starts[e] = 1
             /\ e \notin changed \cup Reads
             /\ changed' = changed \cup {e}
             /\ UNCHANGED <<phase, starts, verdict>>

Truthful(e, v) == \/ v = "succeeded" /\ starts[e] = 1 /\ e \in changed \cup Reads
                  \/ v = "clean" /\ e \notin changed
                  \/ v = "debt" /\ e \notin Reads
Close(e) == /\ phase[e] = "claimed"
            /\ phase' = [phase EXCEPT ![e] = "closed"]
            /\ \E v \in {"succeeded", "clean", "debt"} :
                 Truthful(e, v) /\ verdict' = [verdict EXCEPT ![e] = v]
            /\ UNCHANGED <<starts, changed>>

Discharge(e) == /\ verdict[e] = "debt"
                /\ verdict' = [verdict EXCEPT ![e] = "discharged"]
                /\ UNCHANGED <<phase, starts, changed>>

Next == \E e \in Effects : \/ Claim(e) \/ Refuse(e) \/ Start(e)
                           \/ Change(e) \/ Close(e) \/ Discharge(e)

Spec == Init /\ [][Next]_vars

===============================================================================

---------------------------- MODULE RemoteContract ----------------------------
(***************************************************************************)
(* What the operation journal promises a remote device, without sessions,  *)
(* requests, retries or crashes.  An operation is on record before it has  *)
(* any effect, it has its effect at most once, and its record says nothing *)
(* untrue: "confirmed" only of an effect that happened, "rejected" and     *)
(* "pending" only of one that did not.  "unknown" promises nothing, and    *)
(* may be given up by another operation: the record is then "abandoned"    *)
(* for good, whatever becomes of the effect.                               *)
(***************************************************************************)
EXTENDS Naturals

CONSTANT Ops

VARIABLES record,   \* what operation.get shows of each operation
          effects   \* how often each operation had its effect

vars == <<record, effects>>

Init == /\ record = [o \in Ops |-> "none"]
        /\ effects = [o \in Ops |-> 0]

Begin(o) == /\ record[o] = "none"
            /\ record' = [record EXCEPT ![o] = "unknown"]
            /\ UNCHANGED effects

Acts(o) == /\ record[o] \in {"unknown", "abandoned"} /\ effects[o] = 0
           /\ effects' = [effects EXCEPT ![o] = 1]

Act(o) == Acts(o) /\ UNCHANGED record

Settle(o, s) ==
  /\ record[o] = "unknown"
  /\ \/ s = "confirmed" /\ effects[o] = 1
     \/ s \in {"pending", "rejected"} /\ effects[o] = 0
  /\ record' = [record EXCEPT ![o] = s]
  /\ UNCHANGED effects

(* The effect of an abandonment is the change of another record. *)
Abandon(o, t) ==
  /\ Acts(o) /\ t # o
  /\ record[t] \in {"unknown", "pending"}
  /\ record' = [record EXCEPT ![t] = "abandoned"]

Next == \E o \in Ops :
  \/ Begin(o) \/ Act(o)
  \/ \E s \in {"confirmed", "pending", "rejected"} : Settle(o, s)
  \/ \E t \in Ops : Abandon(o, t)

Spec == Init /\ [][Next]_vars
===============================================================================

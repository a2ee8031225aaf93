--------------------------- MODULE ToolCircuitProofs ---------------------------
(***************************************************************************)
(* The circuit breaker of a tool, for every number of calls and every      *)
(* setting of its thresholds and times: since the executor never asks      *)
(* canProceed, the breaker never tests a tool that it has refused, and the *)
(* tool stays refused for the rest of the session.                         *)
(***************************************************************************)
EXTENDS ToolCircuit, TLAPS

(* HALF_OPEN is not reached, and who was refused met an open breaker.       *)
TwoStates == state \in {"CLOSED", "OPEN"} /\ (blocked => state = "OPEN")

LEMMA TwoStatesStep == ASSUME TwoStates, [Next]_vars PROVE TwoStates'
<1> USE DEF TwoStates
<1>1. CASE Tick
  BY <1>1 DEF Tick, breaker
<1>2. ASSUME NEW c \in Calls, BeginCall(c) PROVE TwoStates'
  BY <1>2 DEF BeginCall, breaker
<1>3. ASSUME NEW c \in Calls, EndCall(c) PROVE TwoStates'
  BY <1>3 DEF EndCall, RecordSuccess, RecordFailure, Trip, breaker
<1>4. CASE UNCHANGED vars
  BY <1>4 DEF vars, breaker
<1> QED
  BY <1>1, <1>2, <1>3, <1>4 DEF Next

(* No step leaves OPEN, unless from HALF_OPEN.                              *)
LEMMA OpenStep == ASSUME state = "OPEN", [Next]_vars PROVE state' = "OPEN"
<1>1. CASE Tick
  BY <1>1 DEF Tick, breaker
<1>2. ASSUME NEW c \in Calls, BeginCall(c) PROVE state' = "OPEN"
  BY <1>2 DEF BeginCall, breaker
<1>3. ASSUME NEW c \in Calls, EndCall(c) PROVE state' = "OPEN"
  BY <1>3 DEF EndCall, RecordSuccess, RecordFailure, Trip, breaker
<1>4. CASE UNCHANGED vars
  BY <1>4 DEF vars, breaker
<1> QED
  BY <1>1, <1>2, <1>3, <1>4 DEF Next

(* A tool that was refused once is refused for ever: however long ago its   *)
(* failures were, the breaker stays open (ToolExecutor.execute).            *)
THEOREM RefusedForEver == Spec => [](blocked => [](state = "OPEN"))
<1>1. Init => TwoStates
  BY DEF Init, TwoStates
<1>2. TwoStates /\ [Next]_vars => TwoStates'
  BY TwoStatesStep
<1>3. state = "OPEN" /\ [Next]_vars => (state = "OPEN")'
  BY OpenStep
<1>4. TwoStates => (blocked => state = "OPEN")
  BY DEF TwoStates
<1> QED
  BY <1>1, <1>2, <1>3, <1>4, PTL DEF Spec

===============================================================================

------------------------------ MODULE ToolCircuit ------------------------------
(***************************************************************************)
(* The circuit breaker of one tool in one session under the concurrent     *)
(* calls of that session: executor/circuit-breaker.js as                   *)
(* executor/tool-executor.js uses it.  The executor reads the breaker's    *)
(* state and records outcomes; it never asks canProceed, the only step     *)
(* that leaves OPEN.                                                       *)
(***************************************************************************)
EXTENDS Naturals, Functions

CONSTANTS Calls,             \* concurrent tool calls
          FailureThreshold,  \* failures in the window that open the breaker
          SuccessThreshold,  \* successes that close it from HALF_OPEN
          FailureWindow, ResetTimeout,
          Durable,           \* whether the durable tool broker is configured
          MaxTime            \* bound on the clock

VARIABLES now,
          state, failures, openedAt, successes,  \* the breaker
          calling,                               \* calls whose outcome is awaited
          blocked                                \* history: the last call was refused

breaker == <<state, failures, openedAt, successes>>
vars == <<now, breaker, calling, blocked>>

(* Failures are a bag of timestamps: how many of each.                     *)
Times == 0..MaxTime
NoFailures == [t \in Times |-> 0]
Total(f) == FoldFunction(+, 0, f)

(* cleanupOldFailures keeps what is younger than the window.               *)
Recent(f) == [t \in Times |-> IF t + FailureWindow > now THEN f[t] ELSE 0]

Init == /\ now = 0 /\ state = "CLOSED" /\ failures = NoFailures
        /\ openedAt = 0 /\ successes = 0 /\ blocked = FALSE
        /\ calling = {}

(* transitionTo(OPEN) and transitionTo(CLOSED).                            *)
Trip == state' = "OPEN" /\ openedAt' = now /\ UNCHANGED successes
Close == /\ state' = "CLOSED" /\ openedAt' = 0 /\ successes' = 0
         /\ failures' = NoFailures

RecordSuccess ==
  IF state = "HALF_OPEN" /\ successes + 1 >= SuccessThreshold THEN Close
  ELSE /\ successes' = IF state = "HALF_OPEN" THEN successes + 1 ELSE successes
       /\ UNCHANGED <<state, failures, openedAt>>

(* More than FailureThreshold failures at one time tell nothing apart.     *)
Capped(n) == IF n > FailureThreshold THEN FailureThreshold ELSE n
RecordFailure ==
  /\ failures' = Recent([failures EXCEPT ![now] = Capped(@ + 1)])
  /\ IF \/ state = "HALF_OPEN"
        \/ state = "CLOSED" /\ Total(failures') >= FailureThreshold
     THEN Trip ELSE UNCHANGED <<state, openedAt, successes>>

(* The loop of ToolExecutor.execute, up to the await: a call that finds    *)
(* the breaker open does not reach the tool; without the durable broker it *)
(* is over, with it the refusal is its answer.                             *)
BeginCall(c) ==
  /\ c \notin calling
  /\ blocked' = (state = "OPEN")
  /\ calling' = IF state = "OPEN" /\ ~Durable THEN calling ELSE calling \cup {c}
  /\ UNCHANGED <<now, breaker>>

(* After it: a ToolResult is recorded by its success; a raw result is not. *)
(* A thrown error is looked up under the tool's bare name, which no        *)
(* breaker has, and is not recorded either.                                *)
EndCall(c) ==
  /\ c \in calling
  /\ calling' = calling \ {c}
  /\ RecordSuccess \/ RecordFailure \/ UNCHANGED breaker
  /\ blocked' = FALSE
  /\ UNCHANGED now

Tick == /\ now < MaxTime
        /\ now' = now + 1 /\ blocked' = FALSE
        /\ UNCHANGED <<breaker, calling>>

Next == Tick \/ \E c \in Calls : BeginCall(c) \/ EndCall(c)
Spec == Init /\ [][Next]_vars

(* An open breaker refuses calls for the reset timeout and no longer: then *)
(* it lets one through to test whether the tool recovered.                 *)
BlockedOnlyUntilReset == blocked => now < openedAt + ResetTimeout

===============================================================================

--------------------------- MODULE GpuEvaluationLock ---------------------------
(***************************************************************************)
(* upgrade/gpu-evaluation-lock.js: the directory by which evaluations,     *)
(* hunts and binding verifications of several processes take turns on the  *)
(* GPU.  mkdir takes the lock, owner.json names the holder, and whoever    *)
(* finds a dead holder removes the directory and tries again.              *)
(***************************************************************************)
EXTENDS Naturals

CONSTANTS Procs,  \* processes, one pid each
          None    \* no process

VARIABLES dir,    \* whether the directory exists
          owner,  \* the process its owner.json names
          at,     \* the next step of a process
          tries   \* attempts of acquireGpuEvaluationLock

vars == <<dir, owner, at, tries>>

Init == /\ dir = FALSE /\ owner = None
        /\ at = [p \in Procs |-> "off"] /\ tries = [p \in Procs |-> 0]

Goto(p, label) == at' = [at EXCEPT ![p] = label]
Attempts == 2

(* mkdirSync, at most twice.                                               *)
MakeDirectory(p) ==
  /\ at[p] \in {"off", "make"}
  /\ IF tries[p] = Attempts
     THEN Goto(p, "off") /\ tries' = [tries EXCEPT ![p] = 0] /\ UNCHANGED dir
     ELSE /\ dir' = TRUE
          /\ tries' = [tries EXCEPT ![p] = @ + 1]
          /\ Goto(p, IF dir THEN "judge" ELSE "write")
  /\ UNCHANGED owner

(* Only a named owner that is not alive may be replaced; else GPU BUSY.    *)
JudgeOwner(p) ==
  /\ at[p] = "judge"
  /\ IF dir /\ owner # None /\ at[owner] = "dead"
     THEN Goto(p, "clear") /\ UNCHANGED tries
     ELSE Goto(p, "off") /\ tries' = [tries EXCEPT ![p] = 0]
  /\ UNCHANGED <<dir, owner>>

Remove == dir' = FALSE /\ owner' = None

ClearStale(p) == at[p] = "clear" /\ Remove /\ Goto(p, "make") /\ UNCHANGED tries

(* writeFileSync replaces any owner.json and fails without the directory.  *)
WriteOwner(p) ==
  /\ at[p] = "write"
  /\ IF dir THEN owner' = p /\ Goto(p, "held") ELSE Goto(p, "off") /\ UNCHANGED owner
  /\ tries' = [tries EXCEPT ![p] = 0]
  /\ UNCHANGED dir

(* release() compares the token, then removes the directory.               *)
Release(p) == /\ at[p] = "held"
              /\ Goto(p, IF dir /\ owner = p THEN "remove" ELSE "off")
              /\ UNCHANGED <<dir, owner, tries>>
RemoveOwn(p) == at[p] = "remove" /\ Remove /\ Goto(p, "off") /\ UNCHANGED tries

Crash(p) == at[p] # "dead" /\ Goto(p, "dead") /\ UNCHANGED <<dir, owner, tries>>

Next == \E p \in Procs :
  \/ MakeDirectory(p) \/ JudgeOwner(p) \/ ClearStale(p) \/ WriteOwner(p)
  \/ Release(p) \/ RemoveOwn(p) \/ Crash(p)
Spec == Init /\ [][Next]_vars

(* A live holder is a conflict for everybody else: the GPU has one holder. *)
OneHolder == \A p, q \in Procs : at[p] = "held" /\ at[q] = "held" => p = q

===============================================================================

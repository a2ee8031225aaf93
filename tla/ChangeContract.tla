---------------------------- MODULE ChangeContract ----------------------------
(***************************************************************************)
(* What the execution of a project change promises, without processes,     *)
(* claims, journals or crashes.  The change is closed until its authority  *)
(* is spent; then it goes forward, each effect at most once and in order;  *)
(* it may turn back, and then never goes forward again; and it is settled  *)
(* once, with a verdict that is true: "done" if every effect was done,     *)
(* "undone" if nothing is left of them, "doubt" otherwise.  Once settled   *)
(* the project is no longer touched.                                       *)
(***************************************************************************)
EXTENDS Naturals

CONSTANTS Files,     \* number of files of the change
          Forward,   \* its effects: the writes of the files, the test, the commit
          Write(_), Test, Git

VARIABLES stage,    \* "closed", "forward", "backward" or "settled"
          ran,      \* how often each effect was performed
          left,     \* what is left of them in the project: files, 0 for the commit
          meddled,  \* foreign programs were at work
          commits,  \* the plan asks for a commit
          verdict

vars == <<stage, ran, left, meddled, commits, verdict>>

File == 1..Files
Done(e) == ran[e] > 0

Init == /\ stage = "closed" /\ ran = [e \in Forward |-> 0]
        /\ left = {} /\ meddled = FALSE
        /\ commits \in BOOLEAN /\ verdict = "none"

Open == /\ stage = "closed" /\ stage' = "forward"
        /\ UNCHANGED <<ran, left, meddled, commits, verdict>>

Perform(e) == /\ stage = "forward" /\ ~Done(e)
              /\ ran' = [ran EXCEPT ![e] = 1]
              /\ UNCHANGED <<stage, meddled, commits, verdict>>

(* A file is written only after the files before it. *)
WriteFile(n) == /\ Perform(Write(n)) /\ left' = left \cup {n}
                /\ \A m \in 1..(n - 1) : Done(Write(m))

RunTest == /\ Perform(Test) /\ UNCHANGED left
           /\ \A n \in File : Done(Write(n))

CommitGit == /\ Perform(Git) /\ left' = left \cup {0}
             /\ commits /\ Done(Test)

TurnBack == /\ stage = "forward" /\ stage' = "backward"
            /\ UNCHANGED <<ran, left, meddled, commits, verdict>>

(* A commit that cannot be proved is taken back at once. *)
Undo(n) ==
  /\ stage = "backward" \/ (stage = "forward" /\ n = 0)
  /\ n \in left /\ left' = left \ {n}
  /\ UNCHANGED <<stage, ran, meddled, commits, verdict>>

Truthful(v) ==
  \/ /\ v = "done"
     /\ Done(Test) /\ (\A n \in File : Done(Write(n))) /\ (commits => Done(Git))
     /\ left = File \cup (IF commits THEN {0} ELSE {}) \/ meddled
  \/ v = "undone" /\ (left = {} \/ (left = {0} /\ meddled))
  \/ v = "doubt"

Settle(v) ==
  /\ stage \in {"forward", "backward"} /\ Truthful(v)
  /\ stage' = "settled" /\ verdict' = v
  /\ UNCHANGED <<ran, left, meddled, commits>>

(* Foreign edits may take the change's content away and never bring it back. *)
Meddle == /\ meddled' = TRUE /\ left' \in {left} \cup {left \ {n} : n \in left}
          /\ UNCHANGED <<stage, ran, commits, verdict>>

Next == \/ Open \/ RunTest \/ CommitGit \/ TurnBack \/ Meddle
        \/ \E n \in File : WriteFile(n)
        \/ \E n \in File \cup {0} : Undo(n)
        \/ \E v \in {"done", "undone", "doubt"} : Settle(v)

Spec == Init /\ [][Next]_vars
===============================================================================

-------------------------- MODULE MCRemoteOperations --------------------------
(* Remote operations on small instances: sessions, challenges, operations,  *)
(* contents and calls may each be interchanged.                             *)
EXTENDS RemoteOperations, TLC

Interchangeable == Permutations(Sessions) \cup Permutations(Nonces) \cup
                   Permutations(Ops) \cup Permutations(Bodies) \cup Permutations(Calls)
==============================================================================

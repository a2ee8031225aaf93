--------------------------- MODULE MCProjectChange ---------------------------
(* The project change on small instances: the server processes may be      *)
(* interchanged.                                                           *)
EXTENDS ProjectChange, TLC

Servers == Permutations(Proc)
==============================================================================

--------------------------- MODULE MCEffectAuthority ---------------------------
(* Small instances of EffectAuthority: a write, a create and a read of one *)
(* file, and incarnations of the program that may be interchanged.         *)
EXTENDS EffectAuthority, TLC

CONSTANT Crashing   \* interchangeable incarnations

MCKind == [e \in Effects |-> CASE e = "w" -> "write"
                               [] e = "c" -> "create"
                               [] e = "r" -> "read"]
MCTarget == [e \in Effects |-> "f"]
MCPayload == [e \in Effects |-> IF e = "c" THEN "created" ELSE "written"]

Incarnations == Permutations(Crashing)
===============================================================================

--------------------------- MODULE MCDatabaseRestore ---------------------------
(* The restore of the database on small instances: processes are           *)
(* interchangeable, and so are transactions.                               *)
EXTENDS DatabaseRestore, TLC

Symmetry == Permutations(Procs) \cup Permutations(Tx)

===============================================================================

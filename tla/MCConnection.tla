---------------------------- MODULE MCConnection ----------------------------
(* Model-checking instance of Connection: the exec operations are model    *)
(* values given in the .cfg files.                                         *)
EXTENDS Connection, TLC

(* The exec operations are interchangeable (used only in safety runs).    *)
OpsSymmetry == Permutations(Ops)
=============================================================================

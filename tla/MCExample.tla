----------------------------- MODULE MCExample -----------------------------
(* Model-checking instance of Example; the bounds are given in the .cfg.   *)
EXTENDS Example
=============================================================================

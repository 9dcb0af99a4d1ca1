------------------------------ MODULE MCTimer ------------------------------
(* One Timer with its owner, its thread and any number of cancellers.      *)
EXTENDS Timer
=============================================================================

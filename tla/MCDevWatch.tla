------------------------------ MODULE MCDevWatch ------------------------------
(* DevWatch for TLC; the constants are given in the configurations. *)
EXTENDS DevWatch
===============================================================================

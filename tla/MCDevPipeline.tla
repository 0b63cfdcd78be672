----------------------------- MODULE MCDevPipeline -----------------------------
(* DevPipeline for TLC; the constants are given in the configurations. *)
EXTENDS DevPipeline
=================================================================================

----------------------------- MODULE MCDevEngine -----------------------------
(* Model checking of the development-loop engine.                          *)
EXTENDS DevEngine
=============================================================================

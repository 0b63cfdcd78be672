----------------------------- MODULE MCProviderOrder -----------------------------
(* ProviderOrder for TLC; the constants are given in the configurations. *)
EXTENDS ProviderOrder
===================================================================================

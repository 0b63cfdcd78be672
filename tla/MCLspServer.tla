----------------------------- MODULE MCLspServer -----------------------------
(* LspServer for TLC: two files; texts that are clean, break the file itself or its neighbour. *)
EXTENDS LspServer

MCTexts == {{}, {2}}
MCTexts1 == {{}, {1}}
==============================================================================

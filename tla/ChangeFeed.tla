------------------------------ MODULE ChangeFeed ------------------------------
(***************************************************************************)
(* What the development loop is promised about file changes: it is handed  *)
(* batches of files, reads those files, and no file stays different from   *)
(* what was read for ever, unless the loop is ended.  A batch may also     *)
(* name files that have not changed.  DevWatch shows that polling and      *)
(* debouncing keep this promise.                                           *)
(***************************************************************************)
EXTENDS Integers

CONSTANTS
    Files,      \* the relevant files
    Stamps      \* what a file may be: its mode, size and digest, or absent

VARIABLES
    disk,       \* the files
    seen,       \* each file when it was last in a batch
    ctxDone     \* the loop is to end

vars == <<disk, seen, ctxDone>>

Init == disk \in [Files -> Stamps] /\ seen = disk /\ ctxDone = FALSE

Change(f, s) ==
    /\ disk' = [disk EXCEPT ![f] = s]
    /\ UNCHANGED <<seen, ctxDone>>

Take(batch) ==
    /\ batch # {}
    /\ seen' = [f \in Files |-> IF f \in batch THEN disk[f] ELSE seen[f]]
    /\ UNCHANGED <<disk, ctxDone>>

End == ctxDone' = TRUE /\ UNCHANGED <<disk, seen>>

Next ==
    \/ \E f \in Files, s \in Stamps : Change(f, s)
    \/ End
    \/ \E batch \in SUBSET Files : Take(batch)

TakeFile(f) == ~ctxDone /\ seen[f] # disk[f] /\ \E batch \in SUBSET Files : f \in batch /\ Take(batch)

Spec == Init /\ [][Next]_vars /\ \A f \in Files : WF_vars(TakeFile(f))
===============================================================================

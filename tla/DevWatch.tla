------------------------------- MODULE DevWatch -------------------------------
(***************************************************************************)
(* How the development loop learns of changes: the polling watcher         *)
(* (internal/devloop/polling.go), its bounded event channel, the debouncer *)
(* (debounce.go) and the part of the engine's loop that feeds it           *)
(* (acceptFileEvent, acceptPending, resetDebounceTimer in engine.go).      *)
(*                                                                         *)
(* Files are numbered in the order in which they are walked and emitted.   *)
(* A stamp stands for mode, size and digest; 0 is a file that is absent.   *)
(* A scan reads one file after the other while the files keep changing.    *)
(* The clock is kept as the ages of the pending burst (sinceFirst,         *)
(* sinceLast) and the time left on the debounce timer.                     *)
(*                                                                         *)
(* A definition directly above another of a similar name is a seeded       *)
(* fault: the code with one mistake, used only to show that the            *)
(* properties notice it.                                                   *)
(***************************************************************************)
EXTENDS Integers, Sequences

CONSTANTS
    NumFiles,       \* relevant files
    MaxStamp,       \* contents of a file are 1..MaxStamp
    MaxEdits,       \* bound on edits
    MaxScanErrors,  \* bound on failing scans
    Capacity,       \* of the event channel (256 in the code)
    QuietPeriod,    \* in ticks
    MaxDelay,       \* in ticks
    Reverts         \* a file may return to a content it had before

Files == 1..NumFiles
Stamps == 0..MaxStamp

ASSUME WatchAssumption ==
    /\ NumFiles \in Nat /\ MaxStamp \in Nat \ {0} /\ MaxEdits \in Nat /\ MaxScanErrors \in Nat
    /\ Capacity \in Nat \ {0}
    /\ QuietPeriod \in Nat \ {0} /\ MaxDelay \in Nat /\ MaxDelay >= QuietPeriod
    /\ Reverts \in BOOLEAN

VARIABLES
    disk,           \* the files
    had,            \* the contents that each file has had
    edits,          \* edits so far
    seen,           \* each file when it was last in an accepted batch
    \* the poll goroutine
    pollPc,         \* "wait", "scan", "emit", "done"
    previous,       \* the baseline
    current,        \* the snapshot being taken
    index,          \* the next file to scan or to compare
    scanErrors,     \* failing scans so far
    \* channels
    events,         \* watcher.events
    watchError,     \* watcher.errors holds an error
    ctxDone,        \* the context is cancelled
    loopDone,       \* the engine's loop has returned
    \* the debouncer and the engine's timer
    pending,        \* debouncer.pending: a kind of change, or "none"
    sinceFirst,     \* time since debouncer.first
    sinceLast,      \* time since debouncer.last
    timer           \* time left on state.debounceTimer, -1 if debounceC is nil

fileVars == <<disk, had, edits>>
pollVars == <<pollPc, previous, current, index, scanErrors>>
debounceVars == <<pending, sinceFirst, sinceLast, timer>>
ends == <<ctxDone, loopDone>>
vars == <<fileVars, seen, pollVars, events, watchError, ends, debounceVars>>

Nothing == [f \in Files |-> "none"]
Pending == pending # Nothing
Least(a, b) == IF a < b THEN a ELSE b

Init ==
    /\ disk \in [Files -> {0, 1}]
    /\ had = [f \in Files |-> {disk[f]}]
    /\ edits = 0
    /\ seen = disk
    /\ pollPc = "wait"
    /\ previous = disk
    /\ current = [f \in Files |-> 0]
    /\ index = 1
    /\ scanErrors = 0
    /\ events = <<>>
    /\ watchError = FALSE
    /\ ctxDone = FALSE /\ loopDone = FALSE
    /\ pending = Nothing
    /\ sinceFirst = 0 /\ sinceLast = 0
    /\ timer = -1

-----------------------------------------------------------------------------
\* The user, an editor or a generator writes, creates or removes a file.
Edit(f, s) ==
    /\ edits < MaxEdits
    /\ s # disk[f] /\ (Reverts \/ s \notin had[f])
    /\ disk' = [disk EXCEPT ![f] = s]
    /\ had' = [had EXCEPT ![f] = @ \cup {s}]
    /\ edits' = edits + 1
    /\ UNCHANGED <<seen, pollVars, events, watchError, ends, debounceVars>>

\* Time passes; timers fire and the loop serves them before it goes on.
Tick ==
    /\ timer > 0
    /\ sinceFirst' = sinceFirst + 1
    /\ sinceLast' = sinceLast + 1
    /\ timer' = timer - 1
    /\ UNCHANGED <<fileVars, seen, pollVars, events, watchError, ends, pending>>

-----------------------------------------------------------------------------
(* PollingWatcher.poll.                                                    *)

BeginScan ==
    /\ pollPc = "wait" /\ ~ctxDone
    /\ pollPc' = "scan"
    /\ index' = 1
    /\ current' = [f \in Files |-> 0]
    /\ UNCHANGED <<fileVars, seen, previous, scanErrors, events, watchError, ends, debounceVars>>

\* stampFile of one file of the walk; an absent file is not in the snapshot.
ScanFile ==
    /\ pollPc = "scan" /\ index \in Files /\ ~ctxDone
    /\ current' = [current EXCEPT ![index] = disk[index]]
    /\ index' = index + 1
    /\ UNCHANGED <<fileVars, seen, pollPc, previous, scanErrors, events, watchError, ends, debounceVars>>

\* A file vanishes under the walk, cannot be read, or there are too many: the baseline stays.
\* reportError never blocks; an error that nobody has read yet is enough.
ScanFails ==
    /\ pollPc = "scan" /\ scanErrors < MaxScanErrors
    /\ scanErrors' = scanErrors + 1
    /\ watchError' = TRUE
    /\ pollPc' = "wait"
    /\ UNCHANGED <<fileVars, seen, previous, current, index, events, ends, debounceVars>>

EndScan ==
    /\ pollPc = "scan" /\ index \notin Files
    /\ pollPc' = "emit"
    /\ index' = 1
    /\ UNCHANGED <<fileVars, seen, previous, current, scanErrors, events, watchError, ends, debounceVars>>

KindOf(before, after) ==
    IF before = 0 THEN "create" ELSE IF after = 0 THEN "remove" ELSE "write"

EmitNothing ==
    /\ pollPc = "emit" /\ index \in Files
    /\ previous[index] = current[index]
    /\ index' = index + 1
    /\ UNCHANGED <<fileVars, seen, pollPc, previous, current, scanErrors, events, watchError, ends, debounceVars>>

\* The send blocks while the channel is full.
EmitChange ==
    /\ pollPc = "emit" /\ index \in Files
    /\ previous[index] # current[index]
    /\ Len(events) < Capacity
    /\ events' = Append(events, [file |-> index, kind |-> KindOf(previous[index], current[index])])
    /\ index' = index + 1
    /\ UNCHANGED <<fileVars, seen, pollPc, previous, current, scanErrors, watchError, ends, debounceVars>>

EndEmit ==
    /\ pollPc = "emit" /\ index \notin Files
    /\ previous' = current
    /\ pollPc' = "wait"
    /\ UNCHANGED <<fileVars, seen, current, index, scanErrors, events, watchError, ends, debounceVars>>

\* The command is interrupted: the context of the engine and of the watcher ends.
Cancel ==
    /\ ~ctxDone
    /\ ctxDone' = TRUE
    /\ UNCHANGED <<fileVars, seen, pollVars, events, watchError, loopDone, debounceVars>>

\* Seeded fault: the send on the event channel does not watch the context.
PollEndsIdle ==
    /\ ctxDone /\ pollPc \in {"wait", "scan"}
    /\ pollPc' = "done"
    /\ UNCHANGED <<fileVars, seen, previous, current, index, scanErrors, events, watchError, ends, debounceVars>>

\* Every wait of the goroutine also waits for the context.
PollEnds ==
    /\ ctxDone /\ pollPc # "done"
    /\ pollPc' = "done"
    /\ UNCHANGED <<fileVars, seen, previous, current, index, scanErrors, events, watchError, ends, debounceVars>>

-----------------------------------------------------------------------------
(* The engine's loop.  After the end of the context its select may still   *)
(* take an event before it takes ctx.Done.                                 *)

MergeChange(before, next) ==
    CASE before = "remove" /\ next = "create" -> "write"
      [] before = "create" /\ next = "write" -> "create"
      [] OTHER -> next

\* Seeded fault: every event postpones the batch by a whole quiet period.
DelayQuietOnly(first, last) == QuietPeriod - last

\* Deadline minus now: the quiet period after the last event, but not later than MaxDelay
\* after the first one.
Delay(first, last) ==
    LET left == Least(QuietPeriod - last, MaxDelay - first)
    IN  IF left < 0 THEN 0 ELSE left

AcceptFileEvent ==
    LET event == Head(events)
        first == IF Pending THEN sinceFirst ELSE 0
    IN  /\ events # <<>> /\ ~loopDone
        /\ events' = Tail(events)
        /\ pending' = [pending EXCEPT ![event.file] =
                         IF @ = "none" THEN event.kind ELSE MergeChange(@, event.kind)]
        /\ sinceFirst' = first
        /\ sinceLast' = 0
        /\ timer' = Delay(first, 0)
        /\ UNCHANGED <<fileVars, seen, pollVars, watchError, ends>>

\* Seeded fault: when the timer fires, the batch is taken only if the quiet period is over.
AcceptPendingQuiet ==
    /\ timer = 0 /\ ~loopDone /\ sinceLast >= QuietPeriod
    /\ seen' = [f \in Files |-> IF pending[f] # "none" THEN disk[f] ELSE seen[f]]
    /\ pending' = Nothing
    /\ sinceFirst' = 0 /\ sinceLast' = 0
    /\ timer' = -1
    /\ UNCHANGED <<fileVars, pollVars, events, watchError, ends>>

\* The batch starts a preparation, which reads the files from now on.
AcceptPending ==
    /\ timer = 0 /\ ~loopDone
    /\ seen' = [f \in Files |-> IF pending[f] # "none" THEN disk[f] ELSE seen[f]]
    /\ pending' = Nothing
    /\ sinceFirst' = 0 /\ sinceLast' = 0
    /\ timer' = -1
    /\ UNCHANGED <<fileVars, pollVars, events, watchError, ends>>

ReadWatchError ==
    /\ watchError /\ ~loopDone
    /\ watchError' = FALSE
    /\ UNCHANGED <<fileVars, seen, pollVars, events, ends, debounceVars>>

\* The loop returns; Run stops the timer and then waits in Close for the watcher.
LoopEnds ==
    /\ ctxDone /\ ~loopDone
    /\ loopDone' = TRUE
    /\ timer' = -1
    /\ UNCHANGED <<fileVars, seen, pollVars, events, watchError, ctxDone, pending, sinceFirst, sinceLast>>

-----------------------------------------------------------------------------
Poll == BeginScan \/ ScanFile \/ EndScan \/ EmitNothing \/ EmitChange \/ EndEmit \/ PollEnds
Loop == AcceptFileEvent \/ AcceptPending \/ ReadWatchError \/ LoopEnds

Next ==
    \/ \E f \in Files, s \in Stamps : Edit(f, s)
    \/ Tick \/ Poll \/ ScanFails \/ Cancel \/ Loop

\* Goroutines run, time passes, and a select serves every channel that stays ready.
Fairness ==
    /\ WF_vars(Poll) /\ WF_vars(Tick)
    /\ WF_vars(AcceptFileEvent) /\ WF_vars(AcceptPending) /\ WF_vars(ReadWatchError) /\ WF_vars(LoopEnds)

Spec == Init /\ [][Next]_vars /\ Fairness

-----------------------------------------------------------------------------
(* Properties.                                                             *)

\* The starvation bound of the debouncer: however many events follow, a burst is handed over at
\* most MaxDelay after its first event.
StarvationBound == Pending => sinceFirst <= MaxDelay /\ sinceFirst + timer <= MaxDelay

\* Polling and debouncing keep the promise of ChangeFeed.
Feed == INSTANCE ChangeFeed WITH Files <- Files, Stamps <- Stamps,
                                disk <- disk, seen <- seen, ctxDone <- ctxDone
Implements == Feed!Spec

\* Close returns: the goroutine ends although the channel may be full and nobody reads it.
CloseEnds == loopDone ~> pollPc = "done"
===============================================================================

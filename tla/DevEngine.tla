------------------------------ MODULE DevEngine ------------------------------
(***************************************************************************)
(* The development-loop engine (internal/devloop/engine.go) with the       *)
(* processes it launches (developmentProcess, internal/cli/dev_command.go).*)
(*                                                                         *)
(* One goroutine, the loop, selects over file events, the debounce timer,  *)
(* finished preparations, finished replacements and the exit of the active *)
(* application.  Every accepted revision has one preparation goroutine     *)
(* and, when its candidate is good, one replacement goroutine; all of them *)
(* run concurrently and rendezvous with the loop on unbuffered channels.   *)
(*                                                                         *)
(* A revision names its candidate, its replacement and its process: each   *)
(* revision is prepared once, replaced in once and launched at most once.  *)
(* 0 stands for nil (no process, no cancel function, no previous).         *)
(*                                                                         *)
(* A definition directly above another of a similar name (StopReturnsEarly *)
(* above StopReturns, ...) is a seeded fault: the code with one mistake,   *)
(* used only to show that the properties notice it.                        *)
(***************************************************************************)
EXTENDS Integers

CONSTANTS
    MaxRevision,    \* bound on the number of batches the debouncer hands over
    AppMayExit,     \* the application may terminate without being asked to
    PrepareMayFail, \* analysis, generation or build may fail
    LaunchMayFail   \* command.Start may fail

ASSUME EngineAssumption ==
    /\ MaxRevision \in Nat \ {0}
    /\ AppMayExit \in BOOLEAN
    /\ PrepareMayFail \in BOOLEAN
    /\ LaunchMayFail \in BOOLEAN

Revisions == 1..MaxRevision
RevisionOrNil == 0..MaxRevision

VARIABLES
    \* engineState, owned by the loop goroutine
    loopPc,         \* where Run is: "loop", "discard", "discardWait", ...
    discarding,     \* the revision discardReplacement works on
    revision,       \* state.revision
    pending,        \* state.debouncer.Pending()
    cancels,        \* state.cancels: preparations with a cancel function
    replaceStop,    \* state.replaceStop: whose context it cancels
    active,         \* state.active, activeCandidate, activeRevision, activeWait
    \* contexts
    ctxDone,        \* the run context is cancelled
    prepCancelled,  \* preparations whose own context was cancelled
    replCancelled,  \* replacements whose own context was cancelled
    \* goroutines, one of each kind per revision
    prepPc,         \* the preparation and its result
    replPc,         \* program counter of replace
    replPrev,       \* replace's argument previous
    replErr,        \* result.err of replace
    \* what the goroutines own
    cand,           \* build artifacts
    proc,           \* application processes
    stopErr         \* process.stopErr, "unset" until stopOnce has run

engineVars == <<loopPc, discarding, revision, pending, cancels, replaceStop, active>>
ctxVars    == <<ctxDone, prepCancelled, replCancelled>>
replVars   == <<replPc, replPrev, replErr>>
procVars   == <<proc, stopErr>>
vars       == <<engineVars, ctxVars, prepPc, replVars, cand, procVars>>

LoopPcs == {"loop", "discard", "discardWait", "stopActive", "stopActiveWait", "returned"}
PrepPcs == {"none", "running", "ok", "failed", "canceled", "end"}
ReplPcs == {"none", "stopPrev", "stopPrevWait", "check", "start", "post",
            "stopNew", "stopNewWait", "deliver", "cleanup", "cleanupWait", "end"}

(***************************************************************************)
(* Exactly one value per Go variable; the sets are the values they take.   *)
(***************************************************************************)
TypeOK ==
    /\ loopPc \in LoopPcs
    /\ discarding \in RevisionOrNil
    /\ revision \in Revisions
    /\ pending \in BOOLEAN
    /\ cancels \in SUBSET Revisions
    /\ replaceStop \in RevisionOrNil
    /\ active \in RevisionOrNil
    /\ ctxDone \in BOOLEAN
    /\ prepCancelled \in SUBSET Revisions
    /\ replCancelled \in SUBSET Revisions
    /\ prepPc \in [Revisions -> PrepPcs]
    /\ replPc \in [Revisions -> ReplPcs]
    /\ replPrev \in [Revisions -> RevisionOrNil]
    /\ replErr \in [Revisions -> {"nil", "canceled", "failed"}]
    /\ cand \in [Revisions -> {"none", "live", "disposed"}]
    /\ proc \in [Revisions -> {"none", "running", "reaped", "done"}]
    /\ stopErr \in [Revisions -> {"unset", "nil", "error"}]

(***************************************************************************)
(* Run: the initial change starts revision 1 before the loop is entered.   *)
(***************************************************************************)
Init ==
    /\ loopPc = "loop"
    /\ discarding = 0
    /\ revision = 1
    /\ pending = FALSE
    /\ cancels = {1}
    /\ replaceStop = 0
    /\ active = 0
    /\ ctxDone = FALSE
    /\ prepCancelled = {}
    /\ replCancelled = {}
    /\ prepPc = [r \in Revisions |-> IF r = 1 THEN "running" ELSE "none"]
    /\ replPc = [r \in Revisions |-> "none"]
    /\ replPrev = [r \in Revisions |-> 0]
    /\ replErr = [r \in Revisions |-> "nil"]
    /\ cand = [r \in Revisions |-> "none"]
    /\ proc = [r \in Revisions |-> "none"]
    /\ stopErr = [r \in Revisions |-> "unset"]

-----------------------------------------------------------------------------
(* Contexts.                                                               *)

\* ctx.Err() # nil in the preparation of r.
PrepCtxDone(r) == ctxDone \/ r \in prepCancelled

\* ctx.Err() # nil in the replacement of r.
ReplCtxDone(r) == ctxDone \/ r \in replCancelled

\* state.replaceStop(), when it is not nil.
CallReplaceStop == replCancelled' = replCancelled \cup ({replaceStop} \ {0})

-----------------------------------------------------------------------------
(* The application process: developmentProcess and its wait goroutine.     *)

\* The part of Stop up to its second select: nothing when the process is
\* done, otherwise stopOnce interrupts the process group.  A process that
\* command.Wait has already reaped no longer exists and the signal fails.
StopCall(t) ==
    stopErr' = IF proc[t] = "done" \/ stopErr[t] # "unset"
               THEN stopErr
               ELSE [stopErr EXCEPT ![t] = IF proc[t] = "running" THEN "nil" ELSE "error"]

\* Stop's second select: it returns only when done is closed.
StopReturnsEarly(t) == stopErr[t] # "unset"
StopReturns(t) == proc[t] = "done"

\* What Stop may return once the process is done.  A graceful-stop timeout
\* is reported as a warning only, so it counts as nil, unless the kill at
\* the deadline fails because the process group is gone by then.
StopResults(t) == IF stopErr[t] = "error" THEN {"failed"} ELSE {"nil", "failed"}

\* The application terminates: by itself, because of the interrupt, or
\* because Stop killed it when its deadline passed.
ProcessExit(t) ==
    /\ proc[t] = "running"
    /\ AppMayExit \/ stopErr[t] = "nil"
    /\ proc' = [proc EXCEPT ![t] = "reaped"]
    /\ UNCHANGED <<engineVars, ctxVars, prepPc, replVars, cand, stopErr>>

\* developmentProcess.wait publishes the exit and closes done.
ProcessDone(t) ==
    /\ proc[t] = "reaped"
    /\ proc' = [proc EXCEPT ![t] = "done"]
    /\ UNCHANGED <<engineVars, ctxVars, prepPc, replVars, cand, stopErr>>

-----------------------------------------------------------------------------
(* The preparation goroutine.                                              *)

\* Pipeline.Prepare returns.  It honours cancellation but may also have
\* completed just before the cancellation reached it.
PrepareReturns(r) ==
    /\ prepPc[r] = "running"
    /\ \/ /\ prepPc' = [prepPc EXCEPT ![r] = "ok"]
          /\ cand' = [cand EXCEPT ![r] = "live"]
       \/ /\ PrepareMayFail
          /\ prepPc' = [prepPc EXCEPT ![r] = "failed"]
          /\ UNCHANGED cand
       \/ /\ PrepCtxDone(r)
          /\ prepPc' = [prepPc EXCEPT ![r] = "canceled"]
          /\ UNCHANGED cand
    /\ UNCHANGED <<engineVars, ctxVars, replVars, procVars>>

\* result.err = nil: the result carries a candidate.
Prepared(r) == prepPc[r] = "ok"

\* result.candidate.Dispose() on the result of a preparation.
DisposeResult(r) ==
    cand' = IF Prepared(r) THEN [cand EXCEPT ![r] = "disposed"] ELSE cand

\* prepare's select takes runCtx.Done() and disposes of the candidate.
PrepareAbandoned(r) ==
    /\ prepPc[r] \in {"ok", "failed", "canceled"}
    /\ ctxDone
    /\ prepPc' = [prepPc EXCEPT ![r] = "end"]
    /\ DisposeResult(r)
    /\ UNCHANGED <<engineVars, ctxVars, replVars, procVars>>

-----------------------------------------------------------------------------
(* The loop: file events, the debounce timer and finished preparations.    *)

\* acceptFileEvent: the change joins the burst and all work in flight is
\* told to stop.  The bound on revisions is the end of the edits.
AcceptFileEvent ==
    /\ loopPc = "loop"
    /\ revision < MaxRevision
    /\ pending' = TRUE
    /\ prepCancelled' = prepCancelled \cup cancels
    /\ cancels' = {}
    /\ CallReplaceStop
    /\ UNCHANGED <<loopPc, discarding, revision, replaceStop, active, ctxDone,
                   prepPc, replVars, cand, procVars>>

\* acceptPending and startPreparation: the deadline has passed and the burst
\* becomes the next revision.
AcceptPending ==
    /\ loopPc = "loop"
    /\ pending
    /\ pending' = FALSE
    /\ revision' = revision + 1
    /\ cancels' = cancels \cup {revision + 1}
    /\ prepPc' = [prepPc EXCEPT ![revision + 1] = "running"]
    /\ UNCHANGED <<loopPc, discarding, replaceStop, active, ctxVars, replVars,
                   cand, procVars>>

\* The test by which the loop recognises a result that a newer change has
\* overtaken.
Obsolete(r) == r # revision \/ pending

\* startReplacement: a previous replacement is cancelled and a goroutine is
\* started with the process that is active now.
StartReplacement(r) ==
    /\ CallReplaceStop
    /\ replaceStop' = r
    /\ replPrev' = [replPrev EXCEPT ![r] = active]
    /\ replPc' = [replPc EXCEPT ![r] = IF active = 0 THEN "check" ELSE "stopPrev"]

\* finishPreparation.  An obsolete candidate is disposed of, a failure keeps
\* the active process, a good candidate replaces it.
FinishPreparation(r) ==
    /\ loopPc = "loop"
    /\ prepPc[r] \in {"ok", "failed", "canceled"}
    /\ prepPc' = [prepPc EXCEPT ![r] = "end"]
    /\ cancels' = cancels \ {r}
    /\ prepCancelled' = IF r \in cancels THEN prepCancelled \cup {r} ELSE prepCancelled
    /\ \/ /\ Obsolete(r)
          /\ DisposeResult(r)
          /\ UNCHANGED <<replaceStop, replCancelled, replPc, replPrev>>
       \/ /\ ~Obsolete(r)
          /\ ~Prepared(r)
          /\ UNCHANGED <<cand, replaceStop, replCancelled, replPc, replPrev>>
       \/ /\ ~Obsolete(r)
          /\ Prepared(r)
          /\ StartReplacement(r)
          /\ UNCHANGED cand
    /\ UNCHANGED <<loopPc, discarding, revision, pending, active, ctxDone, replErr, procVars>>

-----------------------------------------------------------------------------
(* The replacement goroutine.                                              *)

\* previous.Stop is called; it returns at once when the process is done.
ReplaceStopPrevious(r) ==
    /\ replPc[r] = "stopPrev"
    /\ StopCall(replPrev[r])
    /\ replPc' = [replPc EXCEPT ![r] =
                    IF proc[replPrev[r]] = "done" THEN "check" ELSE "stopPrevWait"]
    /\ UNCHANGED <<engineVars, ctxVars, prepPc, replPrev, replErr, cand, proc>>

\* previous.Stop returns after the process has exited.
ReplaceStopped(r) ==
    /\ replPc[r] = "stopPrevWait"
    /\ StopReturns(replPrev[r])
    /\ \E e \in StopResults(replPrev[r]) : replErr' = [replErr EXCEPT ![r] = e]
    /\ replPc' = [replPc EXCEPT ![r] = "check"]
    /\ UNCHANGED <<engineVars, ctxVars, prepPc, replPrev, cand, procVars>>

\* result.err = ctx.Err() unless stopping has failed already.
ReplaceCheck(r) ==
    /\ replPc[r] = "check"
    /\ replErr' = IF replErr[r] = "nil" /\ ReplCtxDone(r)
                  THEN [replErr EXCEPT ![r] = "canceled"] ELSE replErr
    /\ replPc' = [replPc EXCEPT ![r] = IF replErr'[r] = "nil" THEN "start" ELSE "deliver"]
    /\ UNCHANGED <<engineVars, ctxVars, prepPc, replPrev, cand, procVars>>

\* launcher.Start: it checks the context once more, then starts the command.
ReplaceStart(r) ==
    /\ replPc[r] = "start"
    /\ \/ /\ ReplCtxDone(r)
          /\ replErr' = [replErr EXCEPT ![r] = "canceled"]
          /\ replPc' = [replPc EXCEPT ![r] = "deliver"]
          /\ UNCHANGED proc
       \/ /\ ~ReplCtxDone(r)
          /\ proc' = [proc EXCEPT ![r] = "running"]
          /\ replPc' = [replPc EXCEPT ![r] = "post"]
          /\ UNCHANGED replErr
       \/ /\ ~ReplCtxDone(r)
          /\ LaunchMayFail
          /\ replErr' = [replErr EXCEPT ![r] = "failed"]
          /\ replPc' = [replPc EXCEPT ![r] = "deliver"]
          /\ UNCHANGED proc
    /\ UNCHANGED <<engineVars, ctxVars, prepPc, replPrev, cand, stopErr>>

\* A process whose replacement was cancelled meanwhile is stopped again.
ReplacePost(r) ==
    /\ replPc[r] = "post"
    /\ replPc' = [replPc EXCEPT ![r] = IF ReplCtxDone(r) THEN "stopNew" ELSE "deliver"]
    /\ UNCHANGED <<engineVars, ctxVars, prepPc, replPrev, replErr, cand, procVars>>

ReplaceStopNew(r) ==
    /\ replPc[r] = "stopNew"
    /\ StopCall(r)
    /\ replPc' = [replPc EXCEPT ![r] = "stopNewWait"]
    /\ UNCHANGED <<engineVars, ctxVars, prepPc, replPrev, replErr, cand, proc>>

ReplaceStoppedNew(r) ==
    /\ replPc[r] = "stopNewWait"
    /\ StopReturns(r)
    /\ replErr' = [replErr EXCEPT ![r] = "canceled"]
    /\ replPc' = [replPc EXCEPT ![r] = "deliver"]
    /\ UNCHANGED <<engineVars, ctxVars, prepPc, replPrev, cand, procVars>>

\* result.process # nil: Start succeeded and the process was not stopped.
HasProcessIfCurrent(r) == replErr[r] = "nil" /\ ~Obsolete(r)
HasProcess(r) == replErr[r] = "nil"

\* replace's last select takes ctx.Done(): nobody is told of the result.
ReplaceAbandoned(r) ==
    /\ replPc[r] = "deliver"
    /\ ReplCtxDone(r)
    /\ IF HasProcess(r)
       THEN /\ StopCall(r)
            /\ replPc' = [replPc EXCEPT ![r] = "cleanupWait"]
       ELSE /\ replPc' = [replPc EXCEPT ![r] = "cleanup"]
            /\ UNCHANGED stopErr
    /\ UNCHANGED <<engineVars, ctxVars, prepPc, replPrev, replErr, cand, proc>>

ReplaceCleanupStopped(r) ==
    /\ replPc[r] = "cleanupWait"
    /\ StopReturns(r)
    /\ replPc' = [replPc EXCEPT ![r] = "cleanup"]
    /\ UNCHANGED <<engineVars, ctxVars, prepPc, replPrev, replErr, cand, procVars>>

ReplaceCleanup(r) ==
    /\ replPc[r] = "cleanup"
    /\ cand' = [cand EXCEPT ![r] = "disposed"]
    /\ replPc' = [replPc EXCEPT ![r] = "end"]
    /\ UNCHANGED <<engineVars, ctxVars, prepPc, replPrev, replErr, procVars>>

Replace(r) ==
    \/ ReplaceStopPrevious(r) \/ ReplaceStopped(r) \/ ReplaceCheck(r)
    \/ ReplaceStart(r) \/ ReplacePost(r) \/ ReplaceStopNew(r)
    \/ ReplaceStoppedNew(r) \/ ReplaceAbandoned(r)
    \/ ReplaceCleanupStopped(r) \/ ReplaceCleanup(r)

-----------------------------------------------------------------------------
(* The loop: finished replacements and the exit of the application.        *)

\* The active process is the one this replacement has stopped.
StoppedActive(r) == replPrev[r] # 0 /\ active = replPrev[r]

\* finishReplacement.  Whatever replaceStop holds is called and forgotten,
\* the stopped predecessor is released, and the result either becomes active
\* or is handed to discardReplacement.
FinishReplacement(r) ==
    /\ loopPc = "loop"
    /\ replPc[r] = "deliver"
    /\ replPc' = [replPc EXCEPT ![r] = "end"]
    /\ CallReplaceStop
    /\ replaceStop' = 0
    /\ cand' = IF StoppedActive(r) THEN [cand EXCEPT ![active] = "disposed"] ELSE cand
    /\ IF Obsolete(r) \/ replErr[r] # "nil"
       THEN /\ loopPc' = "discard"
            /\ discarding' = r
            /\ active' = IF StoppedActive(r) THEN 0 ELSE active
       ELSE /\ active' = r
            /\ UNCHANGED <<loopPc, discarding>>
    /\ UNCHANGED <<revision, pending, cancels, ctxDone, prepCancelled, prepPc,
                   replPrev, replErr, procVars>>

\* discardReplacement stops the process, if there is one, before it goes on.
\* The loop handles nothing else meanwhile.
DiscardWaitsOnly ==
    /\ loopPc = "discard"
    /\ HasProcess(discarding)
    /\ loopPc' = "discardWait"
    /\ UNCHANGED <<discarding, revision, pending, cancels, replaceStop, active,
                   ctxVars, prepPc, replVars, cand, procVars>>

DiscardStop ==
    /\ loopPc = "discard"
    /\ HasProcess(discarding)
    /\ StopCall(discarding)
    /\ loopPc' = "discardWait"
    /\ UNCHANGED <<discarding, revision, pending, cancels, replaceStop, active,
                   ctxVars, prepPc, replVars, cand, proc>>

DiscardRelease ==
    /\ \/ loopPc = "discard" /\ ~HasProcess(discarding)
       \/ loopPc = "discardWait" /\ StopReturns(discarding)
    /\ cand' = [cand EXCEPT ![discarding] = "disposed"]
    /\ loopPc' = "loop"
    /\ discarding' = 0
    /\ UNCHANGED <<revision, pending, cancels, replaceStop, active, ctxVars, prepPc,
                   replVars, procVars>>

\* finishApplication: activeWait has the exit of the active process.
FinishApplication ==
    /\ loopPc = "loop"
    /\ active # 0
    /\ proc[active] \in {"reaped", "done"}
    /\ cand' = [cand EXCEPT ![active] = "disposed"]
    /\ active' = 0
    /\ UNCHANGED <<loopPc, discarding, revision, pending, cancels, replaceStop,
                   ctxVars, prepPc, replVars, procVars>>

-----------------------------------------------------------------------------
(* Cancellation and the end of Run.                                        *)

\* The caller's context is cancelled (an interrupt of "spice dev").
CancelRun ==
    /\ loopPc # "returned"
    /\ ~ctxDone
    /\ ctxDone' = TRUE
    /\ UNCHANGED <<engineVars, prepCancelled, replCancelled, prepPc, replVars, cand, procVars>>

\* The loop returns, on ctx.Done() or because the watcher closed its event
\* channel; cancelRun and cancelWork follow.
LoopReturns ==
    /\ loopPc = "loop"
    /\ ctxDone' = TRUE
    /\ prepCancelled' = prepCancelled \cup cancels
    /\ cancels' = {}
    /\ CallReplaceStop
    /\ replaceStop' = 0
    /\ loopPc' = "stopActive"
    /\ UNCHANGED <<discarding, revision, pending, active, prepPc, replVars, cand, procVars>>

\* stopActive.
StopActiveSkipped ==
    /\ loopPc = "stopActive"
    /\ loopPc' = "returned"
    /\ UNCHANGED <<discarding, revision, pending, cancels, replaceStop, active,
                   ctxVars, prepPc, replVars, cand, procVars>>

StopActive ==
    /\ loopPc = "stopActive"
    /\ IF active = 0
       THEN /\ loopPc' = "returned"
            /\ UNCHANGED stopErr
       ELSE /\ StopCall(active)
            /\ loopPc' = "stopActiveWait"
    /\ UNCHANGED <<discarding, revision, pending, cancels, replaceStop, active,
                   ctxVars, prepPc, replVars, cand, proc>>

StoppedActiveAtEnd ==
    /\ loopPc = "stopActiveWait"
    /\ StopReturns(active)
    /\ cand' = [cand EXCEPT ![active] = "disposed"]
    /\ active' = 0
    /\ loopPc' = "returned"
    /\ UNCHANGED <<discarding, revision, pending, cancels, replaceStop, ctxVars,
                   prepPc, replVars, procVars>>

-----------------------------------------------------------------------------
LoopResult(r) == FinishPreparation(r) \/ FinishReplacement(r)

Next ==
    \/ AcceptFileEvent \/ AcceptPending \/ FinishApplication
    \/ DiscardStop \/ DiscardRelease
    \/ CancelRun \/ LoopReturns \/ StopActive \/ StoppedActiveAtEnd
    \/ \E r \in Revisions :
          \/ PrepareReturns(r) \/ PrepareAbandoned(r)
          \/ LoopResult(r) \/ Replace(r)
          \/ ProcessExit(r) \/ ProcessDone(r)

Spec == Init /\ [][Next]_vars

\* Run has not returned.  "spice dev" exits after it without waiting for the
\* goroutines Run leaves behind: from then on they may go on or be cut off.
Alive == loopPc # "returned"

(***************************************************************************)
(* Fairness.  While the program lives, every goroutine that can run is run *)
(* by the Go scheduler.  Prepare returns because it honours cancellation   *)
(* and its builds end; an interrupted process exits because Stop kills it  *)
(* at its deadline.  The loop's select takes a ready case; it takes        *)
(* ctx.Done() once the run is cancelled.  File events, self-inflicted      *)
(* exits and the cancellation itself come from outside and are not         *)
(* promised, and nothing is promised once Run has returned.                *)
(***************************************************************************)
Fairness ==
    /\ WF_vars(AcceptPending) /\ WF_vars(FinishApplication)
    /\ WF_vars(DiscardStop) /\ WF_vars(DiscardRelease)
    /\ WF_vars(ctxDone /\ LoopReturns)
    /\ WF_vars(StopActive) /\ WF_vars(StoppedActiveAtEnd)
    /\ \A r \in Revisions :
          /\ WF_vars(Alive /\ PrepareReturns(r)) /\ WF_vars(Alive /\ PrepareAbandoned(r))
          /\ WF_vars(LoopResult(r)) /\ WF_vars(Alive /\ Replace(r))
          /\ WF_vars(Alive /\ stopErr[r] = "nil" /\ ProcessExit(r))
          /\ WF_vars(Alive /\ ProcessDone(r))

FairSpec == Spec /\ Fairness

-----------------------------------------------------------------------------
(* Properties.                                                             *)

\* replace(r) is between launching its process and giving the result away.
ReplOwnsProcess(r) ==
    replPc[r] \in {"post", "stopNew", "stopNewWait", "deliver", "cleanupWait"}

\* discardReplacement is working on r.
Discarding(r) == loopPc \in {"discard", "discardWait"} /\ discarding = r

\* No running application is forgotten: it is the active one, or the
\* goroutine that launched it or discardReplacement still has it in hand.
\* Results that are cancelled, overtaken or not delivered must not lose it.
ProcessOwned ==
    \A r \in Revisions :
        proc[r] = "running" => active = r \/ ReplOwnsProcess(r) \/ Discarding(r)

\* The executable of a running application is never removed: every Dispose
\* (finishReplacement, finishApplication, discardReplacement, replace's
\* cleanup, stopActive) comes after the exit of the process it belongs to.
RunningArtifactKept ==
    \A r \in Revisions : proc[r] = "running" => cand[r] = "live"

\* No build artifact is leaked: an artifact on disk belongs to a goroutine
\* that will dispose of it, to discardReplacement, or to the active process.
CandidateOwned ==
    \A r \in Revisions :
        cand[r] = "live" =>
            \/ prepPc[r] = "ok"
            \/ replPc[r] \notin {"none", "end"}
            \/ Discarding(r)
            \/ active = r

\* The last known good process survives failed preparations: the active
\* process is asked to stop only when a later revision was built
\* successfully, or when Run ends.
LastKnownGoodKept ==
    \A r \in Revisions :
        active = r /\ stopErr[r] # "unset" =>
            \/ loopPc \in {"stopActiveWait", "returned"}
            \/ \E s \in Revisions : s > r /\ cand[s] # "none"

\* A replacement launches its application only after the active one, of an
\* older revision, has exited completely.
LaunchAfterStop ==
    \A s \in Revisions :
        active # 0 /\ s > active /\ proc[s] # "none" => proc[active] = "done"

\* Nothing the engine launched or built is lost: every running application and every artifact on
\* disk has somebody who will end or remove it, however results are cancelled, overtaken or refused.
NothingLost == ProcessOwned /\ CandidateOwned

\* Replacing an application is safe: its executable stays while it runs, it is asked to stop only
\* for a later revision that was built or at the end of Run, and its successor waits for its exit.
HandoverIsSafe == RunningArtifactKept /\ LastKnownGoodKept /\ LaunchAfterStop

\* Every accepted change is worked off: a preparation that was started is
\* eventually consumed and so is the replacement that follows from it, in
\* spite of cancelled contexts and rendezvous with a busy loop, unless Run
\* returns first.
WorkSettles ==
    \A r \in Revisions :
        prepPc[r] = "running" ~>
            \/ prepPc[r] = "end" /\ replPc[r] \in {"none", "end"}
            \/ loopPc = "returned"

\* A goroutine that Run does not wait for still has r in hand.
UnderWay(r) == prepPc[r] = "ok" \/ replPc[r] \notin {"none", "end"}

\* After cancellation Run returns, and not before it has stopped the active
\* application and removed its artifact: an application or an artifact that
\* is left then belongs to a preparation or a replacement that was under way,
\* which Run cancels and does not wait for (engine.go: cancelWork, stopActive).
ShutdownSettles ==
    ctxDone ~> /\ loopPc = "returned"
               /\ \A r \in Revisions :
                     proc[r] = "running" \/ cand[r] = "live" => UnderWay(r)

\* What the documentation of EventCandidateDiscarded promises: a candidate
\* that is discarded although nothing failed is obsolete (or the run ends).
DiscardedIsObsolete ==
    loopPc = "discard" /\ replErr[discarding] # "failed" =>
        Obsolete(discarding) \/ ctxDone

=============================================================================

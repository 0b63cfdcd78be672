----------------------------- MODULE DevPipeline -----------------------------
(***************************************************************************)
(* What a preparation of the development loop does: developmentPipeline    *)
(* .Prepare (internal/cli/dev_command.go) with its generation cache        *)
(* (dev_incremental.go), fed by the batches of DevWatch and consumed by    *)
(* the engine of DevEngine, of which only the parts that decide what is    *)
(* built and what is accepted are repeated here.                           *)
(*                                                                         *)
(* A source is a pair of numbers, its structure (what StructuralFingerprint*)
(* hashes) and its body; an edit gives one of them a value it never had.   *)
(* Only the structures determine the application model, so a plan is the   *)
(* structures that the analysis read.  Inputs in OtherFiles are never      *)
(* reused: files that are not Go, and files created or removed.            *)
(*                                                                         *)
(* Preparations of several revisions run at once: a cancelled one goes on  *)
(* until it looks at its context, and genfs.Apply never does.              *)
(*                                                                         *)
(* A definition directly above another of a similar name is a seeded       *)
(* fault: the code with one mistake, used only to show that the            *)
(* properties notice it.                                                   *)
(***************************************************************************)
EXTENDS Integers, FiniteSets

CONSTANTS
    GoFiles,        \* Go sources that exist throughout
    OtherFiles,     \* other inputs of the model
    MaxEdits,       \* bound on edits
    Failures        \* analyses, applications of plans and builds may fail

Files == GoFiles \cup OtherFiles
MaxRevision == MaxEdits + 1
Revisions == 1..MaxRevision
Generating == {"check", "analyze", "apply", "applying", "remember"}
Working == Generating \cup {"build", "building", "built", "failed"}

ASSUME PipelineAssumption ==
    /\ MaxEdits \in Nat /\ Failures \in BOOLEAN

VARIABLES
    disk,           \* the sources
    edits,          \* edits so far
    unnoticed,      \* files edited since the watcher last saw them
    pending,        \* files in the debouncer's burst
    revision,       \* state.revision of the engine
    prep,           \* the preparation of each revision
    cache,          \* cachedPlan and cachedStructures, or NoCache
    generated,      \* the plan whose files are in the workspace
    lock,           \* the revision that holds the lock of genfs, or 0
    app,            \* what the accepted executable was built from
    undisturbed     \* history: no step has failed, and no change has arrived during generation

sourceVars == <<disk, edits, unnoticed>>
vars == <<sourceVars, pending, revision, prep, cache, generated, lock, app, undisturbed>>

Structures == [f \in Files |-> disk[f].structure]
NoPlan == [f \in Files |-> -1]
NoCache == [plan |-> NoPlan, structures |-> NoPlan]
NoBuild == [sources |-> [f \in Files |-> [structure |-> -1, body |-> -1]], generated |-> NoPlan]
Unused == [pc |-> "none", batch |-> {}, cancelled |-> FALSE, plan |-> NoPlan, built |-> NoBuild]

\* Run starts the first preparation before the loop.
Init ==
    /\ disk = [f \in Files |-> [structure |-> 0, body |-> 0]]
    /\ edits = 0
    /\ unnoticed = {} /\ pending = {}
    /\ revision = 1
    /\ prep = [r \in Revisions |-> IF r = 1 THEN [Unused EXCEPT !.pc = "check", !.batch = Files] ELSE Unused]
    /\ cache = NoCache
    /\ generated = NoPlan
    /\ lock = 0
    /\ app = NoBuild
    /\ undisturbed = TRUE

-----------------------------------------------------------------------------
(* The user and the watcher.                                               *)

Disturb == undisturbed' = (undisturbed /\ \A r \in Revisions : prep[r].pc \notin Generating)

Edit(f, part) ==
    /\ edits < MaxEdits
    /\ f \in OtherFiles => part = "structure"
    /\ disk' = [disk EXCEPT ![f][part] = edits + 1]
    /\ edits' = edits + 1
    /\ unnoticed' = unnoticed \cup {f}
    /\ Disturb
    /\ UNCHANGED <<pending, revision, prep, cache, generated, lock, app>>

\* acceptFileEvent: every preparation in progress is cancelled.
Notice(f) ==
    /\ f \in unnoticed
    /\ unnoticed' = unnoticed \ {f}
    /\ pending' = pending \cup {f}
    /\ prep' = [r \in Revisions |-> [prep[r] EXCEPT !.cancelled = @ \/ prep[r].pc \in Working]]
    /\ Disturb
    /\ UNCHANGED <<disk, edits, revision, cache, generated, lock, app>>

\* Seeded fault: the new preparation runs under the context of the cancelled one.
AcceptPendingCancelled ==
    /\ pending # {} /\ revision < MaxRevision
    /\ revision' = revision + 1
    /\ prep' = [prep EXCEPT ![revision + 1] =
                  [Unused EXCEPT !.pc = "check", !.batch = pending, !.cancelled = TRUE]]
    /\ pending' = {}
    /\ UNCHANGED <<sourceVars, cache, generated, lock, app, undisturbed>>

\* acceptPending and startPreparation.
AcceptPending ==
    /\ pending # {} /\ revision < MaxRevision
    /\ revision' = revision + 1
    /\ prep' = [prep EXCEPT ![revision + 1] = [Unused EXCEPT !.pc = "check", !.batch = pending]]
    /\ pending' = {}
    /\ UNCHANGED <<sourceVars, cache, generated, lock, app, undisturbed>>

-----------------------------------------------------------------------------
(* developmentPipeline.Prepare of revision r.                              *)

At(r, pc) == prep[r].pc = pc
Goto(r, pc) == prep' = [prep EXCEPT ![r].pc = pc]
Ends(r, pc) == prep' = [prep EXCEPT ![r] = [Unused EXCEPT !.pc = pc]]

\* Seeded fault: the kind of the change and the extension are not looked at.
ReusableAnyKind(r) ==
    /\ cache # NoCache
    /\ \A f \in prep[r].batch \cap GoFiles : cache.structures[f] = disk[f].structure

\* Only the files of the batch are compared with the cached structures.
Reusable(r) ==
    /\ cache # NoCache
    /\ \A f \in prep[r].batch : f \in GoFiles /\ cache.structures[f] = disk[f].structure

\* reusableGeneration: a reused plan is not applied again; only its target is used by the build.
CheckReuse(r) ==
    /\ At(r, "check")
    /\ prep' = [prep EXCEPT ![r].pc = IF Reusable(r) THEN "build" ELSE "analyze", ![r].batch = {}]
    /\ UNCHANGED <<sourceVars, pending, revision, cache, generated, lock, app, undisturbed>>

\* prepareGenerationAnalysis: the service loads the sources and plans the generation.
Analyze(r) ==
    /\ At(r, "analyze") /\ ~prep[r].cancelled
    /\ prep' = [prep EXCEPT ![r].pc = "apply", ![r].plan = Structures]
    /\ UNCHANGED <<sourceVars, pending, revision, cache, generated, lock, app, undisturbed>>

\* genfs.Apply takes the lock of the target and is not interrupted.
BeginApply(r) ==
    /\ At(r, "apply") /\ lock = 0
    /\ lock' = r
    /\ Goto(r, "applying")
    /\ UNCHANGED <<sourceVars, pending, revision, cache, generated, app, undisturbed>>

\* A lock that another preparation holds is an error, not a wait.
ApplyLocked(r) ==
    /\ At(r, "apply") /\ lock # 0
    /\ Goto(r, "failed")
    /\ UNCHANGED <<sourceVars, pending, revision, cache, generated, lock, app, undisturbed>>

EndApply(r) ==
    /\ At(r, "applying")
    /\ generated' = prep[r].plan
    /\ lock' = 0
    /\ Goto(r, "remember")
    /\ UNCHANGED <<sourceVars, pending, revision, cache, app, undisturbed>>

\* A rolled back application leaves the files of the previous plan.
ApplyFails(r) ==
    /\ Failures /\ At(r, "applying")
    /\ lock' = 0
    /\ Goto(r, "failed")
    /\ undisturbed' = FALSE
    /\ UNCHANGED <<sourceVars, pending, revision, cache, generated, app>>

\* rememberGeneration reads the structures again: they are those of now, not of the analysis.
Remember(r) ==
    /\ At(r, "remember") /\ ~prep[r].cancelled
    /\ cache' = [plan |-> prep[r].plan, structures |-> Structures]
    /\ Goto(r, "build")
    /\ UNCHANGED <<sourceVars, pending, revision, generated, lock, app, undisturbed>>

\* The go command reads the workspace while the files may change: each file is read between the
\* beginning and the end of the build.
BeginBuild(r) ==
    /\ At(r, "build") /\ ~prep[r].cancelled
    /\ prep' = [prep EXCEPT ![r].pc = "building", ![r].built = [sources |-> disk, generated |-> generated]]
    /\ UNCHANGED <<sourceVars, pending, revision, cache, generated, lock, app, undisturbed>>

EndBuild(r) ==
    LET before == prep[r].built
    IN  /\ At(r, "building") /\ ~prep[r].cancelled
        /\ \E late \in SUBSET {f \in Files : before.sources[f] # disk[f]}, g \in {before.generated, generated} :
             prep' = [prep EXCEPT ![r].pc = "built", ![r].built =
                        [sources |-> [f \in Files |-> IF f \in late THEN disk[f] ELSE before.sources[f]],
                         generated |-> g]]
        /\ UNCHANGED <<sourceVars, pending, revision, cache, generated, lock, app, undisturbed>>

\* The steps that look at the context, and the ones that fail by themselves.
Fail(r) ==
    /\ \E pc \in {"analyze", "remember", "build", "building"} : At(r, pc)
    /\ Failures \/ prep[r].cancelled
    /\ Goto(r, "failed")
    /\ undisturbed' = (undisturbed /\ prep[r].cancelled)
    /\ UNCHANGED <<sourceVars, pending, revision, cache, generated, lock, app>>

-----------------------------------------------------------------------------
(* finishPreparation of the engine.                                        *)

Current(r) == r = revision /\ pending = {}

Accept(r) ==
    /\ At(r, "built") /\ Current(r)
    /\ app' = prep[r].built
    /\ Ends(r, "accepted")
    /\ UNCHANGED <<sourceVars, pending, revision, cache, generated, lock, undisturbed>>

\* The result was overtaken, or its error is context.Canceled: nothing is said of a failure.
Discard(r) ==
    /\ \/ At(r, "failed") /\ (~Current(r) \/ prep[r].cancelled)
       \/ At(r, "built") /\ ~Current(r)
    /\ Ends(r, "discarded")
    /\ UNCHANGED <<sourceVars, pending, revision, cache, generated, lock, app, undisturbed>>

\* EventPreparationFailed: the newest revision failed; what runs is kept until the next edit.
Report(r) ==
    /\ At(r, "failed") /\ Current(r) /\ ~prep[r].cancelled
    /\ Ends(r, "reported")
    /\ UNCHANGED <<sourceVars, pending, revision, cache, generated, lock, app, undisturbed>>

-----------------------------------------------------------------------------
Prepare(r) ==
    \/ CheckReuse(r) \/ Analyze(r) \/ BeginApply(r) \/ ApplyLocked(r) \/ EndApply(r)
    \/ Remember(r) \/ BeginBuild(r) \/ EndBuild(r)
Finish(r) == Accept(r) \/ Discard(r) \/ Report(r)

\* Nothing is left to do until the next edit.
Quiet == unnoticed = {} /\ pending = {} /\ \A r \in Revisions : prep[r].pc \notin Working
Idle == Quiet /\ UNCHANGED vars

Next ==
    \/ \E f \in Files, part \in {"structure", "body"} : Edit(f, part)
    \/ \E f \in Files : Notice(f)
    \/ AcceptPending
    \/ \E r \in Revisions : Prepare(r) \/ ApplyFails(r) \/ Fail(r) \/ Finish(r)
    \/ Idle

\* The watcher, the debounce timer and the goroutines of preparations run.
Fairness ==
    /\ \A f \in Files : WF_vars(Notice(f))
    /\ WF_vars(AcceptPending)
    /\ \A r \in Revisions : WF_vars(Prepare(r) \/ Fail(r) \/ Finish(r))

Spec == Init /\ [][Next]_vars /\ Fairness

-----------------------------------------------------------------------------
(* Properties.                                                             *)

\* The last preparation was accepted and nothing has changed since.
Served == Quiet /\ At(revision, "accepted")

\* The executable accepted last is built from the sources as they are: a candidate that was built
\* while a source changed is never the last one accepted.  As long as no change arrives between
\* the reuse check and the snapshot of a preparation, and no step fails, it is built with the code
\* generated for these sources too: reuse of a plan conceals no structural change (the comment of
\* StructuralFingerprint promises it without these conditions).
ServedIsCurrent ==
    Served => app.sources = disk /\ (undisturbed => app.generated = Structures)

\* Once the edits stop, everything comes to rest with the newest revision accepted or its failure
\* reported: no order of cancellations, lost locks and overtaken results drops it silently.  (How
\* the engine then hands over to an accepted candidate is the subject of DevEngine.)
EventuallyAnswered == <>[](Quiet /\ prep[revision].pc \in {"accepted", "reported"})
==============================================================================

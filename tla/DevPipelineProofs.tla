--------------------------- MODULE DevPipelineProofs ---------------------------
(***************************************************************************)
(* Proofs about the preparation pipeline: what the development loop serves *)
(* is current, for any files, any number of edits and of overlapping       *)
(* preparations, and whether or not steps fail.                            *)
(*                                                                         *)
(* A source that changed after it was last noticed is in unnoticed, and a  *)
(* noticed one is in pending until a new revision takes it in its batch.   *)
(* The invariant says that nothing else differs from what was built, and,  *)
(* as long as nothing disturbed a generation, from what was generated.     *)
(***************************************************************************)
EXTENDS DevPipeline, TLAPS

Source == [structure : Int, body : Int]
Plan == [Files -> Int]
Build == [sources : [Files -> Source], generated : Plan]
Preparation ==
    [pc : Working \cup {"none", "accepted", "discarded", "reported"}, batch : SUBSET Files,
     cancelled : BOOLEAN, plan : Plan, built : Build]

PipelineTypeOK ==
    /\ disk \in [Files -> Source] /\ edits \in Nat
    /\ unnoticed \in SUBSET Files /\ pending \in SUBSET Files
    /\ revision \in Revisions
    /\ prep \in [Revisions -> Preparation]
    /\ cache \in [plan : Plan, structures : Plan]
    /\ generated \in Plan
    /\ lock \in Revisions \cup {0}
    /\ app \in Build
    /\ undisturbed \in BOOLEAN

\* Revisions above the current one are unused, and a batch is consumed by the reuse check.
BatchInv ==
    \A r \in Revisions :
        /\ r > revision => prep[r].pc = "none"
        /\ prep[r].pc # "check" => prep[r].batch = {}

\* The holder of the lock is applying its plan.
LockInv == lock # 0 => prep[lock].pc = "applying"

\* Without a disturbance only the current revision generates, and it generates for the sources
\* as they are.
GenerationInv ==
    undisturbed =>
        \A r \in Revisions : prep[r].pc \in Generating =>
            /\ r = revision /\ pending = {} /\ ~prep[r].cancelled
            /\ prep[r].pc \in {"apply", "applying", "remember"} => prep[r].plan = Structures
            /\ prep[r].pc = "remember" => generated = Structures

\* Files that are not on their way into a preparation.
Settled == Files \ (unnoticed \cup pending \cup prep[revision].batch)

\* The workspace and the cache are being replaced.
Rewriting == {"analyze", "apply", "applying", "remember"}

\* Without a disturbance, and between two generations, the cache describes the workspace, and the
\* workspace is the one generated for every file that is settled.
CacheInv ==
    undisturbed /\ prep[revision].pc \notin Rewriting =>
        /\ cache.structures = generated
        /\ \A f \in Settled : generated[f] = disk[f].structure

\* The build b was made from f as it is.
MadeFrom(b, f) ==
    /\ b.sources[f] = disk[f]
    /\ undisturbed => b.generated[f] = disk[f].structure

\* What the current revision builds, has built and has started differs from the sources only in
\* changes that nobody has noticed.
BuildInv ==
    pending = {} => \A f \in Files \ unnoticed :
        /\ prep[revision].pc \in {"building", "built"} => MadeFrom(prep[revision].built, f)
        /\ prep[revision].pc = "accepted" => MadeFrom(app, f)

PipelineInv == PipelineTypeOK /\ BatchInv /\ LockInv /\ GenerationInv /\ CacheInv /\ BuildInv

-----------------------------------------------------------------------------
USE PipelineAssumption

\* Only the preparation of revision r changes; the sources, the batches and the revision stay.
PrepStep(r, pc, plan, built) ==
    /\ prep' \in [Revisions -> Preparation]
    /\ \A q \in Revisions : q # r => prep'[q] = prep[q]
    /\ prep'[r].pc = pc /\ prep'[r].batch = {}
    /\ prep'[r].plan = plan /\ prep'[r].built = built
    /\ prep[r].pc \in Working
    /\ UNCHANGED <<disk, edits, unnoticed, pending, revision>>

\* The constants of the model have their types.
LEMMA ConstantTypes ==
  /\ MaxRevision \in Nat /\ 1 \in Revisions /\ 0 \notin Revisions
  /\ \A r \in Revisions : r \in Nat
  /\ NoPlan \in Plan /\ NoBuild \in Build /\ Unused \in Preparation
  <1>1. /\ MaxRevision \in Nat /\ 1 \in Revisions /\ 0 \notin Revisions
        /\ \A r \in Revisions : r \in Nat
    BY DEF MaxRevision, Revisions
  <1>2. NoPlan \in Plan
    BY DEF NoPlan, Plan
  <1>3. NoBuild \in Build
    BY <1>2 DEF NoBuild, Build, Source
  <1>4. Unused \in Preparation
    BY <1>2, <1>3 DEF Unused, Preparation
  <1> QED BY <1>1, <1>2, <1>3, <1>4

\* The structures of the sources are a plan.
LEMMA StructuresArePlan ==
  ASSUME PipelineTypeOK
  PROVE  Structures \in Plan
  BY DEF PipelineTypeOK, Structures, Plan, Source

\* A batch that was consumed stays so.
LEMMA Consumed ==
  ASSUME BatchInv, NEW r \in Revisions, prep[r].pc # "check"
  PROVE  prep[r].batch = {}
  BY DEF BatchInv

-----------------------------------------------------------------------------
(* What the steps of a preparation do.                                     *)

LEMMA CheckReuseEffect ==
  ASSUME PipelineTypeOK, NEW r \in Revisions, CheckReuse(r)
  PROVE  /\ PrepStep(r, IF Reusable(r) THEN "build" ELSE "analyze", prep[r].plan, prep[r].built)
         /\ prep'[r].cancelled = prep[r].cancelled
         /\ prep[r].pc = "check"
         /\ UNCHANGED <<cache, generated, lock, app, undisturbed>>
  <1> DEFINE pc == IF Reusable(r) THEN "build" ELSE "analyze"
  <1>1. pc \in Working /\ "check" \in Working
    BY DEF Working, Generating
  <1>2. /\ prep[r].pc = "check"
        /\ UNCHANGED <<disk, edits, unnoticed, pending, revision, cache, generated, lock, app, undisturbed>>
        /\ prep' = [prep EXCEPT ![r].pc = pc, ![r].batch = {}]
    BY DEF CheckReuse, At, sourceVars
  <1>3. prep \in [Revisions -> Preparation]
    BY DEF PipelineTypeOK
  <1> HIDE DEF pc
  <1>4. /\ prep' \in [Revisions -> Preparation]
        /\ \A q \in Revisions : q # r => prep'[q] = prep[q]
        /\ prep'[r].pc = pc /\ prep'[r].batch = {} /\ prep'[r].cancelled = prep[r].cancelled
        /\ prep'[r].plan = prep[r].plan /\ prep'[r].built = prep[r].built
    BY <1>1, <1>2, <1>3 DEF Preparation
  <1> QED BY <1>1, <1>2, <1>4 DEF PrepStep, pc

\* A step that only moves on.
LEMMA GotoEffect ==
  ASSUME PipelineTypeOK, BatchInv, NEW r \in Revisions, NEW pc \in Working, Goto(r, pc),
         prep[r].pc \in Working \ {"check"}, UNCHANGED <<sourceVars, pending, revision>>
  PROVE  /\ PrepStep(r, pc, prep[r].plan, prep[r].built)
         /\ prep'[r].cancelled = prep[r].cancelled
  <1>1. prep \in [Revisions -> Preparation] /\ prep' = [prep EXCEPT ![r].pc = pc]
    BY DEF PipelineTypeOK, Goto
  <1>2. /\ prep' \in [Revisions -> Preparation]
        /\ \A q \in Revisions : q # r => prep'[q] = prep[q]
        /\ prep'[r].pc = pc /\ prep'[r].batch = prep[r].batch /\ prep'[r].cancelled = prep[r].cancelled
        /\ prep'[r].plan = prep[r].plan /\ prep'[r].built = prep[r].built
    BY <1>1 DEF Preparation
  <1> QED BY <1>2, Consumed DEF PrepStep, sourceVars

LEMMA AnalyzeEffect ==
  ASSUME PipelineTypeOK, BatchInv, NEW r \in Revisions, Analyze(r)
  PROVE  /\ PrepStep(r, "apply", Structures, prep[r].built)
         /\ prep'[r].cancelled = prep[r].cancelled
         /\ prep[r].pc = "analyze"
         /\ UNCHANGED <<cache, generated, lock, app, undisturbed>>
  <1>1. /\ prep[r].pc = "analyze" /\ prep' = [prep EXCEPT ![r].pc = "apply", ![r].plan = Structures]
        /\ UNCHANGED <<disk, edits, unnoticed, pending, revision, cache, generated, lock, app, undisturbed>>
    BY DEF Analyze, At, sourceVars
  <1>2. "analyze" \in Working /\ "apply" \in Working
    BY DEF Working, Generating
  <1>3. prep \in [Revisions -> Preparation] /\ Structures \in Plan
    BY StructuresArePlan DEF PipelineTypeOK
  <1>4. /\ prep' \in [Revisions -> Preparation]
        /\ \A q \in Revisions : q # r => prep'[q] = prep[q]
        /\ prep'[r].pc = "apply" /\ prep'[r].batch = prep[r].batch /\ prep'[r].cancelled = prep[r].cancelled
        /\ prep'[r].plan = Structures /\ prep'[r].built = prep[r].built
    BY <1>1, <1>2, <1>3 DEF Preparation
  <1> QED BY <1>1, <1>2, <1>4, Consumed DEF PrepStep

\* Both steps of a build.
LEMMA BuildEffect ==
  ASSUME PipelineTypeOK, BatchInv, NEW r \in Revisions, NEW pc \in Working, NEW b \in Build,
         prep[r].pc \in {"build", "building"}, prep' = [prep EXCEPT ![r].pc = pc, ![r].built = b],
         UNCHANGED <<sourceVars, pending, revision>>
  PROVE  /\ PrepStep(r, pc, prep[r].plan, b)
         /\ prep'[r].cancelled = prep[r].cancelled
  <1>1. prep \in [Revisions -> Preparation]
    BY DEF PipelineTypeOK
  <1>2. /\ prep' \in [Revisions -> Preparation]
        /\ \A q \in Revisions : q # r => prep'[q] = prep[q]
        /\ prep'[r].pc = pc /\ prep'[r].batch = prep[r].batch /\ prep'[r].cancelled = prep[r].cancelled
        /\ prep'[r].plan = prep[r].plan /\ prep'[r].built = b
    BY <1>1 DEF Preparation
  <1>3. prep[r].pc \in Working /\ prep[r].pc # "check"
    BY DEF Working
  <1> QED BY <1>2, <1>3, Consumed DEF PrepStep, sourceVars

LEMMA BeginBuildEffect ==
  ASSUME PipelineTypeOK, BatchInv, NEW r \in Revisions, BeginBuild(r)
  PROVE  /\ PrepStep(r, "building", prep[r].plan, [sources |-> disk, generated |-> generated])
         /\ prep'[r].cancelled = prep[r].cancelled
         /\ prep[r].pc = "build"
         /\ UNCHANGED <<cache, generated, lock, app, undisturbed>>
  <1> DEFINE b == [sources |-> disk, generated |-> generated]
  <1>1. /\ prep[r].pc = "build" /\ prep' = [prep EXCEPT ![r].pc = "building", ![r].built = b]
        /\ UNCHANGED <<sourceVars, pending, revision, cache, generated, lock, app, undisturbed>>
    BY DEF BeginBuild, At
  <1>2. b \in Build /\ "building" \in Working
    BY DEF PipelineTypeOK, Build, Working
  <1> HIDE DEF b
  <1>3. PrepStep(r, "building", prep[r].plan, b) /\ prep'[r].cancelled = prep[r].cancelled
    BY <1>1, <1>2, BuildEffect
  <1> QED BY <1>1, <1>3 DEF b

LEMMA EndBuildEffect ==
  ASSUME PipelineTypeOK, BatchInv, NEW r \in Revisions, EndBuild(r)
  PROVE  /\ \E b \in Build :
              /\ PrepStep(r, "built", prep[r].plan, b)
              /\ \A f \in Files : b.sources[f] = disk[f] \/ b.sources[f] = prep[r].built.sources[f]
              /\ b.generated = prep[r].built.generated \/ b.generated = generated
         /\ prep'[r].cancelled = prep[r].cancelled
         /\ prep[r].pc = "building"
         /\ UNCHANGED <<cache, generated, lock, app, undisturbed>>
  <1> DEFINE before == prep[r].built
  <1>1. PICK late \in SUBSET {f \in Files : before.sources[f] # disk[f]}, g \in {before.generated, generated} :
             prep' = [prep EXCEPT ![r].pc = "built", ![r].built =
                        [sources |-> [f \in Files |-> IF f \in late THEN disk[f] ELSE before.sources[f]],
                         generated |-> g]]
    BY DEF EndBuild
  <1>2. /\ prep[r].pc = "building"
        /\ UNCHANGED <<sourceVars, pending, revision, cache, generated, lock, app, undisturbed>>
    BY DEF EndBuild, At
  <1> DEFINE sources == [f \in Files |-> IF f \in late THEN disk[f] ELSE before.sources[f]]
             b == [sources |-> sources, generated |-> g]
  <1>3. before \in Build /\ disk \in [Files -> Source] /\ generated \in Plan
    <2>1. prep[r] \in Preparation
      BY DEF PipelineTypeOK
    <2> QED BY <2>1 DEF PipelineTypeOK, Preparation
  <1>4. before.sources \in [Files -> Source] /\ before.generated \in Plan
    BY <1>3 DEF Build
  <1>5. /\ sources \in [Files -> Source] /\ g \in Plan
        /\ \A f \in Files : sources[f] = disk[f] \/ sources[f] = before.sources[f]
    BY <1>3, <1>4
  <1> HIDE DEF sources
  <1>6. b \in Build /\ "built" \in Working /\ b.sources = sources /\ b.generated = g
    BY <1>5 DEF Build, Working
  <1>7. prep' = [prep EXCEPT ![r].pc = "built", ![r].built = b]
    BY <1>1 DEF sources
  <1> HIDE DEF b
  <1>8. PrepStep(r, "built", prep[r].plan, b) /\ prep'[r].cancelled = prep[r].cancelled
    BY <1>2, <1>6, <1>7, BuildEffect
  <1> QED BY <1>2, <1>5, <1>6, <1>8

\* The end of a preparation.
LEMMA FinishEffect ==
  ASSUME PipelineTypeOK, NEW r \in Revisions, NEW pc \in {"accepted", "discarded", "reported"}, Ends(r, pc),
         prep[r].pc \in Working, UNCHANGED <<sourceVars, pending, revision>>
  PROVE  PrepStep(r, pc, NoPlan, NoBuild)
  <1> DEFINE new == [Unused EXCEPT !.pc = pc]
  <1>1. prep \in [Revisions -> Preparation] /\ prep' = [prep EXCEPT ![r] = new]
    BY DEF PipelineTypeOK, Ends
  <1>2. /\ new \in Preparation
        /\ new.pc = pc /\ new.batch = {} /\ new.plan = NoPlan /\ new.built = NoBuild
    BY ConstantTypes DEF Unused, Preparation
  <1> HIDE DEF new
  <1> QED BY <1>1, <1>2 DEF PrepStep, sourceVars

-----------------------------------------------------------------------------
(* What such a step keeps.                                                 *)

\* A step of a preparation takes its batch, if it has one, and belongs to a revision that started.
LEMMA BatchStep ==
  ASSUME PipelineTypeOK, BatchInv, NEW r \in Revisions, NEW pc, NEW plan, NEW built,
         PrepStep(r, pc, plan, built)
  PROVE  BatchInv'
  <1>1. ~(r > revision)
    BY DEF PrepStep, BatchInv, Working, Generating
  <1> QED BY <1>1 DEF PrepStep, BatchInv

\* A step that leaves the lock alone is not one of its holder.
LEMMA LockStep ==
  ASSUME PipelineTypeOK, LockInv, NEW r \in Revisions, NEW pc, NEW plan, NEW built,
         PrepStep(r, pc, plan, built), prep[r].pc # "applying", lock' = lock
  PROVE  LockInv'
  BY DEF PrepStep, LockInv, PipelineTypeOK

\* A generation that goes on is that of the current revision.
LEMMA GenerationStep ==
  ASSUME PipelineTypeOK, GenerationInv, NEW r \in Revisions, NEW pc, NEW plan, NEW built,
         PrepStep(r, pc, plan, built),
         undisturbed' => undisturbed,
         generated' = generated \/ prep[r].pc = "applying",
         undisturbed' /\ pc \in Generating =>
            /\ prep[r].pc \in Generating /\ prep'[r].cancelled = prep[r].cancelled
            /\ pc \in {"apply", "applying", "remember"} => plan = Structures
            /\ pc = "remember" => generated' = Structures
  PROVE  GenerationInv'
  <1>1. Structures' = Structures
    BY DEF PrepStep, Structures
  <1>2. ASSUME undisturbed', NEW q \in Revisions, prep'[q].pc \in Generating
        PROVE  /\ q = revision' /\ pending' = {} /\ ~prep'[q].cancelled
               /\ prep'[q].pc \in {"apply", "applying", "remember"} => prep'[q].plan = Structures'
               /\ prep'[q].pc = "remember" => generated' = Structures'
    <2>1. CASE q = r
      BY <1>1, <1>2, <2>1 DEF PrepStep, GenerationInv
    <2>2. CASE q # r
      <3>1. prep'[q] = prep[q] /\ revision' = revision /\ pending' = pending
        BY <2>2 DEF PrepStep
      <3>2. /\ q = revision /\ pending = {} /\ ~prep[q].cancelled
            /\ prep[q].pc \in {"apply", "applying", "remember"} => prep[q].plan = Structures
            /\ prep[q].pc = "remember" => generated = Structures
        BY <1>2, <3>1 DEF GenerationInv
      <3>3. prep[r].pc # "applying"
        BY <1>2, <2>2, <3>2 DEF GenerationInv, Generating
      <3> QED BY <1>1, <3>1, <3>2, <3>3
    <2> QED BY <2>1, <2>2
  <1> QED BY <1>2 DEF GenerationInv

\* A step that changes neither the cache nor the workspace, and ends no generation.
LEMMA CacheStep ==
  ASSUME PipelineTypeOK, BatchInv, CacheInv, NEW r \in Revisions, NEW pc, NEW plan, NEW built,
         PrepStep(r, pc, plan, built),
         undisturbed' => undisturbed, UNCHANGED <<cache, generated>>,
         undisturbed' /\ r = revision => pc \in Rewriting \/ prep[r].pc \notin Rewriting \cup {"check"}
  PROVE  CacheInv'
  <1>1. revision \in Revisions
    BY DEF PipelineTypeOK
  <1>2. CASE undisturbed' /\ prep'[revision].pc \notin Rewriting
    <2>1. prep[revision].pc \notin Rewriting
      BY <1>1, <1>2 DEF PrepStep
    <2>2. prep'[revision].batch = prep[revision].batch
      <3>1. CASE r = revision
        BY <1>1, <1>2, <3>1, Consumed DEF PrepStep
      <3>2. CASE r # revision
        BY <1>1, <3>2 DEF PrepStep
      <3> QED BY <3>1, <3>2
    <2>3. Settled' = Settled
      BY <2>2 DEF PrepStep, Settled
    <2> QED BY <1>2, <2>1, <2>3 DEF CacheInv, PrepStep, Rewriting
  <1>3. CASE ~(undisturbed' /\ prep'[revision].pc \notin Rewriting)
    BY <1>3 DEF CacheInv, PrepStep, Rewriting
  <1> QED BY <1>2, <1>3

\* A step that neither builds nor accepts.
LEMMA BuildStep ==
  ASSUME PipelineTypeOK, BuildInv, NEW r \in Revisions, NEW pc, NEW plan, NEW built,
         PrepStep(r, pc, plan, built), undisturbed' => undisturbed, app' = app,
         r = revision => pc \notin {"building", "built", "accepted"}
  PROVE  BuildInv'
  <1>1. revision \in Revisions
    BY DEF PipelineTypeOK
  <1>2. CASE r = revision
    BY <1>2 DEF BuildInv, PrepStep
  <1>3. CASE r # revision
    BY <1>1, <1>3 DEF BuildInv, PrepStep, MadeFrom
  <1> QED BY <1>2, <1>3

\* The types after a step.
LEMMA TypeStep ==
  ASSUME PipelineTypeOK, NEW r \in Revisions, NEW pc, NEW plan, NEW built, PrepStep(r, pc, plan, built),
         cache' \in [plan : Plan, structures : Plan], generated' \in Plan, lock' \in Revisions \cup {0},
         app' \in Build, undisturbed' \in BOOLEAN
  PROVE  PipelineTypeOK'
  BY DEF PipelineTypeOK, PrepStep

-----------------------------------------------------------------------------
(* The steps of a preparation, one after the other.                        *)

LEMMA CheckReuseKeeps ==
  ASSUME PipelineInv, NEW r \in Revisions, CheckReuse(r)
  PROVE  PipelineInv'
  <1> USE DEF PipelineInv
  <1> DEFINE pc == IF Reusable(r) THEN "build" ELSE "analyze"
  <1>1. /\ PrepStep(r, pc, prep[r].plan, prep[r].built) /\ prep'[r].cancelled = prep[r].cancelled
        /\ prep[r].pc = "check" /\ UNCHANGED <<cache, generated, lock, app, undisturbed>>
    BY CheckReuseEffect
  <1>2. pc \in {"build", "analyze"} /\ (pc = "build" => Reusable(r))
    OBVIOUS
  <1> HIDE DEF pc
  <1>3. PipelineTypeOK'
    BY <1>1, TypeStep DEF PipelineTypeOK
  <1>4. BatchInv' /\ LockInv' /\ BuildInv'
    BY <1>1, <1>2, BatchStep, LockStep, BuildStep
  <1>5. GenerationInv'
    BY <1>1, <1>2, GenerationStep DEF Generating
  <1>6. CacheInv'
    <2>1. CASE pc = "analyze" \/ r # revision
      BY <1>1, <2>1, CacheStep DEF Rewriting
    <2>2. CASE pc = "build" /\ r = revision
      <3>1. CASE undisturbed
        <4>1. cache.structures = generated /\ \A f \in Settled : generated[f] = disk[f].structure
          BY <1>1, <2>2, <3>1 DEF CacheInv, Rewriting
        <4>2. \A f \in prep[r].batch : cache.structures[f] = disk[f].structure
          BY <1>2, <2>2 DEF Reusable
        <4>3. \A f \in Settled' : f \in Settled \/ f \in prep[r].batch
          BY <1>1, <2>2 DEF Settled, PrepStep
        <4> QED BY <1>1, <4>1, <4>2, <4>3 DEF CacheInv, PrepStep
      <3>2. CASE ~undisturbed
        BY <1>1, <3>2 DEF CacheInv
      <3> QED BY <3>1, <3>2
    <2> QED BY <1>2, <2>1, <2>2
  <1> QED BY <1>3, <1>4, <1>5, <1>6

LEMMA AnalyzeKeeps ==
  ASSUME PipelineInv, NEW r \in Revisions, Analyze(r)
  PROVE  PipelineInv'
  <1> USE DEF PipelineInv
  <1>1. /\ PrepStep(r, "apply", Structures, prep[r].built) /\ prep'[r].cancelled = prep[r].cancelled
        /\ prep[r].pc = "analyze" /\ UNCHANGED <<cache, generated, lock, app, undisturbed>>
    BY AnalyzeEffect
  <1>2. PipelineTypeOK'
    BY <1>1, TypeStep DEF PipelineTypeOK
  <1>3. BatchInv' /\ LockInv' /\ BuildInv'
    BY <1>1, BatchStep, LockStep, BuildStep
  <1>4. GenerationInv'
    BY <1>1, GenerationStep DEF Generating
  <1>5. CacheInv'
    BY <1>1, CacheStep DEF Rewriting
  <1> QED BY <1>2, <1>3, <1>4, <1>5

LEMMA BeginApplyKeeps ==
  ASSUME PipelineInv, NEW r \in Revisions, BeginApply(r)
  PROVE  PipelineInv'
  <1> USE DEF PipelineInv
  <1>1. /\ Goto(r, "applying") /\ prep[r].pc = "apply" /\ lock' = r
        /\ UNCHANGED <<sourceVars, pending, revision, cache, generated, app, undisturbed>>
    BY DEF BeginApply, At
  <1>2. "apply" \in Working \ {"check"} /\ "applying" \in Working
    BY DEF Working, Generating
  <1>3. PrepStep(r, "applying", prep[r].plan, prep[r].built) /\ prep'[r].cancelled = prep[r].cancelled
    BY <1>1, <1>2, GotoEffect
  <1>4. PipelineTypeOK'
    BY <1>1, <1>3, TypeStep DEF PipelineTypeOK
  <1>5. BatchInv' /\ BuildInv'
    BY <1>1, <1>3, BatchStep, BuildStep
  <1>6. LockInv'
    BY <1>1, <1>3 DEF LockInv, PrepStep
  <1>7. GenerationInv'
    <2>1. undisturbed => prep[r].plan = Structures
      BY <1>1 DEF GenerationInv, Generating
    <2> QED BY <1>1, <1>3, <2>1, GenerationStep DEF Generating
  <1>8. CacheInv'
    BY <1>1, <1>3, CacheStep DEF Rewriting
  <1> QED BY <1>4, <1>5, <1>6, <1>7, <1>8

LEMMA ApplyLockedKeeps ==
  ASSUME PipelineInv, NEW r \in Revisions, ApplyLocked(r)
  PROVE  PipelineInv'
  <1> USE DEF PipelineInv
  <1>1. /\ Goto(r, "failed") /\ prep[r].pc = "apply" /\ lock # 0
        /\ UNCHANGED <<sourceVars, pending, revision, cache, generated, lock, app, undisturbed>>
    BY DEF ApplyLocked, At
  <1>2. "apply" \in Working \ {"check"} /\ "failed" \in Working /\ "failed" \notin Generating
    BY DEF Working, Generating
  <1>3. PrepStep(r, "failed", prep[r].plan, prep[r].built)
    BY <1>1, <1>2, GotoEffect
  <1>4. ~undisturbed
    <2>1. lock \in Revisions /\ prep[lock].pc = "applying"
      BY <1>1 DEF LockInv, PipelineTypeOK
    <2> QED BY <1>1, <2>1 DEF GenerationInv, Generating
  <1>5. PipelineTypeOK'
    BY <1>1, <1>3, TypeStep DEF PipelineTypeOK
  <1>6. BatchInv' /\ BuildInv' /\ LockInv'
    BY <1>1, <1>3, BatchStep, BuildStep, LockStep
  <1>7. GenerationInv' /\ CacheInv'
    BY <1>1, <1>4 DEF GenerationInv, CacheInv
  <1> QED BY <1>5, <1>6, <1>7

LEMMA EndApplyKeeps ==
  ASSUME PipelineInv, NEW r \in Revisions, EndApply(r)
  PROVE  PipelineInv'
  <1> USE DEF PipelineInv
  <1>1. /\ Goto(r, "remember") /\ prep[r].pc = "applying" /\ generated' = prep[r].plan /\ lock' = 0
        /\ UNCHANGED <<sourceVars, pending, revision, cache, app, undisturbed>>
    BY DEF EndApply, At
  <1>2. "applying" \in Working \ {"check"} /\ "remember" \in Working
    BY DEF Working, Generating
  <1>3. PrepStep(r, "remember", prep[r].plan, prep[r].built) /\ prep'[r].cancelled = prep[r].cancelled
    BY <1>1, <1>2, GotoEffect
  <1>4. prep[r].plan \in Plan
    BY DEF PipelineTypeOK, Preparation
  <1>5. PipelineTypeOK'
    BY <1>1, <1>3, <1>4, TypeStep DEF PipelineTypeOK
  <1>6. BatchInv' /\ BuildInv'
    BY <1>1, <1>3, BatchStep, BuildStep
  <1>7. LockInv'
    BY <1>1 DEF LockInv
  <1>8. undisturbed => prep[r].plan = Structures /\ r = revision
    BY <1>1 DEF GenerationInv, Generating
  <1>9. GenerationInv'
    BY <1>1, <1>3, <1>8, GenerationStep DEF Generating
  <1>10. CacheInv'
    BY <1>1, <1>3, <1>8 DEF CacheInv, PrepStep, Rewriting
  <1> QED BY <1>5, <1>6, <1>7, <1>9, <1>10

LEMMA ApplyFailsKeeps ==
  ASSUME PipelineInv, NEW r \in Revisions, ApplyFails(r)
  PROVE  PipelineInv'
  <1> USE DEF PipelineInv
  <1>1. /\ Goto(r, "failed") /\ prep[r].pc = "applying" /\ lock' = 0 /\ undisturbed' = FALSE
        /\ UNCHANGED <<sourceVars, pending, revision, cache, generated, app>>
    BY DEF ApplyFails, At
  <1>2. "applying" \in Working \ {"check"} /\ "failed" \in Working
    BY DEF Working, Generating
  <1>3. PrepStep(r, "failed", prep[r].plan, prep[r].built)
    BY <1>1, <1>2, GotoEffect
  <1>4. PipelineTypeOK'
    BY <1>1, <1>3, TypeStep DEF PipelineTypeOK
  <1>5. BatchInv' /\ BuildInv'
    BY <1>1, <1>3, BatchStep, BuildStep
  <1>6. LockInv' /\ GenerationInv' /\ CacheInv'
    BY <1>1 DEF LockInv, GenerationInv, CacheInv
  <1> QED BY <1>4, <1>5, <1>6

LEMMA RememberKeeps ==
  ASSUME PipelineInv, NEW r \in Revisions, Remember(r)
  PROVE  PipelineInv'
  <1> USE DEF PipelineInv
  <1>1. /\ Goto(r, "build") /\ prep[r].pc = "remember"
        /\ cache' = [plan |-> prep[r].plan, structures |-> Structures]
        /\ UNCHANGED <<sourceVars, pending, revision, generated, lock, app, undisturbed>>
    BY DEF Remember, At
  <1>2. "remember" \in Working \ {"check"} /\ "build" \in Working /\ "build" \notin Generating
    BY DEF Working, Generating
  <1>3. PrepStep(r, "build", prep[r].plan, prep[r].built)
    BY <1>1, <1>2, GotoEffect
  <1>4. prep[r].plan \in Plan
    BY DEF PipelineTypeOK, Preparation
  <1>5. PipelineTypeOK'
    <2>1. cache' \in [plan : Plan, structures : Plan]
      BY <1>1, <1>4, StructuresArePlan
    <2> QED BY <1>1, <1>3, <2>1, TypeStep DEF PipelineTypeOK
  <1>6. BatchInv' /\ BuildInv' /\ LockInv'
    BY <1>1, <1>3, BatchStep, BuildStep, LockStep
  <1>7. GenerationInv'
    BY <1>1, <1>2, <1>3, GenerationStep
  <1>8. CacheInv'
    <2>1. CASE undisturbed
      <3>1. generated = Structures /\ cache'.structures = Structures
        BY <1>1, <2>1 DEF GenerationInv, Generating
      <3>2. \A f \in Files : generated[f] = disk[f].structure
        BY <3>1 DEF Structures
      <3> QED BY <1>1, <3>1, <3>2 DEF CacheInv, Settled, sourceVars
    <2>2. CASE ~undisturbed
      BY <1>1, <2>2 DEF CacheInv
    <2> QED BY <2>1, <2>2
  <1> QED BY <1>5, <1>6, <1>7, <1>8

\* Between two generations, the workspace is the one generated for the noticed sources.
LEMMA WorkspaceIsCurrent ==
  ASSUME PipelineInv, prep[revision].pc \in {"build", "building"}, pending = {}, undisturbed,
         NEW f \in Files \ unnoticed
  PROVE  generated[f] = disk[f].structure
  <1>1. prep[revision].batch = {}
    BY Consumed DEF PipelineInv, PipelineTypeOK
  <1> QED BY <1>1 DEF PipelineInv, CacheInv, Settled, Rewriting

LEMMA BeginBuildKeeps ==
  ASSUME PipelineInv, NEW r \in Revisions, BeginBuild(r)
  PROVE  PipelineInv'
  <1> DEFINE b == [sources |-> disk, generated |-> generated]
  <1>1. /\ PrepStep(r, "building", prep[r].plan, b)
        /\ prep[r].pc = "build" /\ UNCHANGED <<cache, generated, lock, app, undisturbed>>
    BY BeginBuildEffect DEF PipelineInv
  <1>2. b.sources = disk /\ b.generated = generated
    OBVIOUS
  <1> HIDE DEF b
  <1>3. PipelineTypeOK'
    BY <1>1, TypeStep DEF PipelineInv, PipelineTypeOK
  <1>4. BatchInv' /\ LockInv'
    BY <1>1, BatchStep, LockStep DEF PipelineInv
  <1>5. GenerationInv' /\ CacheInv'
    BY <1>1, GenerationStep, CacheStep DEF PipelineInv, Generating, Rewriting
  <1>6. BuildInv'
    <2>1. CASE r = revision
      <3>1. ASSUME pending = {}, NEW f \in Files \ unnoticed
            PROVE  b.sources[f] = disk[f] /\ (undisturbed => b.generated[f] = disk[f].structure)
        BY <1>1, <1>2, <2>1, <3>1, WorkspaceIsCurrent
      <3> QED BY <1>1, <2>1, <3>1 DEF BuildInv, PrepStep, MadeFrom
    <2>2. CASE r # revision
      BY <1>1, <2>2, BuildStep DEF PipelineInv
    <2> QED BY <2>1, <2>2
  <1> QED BY <1>3, <1>4, <1>5, <1>6 DEF PipelineInv

LEMMA EndBuildKeeps ==
  ASSUME PipelineInv, NEW r \in Revisions, EndBuild(r)
  PROVE  PipelineInv'
  <1>1. PICK b \in Build :
              /\ PrepStep(r, "built", prep[r].plan, b)
              /\ \A f \in Files : b.sources[f] = disk[f] \/ b.sources[f] = prep[r].built.sources[f]
              /\ b.generated = prep[r].built.generated \/ b.generated = generated
    BY EndBuildEffect DEF PipelineInv
  <1>2. prep[r].pc = "building" /\ UNCHANGED <<cache, generated, lock, app, undisturbed>>
    BY EndBuildEffect DEF PipelineInv
  <1>3. PipelineTypeOK'
    BY <1>1, <1>2, TypeStep DEF PipelineInv, PipelineTypeOK
  <1>4. BatchInv' /\ LockInv'
    BY <1>1, <1>2, BatchStep, LockStep DEF PipelineInv
  <1>5. GenerationInv' /\ CacheInv'
    BY <1>1, <1>2, GenerationStep, CacheStep DEF PipelineInv, Generating, Rewriting
  <1>6. BuildInv'
    <2>1. CASE r = revision
      <3>1. ASSUME pending = {}, NEW f \in Files \ unnoticed
            PROVE  b.sources[f] = disk[f] /\ (undisturbed => b.generated[f] = disk[f].structure)
        <4>1. MadeFrom(prep[r].built, f)
          BY <1>2, <2>1, <3>1 DEF PipelineInv, BuildInv
        <4>2. undisturbed => generated[f] = disk[f].structure
          BY <1>2, <2>1, <3>1, WorkspaceIsCurrent
        <4> QED BY <1>1, <4>1, <4>2 DEF MadeFrom
      <3> QED BY <1>1, <1>2, <2>1, <3>1 DEF BuildInv, PrepStep, MadeFrom
    <2>2. CASE r # revision
      BY <1>1, <1>2, <2>2, BuildStep DEF PipelineInv
    <2> QED BY <2>1, <2>2
  <1> QED BY <1>3, <1>4, <1>5, <1>6 DEF PipelineInv

LEMMA FailKeeps ==
  ASSUME PipelineInv, NEW r \in Revisions, Fail(r)
  PROVE  PipelineInv'
  <1>1. /\ Goto(r, "failed") /\ prep[r].pc \in {"analyze", "remember", "build", "building"}
        /\ undisturbed' = (undisturbed /\ prep[r].cancelled)
        /\ UNCHANGED <<sourceVars, pending, revision, cache, generated, lock, app>>
    BY DEF Fail, At
  <1>2. prep[r].pc \in Working \ {"check"} /\ "failed" \in Working /\ "failed" \notin Generating
    BY <1>1 DEF Working, Generating
  <1>3. PrepStep(r, "failed", prep[r].plan, prep[r].built)
    BY <1>1, <1>2, GotoEffect DEF PipelineInv
  <1>4. /\ undisturbed' \in BOOLEAN /\ (undisturbed' => undisturbed)
        /\ undisturbed' => prep[r].pc \notin Rewriting
    BY <1>1, Zenon DEF PipelineInv, GenerationInv, Generating, Rewriting
  <1>5. PipelineTypeOK'
    BY <1>1, <1>3, <1>4, TypeStep DEF PipelineInv, PipelineTypeOK
  <1>6. BatchInv' /\ LockInv' /\ BuildInv'
    BY <1>1, <1>3, <1>4, BatchStep, LockStep, BuildStep DEF PipelineInv
  <1>7. GenerationInv' /\ CacheInv'
    BY <1>1, <1>2, <1>3, <1>4, GenerationStep, CacheStep DEF PipelineInv, Rewriting
  <1> QED BY <1>5, <1>6, <1>7 DEF PipelineInv

LEMMA AcceptKeeps ==
  ASSUME PipelineInv, NEW r \in Revisions, Accept(r)
  PROVE  PipelineInv'
  <1>1. /\ Ends(r, "accepted") /\ prep[r].pc = "built" /\ r = revision /\ pending = {} /\ app' = prep[r].built
        /\ UNCHANGED <<sourceVars, pending, revision, cache, generated, lock, undisturbed>>
    BY DEF Accept, At, Current
  <1>2. PrepStep(r, "accepted", NoPlan, NoBuild)
    BY <1>1, FinishEffect DEF PipelineInv, Working
  <1>3. PipelineTypeOK'
    <2>1. prep[r].built \in Build
      BY DEF PipelineInv, PipelineTypeOK, Preparation
    <2> QED BY <1>1, <1>2, <2>1, TypeStep DEF PipelineInv, PipelineTypeOK
  <1>4. BatchInv' /\ LockInv'
    BY <1>1, <1>2, BatchStep, LockStep DEF PipelineInv
  <1>5. GenerationInv' /\ CacheInv'
    BY <1>1, <1>2, GenerationStep, CacheStep DEF PipelineInv, Generating, Rewriting
  <1>6. BuildInv'
    <2>1. \A f \in Files \ unnoticed : MadeFrom(prep[r].built, f)
      BY <1>1 DEF PipelineInv, BuildInv
    <2> QED BY <1>1, <1>2, <2>1 DEF BuildInv, PrepStep, MadeFrom
  <1> QED BY <1>3, <1>4, <1>5, <1>6 DEF PipelineInv

\* A preparation whose result is discarded or reported ends, and PipelineInv holds.
LEMMA EndsUnused ==
  ASSUME PipelineInv, NEW r \in Revisions, Discard(r) \/ Report(r)
  PROVE  PipelineInv'
  <1>1. PICK pc \in {"discarded", "reported"} :
           /\ Ends(r, pc) /\ prep[r].pc \in {"failed", "built"}
           /\ UNCHANGED <<sourceVars, pending, revision, cache, generated, lock, app, undisturbed>>
    BY DEF Discard, Report, At
  <1>2. PrepStep(r, pc, NoPlan, NoBuild)
    BY <1>1, FinishEffect DEF PipelineInv, Working
  <1>3. PipelineTypeOK'
    BY <1>1, <1>2, TypeStep DEF PipelineInv, PipelineTypeOK
  <1>4. BatchInv' /\ LockInv' /\ BuildInv'
    BY <1>1, <1>2, BatchStep, LockStep, BuildStep DEF PipelineInv
  <1>5. GenerationInv' /\ CacheInv'
    BY <1>1, <1>2, GenerationStep, CacheStep DEF PipelineInv, Generating, Rewriting
  <1> QED BY <1>3, <1>4, <1>5 DEF PipelineInv

-----------------------------------------------------------------------------
(* The user, the watcher and the batches.                                  *)

\* A change during a generation disturbs it.
LEMMA DisturbEffect ==
  ASSUME PipelineTypeOK, Disturb
  PROVE  /\ undisturbed' \in BOOLEAN /\ (undisturbed' => undisturbed)
         /\ undisturbed' => \A r \in Revisions : prep[r].pc \notin Generating
  BY Zenon DEF Disturb, PipelineTypeOK

LEMMA EditKeeps ==
  ASSUME PipelineInv, NEW f \in Files, NEW part \in {"structure", "body"}, Edit(f, part)
  PROVE  PipelineInv'
  <1>1. /\ disk' = [disk EXCEPT ![f][part] = edits + 1] /\ edits' = edits + 1
        /\ unnoticed' = unnoticed \cup {f} /\ Disturb
        /\ UNCHANGED <<pending, revision, prep, cache, generated, lock, app>>
    BY DEF Edit
  <1>2. /\ undisturbed' \in BOOLEAN /\ (undisturbed' => undisturbed)
        /\ undisturbed' => \A r \in Revisions : prep[r].pc \notin Generating
    BY <1>1, DisturbEffect DEF PipelineInv
  <1>3. disk' \in [Files -> Source] /\ \A g \in Files \ {f} : disk'[g] = disk[g]
    <2>1. disk \in [Files -> Source] /\ edits + 1 \in Int
      BY DEF PipelineInv, PipelineTypeOK
    <2>2. [disk[f] EXCEPT ![part] = edits + 1] \in Source
      BY <2>1 DEF Source
    <2> QED BY <1>1, <2>1, <2>2
  <1>4. PipelineTypeOK'
    <2>1. unnoticed' \in SUBSET Files /\ edits' \in Nat
      BY <1>1 DEF PipelineInv, PipelineTypeOK
    <2>2. UNCHANGED <<pending, revision, prep, cache, generated, lock, app>>
      BY <1>1
    <2> QED BY <1>2, <1>3, <2>1, <2>2 DEF PipelineInv, PipelineTypeOK
  <1>5. BatchInv' /\ LockInv'
    BY <1>1 DEF PipelineInv, BatchInv, LockInv
  <1>6. GenerationInv'
    BY <1>1, <1>2 DEF GenerationInv
  <1>7. CacheInv'
    BY <1>1, <1>2, <1>3 DEF PipelineInv, CacheInv, Settled
  <1>8. BuildInv'
    BY <1>1, <1>2, <1>3 DEF PipelineInv, BuildInv, MadeFrom
  <1> QED BY <1>4, <1>5, <1>6, <1>7, <1>8 DEF PipelineInv

LEMMA NoticeKeeps ==
  ASSUME PipelineInv, NEW f \in Files, Notice(f)
  PROVE  PipelineInv'
  <1>1. /\ f \in unnoticed /\ unnoticed' = unnoticed \ {f} /\ pending' = pending \cup {f} /\ Disturb
        /\ prep' = [r \in Revisions |-> [prep[r] EXCEPT !.cancelled = @ \/ prep[r].pc \in Working]]
        /\ UNCHANGED <<disk, edits, revision, cache, generated, lock, app>>
    BY DEF Notice
  <1>2. /\ undisturbed' \in BOOLEAN /\ (undisturbed' => undisturbed)
        /\ undisturbed' => \A r \in Revisions : prep[r].pc \notin Generating
    BY <1>1, DisturbEffect DEF PipelineInv
  <1>3. /\ prep' \in [Revisions -> Preparation]
        /\ \A r \in Revisions : /\ prep'[r].pc = prep[r].pc /\ prep'[r].batch = prep[r].batch
                                /\ prep'[r].plan = prep[r].plan /\ prep'[r].built = prep[r].built
    <2>1. ASSUME NEW r \in Revisions
          PROVE  /\ prep'[r] \in Preparation
                 /\ prep'[r].pc = prep[r].pc /\ prep'[r].batch = prep[r].batch
                 /\ prep'[r].plan = prep[r].plan /\ prep'[r].built = prep[r].built
      <3> DEFINE c == prep[r].cancelled \/ prep[r].pc \in Working
      <3>1. prep[r] \in Preparation /\ c \in BOOLEAN
        BY DEF PipelineInv, PipelineTypeOK
      <3>2. prep'[r] = [prep[r] EXCEPT !.cancelled = c]
        BY <1>1
      <3> HIDE DEF c
      <3> QED BY <3>1, <3>2 DEF Preparation
    <2> QED BY <1>1, <2>1
  <1>4. PipelineTypeOK'
    <2>1. unnoticed' \in SUBSET Files /\ pending' \in SUBSET Files
      BY <1>1 DEF PipelineInv, PipelineTypeOK
    <2>2. UNCHANGED <<disk, edits, revision, cache, generated, lock, app>>
      BY <1>1
    <2> QED BY <1>2, <1>3, <2>1, <2>2 DEF PipelineInv, PipelineTypeOK
  <1>5. BatchInv' /\ LockInv'
    <2>1. revision' = revision /\ lock' = lock /\ lock \in Revisions \cup {0}
      BY <1>1 DEF PipelineInv, PipelineTypeOK
    <2>2. BatchInv'
      BY <1>3, <2>1 DEF PipelineInv, BatchInv
    <2>3. LockInv'
      BY <1>3, <2>1 DEF PipelineInv, LockInv
    <2> QED BY <2>2, <2>3
  <1>6. GenerationInv'
    BY <1>2, <1>3 DEF GenerationInv
  <1>7. CacheInv'
    <2>1. Settled' = Settled
      BY <1>1, <1>3 DEF PipelineInv, PipelineTypeOK, Settled
    <2> QED BY <1>1, <1>2, <1>3, <2>1 DEF PipelineInv, PipelineTypeOK, CacheInv
  <1>8. BuildInv'
    BY <1>1 DEF BuildInv
  <1> QED BY <1>4, <1>5, <1>6, <1>7, <1>8 DEF PipelineInv

LEMMA AcceptPendingKeeps ==
  ASSUME PipelineInv, AcceptPending
  PROVE  PipelineInv'
  <1> DEFINE next == revision + 1
             new == [Unused EXCEPT !.pc = "check", !.batch = pending]
  <1>1. /\ pending # {} /\ revision < MaxRevision /\ revision' = next /\ pending' = {}
        /\ prep' = [prep EXCEPT ![next] = new]
        /\ UNCHANGED <<sourceVars, cache, generated, lock, app, undisturbed>>
    BY DEF AcceptPending
  <1>2. /\ revision \in Revisions /\ next \in Revisions /\ next \in Int /\ revision \in Int /\ next > revision
        /\ \A q \in Revisions : q \in Int
    BY <1>1 DEF PipelineInv, PipelineTypeOK, Revisions, MaxRevision
  <1>3. /\ new \in Preparation /\ new.pc = "check" /\ new.batch = pending
        /\ new.cancelled = FALSE
    <2>1. pending \in SUBSET Files /\ "check" \in Working
      BY DEF PipelineInv, PipelineTypeOK, Working, Generating
    <2> QED BY <2>1, ConstantTypes DEF Unused, Preparation
  <1> HIDE DEF new
  <1>4. /\ prep' \in [Revisions -> Preparation] /\ prep'[next] = new
        /\ \A q \in Revisions : q # next => prep'[q] = prep[q]
    BY <1>1, <1>2, <1>3 DEF PipelineInv, PipelineTypeOK
  <1>5. PipelineTypeOK'
    BY <1>1, <1>2, <1>4 DEF PipelineInv, PipelineTypeOK, sourceVars
  <1>6. BatchInv'
    <2>1. ASSUME NEW q \in Revisions
          PROVE  /\ q > next => prep'[q].pc = "none"
                 /\ prep'[q].pc # "check" => prep'[q].batch = {}
      <3>1. CASE q = next
        BY <1>2, <1>3, <1>4, <3>1
      <3>2. CASE q # next
        <4>1. prep'[q] = prep[q] /\ (q > next => q > revision)
          BY <1>2, <1>4, <3>2
        <4> QED BY <4>1 DEF PipelineInv, BatchInv
      <3> QED BY <3>1, <3>2
    <2> QED BY <1>1, <2>1 DEF BatchInv
  <1>7. prep[next].pc = "none"
    BY <1>2 DEF PipelineInv, BatchInv
  <1>8. LockInv'
    BY <1>1, <1>4, <1>7 DEF PipelineInv, PipelineTypeOK, LockInv
  <1>9. undisturbed => \A q \in Revisions : prep[q].pc \notin Generating
    BY <1>1 DEF PipelineInv, GenerationInv
  <1>10. GenerationInv'
    <2>1. ASSUME undisturbed', NEW q \in Revisions, prep'[q].pc \in Generating PROVE q = next
      BY <1>1, <1>4, <1>9, <2>1
    <2> QED BY <1>1, <1>3, <1>4, <2>1 DEF GenerationInv
  <1>11. CacheInv'
    <2>1. CASE undisturbed
      <3>1. prep[revision].pc \notin Rewriting /\ prep[revision].pc # "check"
        BY <1>2, <1>9, <2>1 DEF Rewriting, Generating
      <3>2. prep[revision].batch = {}
        BY <1>2, <3>1, Consumed DEF PipelineInv
      <3>3. Settled' = Settled
        BY <1>1, <1>3, <1>4, <3>2 DEF Settled, sourceVars
      <3> QED BY <1>1, <2>1, <3>1, <3>3 DEF PipelineInv, CacheInv, sourceVars
    <2>2. CASE ~undisturbed
      BY <1>1, <2>2 DEF CacheInv
    <2> QED BY <2>1, <2>2
  <1>12. BuildInv'
    BY <1>1, <1>3, <1>4 DEF BuildInv
  <1> QED BY <1>5, <1>6, <1>8, <1>10, <1>11, <1>12 DEF PipelineInv

-----------------------------------------------------------------------------
(* The theorems.                                                           *)

\* The first revision takes every file in its batch.
LEMMA InitPipeline == Init => PipelineInv
  <1> SUFFICES ASSUME Init PROVE PipelineInv
    OBVIOUS
  <1> DEFINE first == [Unused EXCEPT !.pc = "check", !.batch = Files]
  <1>1. first \in Preparation /\ first.pc = "check" /\ first.batch = Files /\ first.cancelled = FALSE
    <2>1. "check" \in Working
      BY DEF Working, Generating
    <2> QED BY <2>1, ConstantTypes DEF Unused, Preparation
  <1> HIDE DEF first
  <1>2. prep = [r \in Revisions |-> IF r = 1 THEN first ELSE Unused] /\ revision = 1
    BY DEF Init, first
  <1>3. /\ prep \in [Revisions -> Preparation] /\ prep[1] = first
        /\ \A r \in Revisions : r # 1 => prep[r] = Unused
    BY <1>1, <1>2, ConstantTypes
  <1>4. Unused.pc = "none" /\ Unused.batch = {} /\ "none" \notin Generating
    BY DEF Unused, Generating
  <1>5. PipelineTypeOK
    <2>1. NoCache \in [plan : Plan, structures : Plan]
      BY ConstantTypes DEF NoCache
    <2>2. disk \in [Files -> Source]
      BY DEF Init, Source
    <2> QED BY <1>3, <2>1, <2>2, ConstantTypes DEF Init, PipelineTypeOK
  <1>6. BatchInv
    BY <1>1, <1>2, <1>3, <1>4, ConstantTypes DEF BatchInv
  <1>7. LockInv
    BY DEF Init, LockInv
  <1>8. GenerationInv
    BY <1>1, <1>2, <1>3, <1>4, ConstantTypes DEF Init, GenerationInv
  <1>9. CacheInv
    <2>1. cache.structures = generated
      BY DEF Init, NoCache
    <2>2. Settled = {}
      BY <1>1, <1>2, <1>3 DEF Settled
    <2> QED BY <2>1, <2>2 DEF CacheInv
  <1>10. BuildInv
    BY <1>1, <1>2, <1>3 DEF BuildInv
  <1> QED BY <1>5, <1>6, <1>7, <1>8, <1>9, <1>10 DEF PipelineInv

\* A step that changes nothing keeps the invariant.
LEMMA StutterKeeps ==
  ASSUME PipelineInv, UNCHANGED vars
  PROVE  PipelineInv'
  <1>1. UNCHANGED <<disk, edits, unnoticed, pending, revision, prep, cache, generated, lock, app, undisturbed>>
    BY DEF vars, sourceVars
  <1>2. PipelineTypeOK'
    BY <1>1 DEF PipelineInv, PipelineTypeOK
  <1>3. BatchInv' /\ LockInv' /\ GenerationInv'
    BY <1>1 DEF PipelineInv, BatchInv, LockInv, GenerationInv, Structures
  <1>4. CacheInv' /\ BuildInv'
    BY <1>1 DEF PipelineInv, CacheInv, Settled, BuildInv, MadeFrom
  <1> QED BY <1>2, <1>3, <1>4 DEF PipelineInv

\* The invariant holds of every behaviour.
THEOREM PipelineInvariance == Spec => []PipelineInv
  <1>1. ASSUME PipelineInv, [Next]_vars PROVE PipelineInv'
    <2>1. ASSUME NEW f \in Files, NEW part \in {"structure", "body"}, Edit(f, part) PROVE PipelineInv'
      BY <1>1, <2>1, EditKeeps
    <2>2. ASSUME NEW f \in Files, Notice(f) PROVE PipelineInv'
      BY <1>1, <2>2, NoticeKeeps
    <2>3. CASE AcceptPending
      BY <1>1, <2>3, AcceptPendingKeeps
    <2>4. ASSUME NEW r \in Revisions, Prepare(r) PROVE PipelineInv'
      BY <1>1, <2>4, CheckReuseKeeps, AnalyzeKeeps, BeginApplyKeeps, ApplyLockedKeeps, EndApplyKeeps,
         RememberKeeps, BeginBuildKeeps, EndBuildKeeps DEF Prepare
    <2>5. ASSUME NEW r \in Revisions, ApplyFails(r) \/ Fail(r) \/ Finish(r) PROVE PipelineInv'
      BY <1>1, <2>5, ApplyFailsKeeps, FailKeeps, AcceptKeeps, EndsUnused DEF Finish
    <2>6. CASE Idle \/ UNCHANGED vars
      BY <1>1, <2>6, StutterKeeps DEF Idle
    <2> QED BY <1>1, <2>1, <2>2, <2>3, <2>4, <2>5, <2>6 DEF Next
  <1> QED BY <1>1, InitPipeline, PTL DEF Spec

\* Once everything is quiet, the application that the loop accepted last is built from the sources
\* as they are, and from the code generated for them if no generation was disturbed: for any
\* files, edits and overlapping preparations.
THEOREM WhatIsServedIsCurrent == Spec => []ServedIsCurrent
  <1>1. ASSUME PipelineInv PROVE ServedIsCurrent
    <2>1. SUFFICES ASSUME Served PROVE app.sources = disk /\ (undisturbed => app.generated = Structures)
      BY DEF ServedIsCurrent
    <2>2. \A f \in Files : app.sources[f] = disk[f] /\ (undisturbed => app.generated[f] = disk[f].structure)
      BY <1>1, <2>1 DEF Served, Quiet, At, PipelineInv, BuildInv, MadeFrom
    <2>3. app.sources \in [Files -> Source] /\ app.generated \in Plan /\ disk \in [Files -> Source]
      BY <1>1 DEF PipelineInv, PipelineTypeOK, Build
    <2>4. app.sources = disk
      BY <2>2, <2>3
    <2>5. undisturbed => app.generated = Structures
      BY <2>2, <2>3 DEF Structures, Plan
    <2> QED BY <2>4, <2>5
  <1> QED BY <1>1, PipelineInvariance, PTL
===============================================================================

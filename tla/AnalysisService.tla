-------------------------- MODULE AnalysisService --------------------------
(***************************************************************************)
(* compiler/service: the requests that a language server or a command      *)
(* sends to one Service at the same time.  A request with a sequence       *)
(* number supersedes the earlier ones of its workspace; an analysis loads  *)
(* the workspace several times, to learn the application modules that the  *)
(* selected packages name but do not contain, and files may change between *)
(* two loads.                                                              *)
(*                                                                         *)
(* Contents gives the contents a workspace can have:                       *)
(*   packages, occs  as in AppModules; packages are numbers, in the order  *)
(*                   of their import paths                                 *)
(*   outside         packages whose files are outside the workspace        *)
(*   hidden          packages in directories that the inventory skips      *)
(*   faults          the packages in which a stage finds something         *)
(*   apps            [pkg, name] of the annotated applications             *)
(*   mains           packages with a generated entrypoint, badMains the    *)
(*                   ones whose entrypoint is malformed                    *)
(* One load is one step: what changes while the packages are read is       *)
(* either seen or not.                                                     *)
(***************************************************************************)
EXTENDS Integers, Sequences, FiniteSets, SequencesExt, FiniteSetsExt

CONSTANTS
    Requests,           \* the requests: a function from their names
    Contents,           \* the contents of a workspace, by version
    Inside,             \* <<package, Go module>>: the import path is in the module
    MaxCacheEntries,    \* 64 in the code
    MaxOverlayFiles,    \* 1,024
    MaxOverlayBytes,    \* 16 MiB
    MaxInventoryFiles,  \* 100,000
    Impatient,          \* the requests whose callers may give up
    MaxEdits            \* bound: changes of the files

ASSUME LimitsArePositive == {MaxCacheEntries, MaxOverlayFiles, MaxOverlayBytes, MaxInventoryFiles} \subseteq Nat \ {0}

Names == DOMAIN Requests

\* A caller that numbers its requests never uses a number twice for a workspace (internal/lsp/analysis.go:231,
\* internal/cli/generation.go:236).
ASSUME RequestsAreNumberedOnce ==
    \A r, x \in Names :
        /\ Requests[r].seq \in Nat
        /\ Requests[r].root = Requests[x].root /\ Requests[r].seq = Requests[x].seq /\ Requests[r].seq # 0 => r = x

Roots == {Requests[r].root : r \in Names}

Modules == INSTANCE AppModules

VARIABLES
    sources,    \* the version of the files of a workspace
    edits,      \* how often files changed
    latest,     \* the newest sequence of a workspace
    running,    \* the request that a newer one cancels, {} or one name
    cache,      \* the kept results
    order,      \* their keys, least recently used first
    job         \* the progress of each request

serviceVars == <<sources, edits, latest, running, cache, order, job>>

NoModel == [roots |-> {}, names |-> {}, edges |-> {}, diagnostics |-> {}, allowed |-> <<>>, gomods |-> <<>>]
NoUniverse == <<>>
NoAnalysis == [stage |-> "", model |-> NoModel, names |-> {}, files |-> {}, apps |-> {}, occs |-> {}, plan |-> FALSE]
NoJob == [phase |-> "waiting", cancelled |-> FALSE, answer |-> "none", result |-> NoAnalysis, initial |-> NoAnalysis,
          models |-> <<>>, pending |-> {}, inventoried |-> {}, candidate |-> <<>>, inventories |-> <<>>,
          next |-> 1, universe |-> NoUniverse, results |-> <<>>, seen |-> {}]

ServiceInit ==
    /\ sources \in [Roots -> DOMAIN Contents]
    /\ edits = 0
    /\ latest = [w \in Roots |-> 0]
    /\ running = [w \in Roots |-> {}]
    /\ cache = <<>>
    /\ order = <<>>
    /\ job = [r \in Names |-> NoJob]

-----------------------------------------------------------------------------
(* One analysis of a set of packages.                                      *)

\* normalizeRequest and normalizeOverlay: what is refused before anything begins.
Refused(q) ==
    \/ ~q.rootIsDirectory
    \/ q.mode \notin {"generate", "validate"}
    \/ q.mode = "validate" /\ q.target # ""
    \/ q.style # <<>> /\ q.profile \notin {"none", "java-structured"}
    \/ Cardinality(q.overlay) > MaxOverlayFiles
    \/ \E d \in q.overlay : ~d.inside
    \/ MapThenSumSet(LAMBDA d : d.bytes, q.overlay) > MaxOverlayBytes

\* No pattern is every package of the workspace.
Selected(c, patterns) == IF patterns = {} THEN DOMAIN c.packages \ c.outside ELSE patterns \cap DOMAIN c.packages

\* PromoteApplicationDependencies: what the applications import from their Go module is
\* analysed like the selected packages.
Promoted(c, pkgs) ==
    LET Same(x) == {y \in c.packages[x].imports \cap DOMAIN c.packages : c.packages[y].gomod = c.packages[x].gomod}
        Grow(S) == S \cup UNION {Same(x) : x \in S}
        roots == pkgs \cap {a.pkg : a \in c.apps}
    IN  pkgs \cup FoldLeft(LAMBDA S, k : Grow(S), roots, [k \in 1..Cardinality(DOMAIN c.packages) |-> k])

\* The stages of an analysis in order: the first that finds something is the last.
EarlyStages == <<"annotations", "load", "descriptors", "resolution", "validation", "contributions">>
InventoryStages == EarlyStages \o <<"starters", "source-style">>
FullStages == EarlyStages \o <<"starters", "typed-style", "catalogs", "modules", "application">>

FirstStage(stages, found) ==
    LET hit == {i \in DOMAIN stages : stages[i] \in found} IN IF hit = {} THEN "" ELSE stages[Min(hit)]

\* modulith.Build over the packages that are loaded.
ModelOf(c, pkgs, universe) ==
    LET q == [packages |-> [x \in pkgs |-> c.packages[x]], occs |-> SelectSeq(c.occs, LAMBDA o : o.pkg \in pkgs)]
        Of(built) == [roots |-> built.roots, names |-> built.names, edges |-> built.edges, diagnostics |-> built.diagnostics,
                      allowed |-> [m \in built.roots |-> Modules!Allowed(Modules!ModuleRoots(q).modules, m)],
                      gomods |-> [m \in built.roots |-> c.packages[m].gomod]]
    IN  Of(Modules!ModulithBuild(q, universe))

\* selectTarget: the one application, or the one that is named.
TargetFound(apps, selector) ==
    Cardinality({a \in apps : selector \in {"", a.name}}) = 1

\* What an analysis of pkgs finds, with model for an inventory and full for the whole of it.
AnalyzeLoaded(c, q, pkgs, model, full) ==
    LET apps == {a \in c.apps : a.pkg \in pkgs}
        found == {c.faults[x] : x \in pkgs \cap DOMAIN c.faults}
        judged == found \ (IF q.profile = "none" THEN {"typed-style"} ELSE {})
        early == FirstStage(EarlyStages, found)
        inventory == q.inventory /\ (q.force \/ apps # {})
        late == IF inventory THEN FirstStage(InventoryStages, found)
                ELSE FirstStage(FullStages, judged \cup (IF full.diagnostics # {} THEN {"modules"} ELSE {}))
        reached == [NoAnalysis EXCEPT !.stage = late, !.files = pkgs, !.apps = apps, !.model = model,
                                    !.occs = {o \in ToSet(c.occs) : o.pkg \in pkgs /\ o.kind \notin {"module", "named-interface"}}]
    IN  IF early = "annotations" THEN [NoAnalysis EXCEPT !.stage = early]
        ELSE IF early # "" THEN [NoAnalysis EXCEPT !.stage = early, !.files = pkgs]
        ELSE IF inventory \/ late \in {"starters", "typed-style", "catalogs"} THEN reached
        ELSE IF late # "" \/ q.mode = "validate" THEN [reached EXCEPT !.model = full, !.names = full.names]
        ELSE [reached EXCEPT !.model = full, !.names = full.names,
                             !.stage = IF ~TargetFound(apps, q.target) THEN "target"
                                       ELSE IF "render" \in found THEN "render" ELSE "",
                             !.plan = TargetFound(apps, q.target) /\ "render" \notin found]

\* analyze: q has patterns, mode, target, promote, inventory (for style selections), force and profile.
Analyze(c, q, universe) ==
    LET selected == Selected(c, q.patterns)
        pkgs == IF q.promote THEN Promoted(c, selected) ELSE selected
    IN  AnalyzeLoaded(c, q, pkgs, ModelOf(c, pkgs, NoUniverse), ModelOf(c, pkgs, universe))

\* A cancelled analysis ends when the packages are loaded; malformed annotations are reported before.
Interrupted(r, c, q) ==
    /\ job[r].cancelled
    /\ ~\E x \in Selected(c, q.patterns) \cap DOMAIN c.faults : c.faults[x] = "annotations"

-----------------------------------------------------------------------------
(* The request around the analyses.                                        *)

Content(r) == Contents[sources[Requests[r].root]]

Asked(r) ==
    LET q == Requests[r]
    IN  [patterns |-> q.patterns, mode |-> q.mode, target |-> q.target, promote |-> q.mode = "generate",
         inventory |-> FALSE, force |-> FALSE, profile |-> q.profile]

\* generationModuleInventoryRequest.
InventoryOf(r, pkgs) ==
    [patterns |-> pkgs, mode |-> "validate", target |-> "", promote |-> FALSE, inventory |-> FALSE, force |-> FALSE,
     profile |-> Requests[r].profile]

Key(r) == [Requests[r] EXCEPT !.seq = 0]
Cacheable(r) == Requests[r].content # ""
Stale(r) == Requests[r].seq # 0 /\ Requests[r].seq < latest[Requests[r].root]

Move(r, new) == job' = [job EXCEPT ![r] = new]

\* An analysis failed: the caller learns of a newer request first.
Failed(r) == [NoJob EXCEPT !.phase = "settle", !.cancelled = job[r].cancelled, !.answer = "error"]
Done(r, result) == [NoJob EXCEPT !.phase = "settle", !.cancelled = job[r].cancelled, !.answer = "result",
                                 !.result = result, !.seen = job[r].seen]

\* Reading the files is noted, for the properties.
WithRead(r, new) == [new EXCEPT !.seen = @ \cup {sources[Requests[r].root]}]

Begin(r) ==
    LET q == Requests[r]
        previous == running[q.root]
        Cancelled(all) == [x \in Names |-> IF x \in previous THEN [all[x] EXCEPT !.cancelled = TRUE] ELSE all[x]]
    IN  /\ job[r].phase = "waiting"
        /\ IF Refused(q) THEN
              /\ Move(r, [job[r] EXCEPT !.phase = "ended", !.answer = "error"])
              /\ UNCHANGED <<latest, running>>
           ELSE IF q.seq = 0 THEN
              /\ Move(r, [job[r] EXCEPT !.phase = "begun"])
              /\ UNCHANGED <<latest, running>>
           ELSE IF q.seq < latest[q.root] THEN
              /\ Move(r, [job[r] EXCEPT !.phase = "ended", !.answer = "stale"])
              /\ UNCHANGED <<latest, running>>
           ELSE
              /\ latest' = [latest EXCEPT ![q.root] = q.seq]
              /\ running' = [running EXCEPT ![q.root] = {r}]
              /\ job' = [Cancelled(job) EXCEPT ![r].phase = "begun"]
        /\ UNCHANGED <<sources, edits, cache, order>>

Touched(key) == SelectSeq(order, LAMBDA k : k # key) \o <<key>>

\* A kept result is returned, unless the request is stale by now.
AnswerFromCache(r) ==
    /\ job[r].phase = "begun"
    /\ Cacheable(r) /\ Key(r) \in DOMAIN cache
    /\ order' = Touched(Key(r))
    /\ Move(r, IF Stale(r) THEN [job[r] EXCEPT !.phase = "returning", !.answer = "stale"]
               ELSE [job[r] EXCEPT !.phase = "returning", !.answer = "cached", !.result = cache[Key(r)]])
    /\ UNCHANGED <<sources, edits, latest, running, cache>>

StartAnalysis(r) ==
    /\ job[r].phase = "begun"
    /\ ~(Cacheable(r) /\ Key(r) \in DOMAIN cache)
    /\ Move(r, [job[r] EXCEPT !.phase = IF Requests[r].style # <<>> THEN "selections" ELSE "initial"])
    /\ UNCHANGED <<sources, edits, latest, running, cache, order>>

\* store: a new key is the youngest, the oldest is dropped beyond the limit.
Stored(key) ==
    IF key \in DOMAIN cache THEN Touched(key)
    ELSE IF Len(order) < MaxCacheEntries THEN Append(order, key) ELSE Append(Tail(order), key)

\* The end of Analyze: a newer request is reported, else an error or the result, which is kept.
Settle(r) ==
    /\ job[r].phase = "settle"
    /\ Move(r, IF Stale(r) THEN [NoJob EXCEPT !.phase = "returning", !.cancelled = job[r].cancelled, !.answer = "stale"]
               ELSE [job[r] EXCEPT !.phase = "returning"])
    /\ IF ~Stale(r) /\ job[r].answer = "result" /\ Cacheable(r)
       THEN LET kept == Stored(Key(r)) IN
            /\ order' = kept
            /\ cache' = [k \in ToSet(kept) |-> IF k = Key(r) THEN job[r].result ELSE cache[k]]
       ELSE UNCHANGED <<cache, order>>
    /\ UNCHANGED <<sources, edits, latest, running>>

\* Seeded fault: the entry is removed whoever it belongs to.
UnregisteredAll(r) == [running EXCEPT ![Requests[r].root] = {}]

\* finish: only the own entry is removed.
Unregistered(r) ==
    LET w == Requests[r].root
    IN  IF \E x \in running[w] : Requests[x].seq = Requests[r].seq THEN [running EXCEPT ![w] = {}] ELSE running

\* The deferred finish and cancel.
Finish(r) ==
    /\ job[r].phase = "returning"
    /\ running' = IF Requests[r].seq = 0 THEN running ELSE Unregistered(r)
    /\ Move(r, [NoJob EXCEPT !.phase = "ended", !.answer = job[r].answer])
    /\ UNCHANGED <<sources, edits, latest, cache, order>>

\* The caller gives up.
Abandon(r) ==
    /\ r \in Impatient
    /\ job[r].phase \notin {"waiting", "returning", "ended"}
    /\ ~job[r].cancelled
    /\ Move(r, [job[r] EXCEPT !.cancelled = TRUE])
    /\ UNCHANGED <<sources, edits, latest, running, cache, order>>

\* Files change.
Edit(w) ==
    /\ edits < MaxEdits
    /\ edits' = edits + 1
    /\ \E v \in DOMAIN Contents \ {sources[w]} : sources' = [sources EXCEPT ![w] = v]
    /\ UNCHANGED <<latest, running, cache, order, job>>

-----------------------------------------------------------------------------
(* analyzeModuleIdentityScope.                                             *)

\* A new state of a request alone.
Work(r, new) == Move(r, new) /\ UNCHANGED <<sources, edits, latest, running, cache, order>>

\* The Go module of every module that some load declared.
Known(models, id) == {models[i].gomods[id] : i \in {k \in DOMAIN models : id \in models[k].roots}}

\* enqueueGenerationModuleDependencies: what a model names and no load has declared; an interface
\* is looked for in any case.
Candidates(models, model) ==
    {<<model.gomods[x[1]], x[2].module>> : x \in
        {y \in model.roots \X UNION {model.allowed[m] : m \in model.roots} :
            /\ y[2] \in model.allowed[y[1]]
            /\ <<y[2].module, model.gomods[y[1]]>> \in Inside
            /\ ~(y[2].interface = "" /\ model.gomods[y[1]] \in Known(models, y[2].module))}}

\* nextGenerationModuleCandidate: by Go module, then by package.
Smallest(pending) ==
    CHOOSE x \in pending : \A y \in pending : x[1] < y[1] \/ (x[1] = y[1] /\ x[2] <= y[2])

\* exactGenerationModule: the module of that name in that Go module, in the workspace.
Exact(c, model, candidate) ==
    /\ candidate[2] \in model.roots
    /\ model.gomods[candidate[2]] = candidate[1]
    /\ candidate[2] \notin c.outside

\* The packages below a module that name an interface, found by reading the directory.
InterfacePackages(c, m) ==
    {x \in DOMAIN c.packages \ ({m} \cup c.hidden) :
        /\ IsPrefix(c.packages[m].path, c.packages[x].path)
        /\ \E i \in DOMAIN c.occs : c.occs[i].kind = "named-interface" /\ c.occs[i].pkg = x}

FilesBelow(c, m) == {x \in DOMAIN c.packages \ c.hidden : IsPrefix(c.packages[m].path, c.packages[x].path)}

AnalyzeInitial(r) ==
    /\ job[r].phase = "initial"
    /\ \E result \in {Analyze(Content(r), Asked(r), NoUniverse)} :
       LET pending == Candidates(<<result.model>>, result.model) IN
           Work(r, IF Interrupted(r, Content(r), Asked(r)) THEN Failed(r)
                   ELSE WithRead(r, IF pending = {} THEN Done(r, result)
                                   ELSE [job[r] EXCEPT !.phase = "scope", !.initial = result, !.models = <<result.model>>,
                                                       !.pending = pending]))

Taken(j, candidate) == [j EXCEPT !.pending = @ \ {candidate}, !.inventoried = @ \cup {candidate}]

\* One candidate is taken up: it is skipped, or its module is loaded.
TakeCandidate(r) ==
    LET j == job[r]
        c == Content(r)
        candidate == Smallest(j.pending)
        taken == Taken(j, candidate)
        known == Known(j.models, candidate[2])
        request == InventoryOf(r, {candidate[2]})
        loaded == Analyze(c, request, NoUniverse)
    IN  /\ j.phase = "scope" /\ j.pending # {}
        /\ Work(r, IF j.cancelled THEN Failed(r)
                   ELSE IF candidate \in j.inventoried \/ (known # {} /\ candidate[1] \notin known) THEN taken
                   ELSE IF \E i \in DOMAIN j.models : Exact(c, j.models[i], candidate)
                   THEN [taken EXCEPT !.phase = "interfaces", !.candidate = candidate, !.result = NoAnalysis]
                   ELSE WithRead(r, IF Exact(c, loaded.model, candidate)
                                   THEN [taken EXCEPT !.phase = "interfaces", !.candidate = candidate, !.result = loaded]
                                   ELSE taken))

\* Seeded fault: what it names is not looked for.
JoinedAlone(j, model, pkgs) ==
    [j EXCEPT !.phase = "scope", !.models = Append(@, model), !.inventories = Append(@, pkgs), !.result = NoAnalysis]

\* A module joins: what it names is looked for in turn.
Joined(j, model, pkgs) ==
    LET models == Append(j.models, model)
    IN  [j EXCEPT !.phase = "scope", !.models = models, !.inventories = Append(@, pkgs), !.result = NoAnalysis,
                  !.pending = @ \cup Candidates(models, model)]

\* Its interfaces are loaded with it; a load with another module beside it is not used.
ReadInterfaces(r) ==
    LET j == job[r]
        c == Content(r)
        m == j.candidate[2]
        pkgs == InterfacePackages(c, m)
        again == Analyze(c, InventoryOf(r, {m} \cup pkgs), NoUniverse)
        skipped == [j EXCEPT !.phase = "scope", !.result = NoAnalysis]
    IN  /\ j.phase = "interfaces"
        /\ Work(r, IF m \notin DOMAIN c.packages \/ Cardinality(FilesBelow(c, m)) > MaxInventoryFiles \/ j.cancelled
                   THEN Failed(r)
                   ELSE IF pkgs # {}
                   THEN WithRead(r, IF Exact(c, again.model, j.candidate) /\ again.model.roots = {m}
                                   THEN Joined(j, again.model, {m} \cup pkgs) ELSE skipped)
                   ELSE WithRead(r, IF j.result.model.roots = {} THEN skipped ELSE Joined(j, j.result.model, {m})))

\* Every candidate is settled: what the loads know together is the universe.
CloseScope(r) ==
    LET j == job[r] IN
    /\ j.phase = "scope" /\ j.pending = {}
    /\ Work(r, IF j.inventories = <<>> THEN Done(r, j.initial)
               ELSE [j EXCEPT !.phase = "validate", !.universe = Modules!NewUniverse(ToSet(j.models))])

\* The modules that joined are judged first; the first that is refused is the answer.
ValidateInventory(r) ==
    LET j == job[r]
        request == InventoryOf(r, j.inventories[j.next])
        result == Analyze(Content(r), request, j.universe)
    IN  /\ j.phase = "validate" /\ j.next <= Len(j.inventories)
        /\ Work(r, IF j.cancelled THEN Failed(r)
                   ELSE WithRead(r, IF result.model.diagnostics # {} THEN Done(r, result) ELSE [j EXCEPT !.next = @ + 1]))

\* The selected packages are judged in the universe; the interfaces of the loads are added to their modules.
AnalyzeFinal(r) ==
    LET j == job[r]
        Interfaces(m) == {n \in UNION {j.models[i].names : i \in DOMAIN j.models} : n.module \in m.roots}
        Joint(result) == [result EXCEPT !.names = @ \cup Interfaces(result.model)]
    IN  /\ j.phase = "validate" /\ j.next > Len(j.inventories)
        /\ Work(r, IF Interrupted(r, Content(r), Asked(r)) THEN Failed(r)
                   ELSE WithRead(r, Done(r, Joint(Analyze(Content(r), Asked(r), j.universe)))))

-----------------------------------------------------------------------------
(* analyzeConfiguredSelections.                                            *)

\* A build selection: what it contains, judged as sources only when it has an application.
Selection(r, i) ==
    LET s == Requests[r].style[i]
        mains == Content(r).mains \cap s.packages
    IN  [patterns |-> s.packages, mode |-> Requests[r].mode, target |-> Requests[r].target, promote |-> FALSE,
         inventory |-> TRUE, force |-> mains # {}, profile |-> "java-structured"]

InventorySelection(r) ==
    LET j == job[r]
        s == Requests[r].style[j.next]
        c == Content(r)
        state == [result |-> Analyze(c, Selection(r, j.next), NoUniverse), mains |-> c.mains \cap s.packages,
                  malformed |-> c.badMains \cap s.packages # {}]
    IN  /\ j.phase = "selections" /\ j.next <= Len(Requests[r].style)
        /\ Work(r, IF j.cancelled THEN Failed(r)
                   ELSE WithRead(r, [j EXCEPT !.next = @ + 1, !.results = Append(@, state)]))

\* configuredApplicationTargets: annotated applications and generated entrypoints.
SelectionTargets(state) == {a.pkg : a \in state.result.apps} \cup state.mains

\* applicationSemanticCoverageDiagnostics: every contribution is in some application.
Uncovered(inventory, targets) == inventory.occs \ UNION {t.occs : t \in targets}

\* What the selections report together with their applications, for the selections that have been judged.
Report(states, targets) ==
    [stages |-> {states[i].result.stage : i \in DOMAIN states}
                \cup {"entrypoints" : i \in {k \in DOMAIN states : states[k].result.stage = "" /\ states[k].malformed}}
                \cup UNION {{t.stage : t \in targets[i]} : i \in DOMAIN targets}
                \cup {"coverage" : i \in {k \in DOMAIN targets : targets[k] # {} /\ Uncovered(states[k].result, targets[k]) # {}}},
     files |-> (UNION {states[i].result.files : i \in DOMAIN states}) \cup UNION {t.files : t \in UNION {targets[i] : i \in DOMAIN targets}},
     plan |-> \E i \in DOMAIN targets : \E t \in targets[i] : t.plan]

\* The applications of a selection are analysed in the universe of all selections.
SelectionReports(r, c, states) ==
    LET universe == Modules!NewUniverse({states[i].result.model : i \in DOMAIN states})
        judged == {i \in DOMAIN states : states[i].result.stage = "" /\ ~states[i].malformed}
        TargetResult(pkg) == Analyze(c, [patterns |-> {pkg}, mode |-> Requests[r].mode, target |-> Requests[r].target,
                                         promote |-> TRUE, inventory |-> FALSE, force |-> FALSE,
                                         profile |-> "java-structured"], universe)
    IN  Report(states, [i \in judged |-> {TargetResult(pkg) : pkg \in SelectionTargets(states[i])}])

\* The applications of every selection are analysed, and a selected source that no load reached is reported.
\* (The code loads once for each application; files that change in between are not followed here.)
AnalyzeTargets(r) ==
    LET j == job[r]
        c == Content(r)
        selected == (UNION {Requests[r].style[i].packages : i \in DOMAIN Requests[r].style}) \cap DOMAIN c.packages
        Stages(reports) == (reports.stages \cup (IF selected \subseteq reports.files THEN {} ELSE {"source-selection"})) \ {""}
        Joint(reports) == [NoAnalysis EXCEPT !.stage = IF Stages(reports) = {} THEN "" ELSE "selections",
                                           !.files = reports.files, !.plan = reports.plan]
    IN  /\ j.phase = "selections" /\ j.next > Len(Requests[r].style)
        /\ Work(r, IF j.cancelled THEN Failed(r)
                   ELSE WithRead(r, Done(r, Joint(SelectionReports(r, c, j.results)))))

-----------------------------------------------------------------------------

\* A step of the goroutine that runs a request.
Step(r) ==
    \/ AnswerFromCache(r)
    \/ StartAnalysis(r)
    \/ AnalyzeInitial(r)
    \/ TakeCandidate(r)
    \/ ReadInterfaces(r)
    \/ CloseScope(r)
    \/ ValidateInventory(r)
    \/ AnalyzeFinal(r)
    \/ InventorySelection(r)
    \/ AnalyzeTargets(r)
    \/ Settle(r)
    \/ Finish(r)

ServiceIdle == (\A r \in Names : job[r].phase = "ended") /\ UNCHANGED serviceVars

ServiceNext ==
    \/ \E r \in Names : Begin(r) \/ Step(r) \/ Abandon(r)
    \/ \E w \in Roots : Edit(w)
    \/ ServiceIdle

Active(r) == job[r].phase \notin {"waiting", "ended"}

ServiceSpec == ServiceInit /\ [][ServiceNext]_serviceVars

-----------------------------------------------------------------------------
(* Properties.                                                             *)

\* begin and finish: of the requests of a workspace that are under way, every one that a newer one
\* superseded is cancelled, whatever the order in which they end.
SupersededIsCancelled ==
    \A r, x \in Names :
        (/\ Active(r) /\ Active(x) /\ Requests[r].root = Requests[x].root
         /\ 0 < Requests[r].seq /\ Requests[r].seq < Requests[x].seq)
        => job[r].cancelled

\* The modules that a module names are of its own Go module, and no module is inside another.
Plain(c) ==
    LET whole == ModelOf(c, DOMAIN c.packages, NoUniverse)
    IN  /\ \A m \in whole.roots : \A d \in whole.allowed[m] : <<d.module, whole.gomods[m]>> \in Inside
        /\ \A m, n \in whole.roots : IsPrefix(c.packages[m].path, c.packages[n].path) => m = n

UnknownNames(diagnostics) == {d \in diagnostics : d[1] \in {"unknown-module", "unknown-interface"}}

\* analyzeModuleIdentityScope: an analysis of some packages, whose files did not change, reports a
\* dependency as unknown exactly when an analysis of the whole workspace does.
IdentityIsExact ==
    \A r \in Names :
        (/\ job[r].phase = "returning" /\ job[r].answer = "result" /\ Requests[r].style = <<>>
         /\ Cardinality(job[r].seen) = 1)
        => \A v \in job[r].seen :
              LET c == Contents[v]
                  model == job[r].result.model
                  whole == ModelOf(c, DOMAIN c.packages, NoUniverse)
              IN  c.faults = <<>> /\ Plain(c)
                  => UnknownNames(model.diagnostics) = {d \in UnknownNames(whole.diagnostics) : d[2] \in model.roots}

\* The worklist of analyzeModuleIdentityScope: modules that name each other in a circle are loaded
\* once each, so that the request ends (a request that cannot go on would be a deadlock).
ScopeIsLoadedOnce ==
    \A r \in Names : \A a, b \in DOMAIN job[r].inventories : job[r].inventories[a] = job[r].inventories[b] => a = b

\* The scope of an analysis of some packages is widened as far as their identities need, and ends.
ScopeIsExact == IdentityIsExact /\ ScopeIsLoadedOnce
=============================================================================

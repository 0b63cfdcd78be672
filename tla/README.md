# A TLA+ development of the Spice toolchain

The Spice toolchain compiles annotated Go programs into wired applications. This directory
holds TLA+ models of its parts: those that keep state or share it between goroutines, processes
and users, and the passes of the compiler, whose results have to fit together. With them come
the TLC configurations that check them on small instances and proofs, checked by TLAPS, of what
holds for every instance.

To check a model: `tlc -workers 2 -config MCDevEngine.cfg MCDevEngine`. To check proofs:
`tlapm DevEngineProofs.tla`.

`PROJECT.json` holds the same information in machine-readable form: the components, the runs, the
source lines that each definition models (`map`), the hazards and the theorems.

## 1. Inventory

The system is one Go module. Its parts, the state they keep and how they interact:

| Part | Source | State | Operations | Hard behaviour | Module |
|---|---|---|---|---|---|
| Development-loop engine | `internal/devloop/engine.go` | revision, active process, cancel functions, one preparation and one replacement goroutine per revision | file events, debounce, finished preparations and replacements, exits, shutdown | goroutines rendezvous with one loop on unbuffered channels; results of cancelled work arrive late | `DevEngine` |
| Watcher and debouncer | `internal/devloop/polling.go`, `debounce.go` | baseline snapshot, bounded event channel, pending burst, timer | scan, emit, merge, take a batch, close | a scan is not atomic; the channel fills; a stream of saves starves the quiet period | `ChangeFeed`, `DevWatch` |
| Preparation pipeline | `internal/cli/dev_command.go`, `dev_incremental.go` | cached plan and structures, generated files, lock | reuse, analyse, apply, remember, build | preparations of several revisions overlap and share cache and files while sources change | `DevPipeline` |
| Guarded generation file system | `internal/genfs/genfs.go` | generated files, ownership manifest, lock, temporary and backup files | `Apply`, `Check` | killed between two file operations; user edits; two generators | `GenFS` |
| Language server | `internal/lsp/server.go`, `analysis.go` | documents, workspaces with sequence numbers, timers, analyses, published diagnostics | open, change, save, close, folders, settings, shutdown | timers, callbacks and the reader interleave; results are stale when they arrive | `LspServer` |
| Annotation-tool host | `compiler/annotationhost/client.go`, `manager.go` | processes, clients, two mutexes, request numbers, pipes | start, call, abort, close | timeouts race answers; a tool hangs, dies or answers twice; locks are held during calls | `AnnotationHost` |
| Compiler service | `compiler/service` | running and latest sequence per workspace, kept results, scopes | begin, load, widen, finish, reject, keep | requests supersede each other while they load the workspace several times; modules name each other in circles | `AnalysisService` |
| Front end | `compiler/load`, `parser`, `annotationimport`, `descriptor`, `resolve`, `validate` | none | imports, annotations, descriptors, the symbol that an annotation is about, its arguments | something is left out without a diagnostic | `Annotations` |
| Providers and wiring | `compiler/provider`, `compiler/graph` | the catalog, edges | stereotypes, beans, library defaults, candidates of a dependency | passes add providers after others have judged the catalog | `ProviderCatalog`, `Wiring` |
| Features of an application | `compiler/lifecycle`, `schedule`, `async`, `controller`, `policy`, `transaction`, `cache`, `event`, `modulith`, `enum`, `configuration`, `bootstrap` | their plans | validation of the annotated declarations | several passes decide independently whose an annotation is | `ManagedMethods`, `HttpRoutes`, `ServicePolicies`, `EventTopics`, `AppModules`, `AppSettings` |
| Application model | `compiler/application`, `compiler/service` | the model that grows from pass to pass | the passes in their order | each pass sees the results of the earlier ones only | `Compiler` |
| Dependency graph and construction order | `compiler/graph/build.go`, `compiler/application/application.go` | the graph, Tarjan's stack, search path, ready set | components, representative cycle, order, reorder for transaction managers | graphs of four and more nodes; iteration over maps | `ProviderOrder` |
| Generator and generated applications | `compiler/generate` and the code it renders | statements, names and files; beans, hooks, cleanups, executor, scheduler, cache, transactions | construct, abort, start, serve, stop | failure in the middle of construction or start; work that arrives while the application stops | `Generator`, `GeneratedApp` |
| Module files | `compiler/annotationinstall`, `internal/lsp/annotation_install.go`, `spice add` | go.mod and go.sum, previews, the cached catalog | preview, apply, roll back | files change between preview and apply, without a lock | `ModuleInstall` |
| Scaffolding | `internal/scaffold`, `spice new`, `spice init` | the tree of files | create a project or a declaration, roll back | files of the user appear in the same directory | `Scaffold` |
| Command line | `internal/cli` | steps left, exit code, temporary directory, child process, signals | every command | signals race the start and the exit of the application; a step fails after others have succeeded | `CommandLine`, `Project` |
| Editor requests | `internal/lsp/features.go`, `navigation.go`, `enum_actions.go` | the open document, the last result and the last good one | completion, quick fix, enum helpers, go to definition | answers come from results of an older text, and are accepted one after the other | `Editor` |
| Diagnostics, style, official tool, release tooling, repository gates | see `PROJECT.json` | none | functions and batch programs | | not modelled |

How they interact. `spice dev` runs the engine; the watcher sends it file events over a channel, the
debouncer turns them into batches, each batch becomes a revision whose preparation goroutine runs
the pipeline; the pipeline calls the compiler service, applies the plan through `genfs` and runs
`go build`; the engine then stops the running application and launches the candidate. The language
server and the command line call the same compiler service, which calls annotation tools through
the host's manager. An analysis of the service goes from comments to annotations, from these to the
application model, and from the model to the generated program. The engine, the pipeline, the
service and the language server all face one question: is what I computed still about the files as
they are?

What makes each part correct, in the order of importance:

* engine: no process and no build artifact is lost; the last good application keeps running while
  nothing better exists; all work ends, also at shutdown;
* pipeline: the application that runs is built from the sources as they are, with the code
  generated for them;
* genfs: nothing the user wrote is overwritten; success means the files are exactly those of the
  plan; a crash can be recovered from;
* watcher: no change is lost and bursts do not starve;
* language server: a result that is accepted is about the documents as they are; the last edit is
  analysed;
* editor requests: a completion that was accepted means what was offered and goes on meaning it; a fix is for the text
  at hand;
* annotation host: no process is orphaned; answers belong to their requests; nobody keeps others
  waiting because a tool is silent;
* compiler service: what was superseded is cancelled; the scope of an analysis is exactly what the
  application's modules make it, and is found in finitely many loads;
* compiler: no annotation is ignored; what is accepted has everything it needs, lets no call past a
  policy and no import past a module's border;
* ordering: everything is constructed after what it needs, deterministically, and cycles are
  reported exactly where they are;
* generated application: beans are alive while they are used and are released once; the layers
  around a method keep their meaning together;
* module files and scaffolding: both files change or none; the user's edits and files survive;
* command line: the exit code is true and nothing is left running.

## 2. Modules

| Module | Models | Proofs | Instance |
|---|---|---|---|
| `DevEngine` | `Engine.Run`, the loop and its handlers, `startPreparation`, `replace`, `discardReplacement`, `stopActive`, and `developmentProcess.Stop` with the exit of the child | `DevEngineProofs` | `MCDevEngine` |
| `GenFS` | `Apply`: lock, inspection, `replaceFile` with backup, `removeOwnedFile`, manifest; `Check` as the predicate `Current`; crashes, failing operations, user edits | `GenFSProofs` | `MCGenFS` |
| `LspServer` | notifications, `scheduleLocked`, `beginAnalysis`, `completeAnalysis`, publication, `removeWorkspace`, `stop` | `LspServerProofs` | `MCLspServer` |
| `AnnotationHost` | `Manager.Client`, `Close`, `Client.call`, `Close`, `finish`, `abortLocked`; the tool is arbitrary | `AnnotationHostProofs` | `MCAnnotationHost` |
| `ChangeFeed` | abstract: what the loop is promised about changes | | |
| `DevWatch` | the poll goroutine, its channel, the debouncer and the engine's timer; implements `ChangeFeed` (`Feed == INSTANCE ChangeFeed WITH ...`) | `DevWatchProofs` | `MCDevWatch` |
| `DevPipeline` | `developmentPipeline.Prepare` and its cache, composed with the parts of watcher, engine and genfs that decide what is built and accepted | `DevPipelineProofs` | `MCDevPipeline` |
| `ProviderOrder` | `stronglyConnected`, `representativeCycle`, `constructionOrder`, `orderProvidersForPolicies` | `ConstructionProofs` | `MCProviderOrder` |
| `ProviderCatalog` | `provider.Analyze` and the selection of library defaults | | through `Compiler` |
| `Wiring` | `graph.Build` up to the edges | | through `Compiler` |
| `ManagedMethods`, `HttpRoutes`, `ServicePolicies`, `EventTopics`, `AppModules`, `AppSettings` | one feature of applications each | | through `Compiler` |
| `Annotations` | comments to validated annotations | | through `Compiler` |
| `Compiler` | `analyze` of the service and `BuildWithOptions`: one action per pass; composes all of the above | | `MCCompiler` |
| `AnalysisService` | `Service.Analyze` with overlapping requests; uses `AppModules` | `LspServerProofs` | `MCAnalysisService` |
| `Generator` | what `compiler/generate` refuses, names and renders: the generated program as data | `ConstructionProofs` | through `GeneratedApp` |
| `GeneratedApp` | that program while it runs | `ConstructionProofs` | `MCGeneratedApp` |
| `ModuleInstall`, `Scaffold`, `CommandLine`, `Editor` | changes of the module files; creation of projects; the other commands; what the language server offers for a file | | through `Project` |
| `Project` | the four of them, one at a time | `ProjectProofs` | `MCProject` |

Conventions. Variables and actions carry the names of the code where TLA+ allows it; the comment
of an action names the function. 0 stands for nil. A definition directly above another one of a
similar name whose comment begins with "Seeded fault" is the same code with one plausible mistake.
It is used by no specification; replacing the definition below it by it makes TLC find a violation
of the property named in `PROJECT.json` under `mutants`. This shows that each property can fail.

### Correspondence with the code

*DevEngine.* A revision names its preparation, candidate, replacement and process, because each
revision has at most one of each. The variables of `engineState` are those of the loop goroutine;
`prepPc` and `replPc` are the program counters of the goroutines; `cand` and `proc` are what they
own. A send on an unbuffered channel and its receipt are one step (`FinishPreparation`,
`FinishReplacement`), whose alternative, when the context is done, is `PrepareAbandoned` or
`ReplaceAbandoned`. `discardReplacement` and `stopActive` block the loop in `Stop`, so they have
steps of their own. What the loop reports as events is left out.

*GenFS.* Contents stand for hashes. The manifest is the plan it was written for, or `foreign` when
it does not decode. A file is replaced in four steps, the ones between which a kill makes a
difference: temporary file written, destination moved aside, temporary file moved in, backup removed. Each can fail. Within
a loop the files are taken in any order, which includes the sorted order of the code. The user
edits between Applies (`EditsDuringApply` lets them edit during one as well, see section 6).

*LspServer.* The reader handles one message per step. A timer callback has one step per region
of `server.mu` and per write to the client. Text is abstracted to the set of files
in which it causes diagnostics, so that editing one file can break another. The result of an analysis is what it
has read. One folder, whose record may be removed and added again.

*AnnotationHost.* One key of `manager.clients`. Both mutexes are variables; a call has steps for
lock, write, read and abort. The tool may answer any request it has read, with or without an
error, once or twice, or exit at any time; it never has to. A write is assumed to fit the pipe.

*DevWatch.* The scan reads one file per step while files change. Time passes in ticks that the
timer cannot miss. The state of the loop other than the debouncer is in `DevEngine`. The refinement
mapping takes what was scanned, what is in the channel and what the debouncer holds for the changes
that `ChangeFeed` still owes to the loop.

*DevPipeline.* A source has a structure and a body. A plan is the structures that its analysis
read. The go command reads the workspace over an interval. `genfs.Apply` is two steps with the lock
held; its inner steps are those of `GenFS`. `undisturbed` is a history variable.

*ProviderOrder.* Providers are numbered by symbol ID. The recursion of `visit` is a sequence of
frames and that of `search` a path with the successors left to try. Every graph is an initial
state, except that only providers in `SelfLoops` may need themselves, which
keeps the instance small. `BeginPolicies` picks any set of transactional
services with their manager.

*Compiler* and the modules it extends. A program is a record of declarations, resolved annotations
and packages; each field that a pass looks at is there, everything else is not. A declaration's
signature is its types, a type is a shape and a name. Each pass is an operator from the program and
the earlier results to its plan and its diagnostics, and one action of `Compiler`; `pass` is the
program counter of `BuildWithOptions`, and the first pass that reports something ends the build. Checks that the
code makes one after the other, returning at the first failure, are rows of a table (`FirstProblem`). Programs of some
families are given by their source instead, and then `Annotations` computes the annotations. Sequences keep
the order of the code where a result depends on it (for instance the compaction of candidates in place in
`SelectDefaults`).

*Annotations.* A comment is a sequence of tokens, so the parser is modelled with its lookahead and its
fallback from a name to a value; characters are not. A descriptor is the set of its fields and how each
is written. The places that an annotation can stand at (package, specification of a group, function, parameter)
are those of `resolve.go`.

*AnalysisService.* One load of the packages is one step; between two loads the files may change. A
request has the sequence of stages of `analyze`, each of which may find something in the packages at
hand; the worklist of `analyzeModuleIdentityScope` is a variable of the request. Kept results are keyed by what the caller
says the content is.

*Generator* and *GeneratedApp.* `Generator` turns an application model into the statements of
`NewApplicationWithOptions`, the hooks and the layers around methods and routes. `GeneratedApp` executes them. The coordinator, executor,
scheduler, cache, retry and transaction manager are libraries outside this repository; they are
modelled from how the generated code calls them and are marked external. A call of a service or route comes in through a server, a
component with a `Stop` (`Serving`), which is why no call begins in an application without one.

*ModuleInstall.* A content is the set of edits and selections it holds; a token is the preview it
was computed from. Each file operation is a step and may fail; the steps of two workers and of
the user interleave.

*Scaffold.* A tree of paths; the commands create entries one by one and remove them in reverse.

*CommandLine.* A command is a list of steps, of which some are owed even after a failure (closing the
tools, removing the temporary directory, giving signals back). The parsers are one fold over the
words with a description of the options of each command. The application is a process that runs,
is a zombie or is reaped, because `kill` behaves differently in the three.

*Editor.* A text is its imports, of Go and of annotations, the names that were accepted from the server and the helpers of
one enum. `latest` and `lastGood` are results for some earlier text (that only results for the current text are accepted
is `AcceptedIsCurrent` of `LspServer`); an answer is made from the text and these, and to accept it is one step
(`Rewrite`): an answer is used for the text that it was asked for. `Lookup` and `Imported` are the name resolution of the compiler, which the properties compare
the offers with. `doubt` marks, when a completion is accepted, the texts of section 6 in which it overlooks something.

## 3. Runs

Passing runs. "Deadlock" says whether TLC also checks that the model cannot stop.

| Run | Instance | What it shows | Deadlock |
|---|---|---|---|
| `engine` | two revisions; everything that may fail may fail | `NothingLost`: every process and artifact has somebody who will end or remove it. `HandoverIsSafe`: no executable is taken from under a running application, the last good one is stopped only for a better one, its successor starts after its exit. `WorkSettles`: all work ends unless `Run` returns first. `ShutdownSettles`: a cancelled run returns, and what is left then belongs to work that it does not wait for | no: the program ends |
| `genfs` | two generators, three paths, four plans of which one is invalid, three edits, two killed generators, failing operations | `UserWorkKept`; `PlanIsCarriedOut` (success means current, the manifest comes last); `RetryIsNoManualEdit` (a retry of an interrupted plan is not refused as a manual edit); `LockReleased` | yes |
| `lsp` | one document with two texts, two settings, two overlapping analyses, a removed folder | `AcceptedIsCurrent`, `ServiceOutlivesAnalyses`, `EditsAreAnalysed` | yes |
| `host` | two analyses and a closer, two processes, three calls on each, one surplus answer, any answer with or without an error | `ProcessOwned` (no zombies, and no orphans but a tool that refuses to shut down), `OneToolOneRequest` (two processes only while one is closed or after it refused; a client that is free has no unanswered request), `NobodyWaitsOnTheTool` (whoever holds a lock can go on without the tool) | yes |
| `watch` | two files, a channel of capacity one, quiet period 2, maximal delay 3, a failing scan | `StarvationBound`, `Implements` (the refinement of `ChangeFeed`, with its fairness), `CloseEnds` | no: the loop ends |
| `pipeline` | two Go files and another input, two edits, so three overlapping preparations, failing steps | `ServedIsCurrent`; `EventuallyAnswered`: after the last edit the newest revision is accepted or its failure reported | yes |
| `order` | every graph of four providers, every set of services with a manager | `CyclesAreExact`, `OrderIsSound` (dependencies and managers first, nobody twice, whoever is left out waits for a cycle), `OrderIsLeast` (the first of all topological orders) | yes |
| `compile` | thirteen families of small programs (`Catalog`, `Wiring`, `Default`, `Policy`, `Event`, `Module`, `Setting`, `Managed`, `Syntax`, `Argument`, `Import`, `Place`, `Tool`), each of which varies one part of a base program | `WiringSound` (with the soundness of the catalog), `PoliciesEnforced`, `ModulesIsolated`: what an accepted program can rely on, stated without the passes. `AnnotationsExact`: parser and validator against a grammar. `NoAnnotationIgnored`: an annotation has an effect or is reported | no: a build ends |
| `service` | three requests of one workspace, one edit, two kept results, modules that name each other in a circle | `SupersededIsCancelled`, `ScopeIsExact` | yes |
| `app` | three applications that use every part of the generated program, twelve that the generator refuses, two callers | `InUseIsLive`, `NothingLeaks`, `LayersNest`, `PlanIsSound` | yes |
| `project` | two workers on the module files with an edit and a fault; creation of projects with files of the user in the way; every command with up to three words, failing steps and three signals; one file with every combination of accepted completions, fixes and helpers within the bound | `EditsSurvive`, `AllOrNothing`, `OnlyOwnIsRemoved`; `NothingOutlives`, `ExitIsTrue`, `LookupsAgree`; `OffersHold` | no: commands end |

One run finds a violation of something the repository says about itself: `engine_discard`
(`DiscardedIsObsolete`). The late result of a cancelled replacement cancels its successor; the newest
candidate is discarded as "obsolete" and nothing runs until the next edit.

The types of `DevEngine` and `GenFS` (`TypeOK`) are proved in section 4; no run repeats them.

### Why the bounds are enough

* `engine`: all handlers relate at most two revisions at a time (the active one or a replacement's
  predecessor, and the newest). Two revisions reach every program counter and every order of two
  replacements, and the safety properties are proved for any number. The violation needs two as
  well: a cancelled replacement and its successor.
* `genfs`: plans that add, change and drop a path, and an invalid one; a path that is not Go; a
  user content with and without the generated header. Three edits and two crashes allow every
  pair of interrupted Applies followed by a third. The safety properties are proved for any number.
* `lsp`: acceptance depends on the sequence number, versions and settings, and two values of each
  tell stale from current. `FailingSequences` contains the first sequence, so an analysis can fail and be
  followed by one that succeeds.
* `host`: two processes are what it takes to start a second while the first is being closed; three
  requests are the start-up handshake (initialize and describe) and one more.
* `watch`: capacity one is full after the first of two events; delay 3 with quiet period 2 makes the
  starvation bound bite.
* `pipeline`: two edits give a structural and a body-only batch in either order; three
  preparations overlap.
* `order`: four is the smallest number of providers for which the search for a representative
  cycle runs into a dead end, and two disjoint cycles fit. The order properties are proved for any number.
* `compile`: every check of a pass is about at most three declarations, and a family contains all combinations of
  what its checks compare. Families are not multiplied with each other.
* `service`: three requests are the least for which the middle one ends after both others began; one edit makes two
  loads of a request differ; two kept results make the third push one out.
* `app`: one application has background work (a task, a scheduled job, two components), one a service with every policy and its
    transaction manager, one configuration, events, a scoped bean and routes; two callers, of whom one is authorized, are what it takes for
  a value in the cache to reach the wrong one; two attempts make a retry.
* `project`: two workers are what one preview and one apply need; one fault lands in every step, and a second, for the
  directories, in its rollback. Three signals are one before, one during and one after the application. One of the two workers is a
  request of the language server and the other that or `spice add` (`Processes`).
  Three changes of the text are an annotation, an interface in its argument and one that could shadow them; the catalog has
  a symbol twice, in two packages with one base name, and a package whose name is not the end of its path.

### Fairness

* `engine`: goroutines that can go on do, the select of the loop serves a channel that stays ready,
  and a process that was interrupted exits (`Stop` kills it after a grace period). File events, exits
  of its own accord and the user's interrupt are not promised. Nothing is promised of the goroutines once `Run` has returned: it does
  not join them, and `cmd/spice/main.go:16` then ends the program with `os.Exit`.
* `genfs`: a generator that has started goes on.
* `lsp`: the Go runtime runs goroutines and timers; `Analyze` returns.
* `watch`, `pipeline`: the goroutines run and time passes.

The other runs assume no fairness. Those that check deadlock show that nobody is stuck
before the end; in `host`, `NobodyWaitsOnTheTool` says it of each holder of a lock, since something else can
almost always happen there.

## 4. Theorems

All are checked by TLAPS, for every value of the constants that satisfies the assumptions named in the modules. Those only give
constants their types and keep special values apart, with these exceptions that say something of the code:
`MaxDelay >= QuietPeriod` and `Capacity > 0` in `WatchAssumption` (`NewDebouncer` refuses a shorter delay; the channel is made for 256 events);
`StoresAreValid` in `CommandLine` (`genfs` writes no manifest whose ranges are empty); `RequestsAreNumberedOnce` in `AnalysisService` (both
callers of the service count their requests up; section 6 says what happens otherwise); and `AppsAreCompiled` in `GeneratedApp`: the lists of an application name
its providers (`Listed`), and the providers of one that is rendered stand after everything they are constructed from (`Ordered`), which is
what `OrdersAreSound` shows of the compiler. Some theorems have a
hypothesis of their own; it excludes a case of section 6 in which the property is false, and TLC shows that it is.

The properties are about what a user sees, and hardly one of them is inductive: each depends on who is where with
what in hand. The argument is the same everywhere. An inductive invariant says, for every program counter, what its owner
holds and what is still true of what it has read; one lemma per action keeps it; the theorem follows.

| Theorem | States | Hypothesis |
|---|---|---|
| `DevEngineProofs!NothingIsLost`, `HandoversAreSafe`, `TypeCorrect` | `NothingLost`, `HandoverIsSafe`, types | |
| `GenFSProofs!UserWorkIsKept`, `PlansAreCarriedOut` | `UserWorkKept`, `PlanIsCarriedOut` | nobody edits during Apply |
| `GenFSProofs!RetriesAreNoManualEdits`, `ApplyIsExclusive`, `TypeCorrect` | `RetryIsNoManualEdit`, one generator at a time, types | |
| `LspServerProofs!ServicesOutliveAnalyses` | `ServiceOutlivesAnalyses` | |
| `LspServerProofs!AcceptedResultsAreCurrent` | `AcceptedIsCurrent` | one record of the folder |
| `LspServerProofs!AcceptedWithinFirstRecord` | the same while the first record is the only one | |
| `AnnotationHostProofs!NoOrphans`, `ToolIsShared` | `ProcessOwned`, `OneToolOneRequest` | |
| `AnnotationHostProofs!LocksAndProcesses` | the invariant | |
| `DevWatchProofs!BurstsAreBounded`, `FeedIsImplemented` | `StarvationBound`; the safety part of `Implements` | |
| `DevWatchProofs!ChangesAreNotLost` | what the watcher will not see again, the loop has seen or will | no content returns |
| `DevPipelineProofs!WhatIsServedIsCurrent` | `ServedIsCurrent` | |
| `LspServerProofs!SupersededAreCancelled`, `NewestIsRegistered` | `SupersededIsCancelled` of the compiler service; its invariant | |
| `ConstructionProofs!OrdersAreSound`, `OrdersAreLeast` | `OrderIsSound`, `OrderIsLeast` | |
| `ConstructionProofs!CyclesAreFound` | `CyclesAreExact` | |
| `ConstructionProofs!AssemblyIsWellBuilt` | the generated program constructs, registers and reads in the right order | `Listed`, `Ordered` |
| `ConstructionProofs!NothingEverLeaks`, `BeansAreAccounted` | `NothingLeaks`; its invariant | |
| `ConstructionProofs!WhatRunsIsLive`, `WorkEndsFirst` | `InUseIsLive`; its invariant | |
| `ConstructionProofs!LayersAlwaysNest`, `CallsGoThroughLayers` | `LayersNest`; its invariant | |
| `ProjectProofs!FilesOfTheUserStay`, `EditsOfTheUserSurvive` | `OnlyOwnIsRemoved`, `EditsSurvive` | |
| `ProjectProofs!ChangesAreWhole` | `AllOrNothing` | |
| `ProjectProofs!NothingOutlivesTheCommand`, `ExitCodesAreTrue` | `NothingOutlives`, `ExitIsTrue` | |
| `ProjectProofs!LookupsInvert`, `LookupsAlwaysAgree` | the lookups are inverse; `LookupsAgree` | |

*DevEngineProofs*, for any number of revisions. That a process is owned
after `FinishReplacement` depends on which goroutine has its revision in hand. `EngineInv` says that for every
program counter: which counters can go together (`PrepInv`, `ReplInv`), what the active and the discarded
revision are (`ActiveInv`, `DiscardInv`), that a revision that is over has released everything
(`EndInv`), and whom a replacement stops (`PrevInv`, which carries the order of exit and
launch).

*GenFSProofs*, for any number of generators, paths and plans. `BaseInv`: a running
generator is the creator of the lock, backups exist only between two renames, only valid plans are
recorded. `WorkInv` says that what the inspection found stays
true until it is acted on: files still to be written or removed hold nothing of the user's,
the others are as the plan wants them. It needs that the user does not edit during an Apply (`~EditsDuringApply`).
`RetryInv` does without: as long as nobody has edited, every file holds what the manifest says, nothing, or
what the plan of the interrupted Apply says, and so it stays if the old manifest is moved back from its backup.

*LspServerProofs*, for any number of files, records and analyses in flight. `RecordInv`: an analysis belongs to a record whose service
is open. `CurrentInv`: an analysis that carries the present sequence number of its record has the present documents and
settings as its snapshot, because everything that changes them also takes a new sequence number. It holds as long as there was
only one record of the folder; the second one counts from one again (section 6).
The module also has the compiler service, for any number of requests and workspaces. `SupersededIsCancelled` speaks of two requests that are
under way; that `begin` cancels the
older one needs that it finds it, so `ServiceInv` says that the entry of a workspace in `running` is its newest request as long as that is under way
(`RunningIsNewest`) and that a numbered request is cancelled or is the entry (`UncancelledIsRunning`). `finish` compares sequence numbers only
(`compiler/service/service.go:388-398`): it is `RequestsAreNumberedOnce` that keeps a request that ends from removing the entry of another.

*AnnotationHostProofs*, for any number of analyses, processes and requests and an arbitrary tool. `HostInv` says who holds
`manager.mu` and `client.mu` at which program counter (`PcInv`, `ManagerInv`, `LockInv`), that the process of a closed client was waited
for or is about to be by the actor that killed it (`CloseInv`), and that no answer carries an identity that was not handed out (`IdInv`).
`OwnerInv` adds that a client that is not closed is registered, being started, being closed or left by `Close`, and `RequestInv` that a
request that the process of an open client has not answered is that of the actor that holds `client.mu`. That `Close` leaves a tool only
after its refusal needs to know what a call of the closer came to (`ShutdownInv`).

*DevWatchProofs*, for any number of files, capacity, quiet period and delay. `TimerInv` bounds the timer by what is left of `MaxDelay`.
`ChangesAreNotLost` needs `HistoryInv` (the watcher compares with nothing that the file never held), and that no content
returns (`~Reverts`), since a digest cannot tell. For `FeedIsImplemented`, what the abstract feed owes to the loop is
what was scanned, what is in the channel and what the debouncer holds.

*DevPipelineProofs*, for any files, edits and overlapping preparations. `BuildInv`: what the current revision builds, has built and has
started differs from the sources only in changes that nobody has noticed, so nothing differs once everything is noticed and taken.
`CacheInv` and `GenerationInv` say the same of the cache and of the generated code, as long as no generation was
disturbed.

*ConstructionProofs*, the orderings, for any number of
providers and any graph, for both orderings. `OrderInv` gives the meaning of the counters:
`remaining` is the number of dependencies that are not placed and `ready` is exactly the set of
providers that can be placed next. `LeastInv`: compared with any arrangement that respects the dependencies, the order so far is equal
or before it, because the next provider of that arrangement is ready too. That the order is complete needs the search for components:
`VisitInv` is the part of Tarjan's algorithm that says that a component is finished after everything it needs (indices follow the stack,
the calls of `visit` lie on it, and the lowlink of the innermost call that began no later than a node is at most the index of whatever the node
was seen to need), so that, if no component is cyclic, every set of finished providers has one that needs no other of the set. `PolicyInv`
carries this to the second ordering, for the providers without a manager. Least elements and the cycle behind a rejected
model come from the well-foundedness of `<` and of the inclusion of finite sets (`WFMin`), which take no operator as a parameter.
`ConnectInv` is the rest of Tarjan's algorithm, for `CyclesAreFound`: whoever is above a call on the stack was met from it (`TreeInv`), and
a call that returned without a component can get from its node to its lowlink (`LowlinkInv`), so what is taken from the stack
is connected (no part of it needs nothing of the rest) and separate (what it needs does not need it). Both are stated with sets closed under the
dependencies instead of paths, which would need an induction. `PathInv`: on the path of `representativeCycle` there is always a
provider with a choice left from which the start can be reached without the path before it, so the fallback after the search is dead code.

*ConstructionProofs*, the generated application, for any applications that satisfy `AppsAreCompiled`, any callers and any number of attempts. The first part is about
`Assembly`, the program as data. `WellBuilt` is what the program owes to its execution: a cleanup is registered by the statement after the construction, the executor is
registered last, every variable is defined once and before it is read, what a bean needs is constructed before it, and an error returns past the coordinator only
while nothing was constructed. `Extended` shows that a program that is well built stays so when a part that may follow it (`Follows`) is
appended, and there is a lemma for
each part that the generator appends. The part of the providers is as long as there are providers; it goes by the well-foundedness of `<`: the least
number of providers whose program is not well built has a predecessor that is.
The second part executes it. `NothingLeaks` speaks of the end of the command only. `BeanInv` says on the way to it where each bean with a
cleanup is: released, held by the coordinator, refused by it, or
owed by the next statement (`Accounted`), with the cleanups in the order of the program (`Progress`), so that they are released in reverse.
`InUseIsLive` is not inductive either, since nothing in it says why
a bean cannot be released while a call, task or job uses it. `WorkInv` gives the reason: a task that was submitted needs the executor, whose
cleanup is registered last and hence runs first; a job runs
only while all the hooks are started; a call only while a server is. Each of them is stopped, and waits for its work, before the first bean
is released, unless the shutdown context ends (`expired`, which
`InUseIsLive` excepts). `CallInv` follows a call through its layers: it goes inward through the layers of what it calls, a caller that does
not satisfy the policy is no further than the guard, a layer that
was left with success has ended its part, and what left the transaction with success is among the committed. That a cached value was
committed holds where every cached method is transactional (`CachedCommit`), since
the applications have one cache.

*ProjectProofs*, for any number of workers, paths, command lines, faults and signals. `ScaffoldInv`: what the command would remove if it failed
now is a file that it has created itself and that nobody replaced. `InstallInv`: the edits of the user are in go.mod, or a single worker
has moved the file into its backup and its steps lead to a state in which it is back; which steps those are depends on its list of changed files
(`Progress`). `WholeInv`: as long as no two workers applied at the same time and no rollback has failed (`AllOrNothing` excepts both),
at most one worker applies, and for each of its program counters each of the two files is what the preview started from, can be made that again
from the backup, or is what the preview promised (`FileAt`); when nobody applies, the files hold what was reported. It uses that both files are compared with
the preview while nobody else applies, so that a preview that was read from half changed files is refused. `OutliveInv`: in the list of
steps that a command has left, each step that opens something is followed by the one that undoes it
(`Ordered`, shown of the list of every command by lemmas about concatenation), and what is there has such a step
ahead or its removal has failed. `ExitInv` relates the exit code so far to the steps that failed.

Only model-checked:

* liveness: `WorkSettles`, `ShutdownSettles`, `LockReleased`, `EditsAreAnalysed`, `CloseEnds`, `EventuallyAnswered`, and the fairness
  of `Implements`;
* `NobodyWaitsOnTheTool`, which is about what is enabled;
* the properties of `Compiler` and of the modules it composes, which have recursive operators: `WiringSound`, `PoliciesEnforced`,
  `ModulesIsolated`, `AnnotationsExact`, `NoAnnotationIgnored`;
* `ScopeIsExact` of `AnalysisService`, which compares the worklist with a closure over the modules, an induction over data;
* `PlanIsSound` of `Generator`, for which one would have to know of all the identifiers of a program that none is another one with a number
  or a derived word appended, and `OffersHold` of `Editor`: both are about what `SelectSeq` leaves, which
  the prover takes for an unknown operator.

## 5. Abstractions and what is left out

* Contents, names, messages and diagnostics are members of small sets; wording, ordering of text and
  logging are left out.
* `genfs`: migration of older manifest schemas and relocation of the module are manifests that decode or
  do not; directory creation and the checks for symbolic links count as operations that may fail; `Diff` is
  rendering.
* Language server: hover, signature help, links, semantic tokens, completion of import paths, of other arguments and of configuration
  values, which show what the results hold; nested folders.
* Annotation host: which module may run which tool is decided before a process is started and is a start that
  may be refused; a request is assumed to fit the pipe.
* Watcher: the path filter decides what is in `Files`. Files that return to an earlier content between two polls
  are excluded in the run (`Reverts = FALSE`, `internal/devloop/polling.go:199`): a digest cannot tell them from unchanged ones.
* Pipeline: the analysis reads its sources in one step; `go build` over an interval.
* Compiler: Go's type checker is outside; a program's types are given. Text (paths, durations, cron expressions) is
  a member of a set of well-formed and malformed values. Decoding of starter files is a definition that is well formed or is not.
  Groups of modules that depend on each other are defined by reachability; the search that finds them (`modulith.go:951-1006`) is not modelled.
* Generated application: what the generated code computes inside user code is any outcome; request binding and
  rendering of responses are one step that may fail.
* Module files: `go mod` is external and answers with some selection; networks and proxies are its failures.
* Command line: output is left out. Signals are those of Unix; SIGHUP is not modelled (section 6).

Not modelled, with the reason for each in `PROJECT.json`: rendering of diagnostics, style analysis (functions of text),
the official annotation tool (it passes requests to the compiler modelled here), release tooling and repository gates (batch programs), vendored code.

## 6. Known disagreements

Besides the violation of section 3, modelling met these places where the code does
something other than what a document, a comment or a test says, or where a natural property
fails. They have no run; the models leave the case out of the instance or except it in the property, as said in the comments.

Development loop and generated files:

* *Edits during Apply.* `replaceFile` renames over the destination without comparing it again with what the inspection saw
  (`removeOwnedFile` does compare), so an edit between inspection and rename is lost. README.md:225 says that the
  generator "fails closed on manual edits". With `EditsDuringApply = TRUE` TLC finds `UserWorkKept` violated.
* *A structural edit is concealed.* `structuralSnapshot` is read after the analysis (`internal/cli/dev_incremental.go`), so an edit saved during
  generation is recorded as covered by the plan and the next preparation reuses it. This is why `ServedIsCurrent` has the condition
  `undisturbed` for the generated code.
* *A forgotten structural batch.* `reusableGeneration` compares only the files of the current batch, so a
  structural change whose preparation was cancelled or failed is in no later batch
  (`internal/cli/dev_incremental.go:39`).
* *A failed preparation is not retried.* `genfs.Apply` ignores the context, so a cancelled preparation can hold the lock when
  the current one needs it; that one fails and nothing is built until the next edit. This is why `EventuallyAnswered`
  is content with a reported failure. No document promises a retry.
* *Work that is under way when `Run` returns.* The loop cancels preparations and replacements and does not wait for them
  (`internal/devloop/engine.go:139-148`); `cmd/spice/main.go:16` calls `os.Exit`. A replacement that has started its application by then may not come
  to stop it, and the application is in a process group of its own (`internal/cli/process_unix.go:12`). `ShutdownSettles` says of
  what `Run` leaves that it belongs to such work, and no more.

Language server and annotation tools:

* *A stale version is published.* `completeAnalysis` checks the sequence number, releases `server.mu`
  and then writes (`internal/lsp/analysis.go:375`): a `didChange` in between makes it publish the older version. `server_test.go:405`
  fails a test for "published stale version".
* *A closed document keeps diagnostics.* The same window, with `didClose`: the diagnostics are
  written after the clearing ones, and `published` no longer lists the file (`analysis.go:467`; `server_test.go:440`).
* *A folder that is added again* counts its sequence numbers from one, so the result of an analysis of the removed
  record is accepted by the new one (`analysis.go:352`; `server.go:58` speaks of "isolated workspace state"). With
  `MaxWorkspaces = 2` TLC finds `AcceptedIsCurrent` violated.
* *A tool that refuses to shut down* with a JSON-RPC error survives `Close`, and the manager has forgotten it; `compiler/annotationhost/client.go:224`
  says that it "always terminates the owned process". The model has this tool (`Left`) and `ProcessOwned` excepts it by name;
  without the exception TLC finds it violated.
* *Equal sequence numbers.* A request with the sequence of one that is under way replaces its cancel function without
  cancelling it, and the first to finish removes the entry of the other (`compiler/service/service.go`, `begin` and `finish`).
* *A stale catalog.* A discovery under way when `InvalidateAnnotationCatalog` is called stores what it found afterwards (`service.go:186`;
  the comment at 194 says that the
  call "drops a workspace's brief completion cache").

Editor requests (`internal/lsp`):

* `features.go:566-576`: when the symbol is taken, completion imports its package under the last element of its path and does not ask whether
  that name is taken as well; the second import of a name is an error and the name stands for the first. A name imported from a package
  whose definitions the server does not know does not count as taken either.
* `features.go:1049`: a Go import without an alias occupies the last element of its path, not the name of its package, so the
  namespace that completion adds for an interface may be the name of a Go import, which the compiler prefers.
* `features.go:1058` prefers the Go import of a package and `navigation.go:196` its namespace, so going to the
  definition of a completed name may find nothing.
* `features.go:1629-1633`: a document that is closed and opened again has the version of before; until it is analysed a fix for the older
  text is offered, and definitions are found by lines of the older text.
* `enum_actions.go:50-71`: helpers that another file of the package declares are generated again.

Compiler:

* `compiler/provider/autoconfigure.go:62-83`: candidates are compacted in the slice in which those of a type are counted. When the first of two defaults
  of a type is replaced by name and another is kept before the second is judged, the second counts as the only one and gives way to the
  same bean, which has none of its names. `Eligible` has this; `WiringSound` says only that no default is lost otherwise.
* `compiler/provider/provider.go:739-746, 846`: stereotypes on types that are allocated ignore `Name` and aliases.
* `provider.go:1334`: `@Qualifier` on a parameter of a `@Bean` method with a receiver is given to the neighbouring dependency;
  `provider.go:1229-1243`: on a parameter of a stereotype's constructor it is refused.
* `compiler/policy/policy.go:170-176`: a policy annotation is dropped when two providers make the type of its service
  (README.md:151-156 promises enforcement); the parameters of the application root are not checked for raw injection.
* `compiler/transaction/transaction.go:399-405`: the first `*data.Manager` is taken when there are several.
* `compiler/controller/controller.go:1384`: duplicate routes are found by the text of their paths, so `/a/{x}` and `/a/{y}` pass.
* `compiler/service/generation_scope.go:120, 363-525`: interface packages of nested modules, and promoted packages, can be
  reported as unassigned.
* `compiler/resolve/resolve.go:440`: annotations of parameters of a function named `_` are skipped (the comment at 193 says "Every
  invocation must be imported and descriptor-backed"); `resolve.go:489-497`: a trailing comment of one parameter
  documents the next.
* `compiler/load/load.go:279`: a requested package that annotations are imported from becomes auxiliary and is not analysed.
* `compiler/validate` enforces neither `Repeatable` nor `AllowedValues` of a definition; a diagnostic of a tool, even a hint, ends the analysis; namespace bindings are
  keyed by a file name that `//line` can change (`service.go:1286`).
* `compiler/application/application.go:634`: the diagnostic of a cycle through a transaction manager
  names the first waiting service, which may merely depend on the cycle.

Generated programs:

* `compiler/generate/naming.go:31-34`, `components.go:74-77`, `interceptor_render.go:52-55`: a name made unique with a number is not entered
  into the set of names, so a provider of that very name collides with it.
* `compiler/generate/provider_render.go:170, 203, 229, 344`: the variables `<name>Factory`, `<name>Scope`, `<name>Cleanup` and `<name>Topic` are
  declared beside the variables of the providers and compared with none: beans `db` and `dbCleanup` collide. `PlanIsSound` excepts names with
  such endings, and its instance has them.
* `provider_render.go:279-296`: a bean whose cleanup the coordinator refuses is not released by `Abort`.
* `command.go:570-572`: `--check` with a factory that gives no context stops nothing.

Files and commands:

* `compiler/annotationinstall/install.go`: two applies hold no common lock (the comment at 346 promises the exact after-images only if both files have the
  observed hashes), and a failed removal of a backup is reported as
  a failed apply (788); `internal/lsp/annotation_install.go:357-360`: an apply removes the preview that replaced its own.
* `internal/scaffold/scaffold.go:628-642`: a rollback leaves the directory that was created for the failing file.
* `internal/cli/run_command.go:344-395`: a signal that arrives while the application exits fails with ESRCH, and a clean exit is
  reported as a failure; signals before `Notify` and after `Stop` leave the temporary directory; on SIGHUP spice dies and the application, in
  a process group of its own, lives on.
* `internal/cli/beans_command.go:80-90`: `spice beans` exits with 0 although closing the tools failed.
* `spice generated` accepts an option twice (the last wins) and fails on the manifest of another target if that has another schema.

## 7. Plan

Done: the modules of section 2 with the proofs of section 4.

Left, in this order:

1. Release installation: staged files and their rollback.

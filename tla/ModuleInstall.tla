---------------------------- MODULE ModuleInstall ----------------------------
(***************************************************************************)
(* Changes of go.mod and go.sum that are shown before they are made        *)
(* (compiler/annotationinstall/install.go).  "spice add" and the commands  *)
(* of the language server plan a change by running "go get" on a copy of   *)
(* both files, show the difference, and apply exactly that difference if   *)
(* neither file has changed since.  No lock is taken: several workers (a   *)
(* process or a request of the server each) and the user's own tools       *)
(* change the same two files.  Every file operation may fail, and every    *)
(* context check may find the context cancelled.                           *)
(*                                                                         *)
(* The content of a file is the edits of the user and the selections       *)
(* (tools and dependencies) that it has; its hash is the content itself.   *)
(* The token of a preview is a hash of everything in it, so the preview    *)
(* stands for its token.                                                   *)
(*                                                                         *)
(* A definition directly above another of a similar name is a seeded       *)
(* fault, used only to show that the properties notice it.                 *)
(***************************************************************************)
EXTENDS Naturals, Sequences, FiniteSets

CONSTANTS
  Workers,    \* requests of the language server and "spice add" processes
  Processes,  \* those that may be a process of "spice add"
  Tools,      \* annotation tools that can be selected
  Libraries,  \* dependencies that can be selected
  Summed,     \* the selections that need lines in go.sum
  MaxJobs,    \* bound: jobs of each worker
  MaxEdits,   \* bound: edits of the user
  MaxFaults   \* bound: failed operations and cancellations

ASSUME ProcessesAreWorkers == Processes \subseteq Workers
ASSUME SummedIsSelected == Summed \subseteq Tools \cup Libraries
ASSUME InstallBounds == MaxJobs \in [Workers -> Nat] /\ {MaxEdits, MaxFaults} \subseteq Nat

VARIABLES
  files,      \* go.mod and go.sum
  workers,    \* what each worker does
  private,    \* per worker and file: the staged and the backup file
  previews,   \* toolPreviews of the server, by token
  byKey,      \* toolPreviewByKey: the token of the newest preview of a tool
  shown,      \* previews that the server has answered with
  catalog,    \* catalogCache of the compiler service: the tools that are known to be authorized
  applied,    \* selections whose change was reported as applied
  edits,      \* edits that the user has made
  safe,       \* the edits of go.mod that were made while no worker had it in its backup
  overlapped, \* two workers have applied changes at the same time
  stuck,      \* a rollback or the removal of a backup has failed
  faults      \* failures so far

installVars == <<files, workers, private, previews, byKey, shown, catalog, applied, edits, safe, overlapped, stuck, faults>>

Names == {"mod", "sum"}
Selections == Tools \cup Libraries

Missing == [there |-> FALSE, edits |-> {}, has |-> {}]
NoPreview == [pick |-> "none", before |-> [n \in Names |-> Missing], after |-> [n \in Names |-> Missing]]
NoCatalog == [kept |-> FALSE, known |-> {}]
Unstaged == [staged |-> Missing, backup |-> Missing, backedUp |-> FALSE, installed |-> FALSE]
Idle(jobs) == [job |-> "none", pick |-> "none", step |-> "idle", seen |-> [n \in Names |-> Missing], preview |-> NoPreview,
               left |-> <<>>, known |-> {}, failed |-> FALSE, jobs |-> jobs]

InstallInit ==
  /\ files \in {[mod |-> [Missing EXCEPT !.there = TRUE], sum |-> s] : s \in {Missing, [Missing EXCEPT !.there = TRUE]}}
  /\ workers = [w \in Workers |-> Idle(0)]
  /\ private = [w \in Workers |-> [n \in Names |-> Unstaged]]
  /\ previews = {} /\ byKey = [t \in Tools |-> NoPreview] /\ shown = {} /\ catalog = NoCatalog
  /\ applied = {} /\ edits = {} /\ safe = {} /\ overlapped = FALSE /\ stuck = FALSE /\ faults = 0

------------------------------------------------------------------------------
(* Steps of a worker.                                                      *)

At(w, step) == workers[w].step = step
Becomes(w, record) == workers' = [workers EXCEPT ![w] = record]
GoesTo(w, step) == Becomes(w, [workers[w] EXCEPT !.step = step])
Ends(w) == Becomes(w, Idle(workers[w].jobs))

\* A failure of the file system, of the go command, or a cancelled context.
Outcome(ok) == IF ok THEN UNCHANGED faults ELSE faults < MaxFaults /\ faults' = faults + 1

server == <<previews, byKey, shown>>
history == <<applied, edits, safe, overlapped, stuck>>

StartsJob(w, job, pick, step) ==
  /\ At(w, "idle") /\ workers[w].jobs < MaxJobs[w]
  /\ Becomes(w, [Idle(workers[w].jobs + 1) EXCEPT !.job = job, !.pick = pick, !.step = step])
  /\ UNCHANGED <<files, private, server, catalog, history, faults>>

\* spice add [--tool] path@version [--apply]; arguments that do not parse end the command before it starts.
AddCommand(w, pick, apply) == w \in Processes /\ StartsJob(w, IF apply THEN "add" ELSE "show", pick, "readMod")

\* spice.annotationTool.previewInstall.
PreviewCommand(w, tool) == tool \in Tools /\ StartsJob(w, "preview", tool, "catalog")

\* A completion asks for the catalog too.
Completion(w) == StartsJob(w, "completion", "none", "catalog")

------------------------------------------------------------------------------
(* AnnotationCatalog of the compiler service.                              *)

Authorized == files.mod.has \cap Tools

\* unauthorizedCatalogTool, for a request of a preview; a completion is answered.
WithCatalog(w, known) ==
  IF workers[w].job = "preview" /\ workers[w].pick \notin known THEN GoesTo(w, "readMod") ELSE Ends(w)

CatalogFromCache(w) ==
  /\ At(w, "catalog") /\ catalog.kept
  /\ WithCatalog(w, catalog.known)
  /\ UNCHANGED <<files, private, server, catalog, history, faults>>

\* Discover runs without the lock of the service.
Discover(w) ==
  /\ At(w, "catalog") /\ ~catalog.kept
  /\ IF files.mod.there THEN Becomes(w, [workers[w] EXCEPT !.step = "discovered", !.known = Authorized]) ELSE Ends(w)
  /\ UNCHANGED <<files, private, server, catalog, history, faults>>

StoreCatalog(w) ==
  /\ At(w, "discovered")
  /\ catalog' = [kept |-> TRUE, known |-> workers[w].known]
  /\ WithCatalog(w, workers[w].known)
  /\ UNCHANGED <<files, private, server, history, faults>>

\* The time of the cache is over.
CatalogExpires ==
  /\ catalog.kept
  /\ catalog' = NoCatalog
  /\ UNCHANGED <<files, workers, private, server, history, faults>>

------------------------------------------------------------------------------
(* previewModuleChange.                                                    *)

\* readModuleStates: go.mod has to be there, go.sum need not.
ReadMod(w, ok) ==
  /\ At(w, "readMod")
  /\ Outcome(ok)
  /\ IF ok /\ files.mod.there
     THEN Becomes(w, [workers[w] EXCEPT !.step = "readSum", !.seen["mod"] = files.mod])
     ELSE Ends(w)
  /\ UNCHANGED <<files, private, server, catalog, history>>

ReadSum(w, ok) ==
  /\ At(w, "readSum")
  /\ Outcome(ok)
  /\ IF ok THEN Becomes(w, [workers[w] EXCEPT !.step = "copy", !.seen["sum"] = files.sum]) ELSE Ends(w)
  /\ UNCHANGED <<files, private, server, catalog, history>>

\* createTemporaryModfile; the copies have names of their own.
CopyFiles(w, ok) ==
  /\ At(w, "copy")
  /\ Outcome(ok)
  /\ IF ok THEN GoesTo(w, "get") ELSE Ends(w)
  /\ UNCHANGED <<files, private, server, catalog, history>>

\* "go get [-tool]" on the copies: the selection is added, and go.sum gets the lines that go.mod then needs.
GoGet(seen, pick) ==
  LET has  == seen.mod.has \cup {pick}
      sums == seen.sum.has \cup (has \cap Summed)
  IN [mod |-> [seen.mod EXCEPT !.has = has],
      sum |-> [there |-> seen.sum.there \/ sums # {}, edits |-> seen.sum.edits, has |-> sums]]

ChangedFiles(preview) ==
  LET Changed(n) == IF preview.before[n] # preview.after[n] THEN <<n>> ELSE <<>> IN Changed("mod") \o Changed("sum")

\* The copies are removed whatever happens. A preview without a change is an error.
RunGet(w, ok) ==
  LET preview == [pick |-> workers[w].pick, before |-> workers[w].seen, after |-> GoGet(workers[w].seen, workers[w].pick)]
  IN /\ At(w, "get")
     /\ Outcome(ok)
     /\ IF ok /\ ChangedFiles(preview) # <<>>
        THEN Becomes(w, [workers[w] EXCEPT !.step = "previewed", !.preview = preview])
        ELSE Ends(w)
     /\ UNCHANGED <<files, private, server, catalog, history>>

\* previewAnnotationTool keeps the preview instead of the one before for this tool, and answers.
AnswerPreview(w) ==
  LET tool == workers[w].pick
      preview == workers[w].preview
  IN /\ At(w, "previewed") /\ workers[w].job = "preview"
     /\ previews' = (previews \ {byKey[tool]}) \cup {preview}
     /\ byKey' = [byKey EXCEPT ![tool] = preview]
     /\ shown' = shown \cup {preview}
     /\ Ends(w)
     /\ UNCHANGED <<files, private, catalog, history, faults>>

\* "spice add" prints the difference and, with --apply, goes on with it.
AnswerAdd(w) ==
  /\ At(w, "previewed") /\ workers[w].job \in {"add", "show"}
  /\ IF workers[w].job = "add" THEN GoesTo(w, "guardMod") ELSE Ends(w)
  /\ UNCHANGED <<files, private, server, catalog, history, faults>>

\* spice.annotationTool.applyInstall, with the token of a preview that the client was given at some time: the server
\* may have forgotten it.
ApplyCommand(w, preview) ==
  /\ At(w, "idle") /\ workers[w].jobs < MaxJobs[w]
  /\ preview \in shown
  /\ Becomes(w, IF preview \in previews
                THEN [Idle(workers[w].jobs + 1) EXCEPT !.job = "apply", !.pick = preview.pick, !.step = "guardMod",
                                                       !.preview = preview]
                ELSE Idle(workers[w].jobs + 1))
  /\ UNCHANGED <<files, private, server, catalog, history, faults>>

------------------------------------------------------------------------------
(* Apply.                                                                  *)

Applying(w) ==
  workers[w].step \in {"guardSum", "stage", "backup", "check", "install", "remove", "restore", "clean", "reported"}

\* applyPreviewInRoot compares both files, also one that does not change.
Guard(w, n, ok) ==
  LET worker == workers[w] IN
  /\ At(w, IF n = "mod" THEN "guardMod" ELSE "guardSum")
  /\ Outcome(ok)
  /\ IF ~ok \/ files[n] # worker.preview.before[n] THEN Ends(w)
     ELSE IF n = "mod" THEN GoesTo(w, "guardSum")
     ELSE Becomes(w, [worker EXCEPT !.step = "stage", !.left = ChangedFiles(worker.preview)])
  /\ overlapped' = (overlapped \/ (n = "mod" /\ \E v \in Workers \ {w} : Applying(v)))
  /\ UNCHANGED <<files, private, server, catalog, applied, edits, safe, stuck>>

Current(w) == Head(workers[w].left)
Changes(w) == ChangedFiles(workers[w].preview)

\* Head of the files that are left is done; after the last one the worker goes to the next step with all of them.
Advance(w, next) ==
  Becomes(w, IF Len(workers[w].left) > 1 THEN [workers[w] EXCEPT !.left = Tail(@)]
             ELSE [workers[w] EXCEPT !.step = next, !.left = Changes(w)])

Reversed(s) == [i \in DOMAIN s |-> s[Len(s) + 1 - i]]
RollsBack(w) == Becomes(w, [workers[w] EXCEPT !.step = "remove", !.left = Reversed(Changes(w))])

SetPrivate(w, n, record) == private' = [private EXCEPT ![w][n] = record]
Discarded(w) == private' = [private EXCEPT ![w] = [n \in Names |-> [@[n] EXCEPT !.staged = Missing]]]

\* stageChange writes the new content beside the file; cleanupStaged removes what was staged.
Stage(w, ok) ==
  /\ At(w, "stage")
  /\ Outcome(ok)
  /\ IF ok THEN SetPrivate(w, Current(w), [Unstaged EXCEPT !.staged = workers[w].preview.after[Current(w)]]) /\ Advance(w, "backup")
     ELSE Discarded(w) /\ Ends(w)
  /\ UNCHANGED <<files, server, catalog, history>>


\* backupChange moves the file away under a name of its own. A file that was not there must still not be there.
Backup(w, ok) ==
  LET n == Current(w)
      expected == workers[w].preview.before[n]
  IN /\ At(w, "backup")
     /\ Outcome(ok)
     /\ IF ~ok \/ files[n].there # expected.there THEN RollsBack(w) /\ UNCHANGED <<files, private>>
        ELSE IF ~expected.there THEN Advance(w, "install") /\ UNCHANGED <<files, private>>
        ELSE /\ files' = [files EXCEPT ![n] = Missing]
             /\ SetPrivate(w, n, [private[w][n] EXCEPT !.backup = files[n], !.backedUp = TRUE])
             /\ GoesTo(w, "check")
     /\ UNCHANGED <<server, catalog, history>>

AnyFileState(w, n) == TRUE
SameFileState(w, n) == private[w][n].backup = workers[w].preview.before[n]

\* What was moved away must be what the preview has shown: nobody else can change it any more.
CheckBackup(w, ok) ==
  /\ At(w, "check")
  /\ Outcome(ok)
  /\ IF ok /\ SameFileState(w, Current(w))
     THEN Becomes(w, IF Len(workers[w].left) > 1 THEN [workers[w] EXCEPT !.step = "backup", !.left = Tail(@)]
                     ELSE [workers[w] EXCEPT !.step = "install", !.left = Changes(w)])
     ELSE RollsBack(w)
  /\ UNCHANGED <<files, private, server, catalog, history>>

\* installChange: a rename replaces whatever is there.
Install(w, ok) ==
  LET n == Current(w) IN
  /\ At(w, "install")
  /\ Outcome(ok)
  /\ IF ~ok THEN RollsBack(w) /\ UNCHANGED <<files, private>>
     ELSE /\ files' = [files EXCEPT ![n] = private[w][n].staged]
          /\ SetPrivate(w, n, [private[w][n] EXCEPT !.staged = Missing, !.installed = TRUE])
          /\ Advance(w, "clean")
  /\ UNCHANGED <<server, catalog, history>>

\* rollbackChanges, the last file first: what was installed is removed, what was moved away is moved back. An error is
\* kept and the loop goes on.
RemoveInstalled(w, ok) ==
  LET n == Current(w) IN
  /\ At(w, "remove")
  /\ IF private[w][n].installed THEN Outcome(ok) ELSE ok /\ UNCHANGED faults
  /\ files' = IF private[w][n].installed /\ ok THEN [files EXCEPT ![n] = Missing] ELSE files
  /\ stuck' = (stuck \/ ~ok)
  /\ GoesTo(w, "restore")
  /\ UNCHANGED <<private, server, catalog, applied, edits, safe, overlapped>>

\* The rollback ends after the first file that it has put back.
RestoreFirstOnly(w, ok) ==
  /\ At(w, "restore")
  /\ ok /\ UNCHANGED <<faults, stuck>>
  /\ files' = IF private[w][Current(w)].backedUp THEN [files EXCEPT ![Current(w)] = private[w][Current(w)].backup] ELSE files
  /\ private' = [private EXCEPT ![w] = [n \in Names |-> [Unstaged EXCEPT !.backup = private[w][n].backup]]]
  /\ Ends(w)
  /\ UNCHANGED <<server, catalog, applied, edits, safe, overlapped>>

Restore(w, ok) ==
  LET n == Current(w)
      item == private[w][n]
  IN /\ At(w, "restore")
     /\ IF item.backedUp THEN Outcome(ok) ELSE ok /\ UNCHANGED faults
     /\ files' = IF item.backedUp /\ ok THEN [files EXCEPT ![n] = item.backup] ELSE files
     /\ SetPrivate(w, n, IF ok THEN Unstaged ELSE [Unstaged EXCEPT !.backup = item.backup])
     /\ stuck' = (stuck \/ ~ok)
     /\ IF Len(workers[w].left) > 1 THEN Becomes(w, [workers[w] EXCEPT !.step = "remove", !.left = Tail(@)]) ELSE Ends(w)
     /\ UNCHANGED <<server, catalog, applied, edits, safe, overlapped>>

\* cleanupBackups: an error is reported although the change is made.
Clean(w, ok) ==
  LET n == Current(w) IN
  /\ At(w, "clean")
  /\ IF private[w][n].backedUp THEN Outcome(ok) ELSE ok /\ UNCHANGED faults
  /\ SetPrivate(w, n, IF ok THEN Unstaged ELSE [Unstaged EXCEPT !.backup = private[w][n].backup])
  /\ stuck' = (stuck \/ ~ok)
  /\ Becomes(w, IF Len(workers[w].left) > 1 THEN [workers[w] EXCEPT !.left = Tail(@), !.failed = @ \/ ~ok]
                ELSE [workers[w] EXCEPT !.step = "reported", !.failed = @ \/ ~ok])
  /\ UNCHANGED <<files, server, catalog, applied, edits, safe, overlapped>>

\* Apply has returned. If it returned no error, the server forgets the preview and the catalog, and schedules an analysis (LspServer).
Report(w) ==
  LET worker == workers[w] IN
  /\ At(w, "reported")
  /\ applied' = IF worker.failed THEN applied ELSE applied \cup {worker.pick}
  /\ IF worker.job = "apply" /\ ~worker.failed
     THEN /\ previews' = previews \ {worker.preview}
          /\ byKey' = [byKey EXCEPT ![worker.pick] = NoPreview]
          /\ catalog' = NoCatalog
     ELSE UNCHANGED <<previews, byKey, catalog>>
  /\ Ends(w)
  /\ UNCHANGED <<files, private, shown, edits, safe, overlapped, stuck, faults>>

------------------------------------------------------------------------------
\* The user, or a tool of the user, changes a file that is there.
Edit(n) ==
  LET e == Cardinality(edits) + 1 IN
  /\ e <= MaxEdits /\ files[n].there
  /\ files' = [files EXCEPT ![n].edits = @ \cup {e}]
  /\ edits' = edits \cup {e}
  /\ safe' = IF n = "mod" /\ \A w \in Workers : ~private[w]["mod"].backedUp THEN safe \cup {e} ELSE safe
  /\ UNCHANGED <<workers, private, server, catalog, applied, overlapped, stuck, faults>>

InstallNext ==
  \/ \E w \in Workers :
       \/ \E pick \in Selections, apply \in BOOLEAN : AddCommand(w, pick, apply)
       \/ \E tool \in Tools : PreviewCommand(w, tool)
       \/ \E preview \in shown : ApplyCommand(w, preview)
       \/ Completion(w) \/ CatalogFromCache(w) \/ Discover(w) \/ StoreCatalog(w)
       \/ AnswerPreview(w) \/ AnswerAdd(w) \/ Report(w)
       \/ \E ok \in BOOLEAN :
            \/ ReadMod(w, ok) \/ ReadSum(w, ok) \/ CopyFiles(w, ok) \/ RunGet(w, ok)
            \/ \E n \in Names : Guard(w, n, ok)
            \/ Stage(w, ok) \/ Backup(w, ok) \/ CheckBackup(w, ok) \/ Install(w, ok)
            \/ RemoveInstalled(w, ok) \/ Restore(w, ok) \/ Clean(w, ok)
  \/ CatalogExpires
  \/ \E n \in Names : Edit(n)

------------------------------------------------------------------------------
(* Properties.                                                             *)

AtRest == \A w \in Workers : ~Applying(w)

\* No edit of go.mod is lost: whatever the user changed, at any moment up to the one in which an apply moves the file
\* away, is in go.mod or in a copy of it that is still on the disk, whoever applies what and whatever fails
\* (install.go:847-868: the file is compared only after it was moved, out of reach of everybody else).
EditsSurvive ==
  safe \subseteq files.mod.edits \/ \E w \in Workers : safe \subseteq private[w]["mod"].backup.edits

\* A change is made to both files or to none: when nobody replaces files, they hold exactly the selections that were
\* reported as applied, and go.sum the lines they need (install.go:759-789). Excepted is what the code does not
\* undertake: two workers that apply at the same time, and an error while an error is undone.
AllOrNothing ==
  AtRest /\ ~stuck /\ ~overlapped => files.mod.there /\ files.mod.has = applied /\ files.sum.has = applied \cap Summed
==============================================================================

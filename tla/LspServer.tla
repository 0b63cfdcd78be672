------------------------------ MODULE LspServer ------------------------------
(***************************************************************************)
(* The language server (internal/lsp/server.go, analysis.go): documents    *)
(* opened by the editor, one workspace folder, debounced analyses and the  *)
(* publication of their diagnostics.                                       *)
(*                                                                         *)
(* The reader goroutine handles the editor's messages one at a time.  Each *)
(* edit stops the workspace's timer, cancels its analysis and arms a new   *)
(* timer; the timer's callback takes a snapshot, analyses it without the   *)
(* lock, and publishes what was accepted.  Callbacks run concurrently with *)
(* the reader and with each other; only server.mu orders them.             *)
(*                                                                         *)
(* A URI is a number (its place in the sorted order in which diagnostics   *)
(* are published).  The text of a file is the set of files in which its    *)
(* analysis reports a diagnostic: editing one file may break another.  An  *)
(* analysis result is what the analysis has read, texts and settings.      *)
(* A workspace folder that is removed and added again is a new workspace   *)
(* record with the same key; id tells the records apart, the code does     *)
(* not.  0 stands for nil (no workspace, no timer, no cancel function).    *)
(*                                                                         *)
(* A definition directly above another of a similar name is a seeded       *)
(* fault: the code with one mistake, used only to show that the            *)
(* properties notice it.                                                   *)
(***************************************************************************)
EXTENDS Integers, FiniteSetsExt

CONSTANTS
    NumFiles,       \* files of the workspace
    Texts,          \* what a file may contain
    Settings,       \* analysis settings (target, patterns, profile, style)
    MaxVersion,     \* bound on document versions
    MaxSequence,    \* bound on scheduled analyses per workspace record
    MaxWorkspaces,  \* bound on workspace records
    MaxRuns,        \* bound on analyses in flight
    FailingSequences \* the sequence numbers whose analysis may return an error

Files == 1..NumFiles
Runs == 1..MaxRuns

ASSUME ServerAssumption ==
    /\ NumFiles \in Nat /\ MaxVersion \in Nat /\ MaxSequence \in Nat
    /\ MaxWorkspaces \in Nat /\ MaxRuns \in Nat
    /\ Texts \subseteq SUBSET Files /\ {} \in Texts
    /\ Settings # {}
    /\ FailingSequences \subseteq 1..MaxSequence

VARIABLES
    documents,  \* server.documents: version and content, version 0 if not open
    disk,       \* the files as saved
    settings,   \* server.target, patterns, profile, style
    mode,       \* "serving", "shutdown" (server.shutdown), "closing" (server.closing), "stopped"
    workspace,  \* the record in server.workspaces, id 0 if the map has none
    created,    \* workspace records created so far
    timer,      \* workspace.timer: the sequence it was armed with
    fired,      \* callbacks that wait for server.mu: <<id, sequence>>
    run,        \* analyses: beginAnalysis after its snapshot
    closed,     \* workspace records whose service is closed
    clears,     \* URIs that the reader still has to clear
    shown       \* the editor: files with diagnostics on display

vars == <<documents, disk, settings, mode, workspace, created, timer, fired, run, closed, clears, shown>>

NotOpen == [version |-> 0, content |-> {}]
Idle == [pc |-> "idle", id |-> 0, sequence |-> 0, cancelled |-> FALSE, versions |-> [u \in Files |-> 0],
         result |-> [texts |-> [u \in Files |-> {}], settings |-> CHOOSE s \in Settings : TRUE], queue |-> {}]
NoResult == Idle.result
NewWorkspace(id, s) ==
    [id |-> id, sequence |-> 0, cancel |-> 0, settings |-> s, latest |-> NoResult,
     lastGood |-> NoResult, published |-> {}, documents |-> {}]

Open(u) == documents[u].version # 0
Present == workspace.id # 0

\* The files in which an analysis of these texts reports a diagnostic.
Diagnostics(result) == UNION {result.texts[u] : u \in Files}

\* What the editor shows the user: open documents and saved files.
Truth == [texts |-> [u \in Files |-> IF Open(u) THEN documents[u].content ELSE disk[u]], settings |-> settings]

Init ==
    /\ documents = [u \in Files |-> NotOpen]
    /\ disk \in [Files -> Texts]
    /\ settings \in Settings
    /\ mode = "serving"
    /\ created \in {0, 1}
    /\ workspace = NewWorkspace(created, settings)
    /\ timer = 0
    /\ fired = {}
    /\ run = [r \in Runs |-> Idle]
    /\ closed = {}
    /\ clears = {}
    /\ shown = {}

-----------------------------------------------------------------------------
(* Scheduling, called with server.mu held.                                 *)

\* workspace.cancel() on the running analysis of w, if there is one.
Cancelled(w) == [r \in Runs |-> IF r = w.cancel THEN [run[r] EXCEPT !.cancelled = TRUE] ELSE run[r]]

\* Seeded fault: a timer that is already armed is kept, with its old sequence number.
ScheduleKeepingTimer(w) ==
    /\ workspace' = [w EXCEPT !.sequence = @ + 1, !.cancel = 0]
    /\ timer' = IF timer # 0 THEN timer ELSE w.sequence + 1
    /\ run' = Cancelled(w)

ScheduleLocked(w) ==
    /\ workspace' = [w EXCEPT !.sequence = @ + 1, !.cancel = 0]
    /\ timer' = w.sequence + 1
    /\ run' = Cancelled(w)

\* The handlers run one after another on the reader goroutine.
Reading == mode = "serving" /\ clears = {}
SequenceBound == workspace.sequence < MaxSequence

\* addWorkspace as didOpen's ensureWorkspace calls it when no folder contains the file.
Ensured == IF Present THEN workspace ELSE NewWorkspace(created + 1, settings)

DidOpen(u, v, c) ==
    /\ Reading /\ SequenceBound
    /\ Present \/ created < MaxWorkspaces
    /\ documents' = [documents EXCEPT ![u] = [version |-> v, content |-> c]]
    /\ created' = IF Present THEN created ELSE created + 1
    /\ ScheduleLocked([Ensured EXCEPT !.documents = @ \cup {u}])
    /\ UNCHANGED <<disk, settings, mode, fired, closed, clears, shown>>

\* A document whose folder was removed has no root: nothing is scheduled.
Reschedule(u) ==
    IF u \in workspace.documents
    THEN SequenceBound /\ ScheduleLocked(workspace)
    ELSE UNCHANGED <<workspace, timer, run>>

DidChange(u, v, c) ==
    /\ Reading
    /\ Open(u) /\ v > documents[u].version
    /\ documents' = [documents EXCEPT ![u] = [version |-> v, content |-> c]]
    /\ Reschedule(u)
    /\ UNCHANGED <<disk, settings, mode, created, fired, closed, clears, shown>>

\* The editor has written the file and sends its text, under the same version.
DidSave(u, c) ==
    /\ Reading
    /\ Open(u)
    /\ documents' = [documents EXCEPT ![u].content = c]
    /\ disk' = [disk EXCEPT ![u] = c]
    /\ Reschedule(u)
    /\ UNCHANGED <<settings, mode, created, fired, closed, clears, shown>>

DidClose(u) ==
    /\ Reading
    /\ Open(u)
    /\ documents' = [documents EXCEPT ![u] = NotOpen]
    /\ IF u \in workspace.documents
       THEN SequenceBound /\ ScheduleLocked([workspace EXCEPT !.documents = @ \ {u}, !.published = @ \ {u}])
       ELSE UNCHANGED <<workspace, timer, run>>
    /\ clears' = {u}
    /\ UNCHANGED <<disk, settings, mode, created, fired, closed, shown>>

\* didChangeConfiguration.
RefreshAll(s) ==
    /\ Reading
    /\ settings' = s
    /\ IF Present
       THEN SequenceBound /\ ScheduleLocked([workspace EXCEPT !.settings = s])
       ELSE UNCHANGED <<workspace, timer, run>>
    /\ UNCHANGED <<documents, disk, mode, created, fired, closed, clears, shown>>

\* didChangeWorkspaceFolders.
AddWorkspace ==
    /\ Reading
    /\ ~Present /\ created < MaxWorkspaces
    /\ created' = created + 1
    /\ workspace' = NewWorkspace(created + 1, settings)
    /\ UNCHANGED <<documents, disk, settings, mode, timer, fired, run, closed, clears, shown>>

RemoveWorkspace ==
    /\ Reading
    /\ Present
    /\ run' = Cancelled(workspace)
    /\ timer' = 0
    /\ workspace' = NewWorkspace(0, settings)
    /\ clears' = workspace.published
    /\ UNCHANGED <<documents, disk, settings, mode, created, fired, closed, shown>>

\* publishDiagnostics of no diagnostics, after server.mu was released.
Clear ==
    /\ clears # {}
    /\ clears' = clears \ {Min(clears)}
    /\ shown' = shown \ {Min(clears)}
    /\ UNCHANGED <<documents, disk, settings, mode, workspace, created, timer, fired, run, closed>>

\* removeWorkspace's goroutine: workspace.analysis.Wait, then service.Close.
Removed(id) == id \in 1..created /\ id # workspace.id
InFlight(id) == \E r \in Runs : run[r].pc # "idle" /\ run[r].id = id

\* Seeded fault: the service is closed without waiting for its analyses.
CloseServiceEarly(id) ==
    /\ Removed(id) /\ id \notin closed
    /\ closed' = closed \cup {id}
    /\ UNCHANGED <<documents, disk, settings, mode, workspace, created, timer, fired, run, clears, shown>>

CloseService(id) ==
    /\ Removed(id) /\ id \notin closed
    /\ ~InFlight(id)
    /\ closed' = closed \cup {id}
    /\ UNCHANGED <<documents, disk, settings, mode, workspace, created, timer, fired, run, clears, shown>>

-----------------------------------------------------------------------------
(* Shutdown and the end of Run.                                            *)

\* cancelAnalysesLocked.
CancelAnalyses ==
    /\ timer' = 0
    /\ workspace' = [workspace EXCEPT !.cancel = 0]

HandleShutdown ==
    /\ Reading
    /\ mode' = "shutdown"
    /\ CancelAnalyses
    /\ run' = Cancelled(workspace)
    /\ UNCHANGED <<documents, disk, settings, created, fired, closed, clears, shown>>

\* Run leaves its loop after exit, at the end of the input, when its context is
\* cancelled or when writing failed; the deferred stop also cancels every run's context.
Stop ==
    /\ mode \in {"serving", "shutdown"} /\ clears = {}
    /\ mode' = "closing"
    /\ CancelAnalyses
    /\ run' = [r \in Runs |-> IF run[r].pc = "idle" THEN run[r] ELSE [run[r] EXCEPT !.cancelled = TRUE]]
    /\ UNCHANGED <<documents, disk, settings, created, fired, closed, clears, shown>>

\* analysisWait.Wait, requestWait.Wait, then the services of the map are closed.
StopReturns ==
    /\ mode = "closing"
    /\ \A r \in Runs : run[r].pc = "idle"
    /\ \A id \in 1..created : Removed(id) => id \in closed
    /\ closed' = 1..created
    /\ mode' = "stopped"
    /\ UNCHANGED <<documents, disk, settings, workspace, created, timer, fired, run, clears, shown>>

-----------------------------------------------------------------------------
(* The timer and its callback.                                             *)

\* From here on timer.Stop comes too late.
Fire ==
    /\ timer # 0
    /\ fired' = fired \cup {<<workspace.id, timer>>}
    /\ timer' = 0
    /\ UNCHANGED <<documents, disk, settings, mode, workspace, created, run, closed, clears, shown>>

\* The callback knows the key and the sequence number it was made with, not the record.
MayBegin(f) ==
    /\ Present
    /\ workspace.sequence = f[2]
    /\ mode = "serving"

Versions(members) == [u \in Files |-> IF u \in members THEN documents[u].version ELSE 0]

\* The overlay is kept in result.texts; files without an overlay are read later.
BeginAnalysis(f, r) ==
    /\ f \in fired
    /\ fired' = fired \ {f}
    /\ MayBegin(f)
    /\ run[r].pc = "idle" /\ \A q \in Runs : q < r => run[q].pc # "idle"
    /\ run' = [run EXCEPT ![r] =
                 [pc |-> "analyzing", id |-> workspace.id, sequence |-> f[2], cancelled |-> FALSE,
                  versions |-> Versions(workspace.documents),
                  result |-> [texts |-> [u \in Files |-> IF u \in workspace.documents
                                                         THEN documents[u].content ELSE {}],
                              settings |-> workspace.settings],
                  queue |-> {}]]
    /\ workspace' = [workspace EXCEPT !.cancel = r]
    /\ UNCHANGED <<documents, disk, settings, mode, created, timer, closed, clears, shown>>

SkipAnalysis(f) ==
    /\ f \in fired
    /\ fired' = fired \ {f}
    /\ ~MayBegin(f)
    /\ UNCHANGED <<documents, disk, settings, mode, workspace, created, timer, run, closed, clears, shown>>

\* The callback returns; cancelling the context of a finished analysis does nothing.
Return(r) ==
    /\ run' = [run EXCEPT ![r] = Idle]
    /\ workspace' = IF workspace.cancel = r THEN [workspace EXCEPT !.cancel = 0] ELSE workspace

\* Analyze returns a result, also when it was cancelled too late to notice.
AnalyzeReturns(r) ==
    /\ run[r].pc = "analyzing"
    /\ run' = [run EXCEPT ![r].pc = "returned",
                          ![r].cancelled = TRUE,
                          ![r].result.texts = [u \in Files |-> IF run[r].versions[u] # 0
                                                               THEN run[r].result.texts[u] ELSE disk[u]]]
    /\ UNCHANGED <<documents, disk, settings, mode, workspace, created, timer, fired, closed, clears, shown>>

\* Analyze, or loading the style configuration, returns an error.
AnalyzeFails(r) ==
    /\ run[r].pc = "analyzing"
    /\ run[r].cancelled \/ run[r].sequence \in FailingSequences
    /\ Return(r)
    /\ UNCHANGED <<documents, disk, settings, mode, created, timer, fired, closed, clears, shown>>

VersionsCurrent(r) == \A u \in Files : run[r].versions[u] # 0 => documents[u].version = run[r].versions[u]

\* Seeded fault: only the document versions are compared.
MayAcceptVersions(r) == Present /\ mode \in {"serving", "shutdown"} /\ VersionsCurrent(r)

MayAccept(r) ==
    /\ Present
    /\ workspace.sequence = run[r].sequence
    /\ mode \in {"serving", "shutdown"}
    /\ VersionsCurrent(r)

Accept(r) ==
    LET found == Diagnostics(run[r].result)
    IN  /\ run[r].pc = "returned"
        /\ MayAccept(r)
        /\ workspace' = [workspace EXCEPT !.cancel = 0, !.latest = run[r].result,
                                          !.lastGood = IF found = {} THEN run[r].result ELSE @,
                                          !.published = found]
        /\ run' = [run EXCEPT ![r].pc = "check",
                              ![r].versions = Versions(Files),
                              ![r].queue = workspace.published \cup workspace.documents \cup found]
        /\ UNCHANGED <<documents, disk, settings, mode, created, timer, fired, closed, clears, shown>>

Discard(r) ==
    /\ run[r].pc = "returned"
    /\ ~MayAccept(r)
    /\ Return(r)
    /\ UNCHANGED <<documents, disk, settings, mode, created, timer, fired, closed, clears, shown>>

SequenceCurrent(r) == Present /\ workspace.sequence = run[r].sequence /\ mode \in {"serving", "shutdown"}

CheckSequence(r) ==
    /\ run[r].pc = "check"
    /\ run[r].queue # {} /\ SequenceCurrent(r)
    /\ run' = [run EXCEPT ![r].pc = "publish"]
    /\ UNCHANGED <<documents, disk, settings, mode, workspace, created, timer, fired, closed, clears, shown>>

EndPublishing(r) ==
    /\ run[r].pc = "check"
    /\ run[r].queue = {} \/ ~SequenceCurrent(r)
    /\ Return(r)
    /\ UNCHANGED <<documents, disk, settings, mode, created, timer, fired, closed, clears, shown>>

Publish(r) ==
    LET u == Min(run[r].queue)
    IN  /\ run[r].pc = "publish"
        /\ shown' = IF u \in Diagnostics(run[r].result) THEN shown \cup {u} ELSE shown \ {u}
        /\ run' = [run EXCEPT ![r].pc = "check", ![r].queue = @ \ {u}]
        /\ UNCHANGED <<documents, disk, settings, mode, workspace, created, timer, fired, closed, clears>>

-----------------------------------------------------------------------------
Editor ==
    \/ \E u \in Files, v \in 1..MaxVersion, c \in Texts : DidOpen(u, v, c) \/ DidChange(u, v, c)
    \/ \E u \in Files, c \in Texts : DidSave(u, c)
    \/ \E u \in Files : DidClose(u)
    \/ \E s \in Settings : RefreshAll(s)
    \/ AddWorkspace \/ RemoveWorkspace \/ HandleShutdown \/ Stop

Callback(r) ==
    \/ \E f \in fired : BeginAnalysis(f, r)
    \/ AnalyzeReturns(r) \/ AnalyzeFails(r)
    \/ Accept(r) \/ Discard(r)
    \/ CheckSequence(r) \/ EndPublishing(r) \/ Publish(r)

\* What the server does by itself.
Server ==
    \/ Clear \/ Fire \/ StopReturns
    \/ \E id \in 1..MaxWorkspaces : CloseService(id)
    \/ \E f \in fired : SkipAnalysis(f)
    \/ \E r \in Runs : Callback(r)

\* After Run has returned the process ends.
Terminated == mode = "stopped" /\ UNCHANGED vars

Next == Editor \/ Server \/ Terminated

\* The Go runtime runs every runnable goroutine and timer; Analyze always returns.
Fairness == WF_vars(Server)

Spec == Init /\ [][Next]_vars /\ Fairness

-----------------------------------------------------------------------------
(* Properties.                                                             *)

\* completeAnalysis accepts a result only if it was computed from the texts that the editor
\* shows and the settings in force at that moment: no edit, save, open, close or change of
\* settings that was handled in the meantime is missing from it.
AcceptedIsCurrent ==
    [][\A r \in Runs : run[r].pc = "returned" /\ run'[r].pc = "check" => workspace'.latest = Truth]_vars

\* No analysis uses a service that removeWorkspace or stop has closed.
ServiceOutlivesAnalyses == \A r \in Runs : run[r].pc # "idle" => run[r].id \notin closed

\* When the edits stop, the state used to answer requests becomes that of the latest texts, unless
\* the last analysis fails (it is not repeated).
EditsAreAnalysed ==
    <>[](mode = "serving" /\ Present /\ workspace.sequence \notin {0} \cup FailingSequences =>
            workspace.latest = Truth)
=============================================================================

--------------------------- MODULE LspServerProofs ---------------------------
(***************************************************************************)
(* Proofs about the language server, for any number of files, texts,       *)
(* settings, analyses in flight and workspace records.                     *)
(*                                                                         *)
(* Both properties compare a run with the workspace record and the         *)
(* documents of a later moment.  RecordInv relates runs, services and      *)
(* workspace records; CurrentInv says that the sequence number stands for  *)
(* the texts and the settings as long as there was one record only.        *)
(*                                                                         *)
(* The compiler service behind an analysis, for any requests and           *)
(* workspaces.  ServiceInv says that the entry of a workspace in the       *)
(* register of the service is its newest request while it is under way.    *)
(***************************************************************************)
EXTENDS LspServer, AnalysisService, TLAPS

Results == [texts : [Files -> SUBSET Files], settings : Settings]
RunStates ==
    [pc : {"idle", "analyzing", "returned", "check", "publish"}, id : Nat, sequence : Nat,
     cancelled : BOOLEAN, versions : [Files -> Nat], result : Results, queue : SUBSET Files]
Workspaces ==
    [id : Nat, sequence : Nat, cancel : 0..MaxRuns, settings : Settings, latest : Results,
     lastGood : Results, published : SUBSET Files, documents : SUBSET Files]
Documents == [version : Nat, content : SUBSET Files]

ServerTypeOK ==
    /\ documents \in [Files -> Documents]
    /\ disk \in [Files -> SUBSET Files]
    /\ settings \in Settings
    /\ mode \in {"serving", "shutdown", "closing", "stopped"}
    /\ workspace \in Workspaces
    /\ created \in Nat
    /\ run \in [Runs -> RunStates]

\* The records are numbered as they are created; the record in the map is open until Run returns,
\* and an analysis belongs to a record whose service is open.
RecordInv ==
    /\ workspace.id <= created
    /\ ~Present => workspace.documents = {}
    /\ \A id \in closed : id \in 1..created
    /\ workspace.id \in closed => mode = "stopped"
    /\ mode = "stopped" => \A r \in Runs : run[r].pc = "idle"
    /\ \A r \in Runs : run[r].pc # "idle" => run[r].id \in 1..created /\ run[r].id \notin closed

\* The snapshot of run r is that of the documents and settings at this moment, and its result
\* that of the saved files too.
Snapshot(r) ==
    /\ run[r].result.settings = settings
    /\ \A u \in Files : run[r].versions[u] = documents[u].version
    /\ \A u \in Files : Open(u) => run[r].result.texts[u] = documents[u].content
    /\ run[r].pc = "returned" => run[r].result.texts = Truth.texts

\* While there was one record at most: its documents are the open ones, and an analysis of its
\* present sequence number has the present snapshot.
CurrentInv ==
    created <= 1 =>
        /\ created = 0 => \A u \in Files : ~Open(u)
        /\ Present =>
              /\ \A u \in Files : Open(u) <=> u \in workspace.documents
              /\ workspace.settings = settings
              /\ \A r \in Runs : run[r].pc \in {"analyzing", "returned"} =>
                    /\ run[r].sequence <= workspace.sequence
                    /\ run[r].sequence = workspace.sequence => Snapshot(r)

ServerInv == ServerTypeOK /\ RecordInv /\ CurrentInv

-----------------------------------------------------------------------------
(* What the steps do to the runs and to the workspace record.              *)

\* Run r is as it was, but for its cancellation.
RunKept(r) ==
    /\ run'[r].pc = run[r].pc /\ run'[r].id = run[r].id /\ run'[r].sequence = run[r].sequence
    /\ run'[r].versions = run[r].versions /\ run'[r].result = run[r].result

\* Run r is over, or has been accepted and is being published.
RunOver(r) ==
    \/ run'[r].pc = "idle"
    \/ run[r].pc # "idle" /\ run'[r].pc \in {"check", "publish"} /\ run'[r].id = run[r].id

\* The record is as it was, but for what is not compared with a run.
RecordKept ==
    /\ workspace'.id = workspace.id /\ workspace'.sequence = workspace.sequence
    /\ workspace'.settings = workspace.settings /\ workspace'.documents = workspace.documents

USE ServerAssumption DEF Runs

\* The zero run and the zero record have their types.
LEMMA ZeroValues ==
  /\ NoResult \in Results /\ Idle \in RunStates /\ Idle.pc = "idle"
  /\ \A id \in Nat, s \in Settings :
        /\ NewWorkspace(id, s) \in Workspaces
        /\ NewWorkspace(id, s).id = id /\ NewWorkspace(id, s).sequence = 0
        /\ NewWorkspace(id, s).settings = s /\ NewWorkspace(id, s).documents = {}
        /\ NewWorkspace(id, s).cancel = 0
  <1>1. (CHOOSE s \in Settings : TRUE) \in Settings
    OBVIOUS
  <1>2. Idle \in RunStates /\ Idle.pc = "idle"
    BY <1>1 DEF Idle, RunStates, Results
  <1>3. NoResult \in Results
    BY <1>1 DEF NoResult, Idle, Results
  <1>4. ASSUME NEW id \in Nat, NEW s \in Settings
        PROVE  /\ NewWorkspace(id, s) \in Workspaces
               /\ NewWorkspace(id, s).id = id /\ NewWorkspace(id, s).sequence = 0
               /\ NewWorkspace(id, s).settings = s /\ NewWorkspace(id, s).documents = {}
               /\ NewWorkspace(id, s).cancel = 0
    BY <1>3, <1>4 DEF NewWorkspace, Workspaces
  <1> QED BY <1>2, <1>3, <1>4

\* workspace.cancel() changes nothing that is compared.
LEMMA CancelKeepsRuns ==
  ASSUME run \in [Runs -> RunStates], NEW w, run' = Cancelled(w)
  PROVE  run' \in [Runs -> RunStates] /\ \A r \in Runs : RunKept(r)
  <1>1. ASSUME NEW r \in Runs PROVE run'[r] \in RunStates /\ RunKept(r)
    <2>1. run'[r] = IF r = w.cancel THEN [run[r] EXCEPT !.cancelled = TRUE] ELSE run[r]
      BY DEF Cancelled
    <2>2. run[r] \in RunStates
      OBVIOUS
    <2> QED BY <2>1, <2>2, ZenonT(30) DEF RunKept, RunStates
  <1> QED BY <1>1 DEF Cancelled

\* The callback's return ends its run and leaves the others and the record alone.
LEMMA ReturnEnds ==
  ASSUME run \in [Runs -> RunStates], workspace \in Workspaces, NEW r \in Runs, Return(r)
  PROVE  /\ run' \in [Runs -> RunStates] /\ workspace' \in Workspaces
         /\ RecordKept
         /\ \A q \in Runs : RunKept(q) \/ RunOver(q)
  <1>1. run' \in [Runs -> RunStates] /\ \A q \in Runs : RunKept(q) \/ RunOver(q)
    BY ZeroValues DEF Return, RunKept, RunOver
  <1>2. workspace' \in Workspaces /\ RecordKept
    <2>1. workspace' = workspace \/ workspace' = [workspace EXCEPT !.cancel = 0]
      BY DEF Return
    <2>2. 0 \in 0..MaxRuns
      OBVIOUS
    <2> QED BY <2>1, <2>2 DEF RecordKept, Workspaces
  <1> QED BY <1>1, <1>2

\* scheduleLocked starts a new sequence number; no run has it.
LEMMA ScheduleAdvances ==
  ASSUME run \in [Runs -> RunStates], NEW w \in Workspaces, ScheduleLocked(w)
  PROVE  /\ run' \in [Runs -> RunStates] /\ workspace' \in Workspaces
         /\ \A r \in Runs : RunKept(r)
         /\ workspace'.id = w.id /\ workspace'.sequence = w.sequence + 1
         /\ workspace'.settings = w.settings /\ workspace'.documents = w.documents
  <1>1. run' \in [Runs -> RunStates] /\ \A r \in Runs : RunKept(r)
    BY CancelKeepsRuns DEF ScheduleLocked
  <1>2. workspace' = [w EXCEPT !.sequence = w.sequence + 1, !.cancel = 0]
    BY DEF ScheduleLocked
  <1>3. workspace' \in Workspaces
    <2>1. 0 \in 0..MaxRuns /\ w.sequence + 1 \in Nat
      BY DEF Workspaces
    <2> QED BY <1>2, <2>1 DEF Workspaces
  <1>4. /\ workspace'.id = w.id /\ workspace'.sequence = w.sequence + 1
        /\ workspace'.settings = w.settings /\ workspace'.documents = w.documents
    BY <1>2 DEF Workspaces
  <1> QED BY <1>1, <1>3, <1>4

-----------------------------------------------------------------------------
(* Steps by what they mean for the invariant.                              *)

\* A step that changes no text, no settings and no record: runs go on or end.
QuietStep ==
    /\ UNCHANGED <<documents, disk, settings, created, closed>>
    /\ mode' \in {"serving", "shutdown", "closing", "stopped"}
    /\ mode = "stopped" <=> mode' = "stopped"
    /\ workspace' \in Workspaces /\ RecordKept
    /\ run' \in [Runs -> RunStates] /\ \A r \in Runs : RunKept(r) \/ RunOver(r)

\* A quiet step keeps ServerInv.
LEMMA QuietKeeps ==
  ASSUME ServerInv, QuietStep
  PROVE  ServerInv'
  <1>1. ServerTypeOK'
    BY DEF ServerInv, ServerTypeOK, QuietStep
  <1>2. RecordInv'
    BY DEF ServerInv, RecordInv, QuietStep, RecordKept, RunKept, RunOver, Present
  <1>3. Truth' = Truth /\ (Present' <=> Present) /\ \A u \in Files : Open(u)' <=> Open(u)
    BY DEF QuietStep, Truth, Present, Open, RecordKept
  <1>4. ASSUME NEW r \in Runs, run'[r].pc \in {"analyzing", "returned"}
        PROVE  RunKept(r) /\ (Snapshot(r) => Snapshot(r)')
    BY <1>3, <1>4 DEF QuietStep, RunKept, RunOver, Snapshot
  <1>5. CurrentInv'
    BY <1>3, <1>4 DEF ServerInv, CurrentInv, QuietStep, RecordKept, RunKept
  <1> QED BY <1>1, <1>2, <1>5 DEF ServerInv

\* A step of the reader that gives the record w the next sequence number.
EditStep(w) ==
    /\ w \in Workspaces /\ w.id # 0
    /\ documents' \in [Files -> Documents] /\ disk' \in [Files -> SUBSET Files] /\ settings' \in Settings
    /\ mode = "serving" /\ UNCHANGED <<mode, closed>>
    /\ \/ Present /\ w.id = workspace.id /\ w.sequence = workspace.sequence /\ created' = created
       \/ ~Present /\ w.id = created + 1 /\ created' = created + 1
    /\ ScheduleLocked(w)
    /\ created' <= 1 =>
          /\ w.settings = settings'
          /\ \A u \in Files : Open(u)' <=> u \in w.documents

\* An edit keeps ServerInv: no run has the new sequence number.
LEMMA EditKeeps ==
  ASSUME ServerInv, NEW w, EditStep(w)
  PROVE  ServerInv'
  <1>1. /\ run' \in [Runs -> RunStates] /\ workspace' \in Workspaces
        /\ \A r \in Runs : RunKept(r)
        /\ workspace'.id = w.id /\ workspace'.sequence = w.sequence + 1
        /\ workspace'.settings = w.settings /\ workspace'.documents = w.documents
    BY ScheduleAdvances DEF ServerInv, ServerTypeOK, EditStep
  <1>2. created' \in Nat /\ created \in Nat /\ created <= created'
    BY DEF ServerInv, ServerTypeOK, EditStep
  <1>3. ServerTypeOK'
    BY <1>1, <1>2 DEF ServerInv, ServerTypeOK, EditStep
  <1>4. RecordInv'
    BY <1>1, <1>2 DEF ServerInv, RecordInv, EditStep, RunKept, Present
  <1>5. CurrentInv'
    <2> SUFFICES ASSUME created' <= 1
                 PROVE  /\ Present' /\ created' # 0
                        /\ \A u \in Files : Open(u)' <=> u \in workspace'.documents
                        /\ workspace'.settings = settings'
                        /\ \A r \in Runs : run'[r].pc \in {"analyzing", "returned"} =>
                              run'[r].sequence < workspace'.sequence
      <3>1. \A r \in Runs : run'[r].sequence \in Nat /\ workspace'.sequence \in Nat
        BY <1>1 DEF RunStates, Workspaces
      <3> QED BY <3>1 DEF CurrentInv
    <2>1. Present' /\ created' # 0
      BY <1>1, <1>2 DEF EditStep, Present, ServerInv, RecordInv, ServerTypeOK, Workspaces
    <2>2. (\A u \in Files : Open(u)' <=> u \in workspace'.documents) /\ workspace'.settings = settings'
      BY <1>1 DEF EditStep
    <2>3. ASSUME NEW r \in Runs, run'[r].pc \in {"analyzing", "returned"}
          PROVE  run'[r].sequence < workspace'.sequence
      <3>1. run'[r].sequence = run[r].sequence /\ run[r].pc \in {"analyzing", "returned"}
        BY <1>1, <2>3 DEF RunKept
      <3>2. run[r].id \in 1..created
        BY <3>1 DEF ServerInv, RecordInv
      <3>3. CASE Present
        <4>1. run[r].sequence <= workspace.sequence
          BY <1>2, <3>1, <3>3 DEF ServerInv, CurrentInv
        <4>2. run[r].sequence \in Nat /\ workspace.sequence \in Nat
          BY DEF ServerInv, ServerTypeOK, RunStates, Workspaces
        <4> QED BY <1>1, <3>1, <3>3, <4>1, <4>2 DEF EditStep
      <3>4. CASE ~Present
        BY <1>2, <3>2, <3>4 DEF EditStep
      <3> QED BY <3>3, <3>4
    <2> QED BY <2>1, <2>2, <2>3
  <1> QED BY <1>3, <1>4, <1>5 DEF ServerInv

-----------------------------------------------------------------------------
(* One lemma per action of the reader.                                     *)

\* Sequence numbers and record numbers are natural numbers, and a new record has a new number.
LEMMA RecordFacts ==
  ASSUME ServerInv
  PROVE  /\ workspace \in Workspaces /\ workspace.id \in Nat /\ workspace.sequence \in Nat
         /\ created \in Nat /\ created + 1 \in Nat /\ settings \in Settings
         /\ run \in [Runs -> RunStates]
         /\ Present => created # 0
  BY DEF ServerInv, ServerTypeOK, RecordInv, Workspaces, Present

\* DidOpen keeps ServerInv.
LEMMA DidOpenKeeps ==
  ASSUME ServerInv, NEW u \in Files, NEW v \in 1..MaxVersion, NEW c \in Texts, DidOpen(u, v, c)
  PROVE  ServerInv'
  <1> DEFINE w == [Ensured EXCEPT !.documents = @ \cup {u}]
  <1>1. Ensured \in Workspaces /\ (Ensured = IF Present THEN workspace ELSE NewWorkspace(created + 1, settings))
    BY RecordFacts, ZeroValues DEF Ensured
  <1>2. /\ w \in Workspaces /\ w.id = Ensured.id /\ w.sequence = Ensured.sequence
        /\ w.settings = Ensured.settings /\ w.documents = Ensured.documents \cup {u}
    BY <1>1 DEF Workspaces
  <1>3. [version |-> v, content |-> c] \in Documents /\ v # 0
    BY DEF Documents
  <1>4. /\ documents' \in [Files -> Documents]
        /\ \A x \in Files : Open(x)' <=> Open(x) \/ x = u
    BY <1>3 DEF DidOpen, ServerInv, ServerTypeOK, Open
  <1>5. /\ \/ Present /\ w.id = workspace.id /\ w.sequence = workspace.sequence /\ created' = created
           \/ ~Present /\ w.id = created + 1 /\ created' = created + 1
        /\ w.id # 0
    BY <1>1, <1>2, RecordFacts, ZeroValues DEF DidOpen, Present
  <1>6. created' <= 1 => w.settings = settings' /\ \A x \in Files : Open(x)' <=> x \in w.documents
    <2>1. settings' = settings /\ created' \in {created, created + 1}
      BY DEF DidOpen
    <2>2. CASE Present
      BY <1>1, <1>2, <1>4, <1>5, <2>1, <2>2, RecordFacts DEF ServerInv, CurrentInv
    <2>3. CASE ~Present
      BY <1>1, <1>2, <1>4, <1>5, <2>1, <2>3, RecordFacts, ZeroValues DEF ServerInv, CurrentInv
    <2> QED BY <2>2, <2>3
  <1>7. EditStep(w)
    BY <1>2, <1>4, <1>5, <1>6 DEF EditStep, DidOpen, Reading, ServerInv, ServerTypeOK
  <1> QED BY <1>7, EditKeeps

\* A change of a document that has no root: there is no second record, or no record at all.
LEMMA RootlessKeeps ==
  ASSUME ServerInv, NEW u \in Files, Open(u), u \notin workspace.documents,
         documents' \in [Files -> Documents], disk' \in [Files -> SUBSET Files],
         UNCHANGED <<settings, mode, workspace, created, run, closed>>
  PROVE  ServerInv'
  <1>1. ServerTypeOK' /\ RecordInv'
    BY DEF ServerInv, ServerTypeOK, RecordInv, Present
  <1>2. created <= 1 => ~Present /\ created # 0
    BY DEF ServerInv, CurrentInv
  <1>3. CurrentInv'
    BY <1>2 DEF CurrentInv, Present
  <1> QED BY <1>1, <1>3 DEF ServerInv

\* A change of an open document of the record, which keeps the set of open documents.
LEMMA RescheduleKeeps ==
  ASSUME ServerInv, NEW u \in Files, Reading, Open(u), Reschedule(u),
         documents' \in [Files -> Documents], disk' \in [Files -> SUBSET Files],
         \A x \in Files : Open(x)' <=> Open(x),
         UNCHANGED <<settings, mode, created, closed>>
  PROVE  ServerInv'
  <1>1. CASE u \notin workspace.documents
    BY <1>1, RootlessKeeps DEF Reschedule
  <1>2. CASE u \in workspace.documents /\ Present
    <2>1. created <= 1 =>
            workspace.settings = settings /\ \A x \in Files : Open(x) <=> x \in workspace.documents
      BY <1>2 DEF ServerInv, CurrentInv
    <2>2. EditStep(workspace)
      BY <1>2, <2>1, RecordFacts DEF EditStep, Reschedule, Reading, Present
    <2> QED BY <2>2, EditKeeps
  <1>3. CASE u \in workspace.documents /\ ~Present
    BY <1>3 DEF ServerInv, RecordInv, Present
  <1> QED BY <1>1, <1>2, <1>3

\* DidChange keeps ServerInv.
LEMMA DidChangeKeeps ==
  ASSUME ServerInv, NEW u \in Files, NEW v \in 1..MaxVersion, NEW c \in Texts, DidChange(u, v, c)
  PROVE  ServerInv'
  <1>1. [version |-> v, content |-> c] \in Documents /\ v # 0
    BY DEF Documents
  <1>2. documents' \in [Files -> Documents] /\ \A x \in Files : Open(x)' <=> Open(x)
    BY <1>1 DEF DidChange, ServerInv, ServerTypeOK, Open
  <1> QED BY <1>2, RescheduleKeeps DEF DidChange, ServerInv, ServerTypeOK

\* DidSave keeps ServerInv.
LEMMA DidSaveKeeps ==
  ASSUME ServerInv, NEW u \in Files, NEW c \in Texts, DidSave(u, c)
  PROVE  ServerInv'
  <1>1. documents' \in [Files -> Documents] /\ \A x \in Files : Open(x)' <=> Open(x)
    BY DEF DidSave, ServerInv, ServerTypeOK, Open, Documents
  <1>2. disk' \in [Files -> SUBSET Files]
    BY DEF DidSave, ServerInv, ServerTypeOK
  <1> QED BY <1>1, <1>2, RescheduleKeeps DEF DidSave

\* DidClose keeps ServerInv.
LEMMA DidCloseKeeps ==
  ASSUME ServerInv, NEW u \in Files, DidClose(u)
  PROVE  ServerInv'
  <1> DEFINE w == [workspace EXCEPT !.documents = @ \ {u}, !.published = @ \ {u}]
  <1>1. NotOpen \in Documents /\ NotOpen.version = 0
    BY DEF NotOpen, Documents
  <1>2. documents' \in [Files -> Documents] /\ \A x \in Files : Open(x)' <=> Open(x) /\ x # u
    BY <1>1 DEF DidClose, ServerInv, ServerTypeOK, Open
  <1>3. CASE u \notin workspace.documents
    BY <1>2, <1>3, RootlessKeeps DEF DidClose, ServerInv, ServerTypeOK
  <1>4. CASE u \in workspace.documents
    <2>1. Present
      BY <1>4 DEF ServerInv, RecordInv
    <2>2. /\ w \in Workspaces /\ w.id = workspace.id /\ w.sequence = workspace.sequence
          /\ w.settings = workspace.settings /\ w.documents = workspace.documents \ {u}
      BY RecordFacts DEF Workspaces
    <2>3. created <= 1 =>
            w.settings = settings /\ \A x \in Files : Open(x)' <=> x \in w.documents
      BY <1>2, <2>1, <2>2 DEF ServerInv, CurrentInv
    <2>4. EditStep(w)
      BY <1>2, <1>4, <2>1, <2>2, <2>3
         DEF EditStep, DidClose, Reading, Present, ServerInv, ServerTypeOK
    <2> QED BY <2>4, EditKeeps
  <1> QED BY <1>3, <1>4

\* RefreshAll keeps ServerInv.
LEMMA RefreshAllKeeps ==
  ASSUME ServerInv, NEW s \in Settings, RefreshAll(s)
  PROVE  ServerInv'
  <1> DEFINE w == [workspace EXCEPT !.settings = s]
  <1>1. \A x \in Files : Open(x)' <=> Open(x)
    BY DEF RefreshAll, Open
  <1>2. CASE Present
    <2>1. /\ w \in Workspaces /\ w.id = workspace.id /\ w.sequence = workspace.sequence
          /\ w.settings = s /\ w.documents = workspace.documents
      BY RecordFacts DEF Workspaces
    <2>2. created <= 1 => w.settings = s /\ \A x \in Files : Open(x)' <=> x \in w.documents
      BY <1>1, <1>2, <2>1 DEF ServerInv, CurrentInv
    <2>3. EditStep(w)
      BY <1>2, <2>1, <2>2 DEF EditStep, RefreshAll, Reading, Present, ServerInv, ServerTypeOK
    <2> QED BY <2>3, EditKeeps
  <1>3. CASE ~Present
    <2>1. UNCHANGED <<workspace, timer, run, documents, disk, mode, created, closed>> /\ settings' = s
      BY <1>3 DEF RefreshAll
    <2>2. ServerTypeOK' /\ RecordInv'
      BY <2>1 DEF ServerInv, ServerTypeOK, RecordInv, Present
    <2>3. CurrentInv'
      BY <1>1, <1>3, <2>1 DEF ServerInv, CurrentInv, Present
    <2> QED BY <2>2, <2>3 DEF ServerInv
  <1> QED BY <1>2, <1>3

\* AddWorkspace keeps ServerInv: the first record finds no document open and no analysis.
LEMMA AddWorkspaceKeeps ==
  ASSUME ServerInv, AddWorkspace
  PROVE  ServerInv'
  <1>1. /\ workspace' = NewWorkspace(created + 1, settings) /\ created' = created + 1
        /\ ~Present /\ mode = "serving"
        /\ UNCHANGED <<documents, disk, settings, mode, run, closed>>
    BY DEF AddWorkspace, Reading
  <1>2. /\ workspace' \in Workspaces /\ workspace'.id = created + 1
        /\ workspace'.settings = settings /\ workspace'.documents = {}
    BY <1>1, RecordFacts, ZeroValues
  <1>3. ServerTypeOK'
    BY <1>1, <1>2, RecordFacts DEF ServerInv, ServerTypeOK
  <1>4. RecordInv'
    BY <1>1, <1>2, RecordFacts DEF ServerInv, RecordInv, Present
  <1>5. CurrentInv'
    <2> SUFFICES ASSUME created' <= 1 PROVE CurrentInv'
      BY DEF CurrentInv
    <2>1. created = 0 /\ \A u \in Files : ~Open(u) /\ ~Open(u)'
      BY <1>1, RecordFacts DEF ServerInv, CurrentInv, Open
    <2>2. \A r \in Runs : run'[r].pc = "idle"
      BY <1>1, <2>1 DEF ServerInv, RecordInv
    <2> QED BY <1>1, <1>2, <2>1, <2>2 DEF CurrentInv
  <1> QED BY <1>3, <1>4, <1>5 DEF ServerInv

\* RemoveWorkspace keeps ServerInv.
LEMMA RemoveWorkspaceKeeps ==
  ASSUME ServerInv, RemoveWorkspace
  PROVE  ServerInv'
  <1>1. /\ workspace' = NewWorkspace(0, settings) /\ Present /\ mode = "serving"
        /\ run' = Cancelled(workspace)
        /\ UNCHANGED <<documents, disk, settings, mode, created, closed>>
    BY DEF RemoveWorkspace, Reading
  <1>2. workspace' \in Workspaces /\ workspace'.id = 0 /\ workspace'.documents = {}
    BY <1>1, RecordFacts, ZeroValues
  <1>3. run' \in [Runs -> RunStates] /\ \A r \in Runs : RunKept(r)
    BY <1>1, RecordFacts, CancelKeepsRuns
  <1>4. ServerTypeOK'
    BY <1>1, <1>2, <1>3 DEF ServerInv, ServerTypeOK
  <1>5. RecordInv'
    BY <1>1, <1>2, <1>3, RecordFacts DEF ServerInv, RecordInv, RunKept, Present
  <1>6. CurrentInv'
    BY <1>1, <1>2, RecordFacts DEF CurrentInv, Present
  <1> QED BY <1>4, <1>5, <1>6 DEF ServerInv

\* CloseService keeps ServerInv.
LEMMA CloseServiceKeeps ==
  ASSUME ServerInv, NEW id \in 1..MaxWorkspaces, CloseService(id)
  PROVE  ServerInv'
  <1>1. ServerTypeOK'
    BY DEF ServerInv, ServerTypeOK, CloseService
  <1>2. RecordInv'
    BY DEF ServerInv, RecordInv, CloseService, Removed, InFlight, Present
  <1>3. CurrentInv'
    BY DEF ServerInv, CurrentInv, CloseService, Snapshot, Truth, Open, Present
  <1> QED BY <1>1, <1>2, <1>3 DEF ServerInv

\* StopReturns keeps ServerInv.
LEMMA StopReturnsKeeps ==
  ASSUME ServerInv, StopReturns
  PROVE  ServerInv'
  <1>1. ServerTypeOK'
    BY DEF ServerInv, ServerTypeOK, StopReturns
  <1>2. RecordInv'
    BY DEF ServerInv, RecordInv, StopReturns, Present
  <1>3. CurrentInv'
    BY DEF ServerInv, CurrentInv, StopReturns, Snapshot, Truth, Open, Present
  <1> QED BY <1>1, <1>2, <1>3 DEF ServerInv

\* Shutdown and stop cancel: quiet steps.
LEMMA StopKeeps ==
  ASSUME ServerInv, HandleShutdown \/ Stop
  PROVE  ServerInv'
  <1>1. run' \in [Runs -> RunStates] /\ \A r \in Runs : RunKept(r)
    <2>1. CASE HandleShutdown
      BY <2>1, RecordFacts, CancelKeepsRuns DEF HandleShutdown
    <2>2. CASE Stop
      <3>1. ASSUME NEW r \in Runs PROVE run'[r] \in RunStates /\ RunKept(r)
        <4>1. run[r] \in RunStates
          BY RecordFacts
        <4>2. run'[r] = run[r] \/ run'[r] = [run[r] EXCEPT !.cancelled = TRUE]
          BY <2>2 DEF Stop
        <4> QED BY <4>1, <4>2 DEF RunKept, RunStates
      <3> QED BY <2>2, <3>1 DEF Stop
    <2> QED BY <2>1, <2>2
  <1>2. workspace' \in Workspaces /\ RecordKept
    <2>1. workspace' = [workspace EXCEPT !.cancel = 0] /\ 0 \in 0..MaxRuns
      BY DEF HandleShutdown, Stop, CancelAnalyses
    <2> QED BY <2>1, RecordFacts DEF RecordKept, Workspaces
  <1>3. QuietStep
    BY <1>1, <1>2 DEF QuietStep, HandleShutdown, Stop, Reading
  <1> QED BY <1>3, QuietKeeps

-----------------------------------------------------------------------------
(* The timer, its callback and the analyses.                               *)

\* Clear, Fire and SkipAnalysis leave runs and records alone.
LEMMA IdleKeeps ==
  ASSUME ServerInv, UNCHANGED <<documents, disk, settings, mode, workspace, created, run, closed>>
  PROVE  ServerInv'
  <1>1. QuietStep
    BY RecordFacts DEF QuietStep, ServerInv, ServerTypeOK, RecordKept, RunKept
  <1> QED BY <1>1, QuietKeeps

\* A callback that returns keeps ServerInv.
LEMMA ReturnKeeps ==
  ASSUME ServerInv, NEW r \in Runs, AnalyzeFails(r) \/ Discard(r) \/ EndPublishing(r)
  PROVE  ServerInv'
  <1>1. Return(r) /\ UNCHANGED <<documents, disk, settings, mode, created, closed>>
    BY DEF AnalyzeFails, Discard, EndPublishing
  <1>2. /\ run' \in [Runs -> RunStates] /\ workspace' \in Workspaces /\ RecordKept
        /\ \A q \in Runs : RunKept(q) \/ RunOver(q)
    BY <1>1, RecordFacts, ReturnEnds
  <1>3. QuietStep
    BY <1>1, <1>2 DEF QuietStep, ServerInv, ServerTypeOK
  <1> QED BY <1>3, QuietKeeps

\* Publication of an accepted result keeps ServerInv.
LEMMA PublishKeeps ==
  ASSUME ServerInv, NEW r \in Runs, CheckSequence(r) \/ Publish(r)
  PROVE  ServerInv'
  <1>1. /\ UNCHANGED <<documents, disk, settings, mode, workspace, created, closed>>
        /\ run[r].pc \in {"check", "publish"}
        /\ \E q \in SUBSET Files, pc \in {"check", "publish"} :
              run' = [run EXCEPT ![r] = [run[r] EXCEPT !.pc = pc, !.queue = q]]
    <2>1. CASE CheckSequence(r)
      <3>1. run[r].queue \in SUBSET Files /\ run[r] \in RunStates
        BY RecordFacts DEF RunStates
      <3>2. run' = [run EXCEPT ![r] = [run[r] EXCEPT !.pc = "publish", !.queue = run[r].queue]]
        BY <2>1, <3>1, RecordFacts DEF CheckSequence, RunStates
      <3> QED BY <2>1, <3>1, <3>2 DEF CheckSequence
    <2>2. CASE Publish(r)
      <3>1. run[r].queue \in SUBSET Files
        BY RecordFacts DEF RunStates
      <3>2. run' = [run EXCEPT ![r] = [run[r] EXCEPT !.pc = "check", !.queue = run[r].queue \ {Min(run[r].queue)}]]
        BY <2>2 DEF Publish
      <3> QED BY <2>2, <3>1, <3>2 DEF Publish
    <2> QED BY <2>1, <2>2
  <1>2. run' \in [Runs -> RunStates] /\ \A q \in Runs : RunKept(q) \/ RunOver(q)
    <2>1. PICK x \in SUBSET Files, pc \in {"check", "publish"} :
             run' = [run EXCEPT ![r] = [run[r] EXCEPT !.pc = pc, !.queue = x]]
      BY <1>1
    <2>2. run \in [Runs -> RunStates] /\ run[r] \in RunStates
      BY RecordFacts
    <2>3. /\ [run[r] EXCEPT !.pc = pc, !.queue = x] \in RunStates
          /\ run'[r].pc = pc /\ run'[r].id = run[r].id
      BY <2>1, <2>2 DEF RunStates
    <2> QED BY <1>1, <2>1, <2>2, <2>3 DEF RunKept, RunOver
  <1>3. QuietStep
    BY <1>1, <1>2, RecordFacts DEF QuietStep, RecordKept, ServerInv, ServerTypeOK
  <1> QED BY <1>3, QuietKeeps

\* A diagnostic is reported in a file.
LEMMA DiagnosticsInFiles == \A x \in Results : Diagnostics(x) \in SUBSET Files
  BY DEF Diagnostics, Results

\* Accept keeps ServerInv.
LEMMA AcceptKeeps ==
  ASSUME ServerInv, NEW r \in Runs, Accept(r)
  PROVE  ServerInv'
  <1> DEFINE found == Diagnostics(run[r].result)
  <1>1. /\ run \in [Runs -> RunStates] /\ run[r] \in RunStates /\ run[r].result \in Results
        /\ found \in SUBSET Files /\ run[r].pc = "returned"
        /\ workspace \in Workspaces /\ workspace.lastGood \in Results
        /\ workspace.published \cup workspace.documents \cup found \in SUBSET Files
    BY RecordFacts, DiagnosticsInFiles DEF Accept, RunStates, Workspaces
  <1>2. workspace' \in Workspaces /\ RecordKept
    <2>1. PICK good \in Results :
             workspace' = [workspace EXCEPT !.cancel = 0, !.latest = run[r].result,
                                            !.lastGood = good, !.published = found]
      BY <1>1 DEF Accept
    <2>2. 0 \in 0..MaxRuns
      OBVIOUS
    <2> QED BY <1>1, <2>1, <2>2 DEF Workspaces, RecordKept
  <1>3. Versions(Files) \in [Files -> Nat]
    BY DEF Versions, ServerInv, ServerTypeOK, Documents
  <1>4. run' \in [Runs -> RunStates] /\ \A q \in Runs : RunKept(q) \/ RunOver(q)
    <2> DEFINE next == [run[r] EXCEPT !.pc = "check", !.versions = Versions(Files),
                                      !.queue = workspace.published \cup workspace.documents \cup found]
    <2>1. run' = [run EXCEPT ![r] = next]
      BY DEF Accept
    <2>2. next \in RunStates /\ next.pc = "check" /\ next.id = run[r].id
      BY <1>1, <1>3 DEF RunStates
    <2> HIDE DEF next
    <2> QED BY <1>1, <2>1, <2>2 DEF RunKept, RunOver
  <1>5. QuietStep
    BY <1>2, <1>4 DEF QuietStep, Accept, ServerInv, ServerTypeOK
  <1> QED BY <1>5, QuietKeeps

\* BeginAnalysis keeps ServerInv: the snapshot is that of the documents.
LEMMA BeginAnalysisKeeps ==
  ASSUME ServerInv, NEW f \in fired, NEW r \in Runs, BeginAnalysis(f, r)
  PROVE  ServerInv'
  <1> DEFINE texts == [u \in Files |-> IF u \in workspace.documents THEN documents[u].content ELSE {}]
             next == [pc |-> "analyzing", id |-> workspace.id, sequence |-> workspace.sequence,
                      cancelled |-> FALSE, versions |-> Versions(workspace.documents),
                      result |-> [texts |-> texts, settings |-> workspace.settings], queue |-> {}]
  <1>1. /\ UNCHANGED <<documents, disk, settings, mode, created, closed>>
        /\ Present /\ mode = "serving"
        /\ run' = [run EXCEPT ![r] = next]
        /\ workspace' = [workspace EXCEPT !.cancel = r]
    BY DEF BeginAnalysis, MayBegin
  <1>2. /\ workspace \in Workspaces /\ workspace.id \in Nat /\ workspace.sequence \in Nat
        /\ workspace.settings \in Settings /\ run \in [Runs -> RunStates]
    BY RecordFacts DEF Workspaces
  <1>3. texts \in [Files -> SUBSET Files] /\ Versions(workspace.documents) \in [Files -> Nat]
    BY DEF ServerInv, ServerTypeOK, Documents, Versions
  <1>4. next \in RunStates
    BY <1>2, <1>3 DEF RunStates, Results
  <1>5. workspace' \in Workspaces /\ RecordKept
    <2>1. workspace \in Workspaces /\ workspace' = [workspace EXCEPT !.cancel = r]
      BY <1>1, <1>2
    <2> HIDE DEF next, texts
    <2>2. workspace' \in Workspaces
      BY ONLY <2>1, r \in Runs DEF Workspaces
    <2>3. RecordKept
      BY ONLY <2>1 DEF Workspaces, RecordKept
    <2> QED BY <2>2, <2>3
  <1>6. /\ next.pc = "analyzing" /\ next.id = workspace.id /\ next.sequence = workspace.sequence
        /\ next.versions = Versions(workspace.documents)
        /\ next.result.texts = texts /\ next.result.settings = workspace.settings
    OBVIOUS
  <1>7. run' \in [Runs -> RunStates] /\ run'[r] = next /\ \A q \in Runs : q # r => run'[q] = run[q]
    <2> HIDE DEF next
    <2> QED BY <1>1, <1>2, <1>4
  <1> HIDE DEF next
  <1>8. ServerTypeOK'
    BY <1>1, <1>5, <1>7 DEF ServerInv, ServerTypeOK
  <1>9. RecordInv'
    <2>1. workspace.id \in 1..created /\ workspace.id \notin closed
      BY <1>1, <1>2, RecordFacts DEF ServerInv, RecordInv, Present
    <2> QED BY <1>1, <1>5, <1>6, <1>7, <2>1 DEF ServerInv, RecordInv, RecordKept, Present
  <1>10. CurrentInv'
    <2> SUFFICES ASSUME created <= 1 PROVE CurrentInv'
      BY <1>1 DEF CurrentInv
    <2>1. /\ \A u \in Files : Open(u) <=> u \in workspace.documents
          /\ workspace.settings = settings
      BY <1>1 DEF ServerInv, CurrentInv
    <2>2. Truth' = Truth /\ (Present' <=> Present) /\ \A u \in Files : Open(u)' <=> Open(u)
      BY <1>1, <1>5 DEF Truth, Present, Open, RecordKept
    <2>3. Snapshot(r)'
      BY <1>1, <1>6, <1>7, <2>1, <2>2 DEF Snapshot, Versions, Open
    <2>4. \A q \in Runs : q # r => (Snapshot(q) => Snapshot(q)')
      BY <1>1, <1>7, <2>2 DEF Snapshot
    <2> QED BY <1>1, <1>2, <1>5, <1>6, <1>7, <2>1, <2>2, <2>3, <2>4
            DEF ServerInv, CurrentInv, RecordKept
  <1> QED BY <1>8, <1>9, <1>10 DEF ServerInv

\* AnalyzeReturns keeps ServerInv: files without an overlay are those that are not open.
LEMMA AnalyzeReturnsKeeps ==
  ASSUME ServerInv, NEW r \in Runs, AnalyzeReturns(r)
  PROVE  ServerInv'
  <1> DEFINE texts == [u \in Files |-> IF run[r].versions[u] # 0 THEN run[r].result.texts[u] ELSE disk[u]]
             next == [run[r] EXCEPT !.pc = "returned", !.cancelled = TRUE,
                                    !.result = [run[r].result EXCEPT !.texts = texts]]
  <1>1. /\ UNCHANGED <<documents, disk, settings, mode, workspace, created, closed>>
        /\ run[r].pc = "analyzing" /\ run' = [run EXCEPT ![r] = next]
    BY DEF AnalyzeReturns
  <1>2. run \in [Runs -> RunStates] /\ run[r] \in RunStates /\ run[r].result \in Results
    BY RecordFacts DEF RunStates
  <1>3. texts \in [Files -> SUBSET Files]
    BY <1>2 DEF Results, ServerInv, ServerTypeOK
  <1>4. [run[r].result EXCEPT !.texts = texts] \in Results
    BY <1>2, <1>3 DEF Results
  <1>5. /\ next \in RunStates /\ next.pc = "returned" /\ next.id = run[r].id
        /\ next.sequence = run[r].sequence /\ next.versions = run[r].versions
        /\ next.result.texts = texts /\ next.result.settings = run[r].result.settings
    BY <1>2, <1>4 DEF RunStates, Results
  <1>6. run' \in [Runs -> RunStates] /\ run'[r] = next /\ \A q \in Runs : q # r => run'[q] = run[q]
    <2> HIDE DEF next
    <2> QED BY <1>1, <1>2, <1>5
  <1> HIDE DEF next
  <1>7. ServerTypeOK'
    BY <1>1, <1>6 DEF ServerInv, ServerTypeOK
  <1>8. RecordInv'
    BY <1>1, <1>5, <1>6 DEF ServerInv, RecordInv, Present
  <1>9. CurrentInv'
    <2>1. Truth' = Truth /\ (Present' <=> Present) /\ \A u \in Files : Open(u)' <=> Open(u)
      BY <1>1 DEF Truth, Present, Open
    <2>2. Snapshot(r) => Snapshot(r)'
      <3>1. Snapshot(r) => texts = Truth.texts
        BY DEF Snapshot, Truth, Open
      <3>2. Snapshot(r) => \A u \in Files : Open(u) => texts[u] = documents[u].content
        BY DEF Snapshot, Open
      <3> HIDE DEF texts
      <3> QED BY <1>1, <1>5, <1>6, <2>1, <3>1, <3>2 DEF Snapshot
    <2>3. \A q \in Runs : q # r => (Snapshot(q) => Snapshot(q)')
      BY <1>1, <1>6, <2>1 DEF Snapshot
    <2> QED BY <1>1, <1>5, <1>6, <2>1, <2>2, <2>3 DEF ServerInv, CurrentInv
  <1> QED BY <1>7, <1>8, <1>9 DEF ServerInv

-----------------------------------------------------------------------------
(* The theorems.                                                           *)

\* The server starts with no document open and no analysis.
LEMMA InitServer == Init => ServerInv
  <1> SUFFICES ASSUME Init PROVE ServerInv
    OBVIOUS
  <1>1. created \in Nat /\ settings \in Settings /\ workspace = NewWorkspace(created, settings)
    BY DEF Init
  <1>2. /\ workspace \in Workspaces /\ workspace.id = created /\ workspace.settings = settings
        /\ workspace.documents = {}
    BY <1>1, ZeroValues
  <1>3. \A r \in Runs : run[r] = Idle /\ run[r].pc = "idle"
    BY ZeroValues DEF Init
  <1>4. \A u \in Files : ~Open(u)
    BY DEF Init, NotOpen, Open
  <1>5. ServerTypeOK
    <2>1. NotOpen \in Documents
      BY DEF NotOpen, Documents
    <2>2. disk \in [Files -> SUBSET Files]
      BY DEF Init
    <2> QED BY <1>2, <2>1, <2>2, ZeroValues DEF Init, ServerTypeOK
  <1>6. RecordInv
    BY <1>1, <1>2, <1>3 DEF Init, RecordInv
  <1>7. CurrentInv
    BY <1>2, <1>3, <1>4 DEF CurrentInv
  <1> QED BY <1>5, <1>6, <1>7 DEF ServerInv

\* Every step keeps ServerInv.
LEMMA ServerStep == ServerInv /\ [Next]_vars => ServerInv'
  <1> SUFFICES ASSUME ServerInv, [Next]_vars PROVE ServerInv'
    OBVIOUS
  <1>1. CASE Editor
    BY <1>1, DidOpenKeeps, DidChangeKeeps, DidSaveKeeps, DidCloseKeeps, RefreshAllKeeps,
       AddWorkspaceKeeps, RemoveWorkspaceKeeps, StopKeeps
       DEF Editor
  <1>2. ASSUME NEW r \in Runs, Callback(r) PROVE ServerInv'
    BY <1>2, BeginAnalysisKeeps, AnalyzeReturnsKeeps, ReturnKeeps, AcceptKeeps, PublishKeeps
       DEF Callback
  <1>3. CASE Server
    <2>1. CASE Clear \/ Fire \/ \E f \in fired : SkipAnalysis(f)
      BY <2>1, IdleKeeps DEF Clear, Fire, SkipAnalysis
    <2> QED BY <1>2, <1>3, <2>1, StopReturnsKeeps, CloseServiceKeeps DEF Server
  <1>4. CASE Terminated \/ UNCHANGED vars
    BY <1>4, IdleKeeps DEF Terminated, vars
  <1> QED BY <1>1, <1>3, <1>4 DEF Next

\* The invariant holds of every behaviour.
THEOREM ServerInvariance == Spec => []ServerInv
  BY InitServer, ServerStep, PTL DEF Spec

\* For any number of files, records and analyses in flight: no analysis uses a closed service.
THEOREM ServicesOutliveAnalyses == Spec => []ServiceOutlivesAnalyses
  <1>1. ServerInv => ServiceOutlivesAnalyses
    BY DEF ServerInv, RecordInv, ServiceOutlivesAnalyses
  <1> QED BY <1>1, ServerInvariance, PTL

\* Only completeAnalysis moves a run from its result to its publication.
LEMMA OnlyAcceptPublishes ==
  ASSUME ServerInv, [Next]_vars, NEW r \in Runs, run[r].pc = "returned", run'[r].pc = "check"
  PROVE  Accept(r)
  <1>1. run \in [Runs -> RunStates] /\ run[r] \in RunStates
    BY RecordFacts
  <1>2. ~(\E w : run' = Cancelled(w))
    BY <1>1, CancelKeepsRuns DEF RunKept
  <1>3. ~Editor
    <2>1. ~Stop
      BY <1>1 DEF Stop, RunStates
    <2>2. \A u \in Files, v \in 1..MaxVersion, c \in Texts : ~DidOpen(u, v, c) /\ ~DidChange(u, v, c)
      BY <1>2 DEF DidOpen, DidChange, Reschedule, ScheduleLocked
    <2>3. \A u \in Files : ~DidClose(u) /\ \A c \in Texts : ~DidSave(u, c)
      BY <1>2 DEF DidClose, DidSave, Reschedule, ScheduleLocked
    <2>4. (\A s \in Settings : ~RefreshAll(s)) /\ ~AddWorkspace /\ ~RemoveWorkspace /\ ~HandleShutdown
      BY <1>2 DEF RefreshAll, ScheduleLocked, AddWorkspace, RemoveWorkspace, HandleShutdown
    <2> QED BY <2>1, <2>2, <2>3, <2>4 DEF Editor
  <1>4. ASSUME NEW q \in Runs, Callback(q) PROVE Accept(r)
    <2>1. CASE \E f \in fired : BeginAnalysis(f, q)
      BY <1>1, <2>1 DEF BeginAnalysis
    <2>2. CASE AnalyzeReturns(q)
      BY <1>1, <2>2 DEF AnalyzeReturns, RunStates
    <2>3. CASE AnalyzeFails(q) \/ Discard(q) \/ EndPublishing(q)
      BY <1>1, <2>3, ZeroValues DEF AnalyzeFails, Discard, EndPublishing, Return
    <2>4. CASE Accept(q)
      BY <1>1, <2>4 DEF Accept
    <2>5. CASE CheckSequence(q) \/ Publish(q)
      BY <1>1, <2>5 DEF CheckSequence, Publish
    <2> QED BY <1>4, <2>1, <2>2, <2>3, <2>4, <2>5 DEF Callback
  <1>5. run' # run
    OBVIOUS
  <1>6. CASE Server
    BY <1>4, <1>5, <1>6 DEF Server, Clear, Fire, StopReturns, CloseService, SkipAnalysis
  <1> QED BY <1>3, <1>5, <1>6 DEF Next, Terminated, vars

\* As AcceptedIsCurrent, while the first workspace record is the only one there ever was.
FirstRecordIsCurrent ==
    [][\A r \in Runs : created <= 1 /\ run[r].pc = "returned" /\ run'[r].pc = "check" =>
         workspace'.latest = Truth]_vars

\* A result is accepted from a snapshot with the present sequence number.
LEMMA AcceptedSnapshot ==
  ASSUME ServerInv, created <= 1, NEW r \in Runs, Accept(r)
  PROVE  workspace'.latest = Truth
  <1>1. workspace'.latest = run[r].result /\ run[r].result \in Results
    BY RecordFacts DEF Accept, Workspaces, RunStates
  <1>2. Present /\ run[r].pc = "returned" /\ run[r].sequence = workspace.sequence
    BY DEF Accept, MayAccept
  <1>3. Snapshot(r)
    BY <1>2 DEF ServerInv, CurrentInv
  <1>4. run[r].result.texts = Truth.texts /\ run[r].result.settings = settings
    BY <1>2, <1>3 DEF Snapshot
  <1>5. Truth = [texts |-> Truth.texts, settings |-> settings]
    BY DEF Truth
  <1> QED BY <1>1, <1>4, <1>5 DEF Results

\* For any number of files, versions and analyses in flight, a result is accepted only if no edit,
\* save, open, close or change of settings is missing from it, until a workspace folder that was
\* removed is added again (the new record starts to count its analyses from zero).
THEOREM AcceptedWithinFirstRecord == Spec => FirstRecordIsCurrent
  <1>1. ASSUME ServerInv, [Next]_vars
        PROVE  [\A r \in Runs : created <= 1 /\ run[r].pc = "returned" /\ run'[r].pc = "check" =>
                  workspace'.latest = Truth]_vars
    BY <1>1, OnlyAcceptPublishes, AcceptedSnapshot
  <1> QED BY <1>1, ServerInvariance, PTL DEF Spec, FirstRecordIsCurrent

\* There was one workspace record at most.
OneRecord == created <= 1

\* With room for one record only, no second one is created.
LEMMA NoSecondRecord ==
  ASSUME MaxWorkspaces <= 1
  PROVE  Spec => []OneRecord
  <1>1. Init => OneRecord
    BY DEF Init, OneRecord
  <1>2. ASSUME ServerInv, OneRecord, [Next]_vars PROVE OneRecord'
    <2> SUFFICES created' <= 1
      BY DEF OneRecord
    <2>1. created \in Nat /\ created <= 1
      BY <1>2, RecordFacts DEF OneRecord
    <2>2. ASSUME NEW u \in Files, NEW v \in 1..MaxVersion, NEW c \in Texts,
                 DidOpen(u, v, c) \/ DidChange(u, v, c)
          PROVE  created' <= 1
      BY <2>1, <2>2 DEF DidOpen, DidChange
    <2>3. CASE AddWorkspace
      BY <2>1, <2>3 DEF AddWorkspace
    <2>4. CASE Editor
      BY <2>1, <2>2, <2>3, <2>4
         DEF Editor, DidSave, DidClose, RefreshAll, RemoveWorkspace, HandleShutdown, Stop
    <2>5. CASE Server
      BY <2>1, <2>5
         DEF Server, Clear, Fire, StopReturns, CloseService, SkipAnalysis, Callback, BeginAnalysis,
             AnalyzeReturns, AnalyzeFails, Accept, Discard, CheckSequence, EndPublishing, Publish
    <2> QED BY <1>2, <2>1, <2>4, <2>5 DEF Next, Terminated, vars
  <1> QED BY <1>1, <1>2, ServerInvariance, PTL DEF Spec

\* AcceptedIsCurrent, if no workspace folder is removed and added again.
THEOREM AcceptedResultsAreCurrent ==
  ASSUME MaxWorkspaces <= 1
  PROVE  Spec => AcceptedIsCurrent
  <1>1. ASSUME ServerInv, OneRecord, [Next]_vars
        PROVE  [\A r \in Runs : run[r].pc = "returned" /\ run'[r].pc = "check" =>
                  workspace'.latest = Truth]_vars
    BY <1>1, OnlyAcceptPublishes, AcceptedSnapshot DEF OneRecord
  <1> QED BY <1>1, ServerInvariance, NoSecondRecord, PTL DEF Spec, AcceptedIsCurrent

HIDE ServerAssumption DEF Runs

-----------------------------------------------------------------------------
(* The compiler service: begin, finish and cancellation. *)

\* What a step finds in the record of a request.
JobFields == {"phase", "cancelled"}
JobsAreRecords == job = [r \in Names |-> job[r]] /\ \A r \in Names : JobFields \subseteq DOMAIN job[r]

\* The entry of a workspace is the newest of its requests, while it is under way.
RunningIsNewest ==
    \A w \in Roots : \A x \in running[w] :
        /\ x \in Names /\ Active(x)
        /\ Requests[x].root = w /\ Requests[x].seq = latest[w] /\ Requests[x].seq # 0

\* A numbered request that is not cancelled is the entry.
UncancelledIsRunning ==
    \A r \in Names :
        Active(r) /\ Requests[r].seq # 0
        => /\ Requests[r].seq <= latest[Requests[r].root]
           /\ job[r].cancelled \/ r \in running[Requests[r].root]

ServiceInv ==
    /\ JobsAreRecords
    /\ latest \in [Roots -> Nat]
    /\ running = [w \in Roots |-> running[w]]
    /\ \A w \in Roots : \A x, y \in running[w] : x = y
    /\ RunningIsNewest /\ UncancelledIsRunning

\* What a step of the goroutine of a request that goes on may do: the request stays under way, and what was
\* cancelled stays cancelled.
Advances(r) ==
    /\ Active(r)
    /\ UNCHANGED <<latest, running>>
    /\ \E new : /\ job' = [job EXCEPT ![r] = new]
                /\ JobFields \subseteq DOMAIN new
                /\ new.phase \notin {"waiting", "ended"}
                /\ job[r].cancelled => new.cancelled

USE RequestsAreNumberedOnce

\* Every request has a workspace and a number.
LEMMA RootOf == \A r \in Names : Requests[r].root \in Roots /\ Requests[r].seq \in Nat
  BY DEF Roots

\* A request that goes on keeps the invariant.
LEMMA AdvanceKeeps ==
    ASSUME ServiceInv, NEW r \in Names, Advances(r)
    PROVE  ServiceInv'
  <1>1. PICK new : /\ job' = [job EXCEPT ![r] = new]
                   /\ JobFields \subseteq DOMAIN new
                   /\ new.phase \notin {"waiting", "ended"}
                   /\ job[r].cancelled => new.cancelled
    BY DEF Advances
  <1>2. \A x \in Names : job'[x] = IF x = r THEN new ELSE job[x]
    BY <1>1 DEF ServiceInv, JobsAreRecords
  <1>3. \A x \in Names : Active(x)' <=> Active(x)
    BY <1>1, <1>2 DEF Advances, Active
  <1>4. JobsAreRecords'
    BY <1>1, <1>2 DEF ServiceInv, JobsAreRecords
  <1>5. UNCHANGED <<latest, running>>
    BY DEF Advances
  <1>6. RunningIsNewest'
    BY <1>3, <1>5 DEF ServiceInv, RunningIsNewest
  <1>7. UncancelledIsRunning'
    BY <1>1, <1>2, <1>3, <1>5 DEF ServiceInv, UncancelledIsRunning
  <1> QED
    BY <1>4, <1>5, <1>6, <1>7 DEF ServiceInv

\* A record of a request that is under way and cancelled as before.
GoesOn(r, new) ==
    /\ JobFields \subseteq DOMAIN new
    /\ new.phase \notin {"waiting", "ended"}
    /\ new.cancelled = job[r].cancelled

\* A step that works on an analysis lets the request go on.
LEMMA WorkAdvances ==
    ASSUME ServiceInv, NEW r \in Names, Active(r), NEW new, GoesOn(r, new), Work(r, new)
    PROVE  Advances(r)
  BY DEF Advances, Work, Move, GoesOn

\* The records that the steps build.
LEMMA Records ==
    ASSUME ServiceInv, NEW r \in Names, Active(r)
    PROVE  /\ JobFields \subseteq DOMAIN job[r]
           /\ GoesOn(r, job[r])
           /\ GoesOn(r, Failed(r))
           /\ \A result : GoesOn(r, Done(r, result))
           /\ \A new : GoesOn(r, new) => GoesOn(r, WithRead(r, new))
           /\ \A candidate : GoesOn(r, Taken(job[r], candidate))
           /\ \A model, pkgs : GoesOn(r, Joined(job[r], model, pkgs))
  <1>1. JobFields \subseteq DOMAIN job[r] /\ GoesOn(r, job[r])
    BY DEF ServiceInv, JobsAreRecords, GoesOn, Active
  <1>2. GoesOn(r, Failed(r))
    BY DEF Failed, NoJob, JobFields, GoesOn
  <1>3. \A result : GoesOn(r, Done(r, result))
    BY DEF Done, NoJob, JobFields, GoesOn
  <1>4. \A new : GoesOn(r, new) => GoesOn(r, WithRead(r, new))
    BY DEF WithRead, JobFields, GoesOn
  <1>5. \A candidate : GoesOn(r, Taken(job[r], candidate))
    BY <1>1 DEF Taken, JobFields, GoesOn
  <1>6. \A model, pkgs : GoesOn(r, Joined(job[r], model, pkgs))
    BY <1>1 DEF Joined, JobFields, GoesOn
  <1> QED
    BY <1>1, <1>2, <1>3, <1>4, <1>5, <1>6

\* Only Finish ends a request that has begun.
LEMMA StepAdvances ==
    ASSUME ServiceInv, NEW r \in Names, Step(r), ~Finish(r)
    PROVE  Advances(r)
  <1>1. CASE AnswerFromCache(r)
    <2>1. Active(r) BY <1>1 DEF AnswerFromCache, Active
    <2>2. PICK new : /\ new = IF Stale(r) THEN [job[r] EXCEPT !.phase = "returning", !.answer = "stale"]
                              ELSE [job[r] EXCEPT !.phase = "returning", !.answer = "cached", !.result = cache[Key(r)]]
                     /\ job' = [job EXCEPT ![r] = new]
      BY <1>1 DEF AnswerFromCache, Move
    <2>3. GoesOn(r, new)
      BY <2>1, <2>2, Records DEF GoesOn, JobFields
    <2> QED
      BY <1>1, <2>1, <2>2, <2>3 DEF AnswerFromCache, Advances, GoesOn
  <1>2. CASE StartAnalysis(r)
    <2>1. Active(r) BY <1>2 DEF StartAnalysis, Active
    <2>2. PICK new : /\ new = [job[r] EXCEPT !.phase = IF Requests[r].style # <<>> THEN "selections" ELSE "initial"]
                     /\ job' = [job EXCEPT ![r] = new]
      BY <1>2 DEF StartAnalysis, Move
    <2>3. GoesOn(r, new)
      BY <2>1, <2>2, Records DEF GoesOn, JobFields
    <2> QED
      BY <1>2, <2>1, <2>2, <2>3 DEF StartAnalysis, Advances, GoesOn
  <1>3. CASE AnalyzeInitial(r)
    <2>1. Active(r) BY <1>3 DEF AnalyzeInitial, Active
    <2>2. PICK result, pending :
            Work(r, IF Interrupted(r, Content(r), Asked(r)) THEN Failed(r)
                    ELSE WithRead(r, IF pending = {} THEN Done(r, result)
                                     ELSE [job[r] EXCEPT !.phase = "scope", !.initial = result, !.models = <<result.model>>,
                                                         !.pending = pending]))
      BY <1>3 DEF AnalyzeInitial
    <2>3. GoesOn(r, [job[r] EXCEPT !.phase = "scope", !.initial = result, !.models = <<result.model>>, !.pending = pending])
      BY <2>1, Records DEF GoesOn, JobFields
    <2> QED
      BY <2>1, <2>2, <2>3, Records, WorkAdvances
  <1>4. CASE TakeCandidate(r)
    <2>1. Active(r) BY <1>4 DEF TakeCandidate, Active
    <2>2. PICK candidate, loaded, new :
            /\ Work(r, new)
            /\ \/ new = Failed(r)
               \/ new = Taken(job[r], candidate)
               \/ new = [Taken(job[r], candidate) EXCEPT !.phase = "interfaces", !.candidate = candidate, !.result = NoAnalysis]
               \/ new = WithRead(r, [Taken(job[r], candidate) EXCEPT !.phase = "interfaces", !.candidate = candidate,
                                                                     !.result = loaded])
               \/ new = WithRead(r, Taken(job[r], candidate))
      BY <1>4, Zenon DEF TakeCandidate
    <2>3. \A result : GoesOn(r, [Taken(job[r], candidate) EXCEPT !.phase = "interfaces", !.candidate = candidate, !.result = result])
      BY <2>1, Records DEF GoesOn, JobFields
    <2> QED
      BY <2>1, <2>2, <2>3, Records, WorkAdvances
  <1>5. CASE ReadInterfaces(r)
    <2>1. Active(r) BY <1>5 DEF ReadInterfaces, Active
    <2>2. PICK model, pkgs, new :
            /\ Work(r, new)
            /\ \/ new = Failed(r)
               \/ new = WithRead(r, Joined(job[r], model, pkgs))
               \/ new = WithRead(r, [job[r] EXCEPT !.phase = "scope", !.result = NoAnalysis])
      BY <1>5, Zenon DEF ReadInterfaces
    <2>3. GoesOn(r, [job[r] EXCEPT !.phase = "scope", !.result = NoAnalysis])
      BY <2>1, Records DEF GoesOn, JobFields
    <2> QED
      BY <2>1, <2>2, <2>3, Records, WorkAdvances
  <1>6. CASE CloseScope(r)
    <2>1. Active(r) BY <1>6 DEF CloseScope, Active
    <2>2. \A universe : GoesOn(r, [job[r] EXCEPT !.phase = "validate", !.universe = universe])
      BY <2>1, Records DEF GoesOn, JobFields
    <2>3. PICK universe : Work(r, IF job[r].inventories = <<>> THEN Done(r, job[r].initial)
                                  ELSE [job[r] EXCEPT !.phase = "validate", !.universe = universe])
      BY <1>6 DEF CloseScope
    <2> QED
      BY <2>1, <2>2, <2>3, Records, WorkAdvances
  <1>7. CASE ValidateInventory(r)
    <2>1. Active(r) BY <1>7 DEF ValidateInventory, Active
    <2>2. GoesOn(r, [job[r] EXCEPT !.next = @ + 1])
      BY <2>1, Records DEF GoesOn, JobFields
    <2>3. PICK result, new :
            /\ Work(r, new)
            /\ \/ new = Failed(r) \/ new = WithRead(r, Done(r, result)) \/ new = WithRead(r, [job[r] EXCEPT !.next = @ + 1])
      BY <1>7, Zenon DEF ValidateInventory
    <2> QED
      BY <2>1, <2>2, <2>3, Records, WorkAdvances
  <1>8. CASE AnalyzeFinal(r)
    <2>1. Active(r) BY <1>8 DEF AnalyzeFinal, Active
    <2>2. PICK result, new : Work(r, new) /\ (new = Failed(r) \/ new = WithRead(r, Done(r, result)))
      BY <1>8, Zenon DEF AnalyzeFinal
    <2> QED
      BY <2>1, <2>2, Records, WorkAdvances
  <1>9. CASE InventorySelection(r)
    <2>1. Active(r) BY <1>9 DEF InventorySelection, Active
    <2>2. \A state : GoesOn(r, [job[r] EXCEPT !.next = @ + 1, !.results = Append(@, state)])
      BY <2>1, Records DEF GoesOn, JobFields
    <2>3. PICK state, new :
            /\ Work(r, new)
            /\ \/ new = Failed(r) \/ new = WithRead(r, [job[r] EXCEPT !.next = @ + 1, !.results = Append(@, state)])
      BY <1>9, Zenon DEF InventorySelection
    <2> QED
      BY <2>1, <2>2, <2>3, Records, WorkAdvances
  <1>10. CASE AnalyzeTargets(r)
    <2>1. Active(r) BY <1>10 DEF AnalyzeTargets, Active
    <2>2. PICK result, new : Work(r, new) /\ (new = Failed(r) \/ new = WithRead(r, Done(r, result)))
      BY <1>10, Zenon DEF AnalyzeTargets
    <2> QED
      BY <2>1, <2>2, Records, WorkAdvances
  <1>11. CASE Settle(r)
    <2>1. Active(r) BY <1>11 DEF Settle, Active
    <2>2. PICK new : /\ new = IF Stale(r) THEN [NoJob EXCEPT !.phase = "returning", !.cancelled = job[r].cancelled, !.answer = "stale"]
                              ELSE [job[r] EXCEPT !.phase = "returning"]
                     /\ job' = [job EXCEPT ![r] = new]
      BY <1>11 DEF Settle, Move
    <2>3. GoesOn(r, new)
      BY <2>1, <2>2, Records DEF GoesOn, JobFields, NoJob
    <2> QED
      BY <1>11, <2>1, <2>2, <2>3 DEF Settle, Advances, GoesOn
  <1> QED
    BY <1>1, <1>2, <1>3, <1>4, <1>5, <1>6, <1>7, <1>8, <1>9, <1>10, <1>11 DEF Step

\* A request that its caller abandons is cancelled and goes on.
LEMMA AbandonAdvances ==
    ASSUME ServiceInv, NEW r \in Names, Abandon(r)
    PROVE  Advances(r)
  <1>1. Active(r) BY DEF Abandon, Active
  <1>2. PICK new : new = [job[r] EXCEPT !.cancelled = TRUE] /\ job' = [job EXCEPT ![r] = new]
    BY DEF Abandon, Move
  <1>3. JobFields \subseteq DOMAIN new /\ new.phase = job[r].phase /\ new.cancelled
    BY <1>1, <1>2, Records DEF JobFields
  <1> QED
    BY <1>1, <1>2, <1>3 DEF Abandon, Advances, Active

\* A request that is numbered replaces the entry and cancels the one that was there.
LEMMA BeginKeeps ==
    ASSUME ServiceInv, NEW r \in Names, Begin(r)
    PROVE  ServiceInv'
  <1> DEFINE w == Requests[r].root
  <1>1. w \in Roots /\ Requests[r].seq \in Nat /\ latest[w] \in Nat /\ ~Active(r) /\ \A v \in Roots : r \notin running[v]
    BY RootOf DEF ServiceInv, Begin, Active, RunningIsNewest
  <1>2. ASSUME NEW phase, NEW answer, job' = [job EXCEPT ![r] = [job[r] EXCEPT !.phase = phase, !.answer = answer]],
               UNCHANGED <<latest, running>>, phase = "ended"
        PROVE  ServiceInv'
    <2>1. \A x \in Names : x # r => job'[x] = job[x]
      BY <1>2 DEF ServiceInv, JobsAreRecords
    <2>2. job'[r].phase = "ended" /\ JobFields \subseteq DOMAIN job'[r]
      BY <1>2 DEF ServiceInv, JobsAreRecords, JobFields
    <2>3. \A x \in Names : Active(x)' <=> Active(x)
      BY <1>1, <2>1, <2>2 DEF Active
    <2>4. JobsAreRecords'
      BY <1>2, <2>1, <2>2 DEF ServiceInv, JobsAreRecords
    <2>5. RunningIsNewest' /\ UncancelledIsRunning'
      BY <1>1, <1>2, <2>1, <2>3 DEF ServiceInv, RunningIsNewest, UncancelledIsRunning
    <2> QED
      BY <1>2, <2>4, <2>5 DEF ServiceInv
  <1>3. ASSUME Requests[r].seq = 0, job' = [job EXCEPT ![r] = [job[r] EXCEPT !.phase = "begun"]], UNCHANGED <<latest, running>>
        PROVE  ServiceInv'
    <2>1. \A x \in Names : x # r => job'[x] = job[x]
      BY <1>3 DEF ServiceInv, JobsAreRecords
    <2>2. JobFields \subseteq DOMAIN job'[r]
      BY <1>3 DEF ServiceInv, JobsAreRecords, JobFields
    <2>3. \A x \in Names : x # r => (Active(x)' <=> Active(x))
      BY <2>1 DEF Active
    <2>4. JobsAreRecords'
      BY <1>3, <2>1, <2>2 DEF ServiceInv, JobsAreRecords
    <2>5. RunningIsNewest' /\ UncancelledIsRunning'
      BY <1>1, <1>3, <2>1, <2>3 DEF ServiceInv, RunningIsNewest, UncancelledIsRunning
    <2> QED
      BY <1>3, <2>4, <2>5 DEF ServiceInv
  <1>4. ASSUME Requests[r].seq # 0, ~(Requests[r].seq < latest[w]),
               latest' = [latest EXCEPT ![w] = Requests[r].seq], running' = [running EXCEPT ![w] = {r}],
               job' = [[x \in Names |-> IF x \in running[w] THEN [job[x] EXCEPT !.cancelled = TRUE] ELSE job[x]]
                         EXCEPT ![r].phase = "begun"]
        PROVE  ServiceInv'
    <2>1. \A x \in Names : x # r => job'[x] = IF x \in running[w] THEN [job[x] EXCEPT !.cancelled = TRUE] ELSE job[x]
      BY <1>4
    <2>2. job'[r] = [job[r] EXCEPT !.phase = "begun"]
      BY <1>1, <1>4
    <2>3. \A x \in Names : /\ JobFields \subseteq DOMAIN job'[x]
                           /\ x # r => (Active(x)' <=> Active(x))
                           /\ x # r /\ job[x].cancelled => job'[x].cancelled
                           /\ x # r /\ x \in running[w] => job'[x].cancelled
      <3> SUFFICES ASSUME NEW x \in Names
                   PROVE  /\ JobFields \subseteq DOMAIN job'[x]
                          /\ x # r => (Active(x)' <=> Active(x))
                          /\ x # r /\ job[x].cancelled => job'[x].cancelled
                          /\ x # r /\ x \in running[w] => job'[x].cancelled
        OBVIOUS
      <3>1. JobFields \subseteq DOMAIN job[x]
        BY DEF ServiceInv, JobsAreRecords
      <3>2. CASE x = r
        BY <2>2, <3>1, <3>2
      <3>3. CASE x # r /\ x \in running[w]
        BY <2>1, <3>1, <3>3 DEF JobFields, Active
      <3>4. CASE x # r /\ x \notin running[w]
        BY <2>1, <3>1, <3>4 DEF Active
      <3> QED BY <3>2, <3>3, <3>4
    <2>4. Active(r)'
      BY <2>2 DEF Active, ServiceInv, JobsAreRecords, JobFields
    <2>5. JobsAreRecords'
      <3>1. job' = [x \in Names |-> job'[x]]
        BY <1>4
      <3> QED
        BY <2>3, <3>1 DEF JobsAreRecords
    <2>6. latest' \in [Roots -> Nat] /\ latest'[w] = Requests[r].seq /\ \A v \in Roots : v # w => latest'[v] = latest[v]
      BY <1>1, <1>4 DEF ServiceInv
    <2>7. running' = [v \in Roots |-> running'[v]] /\ running'[w] = {r} /\ \A v \in Roots : v # w => running'[v] = running[v]
      BY <1>1, <1>4 DEF ServiceInv
    <2>8. RunningIsNewest'
      <3> SUFFICES ASSUME NEW v \in Roots, NEW x \in running'[v]
                   PROVE  /\ x \in Names /\ Active(x)'
                          /\ Requests[x].root = v /\ Requests[x].seq = latest'[v] /\ Requests[x].seq # 0
        BY DEF RunningIsNewest
      <3>1. CASE v = w
        BY <1>4, <2>4, <2>6, <2>7, <3>1
      <3>2. CASE v # w
        <4>1. x \in running[v] /\ x # r
          BY <1>1, <2>7, <3>2
        <4> QED
          BY <2>3, <2>6, <3>2, <4>1 DEF ServiceInv, RunningIsNewest
      <3> QED BY <3>1, <3>2
    <2>9. UncancelledIsRunning'
      <3> SUFFICES ASSUME NEW x \in Names, Active(x)', Requests[x].seq # 0
                   PROVE  /\ Requests[x].seq <= latest'[Requests[x].root]
                          /\ job'[x].cancelled \/ x \in running'[Requests[x].root]
        BY DEF UncancelledIsRunning
      <3>1. CASE x = r
        BY <1>1, <2>6, <2>7, <3>1
      <3>2. CASE x # r /\ Requests[x].root = w
        <4>1. Requests[x].seq \in Nat /\ Requests[x].seq <= latest[w] /\ (job[x].cancelled \/ x \in running[w])
          BY <2>3, <3>2, RootOf DEF ServiceInv, UncancelledIsRunning
        <4> QED
          BY <1>1, <1>4, <2>3, <2>6, <3>2, <4>1
      <3>3. CASE x # r /\ Requests[x].root # w
        BY <2>3, <2>6, <2>7, <3>3, RootOf DEF ServiceInv, UncancelledIsRunning
      <3> QED BY <3>1, <3>2, <3>3
    <2>10. \A v \in Roots : \A x, y \in running'[v] : x = y
      BY <2>7 DEF ServiceInv
    <2> QED
      BY <2>5, <2>6, <2>7, <2>8, <2>9, <2>10 DEF ServiceInv
  <1>5. CASE Refused(Requests[r])
    BY <1>2, <1>5 DEF Begin, Move
  <1>6. CASE ~Refused(Requests[r]) /\ Requests[r].seq = 0
    BY <1>3, <1>6 DEF Begin, Move
  <1>7. CASE ~Refused(Requests[r]) /\ Requests[r].seq # 0 /\ Requests[r].seq < latest[w]
    BY <1>2, <1>7 DEF Begin, Move
  <1>8. CASE ~Refused(Requests[r]) /\ Requests[r].seq # 0 /\ ~(Requests[r].seq < latest[w])
    BY <1>4, <1>8 DEF Begin
  <1> QED
    BY <1>5, <1>6, <1>7, <1>8

\* The entry that is removed is the own one: no other request of the workspace has the number.
LEMMA FinishKeeps ==
    ASSUME ServiceInv, NEW r \in Names, Finish(r)
    PROVE  ServiceInv'
  <1> DEFINE w == Requests[r].root
  <1>1. /\ w \in Roots /\ latest' = latest /\ Active(r)
        /\ job' = [job EXCEPT ![r] = [NoJob EXCEPT !.phase = "ended", !.answer = job[r].answer]]
    BY RootOf DEF Finish, Move, Active
  <1>2. \A x \in Names : x # r => job'[x] = job[x]
    BY <1>1 DEF ServiceInv, JobsAreRecords
  <1>3. job'[r].phase = "ended" /\ JobFields \subseteq DOMAIN job'[r]
    BY <1>1 DEF ServiceInv, JobsAreRecords, NoJob, JobFields
  <1>4. ~Active(r)' /\ \A x \in Names : x # r => (Active(x)' <=> Active(x))
    BY <1>2, <1>3 DEF Active
  <1>5. JobsAreRecords'
    BY <1>1, <1>2, <1>3 DEF ServiceInv, JobsAreRecords
  <1>6. /\ running' = [v \in Roots |-> running'[v]]
        /\ \A v \in Roots : running'[v] = running[v] \ {r}
    <2>1. CASE Requests[r].seq = 0
      <3>1. \A v \in Roots : r \notin running[v]
        BY <2>1 DEF ServiceInv, RunningIsNewest
      <3> QED
        BY <2>1, <3>1 DEF Finish, ServiceInv
    <2>2. CASE Requests[r].seq # 0 /\ \E x \in running[w] : Requests[x].seq = Requests[r].seq
      <3>1. PICK x \in running[w] : Requests[x].seq = Requests[r].seq
        BY <2>2
      <3>2. x = r
        BY <1>1, <2>2, <3>1 DEF ServiceInv, RunningIsNewest
      <3>3. running[w] = {r}
        BY <1>1, <3>1, <3>2 DEF ServiceInv
      <3>4. running' = [running EXCEPT ![w] = {}]
        BY <2>2 DEF Finish, Unregistered
      <3>5. \A v \in Roots : v # w => r \notin running[v]
        BY DEF ServiceInv, RunningIsNewest
      <3>6. running' = [v \in Roots |-> IF v = w THEN {} ELSE running[v]]
        BY <1>1, <3>4 DEF ServiceInv
      <3> QED
        BY <3>3, <3>5, <3>6
    <2>3. CASE Requests[r].seq # 0 /\ ~\E x \in running[w] : Requests[x].seq = Requests[r].seq
      <3>1. running' = running
        BY <2>3 DEF Finish, Unregistered
      <3>2. \A v \in Roots : r \notin running[v]
        BY <2>3 DEF ServiceInv, RunningIsNewest
      <3> QED
        BY <3>1, <3>2 DEF ServiceInv
    <2> QED BY <2>1, <2>2, <2>3
  <1>7. RunningIsNewest'
    BY <1>1, <1>4, <1>6 DEF ServiceInv, RunningIsNewest
  <1>8. UncancelledIsRunning'
    BY <1>1, <1>2, <1>4, <1>6, RootOf DEF ServiceInv, UncancelledIsRunning
  <1> QED
    BY <1>1, <1>5, <1>6, <1>7, <1>8 DEF ServiceInv

\* No request has begun at first.
LEMMA ServiceInit_Inv ==
    ASSUME ServiceInit PROVE ServiceInv
  <1>1. JobsAreRecords
    BY DEF ServiceInit, JobsAreRecords, NoJob, JobFields
  <1>2. \A r \in Names : ~Active(r)
    BY DEF ServiceInit, Active, NoJob
  <1> QED
    BY <1>1, <1>2 DEF ServiceInit, ServiceInv, RunningIsNewest, UncancelledIsRunning

\* The invariant is about the requests and the two registers only.
LEMMA ServiceStutter ==
    ASSUME ServiceInv, UNCHANGED <<job, latest, running>>
    PROVE  ServiceInv'
  <1>1. JobsAreRecords'
    BY DEF ServiceInv, JobsAreRecords
  <1>2. RunningIsNewest'
    BY DEF ServiceInv, RunningIsNewest, Active
  <1>3. UncancelledIsRunning'
    BY DEF ServiceInv, UncancelledIsRunning, Active
  <1> QED
    BY <1>1, <1>2, <1>3 DEF ServiceInv

\* begin and finish of compiler/service (service.go:361-398), for any number of requests and workspaces, in any order
\* and however they end: the entry of a workspace is its newest request while it is under way, so that a request that
\* is not cancelled is the newest.
THEOREM NewestIsRegistered == ServiceSpec => []ServiceInv
  <1>1. ASSUME ServiceInv, [ServiceNext]_serviceVars PROVE ServiceInv'
    <2>1. ASSUME NEW r \in Names, Begin(r) \/ Step(r) \/ Abandon(r) PROVE ServiceInv'
      BY <1>1, <2>1, BeginKeeps, FinishKeeps, StepAdvances, AbandonAdvances, AdvanceKeeps
    <2>2. ASSUME NEW w \in Roots, Edit(w) PROVE ServiceInv'
      BY <1>1, <2>2, ServiceStutter DEF Edit
    <2>3. CASE ServiceIdle \/ UNCHANGED serviceVars
      BY <1>1, <2>3, ServiceStutter DEF ServiceIdle, serviceVars
    <2> QED
      BY <1>1, <2>1, <2>2, <2>3 DEF ServiceNext
  <1> QED
    BY <1>1, ServiceInit_Inv, PTL DEF ServiceSpec

\* An analysis that a newer one of its workspace superseded is cancelled as long as both are under way, for any number
\* of requests and workspaces, contents, cache sizes and edits (service.go:361-398).
THEOREM SupersededAreCancelled == ServiceSpec => []SupersededIsCancelled
  <1>1. ASSUME ServiceInv PROVE SupersededIsCancelled
    <2> SUFFICES ASSUME NEW r \in Names, NEW x \in Names, Active(r), Active(x), Requests[r].root = Requests[x].root,
                        0 < Requests[r].seq, Requests[r].seq < Requests[x].seq, ~job[r].cancelled
                 PROVE  FALSE
      BY DEF SupersededIsCancelled
    <2>1. Requests[r].seq \in Nat /\ Requests[x].seq \in Nat /\ Requests[r].root \in Roots
      BY RootOf
    <2>2. r \in running[Requests[r].root] /\ Requests[x].seq <= latest[Requests[r].root]
      BY <1>1, <2>1 DEF ServiceInv, UncancelledIsRunning
    <2>3. Requests[r].seq = latest[Requests[r].root]
      BY <1>1, <2>1, <2>2 DEF ServiceInv, RunningIsNewest
    <2> QED
      BY <2>1, <2>2, <2>3
  <1> QED
    BY <1>1, NewestIsRegistered, PTL
=============================================================================

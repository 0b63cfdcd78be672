----------------------------- MODULE CommandLine -----------------------------
(***************************************************************************)
(* The commands of internal/cli other than dev, init, new and add: the     *)
(* dispatch, the parsers of their arguments, the steps that each command   *)
(* takes, with what it must still do after a step that fails, and the wait *)
(* of "spice run" for the application, which races with signals.           *)
(*                                                                         *)
(* A word of the command line is [opt, inline, val, dash]: the option that *)
(* it names ("" for none), whether it brings a value (--opt=val), that     *)
(* value or its text, and the dashes that it starts with.  Of a text only  *)
(* these are told apart: "" , "good" and "bad" for the option at hand.     *)
(***************************************************************************)
EXTENDS Integers, Sequences, SequencesExt, FiniteSets

CONSTANTS
  CommandLines,  \* what is typed: [command, words]
  Stores,        \* sets of manifests that .spice may hold: [id, schema, files]
  Paths,         \* paths that are asked for
  MaxSignals     \* bound: signals that are sent

\* genfs writes no manifest with another range of generated lines (validateFileOwnership).
ASSUME StoresAreValid ==
  \A store \in Stores : \A manifest \in store : \A file \in manifest.files : \A mapping \in file.mappings :
    {mapping.first, mapping.last} \subseteq Nat \ {0} /\ mapping.first <= mapping.last

VARIABLES
  typed,      \* the command line
  stored,     \* the manifests in .spice
  disk,       \* the generated files, "current" or "stale"
  was,        \* disk at the start
  todo,       \* names of the steps that are left
  owed,       \* steps among them that are taken after a failure too
  failed,     \* the steps that have failed
  code,       \* exit code so far
  tools,      \* processes of annotation tools are there
  dir,        \* the temporary directory is there
  app,        \* the process of the application
  ended,      \* its exit code, -1 when a signal ended it
  heard,      \* signals are delivered to the channel (signal.Notify)
  signals,    \* signals in the channel
  sent,       \* signals so far
  stopping,   \* "no", "asked", or "kill": waitForApplication is in killAndWait
  over        \* "no", "exit", or "died": a signal ended spice

commandVars == <<typed, stored, disk, was, todo, owed, failed, code, tools, dir, app, ended, heard, signals, sent, stopping, over>>

------------------------------------------------------------------------------
(* Dispatch (Command.Run) and arguments.                                   *)

\* The names of every handler.
HandlerNames ==
  [help |-> {"help", "-h", "--help"}, version |-> {"version", "--version"}, generate |-> {"generate"}, build |-> {"build"},
   run |-> {"run"}, verify |-> {"verify"}, modules |-> {"modules"}, test |-> {"test"}, beans |-> {"beans"},
   generated |-> {"generated"}, annotations |-> {"annotations"}, lsp |-> {"lsp"}]

\* help is the default.
Handler(name) == IF name = "" THEN {"help"} ELSE {h \in DOMAIN HandlerNames : name \in HandlerNames[h]}

\* What a command takes: flags and options with a value; whether --opt=val is understood, and --opt= too; the most
\* dashes that a value in a word of its own may start with, and whether it may be empty; options that are refused the
\* second time, those of them that are missed when their value is empty; values that are refused at once; patterns.
NoOptions ==
  [flags |-> {}, values |-> {}, inline |-> TRUE, empty |-> FALSE, dashes |-> 0, blank |-> TRUE,
   once |-> {}, byValue |-> {}, checked |-> {}, patterns |-> TRUE]

GenerationOptions(readOnly) ==
  LET options == {"target"} \cup IF readOnly THEN {"relocate"} ELSE {}
  IN [NoOptions EXCEPT !.flags = IF readOnly THEN {"check", "diff"} ELSE {}, !.values = options, !.dashes = 1,
                       !.once = options, !.byValue = options]
VerifyOptions ==
  LET options == {"format", "profile", "style"} IN [NoOptions EXCEPT !.values = options, !.once = options]
ModulesOptions ==
  [NoOptions EXCEPT !.values = {"format", "focus"}, !.once = {"format", "focus"}, !.byValue = {"focus"}]
TestOptions ==
  LET options == {"module", "count", "timeout"}    \* --run is like --module
  IN [NoOptions EXCEPT !.flags = {"race"}, !.values = options, !.once = options \cup {"race"}, !.byValue = options,
                       !.checked = {"count", "timeout"}]
BeansOptions == [NoOptions EXCEPT !.flags = {"explain"}, !.values = {"format"}, !.empty = TRUE, !.dashes = 2]
GeneratedOptions ==
  [NoOptions EXCEPT !.values = {"source", "generated", "target", "format", "line"}, !.inline = FALSE, !.dashes = 2,
                    !.blank = FALSE, !.checked = {"line"}, !.patterns = FALSE]

OptionsOf(handler) ==
  CASE handler = "generate" -> GenerationOptions(TRUE)
    [] handler \in {"build", "run"} -> GenerationOptions(FALSE)
    [] handler = "verify" -> VerifyOptions
    [] handler = "modules" -> ModulesOptions
    [] handler = "test" -> TestOptions
    [] handler = "beans" -> BeansOptions
    [] handler = "generated" -> GeneratedOptions
    [] handler = "lsp" -> [NoOptions EXCEPT !.patterns = FALSE]

Text(word) == IF word.dash = 0 THEN word.val ELSE "bad"
Given(parsed, option) == parsed.given[option] # "unset"
Named(parsed, option) == parsed.given[option] \notin {"unset", ""}

\* One more word.
ParseWord(g, parsed, word) ==
  LET Refused == [parsed EXCEPT !.ok = FALSE]
      Take(option, value) ==
        IF option \in g.checked /\ value # "good" THEN Refused
        ELSE [parsed EXCEPT !.given[option] = value, !.expects = ""]
      again == word.opt \in g.once /\ IF word.opt \in g.byValue THEN Named(parsed, word.opt) ELSE Given(parsed, word.opt)
  IN CASE ~parsed.ok -> parsed
       [] parsed.ok /\ parsed.expects # "" ->
            IF word.dash > g.dashes \/ (Text(word) = "" /\ ~g.blank) THEN Refused ELSE Take(parsed.expects, Text(word))
       [] parsed.ok /\ parsed.expects = "" /\ word.dash = 0 -> IF g.patterns THEN parsed ELSE Refused
       [] parsed.ok /\ parsed.expects = "" /\ word.dash # 0 ->
            CASE again \/ word.opt \notin g.flags \cup g.values -> Refused
              [] ~again /\ word.opt \in g.flags -> IF word.inline THEN Refused ELSE Take(word.opt, "on")
              [] ~again /\ word.opt \in g.values ->
                   IF ~word.inline THEN [parsed EXCEPT !.expects = word.opt]
                   ELSE IF ~g.inline \/ (word.val = "" /\ ~g.empty) THEN Refused ELSE Take(word.opt, word.val)

\* What has to hold of the options together.
Consistent(handler, parsed) ==
  LET valid == Given(parsed, "format") => parsed.given["format"] = "good"
  IN CASE handler = "generate" -> Named(parsed, "relocate") => ~Given(parsed, "check") /\ ~Given(parsed, "diff")
       [] handler = "verify" -> valid /\ ~(Given(parsed, "profile") /\ Given(parsed, "style")) /\ parsed.given["profile"] # "bad"
       [] handler = "test" -> Named(parsed, "module")
       [] handler = "beans" -> valid /\ Given(parsed, "explain")
       [] handler = "generated" -> valid /\ (Given(parsed, "source") <=> ~Given(parsed, "generated"))
       [] handler = "modules" -> valid
       [] OTHER -> TRUE

\* parseRunArguments: what follows "--" is for the application.
Own(handler, words) ==
  LET ends == {i \in DOMAIN words : words[i].opt = "--"}
  IN IF handler # "run" \/ ends = {} THEN words ELSE SubSeq(words, 1, (CHOOSE i \in ends : \A j \in ends : i <= j) - 1)

Options == {"target", "relocate", "check", "diff", "format", "profile", "style", "focus", "module", "race", "count", "timeout",
            "explain", "source", "generated", "line"}

Parse(handler, words) ==
  LET g == OptionsOf(handler)
      parsed == FoldLeft(LAMBDA s, w : ParseWord(g, s, w), [ok |-> TRUE, expects |-> "", given |-> [o \in Options |-> "unset"]],
                         Own(handler, words))
  IN [parsed EXCEPT !.ok = @ /\ parsed.expects = "" /\ Consistent(handler, parsed)]

\* help, version and annotations take what comes.
Understood(handler, words) == handler \in {"help", "version", "annotations"} \/ Parse(handler, words).ok

------------------------------------------------------------------------------
(* The steps of the commands.                                              *)

\* prepareGenerationContext, and prepareModuleModel.
Analysis == <<"service", "analyze", "close">>

GenerateSteps(parsed) ==
  Analysis \o IF Given(parsed, "check") \/ Given(parsed, "diff") THEN <<"check">> ELSE <<"apply", "report">>
BuildSteps == Analysis \o <<"apply", "note", "gobuild", "report">>

\* Seeded fault: executeApplication starts the application before it listens for signals.
ExecutionDeaf == <<"start", "notify", "wait", "unnotify">>

\* executeApplication.
Execution == <<"notify", "start", "wait", "unnotify">>

\* buildAndRunApplication.
BuildAndRun == <<"mkdir", "gobuild", "report">> \o Execution \o <<"clean">>
RunSteps == Analysis \o <<"layout", "apply", "note">> \o BuildAndRun
VerifySteps(parsed) == (IF Given(parsed, "style") THEN <<"style">> ELSE <<>>) \o Analysis \o <<"report">>
ModulesSteps(parsed) == Analysis \o (IF Named(parsed, "focus") THEN <<"focus">> ELSE <<>>) \o <<"render", "report">>
TestSteps == Analysis \o <<"focus", "gotest", "report">>
BeansSteps == <<"service", "analyze", "report", "close">>
GeneratedSteps == <<"locate", "report">>
AnnotationsSteps(topic) ==
  CASE topic = "list" -> <<"load", "authorize", "report">>
    [] topic = "doctor" -> <<"load", "manager", "doctor", "close", "report">>
    [] OTHER -> <<"load", "report">>

StepsOf(handler, words) ==
  CASE handler = "generate" -> GenerateSteps(Parse(handler, words))
    [] handler = "build" -> BuildSteps
    [] handler = "run" -> RunSteps
    [] handler = "verify" -> VerifySteps(Parse(handler, words))
    [] handler = "modules" -> ModulesSteps(Parse(handler, words))
    [] handler = "test" -> TestSteps
    [] handler = "beans" -> BeansSteps
    [] handler = "generated" -> GeneratedSteps
    [] handler = "annotations" -> AnnotationsSteps(IF words = <<>> THEN "" ELSE words[1].val)
    [] handler = "lsp" -> <<"serve">>
    [] handler \in {"help", "version"} -> <<"report">>

CommandInit ==
  /\ typed \in CommandLines
  /\ stored \in IF typed.command = "generated" THEN Stores ELSE {{}}
  /\ disk \in {"current", "stale"} /\ was = disk
  /\ todo = <<"dispatch">> /\ owed = {} /\ failed = {} /\ code = 0
  /\ tools = FALSE /\ dir = FALSE /\ app = "none" /\ ended = 0
  /\ heard = FALSE /\ signals = 0 /\ sent = 0 /\ stopping = "no" /\ over = "no"

Handling == CHOOSE h \in Handler(typed.command) : TRUE
Doing(step) == over = "no" /\ todo # <<>> /\ Head(todo) = step

process == <<app, ended, heard, signals, sent, stopping>>
inputs == <<typed, stored, was>>

\* The steps that are owed, in the order in which the functions return.
Deferred(steps) ==
  LET If(step) == IF step \in steps THEN <<step>> ELSE <<>> IN If("close") \o If("unnotify") \o If("clean")

\* The next step, or after a failure the next one that is owed.
Goes == todo' = Tail(todo) /\ UNCHANGED <<code, failed>>
Fails == /\ todo' = Deferred(owed \ {Head(todo)})
         /\ code' = 1 /\ failed' = failed \cup {Head(todo)}
Settles(ok) == IF ok THEN Goes ELSE Fails

\* Command.Run: an unknown command and arguments that are not understood are refused with 2.
Dispatch ==
  /\ Doing("dispatch")
  /\ IF Handler(typed.command) # {} /\ Understood(Handling, typed.words)
     THEN todo' = StepsOf(Handling, typed.words) /\ UNCHANGED code
     ELSE todo' = <<>> /\ code' \in {2, 1}    \* 1 when the message cannot be written
  /\ UNCHANGED <<inputs, disk, owed, failed, tools, dir, process, over>>

\* Steps that change nothing here: the go command, messages, the model of the modules, descriptors, and the rest.
Building == {"gobuild", "gotest"}
Writing == {"report", "note"}
Selecting == {"focus", "render"}
Inspecting == {"load", "authorize"}
PlainSteps == Building \cup Writing \cup Selecting \cup Inspecting \cup {"layout", "style", "serve"}
PlainStep ==
  /\ over = "no" /\ todo # <<>> /\ Head(todo) \in PlainSteps
  /\ \E ok \in BOOLEAN : Settles(ok)
  /\ UNCHANGED <<inputs, disk, owed, tools, dir, process, over>>

\* newCompilerAnalysisService, annotationhost.NewManager.
NewService ==
  /\ Doing("service") \/ Doing("manager")
  /\ \E ok \in {TRUE, Doing("manager")} :
       /\ Settles(ok) /\ owed' = IF ok THEN owed \cup {"close"} ELSE owed
  /\ UNCHANGED <<inputs, disk, tools, dir, process, over>>

\* Service.Analyze, and doctorAnnotationDescriptors, which asks every tool before it fails: tools are started on the way.
Asking == {"analyze", "doctor"}
Analyze ==
  /\ \E step \in Asking : Doing(step)
  /\ \E ok \in BOOLEAN : Settles(ok)
  /\ tools' \in BOOLEAN
  /\ UNCHANGED <<inputs, disk, owed, dir, process, over>>

\* closeCompilerAnalysisService, Manager.Close: spice beans reports a failure, and that is all.
CloseService ==
  /\ Doing("close")
  /\ \E ok \in BOOLEAN :
       /\ \/ Handling # "beans" /\ Settles(ok)
          \/ /\ Handling = "beans" /\ todo' = Tail(todo) /\ UNCHANGED code
             /\ failed' = failed \cup IF ok THEN {} ELSE {"close"}
       /\ tools' \in IF ok THEN {FALSE} ELSE {tools, FALSE}
  /\ owed' = owed \ {"close"}
  /\ UNCHANGED <<inputs, disk, dir, process, over>>

\* genfs.Apply.  A change of nothing is not noted.
ApplyPlan ==
  /\ Doing("apply")
  /\ \E ok \in BOOLEAN :
       IF ~ok THEN Fails /\ disk' \in {disk, "current"}
       ELSE /\ disk' = "current" /\ UNCHANGED <<code, failed>>
            /\ todo' = IF disk = "current" /\ todo[2] = "note" THEN Tail(Tail(todo)) ELSE Tail(todo)
  /\ UNCHANGED <<inputs, owed, tools, dir, process, over>>

\* checkGeneration.
CheckPlan ==
  /\ Doing("check")
  /\ \E ok \in {FALSE, disk = "current"} : Settles(ok)
  /\ UNCHANGED <<inputs, disk, owed, tools, dir, process, over>>

\* os.MkdirTemp.
MakeTemp ==
  /\ Doing("mkdir")
  /\ \E ok \in BOOLEAN : Settles(ok) /\ dir' = ok /\ owed' = IF ok THEN owed \cup {"clean"} ELSE owed
  /\ UNCHANGED <<inputs, disk, tools, process, over>>

\* Seeded fault: a directory that cannot be removed is reported, and no more.
CodeAfterCleanKept(c) == {c}

\* The code when the directory cannot be removed; a message that cannot be written makes it 1 as well.
CodeAfterClean(c) == {1} \cup IF c = 0 THEN {} ELSE {c}

\* os.RemoveAll in buildAndRunApplication.
Cleanup ==
  /\ Doing("clean") /\ todo' = Tail(todo) /\ owed' = owed \ {"clean"}
  /\ \E ok \in BOOLEAN :
       IF ok THEN dir' = FALSE /\ UNCHANGED <<code, failed>>
       ELSE UNCHANGED dir /\ failed' = failed \cup {"clean"} /\ code' \in CodeAfterClean(code)
  /\ UNCHANGED <<inputs, disk, tools, process, over>>

\* Command.Run returns.
Return ==
  /\ over = "no" /\ todo = <<>> /\ over' = "exit"
  /\ UNCHANGED <<inputs, disk, todo, owed, failed, code, tools, dir, process>>

------------------------------------------------------------------------------
(* executeApplication and waitForApplication.  The context of spice run is *)
(* never done.  The process of the application is "running", a "zombie"    *)
(* that waits for Wait, or "reaped": only then is the answer of Wait there.*)

general == <<inputs, disk, tools, dir>>

Notify ==
  /\ Doing("notify") /\ heard' = TRUE /\ owed' = owed \cup {"unnotify"} /\ Goes
  /\ UNCHANGED <<general, app, ended, signals, sent, stopping, over>>

\* Signals that are in the channel are lost.
Unnotify ==
  /\ Doing("unnotify") /\ heard' = FALSE /\ owed' = owed \ {"unnotify"} /\ todo' = Tail(todo)
  /\ UNCHANGED <<general, failed, code, app, ended, signals, sent, stopping, over>>

StartApplication ==
  /\ Doing("start")
  /\ \E ok \in BOOLEAN : Settles(ok) /\ app' = IF ok THEN "running" ELSE app
  /\ UNCHANGED <<general, owed, ended, heard, signals, sent, stopping, over>>

\* External: the application ends, with 0 or another code, or by a signal that was passed on or that it got otherwise.
ApplicationEnds ==
  /\ app = "running" /\ app' = "zombie" /\ ended' \in {0, 3, -1}
  /\ UNCHANGED <<general, todo, owed, failed, code, heard, signals, sent, stopping, over>>

\* The goroutine of waitForApplication: Wait returns.
Reap ==
  /\ over = "no" /\ Doing("wait") /\ app = "zombie" /\ app' = "reaped"
  /\ UNCHANGED <<general, todo, owed, failed, code, ended, heard, signals, sent, stopping, over>>

\* case err := <-wait, and applicationExitCode.
TakeExit ==
  /\ Doing("wait") /\ stopping # "kill" /\ app = "reaped"
  /\ IF ended = -1 THEN Fails ELSE todo' = Tail(todo) /\ code' = ended /\ UNCHANGED failed
  /\ UNCHANGED <<general, owed, process, over>>

\* kill(-pid): the group is there until the process is reaped.  SIGKILL ends a process that runs.
Killed == IF app = "running" THEN app' = "zombie" /\ ended' = -1 ELSE UNCHANGED <<app, ended>>

\* case received := <-signals: the first is passed on, and a second one, or a failure, kills.
TakeSignal ==
  /\ Doing("wait") /\ stopping # "kill" /\ signals > 0 /\ signals' = signals - 1
  /\ IF stopping = "no" /\ app # "reaped"
     THEN stopping' = "asked" /\ UNCHANGED <<app, ended>>
     ELSE stopping' = "kill" /\ Killed
  /\ UNCHANGED <<general, todo, owed, failed, code, heard, sent, over>>

\* case <-forceStop.
ForceStop ==
  /\ Doing("wait") /\ stopping = "asked" /\ stopping' = "kill" /\ Killed
  /\ UNCHANGED <<general, todo, owed, failed, code, heard, signals, sent, over>>

\* killAndWait returns 1, with an error or without.
AfterKill ==
  /\ Doing("wait") /\ stopping = "kill" /\ app = "reaped"
  /\ todo' = Tail(todo) /\ code' = 1
  /\ UNCHANGED <<general, owed, failed, process, over>>

\* External: the user interrupts or a supervisor terminates spice.  A full channel drops the signal.
Signal ==
  /\ over = "no" /\ sent < MaxSignals /\ sent' = sent + 1
  /\ IF heard THEN signals' = (IF signals < 2 THEN signals + 1 ELSE signals) /\ UNCHANGED over
     ELSE over' = "died" /\ UNCHANGED signals
  /\ UNCHANGED <<general, todo, owed, failed, code, app, ended, heard, stopping>>

------------------------------------------------------------------------------
(* spice generated.  A file of a manifest is [path, mappings, primary]: a  *)
(* mapping is [path, line, first, last] and primary a set of at most one   *)
(* [path, line].  A match is [target, source, generated].                  *)

MappingMatch(manifest, file, mapping) ==
  [target |-> manifest.id, source |-> [path |-> mapping.path, line |-> mapping.line],
   generated |-> [path |-> file.path, line |-> mapping.first]]
FileMatch(manifest, file, origin) ==
  [target |-> manifest.id, source |-> origin, generated |-> [path |-> file.path, line |-> 0]]

\* sourceGeneratedMatches.
SourceGenerated(manifest, path, line) ==
  LET Asked(place) == place.path = path /\ (line > 0 => place.line = line)
  IN UNION {{MappingMatch(manifest, f, m) : m \in {x \in f.mappings : Asked(x)}}
            \cup {FileMatch(manifest, f, o) : o \in {x \in f.primary : f.mappings = {} /\ Asked(x)}} : f \in manifest.files}

\* Seeded fault: the last line of a mapping is left out.
GeneratedSourceShort(manifest, path, line) ==
  UNION {{MappingMatch(manifest, f, m) : m \in {x \in f.mappings : line > 0 => line >= x.first /\ line < x.last}}
         \cup {FileMatch(manifest, f, o) : o \in {x \in f.primary : f.mappings = {}}} : f \in {g \in manifest.files : g.path = path}}

\* generatedSourceMatches.
GeneratedSource(manifest, path, line) ==
  UNION {{MappingMatch(manifest, f, m) : m \in {x \in f.mappings : line > 0 => line >= x.first /\ line <= x.last}}
         \cup {FileMatch(manifest, f, o) : o \in {x \in f.primary : f.mappings = {}}} : f \in {g \in manifest.files : g.path = path}}

\* readGeneratedManifests: one of another schema refuses them all, whatever the target.
Readable(manifests, target) ==
  /\ \A m \in manifests : m.schema = "own"
  /\ target # "" => \E m \in manifests : m.id = target

\* locateGenerated, without the order of the matches.
Matches(manifests, query) ==
  UNION {IF query.direction = "source" THEN SourceGenerated(m, query.path, query.line) ELSE GeneratedSource(m, query.path, query.line)
         : m \in {x \in manifests : query.target \in {"", x.id}}}

\* The queries that the arguments stand for.
Queries ==
  LET parsed == Parse("generated", typed.words)
  IN [direction : {d \in {"source", "generated"} : Given(parsed, d)}, path : Paths,
      line : IF Given(parsed, "line") THEN 1..2 ELSE {0}, target : IF Given(parsed, "target") THEN {"t", "u"} ELSE {""}]

Locate ==
  /\ Doing("locate")
  /\ \E query \in Queries : Settles(Readable(stored, query.target) /\ Matches(stored, query) # {})
  /\ UNCHANGED <<general, owed, process, over>>

CommandNext ==
  \/ Dispatch \/ PlainStep \/ NewService \/ Analyze \/ CloseService \/ ApplyPlan \/ CheckPlan \/ MakeTemp \/ Cleanup \/ Return
  \/ Notify \/ Unnotify \/ StartApplication \/ ApplicationEnds \/ Reap \/ TakeExit \/ TakeSignal \/ ForceStop \/ AfterKill
  \/ Signal \/ Locate

------------------------------------------------------------------------------
(* Properties.                                                             *)

\* NothingOutlives: spice never ends, by itself or by a signal at any moment, and leaves an application behind that runs;
\* when it returns, the application is reaped, and the temporary directory and the annotation tools are gone unless
\* their removal has failed.
NothingOutlives ==
  /\ over # "no" => app # "running"
  /\ over = "exit" => /\ app \in {"none", "reaped"}
                      /\ dir => "clean" \in failed
                      /\ tools => "close" \in failed

\* ExitIsTrue: the exit code tells what happened.  0 stands for a command all of whose steps succeeded (spice beans
\* excepted, which does not count the shutdown of the tools), whose application ended with 0 and whose generated files
\* are current; the code of an application that ended undisturbed is passed on; another code has a reason; and a
\* command that is refused or only reads leaves the generated files as they were.
ExitIsTrue ==
  over = "exit" =>
    LET understood == Handler(typed.command) # {} /\ Understood(Handling, typed.words)
        writes == understood /\ ToSet(StepsOf(Handling, typed.words)) \cap {"apply", "check"} # {}
        undisturbed == app = "reaped" /\ stopping = "no" /\ failed = {}
    IN /\ code = 0 => /\ understood /\ ended = 0
                      /\ failed \subseteq IF Handling = "beans" THEN {"close"} ELSE {}
                      /\ writes => disk = "current"
       /\ undisturbed => code = ended
       /\ code # 0 => ~understood \/ failed # {} \/ ended # 0 \/ stopping # "no"
       /\ ~understood \/ "apply" \notin ToSet(StepsOf(Handling, typed.words)) => disk = was

\* LookupsAgree: spice generated finds its way back.  The source of a match that was found for a place in a generated
\* file leads to that generated code again, and the generated code that was found for a source leads to that source.
LookupsAgree ==
  \A path \in Paths, line \in 0..2 :
    LET From(direction, p, n) == Matches(stored, [direction |-> direction, path |-> p, line |-> n, target |-> ""])
    IN /\ \A m \in From("source", path, line) : m \in From("generated", m.generated.path, m.generated.line)
       /\ \A m \in From("generated", path, line) : m \in From("source", m.source.path, m.source.line)
==============================================================================

----------------------------- MODULE GeneratedApp -----------------------------
(***************************************************************************)
(* A generated application while it runs. The command constructs the       *)
(* application statement by statement, starts its hooks, serves calls,     *)
(* asynchronous tasks and scheduled jobs, and stops: hooks in reverse,     *)
(* then cleanups in reverse. Any statement, hook or cleanup may fail. The  *)
(* coordinator, the executor, the scheduler, the cache, the retry and the  *)
(* transaction manager are libraries of the framework; they are modelled   *)
(* from the way the generated code calls them.                             *)
(***************************************************************************)
EXTENDS Generator, TLC

CONSTANTS Apps,        \* application models
          Callers,     \* clients of the services and routes of the application
          Authorized,  \* the callers that satisfy the policy of a guarded method
          MaxAttempts, \* attempts of one retried call
          MaxCalls,    \* bound: calls of one caller
          Names        \* sequences of providers, for the check of the names

\* Applications come from the compiler. The providers of the ones that are rendered are in the order of their construction.
ASSUME AppsAreCompiled == \A a \in Apps : Listed(a) /\ (RenderFaults(a) = {} => Ordered(a))
ASSUME CallersAreKnown == Authorized \subseteq Callers
ASSUME BoundsArePositive == MaxAttempts \in Nat \ {0} /\ MaxCalls \in Nat

VARIABLES app,      \* the application
          pc,       \* what the command does: render, command, construct, start, ready, stop, release, exit
          at,       \* the next statement of Assembly(app)
          options,  \* what RunCommand was given, and the overridden beans
          defined,  \* variables of the program that hold a value; a released bean leaves
          owed,     \* beans that were constructed with a cleanup
          cleanups, \* cleanups that the coordinator holds, in the order they were registered
          released, \* beans whose cleanup was called, in order
          lost,     \* beans whose cleanup the coordinator did not accept
          started,  \* hooks that are started
          closed,   \* of the executor and the scheduler, what takes no more work
          tasks,    \* per asynchronous method: idle, admitted, queued, running
          jobs,     \* per scheduled method: idle or running
          expired,  \* the shutdown context has ended
          failed,   \* an error was met
          exit,     \* the exit code
          calls,    \* per caller: the call it makes
          cache,    \* what the cache of the application holds
          kept      \* results of committed transactions

command == <<app, pc, at, options, failed, exit>>
beans == <<defined, owed, cleanups, released, lost>>
work == <<started, closed, tasks, jobs, expired>>
requests == <<calls, cache, kept>>
appVars == <<command, beans, work, requests>>

------------------------------------------------------------------------------
NoOptions == [mode |-> None, factory |-> TRUE, overrides |-> {}]
NoValue == [by |-> None, number |-> 0, attempt |-> 0, ok |-> FALSE]
NoCall == [layers |-> <<>>, bean |-> None, at |-> 0, inward |-> FALSE, result |-> None, attempt |-> 0, value |-> NoValue,
           effects |-> {}, number |-> 0]

AppInit ==
  /\ app \in Apps
  /\ pc = "render" /\ at = 1 /\ options = NoOptions
  /\ defined = {} /\ owed = {} /\ cleanups = <<>> /\ released = <<>> /\ lost = {}
  /\ started = 0 /\ closed = {} /\ expired = FALSE
  /\ tasks = [t \in DOMAIN app.tasks |-> "idle"] /\ jobs = [j \in DOMAIN app.jobs |-> "idle"]
  /\ failed = FALSE /\ exit = None
  /\ calls = [c \in Callers |-> NoCall] /\ cache = NoValue /\ kept = {}

\* An application that is not rendered has no command.
Render ==
  /\ pc = "render"
  /\ pc' = IF RenderFaults(app) = {} THEN "command" ELSE "exit"
  /\ exit' = IF RenderFaults(app) = {} THEN None ELSE "refused"
  /\ UNCHANGED <<app, at, options, failed, beans, work, requests>>

Ends(code) == pc' = "exit" /\ exit' = code

\* RunCommand up to the construction.
InvalidCommand(code) ==
  /\ pc = "command"
  /\ code \in {1, 2}    \* no context or a negative timeout; flags or positional arguments
  /\ Ends(code)
  /\ UNCHANGED <<app, at, options, failed, beans, work, requests>>

Command(mode, factory, overrides) ==
  /\ pc = "command"
  /\ pc' = "construct"
  /\ options' = [mode |-> mode, factory |-> factory, overrides |-> overrides]
  /\ UNCHANGED <<app, at, failed, exit, beans, work, requests>>

------------------------------------------------------------------------------
(* NewApplicationWithOptions.                                              *)

Next_ == Assembly(app)[at]
Bean(id) == Provider(app, id)

\* --check stops what it constructed, unless the factory of the shutdown context gives nothing to stop with.
AfterConstruction ==
  IF at < Len(Assembly(app)) THEN pc' = "construct" /\ UNCHANGED <<exit, failed>>
  ELSE IF options.mode = "run" THEN pc' = "start" /\ UNCHANGED <<exit, failed>>
  ELSE IF options.factory THEN pc' = "stop" /\ UNCHANGED <<exit, failed>>
  ELSE Ends(1) /\ failed' = TRUE

Defines(s) == s.op \in {"construct", "bind", "topic", "logger", "factory"}

Execute(withCleanup) ==
  LET s == Next_ IN
  /\ pc = "construct"
  /\ withCleanup => s.op = "construct" /\ (Bean(s.on).cleanup \/ s.on \in options.overrides)
  /\ defined' = IF Defines(s) THEN defined \cup {s.on} ELSE defined
  /\ owed' = IF withCleanup THEN owed \cup {s.on} ELSE owed
  /\ cleanups' = IF s.op = "register" /\ s.on \in owed \cup {"executor"} THEN Append(cleanups, s.on) ELSE cleanups
  /\ at' = at + 1
  /\ AfterConstruction
  /\ options' = IF at < Len(Assembly(app)) THEN options ELSE [options EXCEPT !.overrides = {}]
  /\ UNCHANGED <<app, released, lost, work, requests>>

CanFail(s) ==
  /\ s.fails # "never"
  /\ s.op = "construct" => Bean(s.on).error \/ s.on \in options.overrides
  /\ s.op = "register" => s.on \in owed \cup {"executor"}

\* An error of a decorator, a topic or a cache is returned as it is.
OnErrorReturned(s) ==
  IF s.fails = "abort" /\ s.op \in {"construct", "register"} THEN pc' = "release" /\ UNCHANGED exit ELSE Ends(1)

\* What the generated code does with the error of a statement.
OnError(s) == IF s.fails = "abort" THEN pc' = "release" /\ UNCHANGED exit ELSE Ends(1)

StatementFails ==
  /\ pc = "construct"
  /\ CanFail(Next_)
  /\ OnError(Next_)
  /\ failed' = TRUE
  /\ lost' = IF Next_.op = "register" THEN lost \cup {Next_.on} ELSE lost
  /\ UNCHANGED <<app, at, options, defined, owed, cleanups, released, work, requests>>

------------------------------------------------------------------------------
(* The coordinator: Start, Stop and Abort.                                 *)

Settled(s) == \A i \in DOMAIN s : s[i] = "idle"
Quiet == \A c \in Callers : calls[c].layers = <<>>

StartHook(ok) ==
  /\ pc = "start"
  /\ IF started = Len(Hooks(app)) THEN ok /\ pc' = "ready" /\ UNCHANGED <<started, failed>>
     ELSE IF ok THEN started' = started + 1 /\ UNCHANGED <<pc, failed>>
     ELSE pc' = "stop" /\ failed' = TRUE /\ UNCHANGED started
  /\ UNCHANGED <<app, at, options, exit, beans, closed, tasks, jobs, expired, requests>>

\* A signal, or the end of the context that the caller gave.
Interrupt ==
  /\ pc = "ready" /\ pc' = "stop"
  /\ UNCHANGED <<app, at, options, failed, exit, beans, work, requests>>

Expire ==
  /\ pc \in {"stop", "release"} /\ ~expired
  /\ expired' = TRUE
  /\ UNCHANGED <<command, beans, started, closed, tasks, jobs, requests>>

\* The scheduler, and the executor below, first take no more work and then wait for what runs, as long as the shutdown
\* context lasts.
Close(service) ==
  /\ service \notin closed
  /\ closed' = closed \cup {service}
  /\ UNCHANGED <<command, beans, started, tasks, jobs, expired, requests>>

CloseScheduler ==
  /\ pc = "stop" /\ started > 0 /\ Hooks(app)[started].bean = "scheduler"
  /\ Close("scheduler")

\* A server that is a component answers the calls in progress before its Stop returns.
Stoppable(h) ==
  expired \/ (IF h.bean = "scheduler" THEN "scheduler" \in closed /\ Settled(jobs) ELSE ~h.stop \/ Quiet)

StopHook(error) ==
  /\ pc = "stop"
  /\ IF started = 0 THEN ~error /\ pc' = "release" /\ UNCHANGED started
     ELSE Stoppable(Hooks(app)[started]) /\ started' = started - 1 /\ UNCHANGED pc
  /\ failed' = (failed \/ error)
  /\ UNCHANGED <<app, at, options, exit, beans, closed, tasks, jobs, expired, requests>>

CloseExecutor ==
  /\ pc = "release" /\ cleanups # <<>> /\ Last(cleanups) = "executor"
  /\ Close("executor")

Release(error) ==
  /\ pc = "release"
  /\ IF cleanups = <<>>
     THEN ~error /\ Ends(IF failed THEN 1 ELSE 0) /\ UNCHANGED <<defined, cleanups, released, failed>>
     ELSE /\ Last(cleanups) = "executor" => "executor" \in closed /\ (expired \/ Settled(tasks))
          /\ cleanups' = Front(cleanups)
          /\ defined' = defined \ {Last(cleanups)}
          /\ released' = IF Last(cleanups) = "executor" THEN released ELSE Append(released, Last(cleanups))
          /\ failed' = (failed \/ error)
          /\ UNCHANGED <<pc, exit>>
  /\ UNCHANGED <<app, at, options, owed, lost, work, requests>>

------------------------------------------------------------------------------
(* Asynchronous tasks and scheduled jobs.                                  *)

\* The method that the application offers for a task compares the state and only then submits.
SetTask(t, to) ==
  /\ tasks' = [tasks EXCEPT ![t] = to]
  /\ UNCHANGED <<command, beans, started, closed, jobs, expired, requests>>

Admit(t)   == pc = "ready" /\ tasks[t] = "idle" /\ SetTask(t, "admitted")
Submit(t)  == tasks[t] = "admitted" /\ SetTask(t, IF "executor" \in closed THEN "idle" ELSE "queued")
RunTask(t) == tasks[t] = "queued" /\ SetTask(t, "running")
EndTask(t) == tasks[t] = "running" /\ SetTask(t, "idle")

SchedulerRuns == app.jobs # <<>> /\ started = Len(Hooks(app)) /\ "scheduler" \notin closed

SetJob(j, to) ==
  /\ jobs' = [jobs EXCEPT ![j] = to]
  /\ UNCHANGED <<command, beans, started, closed, tasks, expired, requests>>

RunJob(j) == SchedulerRuns /\ jobs[j] = "idle" /\ SetJob(j, "running")
EndJob(j) == jobs[j] = "running" /\ SetJob(j, "idle")

------------------------------------------------------------------------------
(* Calls of decorated methods and of routes.                               *)

Callable(a) ==
  (UNION {{[bean |-> a.policies[i].provider, layers |-> MethodLayers(m)] : m \in Range(a.policies[i].methods)}
           : i \in DOMAIN a.policies})
    \cup {[bean |-> a.routes[i].provider, layers |-> RouteLayers(a.routes[i].policies)] : i \in DOMAIN a.routes}

Updated(c, call) ==
  /\ calls' = [calls EXCEPT ![c] = call]
  /\ UNCHANGED <<command, beans, work>>

\* Calls come in through a server, which is a component with a Stop.
Serving == \E i \in 1..started : Hooks(app)[i].stop /\ Hooks(app)[i].bean # "scheduler"

Begin(c, m) ==
  /\ pc = "ready" /\ Serving /\ calls[c].layers = <<>> /\ calls[c].number < MaxCalls
  /\ Updated(c, [NoCall EXCEPT !.layers = m.layers, !.bean = m.bean, !.at = 1, !.inward = TRUE,
                               !.number = calls[c].number + 1])
  /\ UNCHANGED <<cache, kept>>

Layer(c) == calls[c].layers[calls[c].at]
Inward(call) == [call EXCEPT !.at = @ + 1]
Outward(call, result) == [call EXCEPT !.at = @ - 1, !.inward = FALSE, !.result = result]

At(c, layer) == calls[c].at > 0 /\ Layer(c) = layer
Enters(c, layer) == At(c, layer) /\ calls[c].inward
Leaves(c, layer) == At(c, layer) /\ ~calls[c].inward

\* observation: the observers begin, around everything else.
Observe(c) == Enters(c, "observation") /\ Updated(c, Inward(calls[c])) /\ UNCHANGED <<cache, kept>>

Authorize(c) ==
  /\ Enters(c, "authorization")
  /\ Updated(c, IF c \in Authorized THEN Inward(calls[c]) ELSE Outward(calls[c], "error"))
  /\ UNCHANGED <<cache, kept>>

\* What the route requires of the request: the accepted media type, every binding, the validation. A form collects the
\* errors of its bindings for the handler and is only refused when they cannot be recorded.
Decode(c, layer, accepted) ==
  /\ layer \in {"negotiation", "binding", "form", "validation"}
  /\ Enters(c, layer)
  /\ Updated(c, IF accepted THEN Inward(calls[c]) ELSE Outward(calls[c], "error"))
  /\ UNCHANGED <<cache, kept>>

\* An interceptor calls the next one or answers itself.
Intercept(c, answers) ==
  /\ Enters(c, "interceptors")
  /\ Updated(c, IF answers THEN Outward(calls[c], "error") ELSE Inward(calls[c]))
  /\ UNCHANGED <<cache, kept>>

\* Get of the cache: it fails, finds the value or lets the call through.
LookUp(c, fails) ==
  /\ Enters(c, "cache")
  /\ Updated(c, IF fails THEN Outward(calls[c], "error")
                ELSE IF cache # NoValue THEN [Outward(calls[c], "ok") EXCEPT !.value = cache]
                ELSE Inward(calls[c]))
  /\ UNCHANGED <<cache, kept>>

BeginAttempts(c) ==
  /\ Enters(c, "retry")
  /\ Updated(c, [Inward(calls[c]) EXCEPT !.attempt = 1])
  /\ UNCHANGED <<cache, kept>>

\* The observers of transactions begin, then the manager opens one, or cannot.
BeginTransaction(c, fails) ==
  /\ Enters(c, "transaction")
  /\ Updated(c, IF fails THEN Outward(calls[c], "error") ELSE [Inward(calls[c]) EXCEPT !.effects = {}])
  /\ UNCHANGED <<cache, kept>>

\* The service or the handler itself: each attempt has a result of its own.
RunTarget(c, result) ==
  LET call == calls[c]
      made == [by |-> c, number |-> call.number, attempt |-> call.attempt, ok |-> result = "ok"]
  IN /\ Enters(c, "target")
     /\ Updated(c, [Outward(call, result) EXCEPT !.value = made, !.effects = @ \cup {made}])
     /\ UNCHANGED <<cache, kept>>

\* Commit after success, unless it fails; rollback after an error or a panic.
EndTransaction(c, commits) ==
  LET call == calls[c] IN
  /\ Leaves(c, "transaction")
  /\ commits => call.result = "ok"
  /\ kept' = IF commits THEN kept \cup call.effects ELSE kept
  /\ Updated(c, [Outward(call, IF call.result = "ok" /\ ~commits THEN "error" ELSE call.result) EXCEPT !.effects = {}])
  /\ UNCHANGED cache

\* Another attempt for an error that the classifier calls transient; never for a panic.
Retry(c) ==
  /\ Leaves(c, "retry")
  /\ calls[c].result = "error" /\ calls[c].attempt < MaxAttempts
  /\ Updated(c, [Inward(calls[c]) EXCEPT !.attempt = @ + 1, !.inward = TRUE])
  /\ UNCHANGED <<cache, kept>>

\* Put after success; when it fails the call fails too.
Keep(c, fails) ==
  LET call == calls[c] IN
  /\ Leaves(c, "cache")
  /\ fails => call.result = "ok"
  /\ cache' = IF call.result = "ok" /\ ~fails THEN call.value ELSE cache
  /\ Updated(c, Outward(call, IF fails THEN "error" ELSE call.result))
  /\ UNCHANGED kept

\* The other layers hand on what they are given; the observers of the call end.
Pass(c) ==
  /\ calls[c].at > 0 /\ ~calls[c].inward /\ Layer(c) \notin {"transaction", "cache"}
  /\ Updated(c, Outward(calls[c], calls[c].result))
  /\ UNCHANGED <<cache, kept>>

\* The caller has its answer.
Answer(c) ==
  /\ calls[c].layers # <<>> /\ calls[c].at = 0
  /\ Updated(c, [NoCall EXCEPT !.number = calls[c].number])
  /\ UNCHANGED <<cache, kept>>

------------------------------------------------------------------------------
Done == pc = "exit" /\ UNCHANGED appVars

AppNext ==
  \/ Render
  \/ \E code \in {1, 2} : InvalidCommand(code)
  \/ \E mode \in {"run", "check"}, factory \in BOOLEAN, overrides \in SUBSET Overridable(app) :
       Command(mode, factory, overrides)
  \/ \E withCleanup \in BOOLEAN : Execute(withCleanup)
  \/ StatementFails
  \/ \E ok \in BOOLEAN : StartHook(ok)
  \/ Interrupt
  \/ Expire
  \/ CloseScheduler
  \/ \E error \in BOOLEAN : StopHook(error)
  \/ CloseExecutor
  \/ \E error \in BOOLEAN : Release(error)
  \/ \E t \in DOMAIN app.tasks : Admit(t) \/ Submit(t) \/ RunTask(t) \/ EndTask(t)
  \/ \E j \in DOMAIN app.jobs : RunJob(j) \/ EndJob(j)
  \/ \E c \in Callers :
       \/ \E m \in Callable(app) : Begin(c, m)
       \/ Observe(c) \/ Authorize(c) \/ BeginAttempts(c) \/ Retry(c) \/ Pass(c)
       \/ \E layer \in {"negotiation", "binding", "form", "validation"}, accepted \in BOOLEAN : Decode(c, layer, accepted)
       \/ \E b \in BOOLEAN : \/ Intercept(c, b) \/ LookUp(c, b) \/ BeginTransaction(c, b)
                              \/ EndTransaction(c, b) \/ Keep(c, b)
       \/ \E result \in {"ok", "error", "panic"} : RunTarget(c, result)
       \/ Answer(c)
  \/ Done

AppSpec == AppInit /\ [][AppNext]_appVars

------------------------------------------------------------------------------
(* Properties.                                                             *)

\* The beans whose code runs or may run: of the statement that is next, of started hooks, of tasks, jobs and calls.
InUse ==
  (IF pc = "construct" THEN Next_.uses ELSE {})
    \cup ({Hooks(app)[i].bean : i \in 1..started} \ {"scheduler"})
    \cup {app.tasks[t].provider : t \in {u \in DOMAIN tasks : tasks[u] \in {"queued", "running"}}}
    \cup {app.jobs[j].provider : j \in {i \in DOMAIN jobs : jobs[i] = "running"}}
    \cup {calls[c].bean : c \in {d \in Callers : calls[d].at > 0}}

\* A bean that waits for its cleanup may call everything it was constructed from.
Reachable(used) == used \cup UNION {Needed(Bean(id)) : id \in used}

\* While its code may run, a bean and the beans it was constructed from have been constructed and not yet released,
\* unless the shutdown context ended first. The order of the generated statements decides it: the tasks of the executor
\* end before the cleanups of the providers (runtime_render.go:62), the scheduler is the last hook to start and the
\* first to stop (runtime_render.go:262), providers are released in the reverse order of their construction.
InUseIsLive ==
  ~expired => Reachable(InUse \cup (Range(cleanups) \ {"executor"})) \subseteq defined

\* When the command is over, every bean that was constructed with a cleanup was released exactly once, however far the
\* construction, the start or the stop came; except the bean whose cleanup was refused (provider_render.go:279-296), and
\* a --check whose factory gave no context (command.go:570).
NothingLeaks ==
  /\ \A i, j \in DOMAIN released : released[i] = released[j] => i = j
  /\ pc = "exit" /\ (options.mode = "check" => options.factory) => owed \ Range(released) \subseteq lost

\* Every method and route that uses the cache has a transaction.
CachedCommit(a) == \A m \in Callable(a) : "cache" \in Range(m.layers) => "transaction" \in Range(m.layers)

\* Only the result of an attempt that succeeded and that was committed is kept: no committed transaction holds the
\* effects of a failed attempt, and what the cache of a transactional method holds was committed
\* (policy_render.go:502-595: each attempt has its own transaction, the cache is outside of both).
OnlySuccessIsKept ==
  /\ \A e \in kept : e.ok
  /\ cache # NoValue => cache.ok /\ (CachedCommit(app) => cache \in kept)

\* A caller that does not satisfy the policy of a guarded method reaches neither the method nor a value that another
\* caller left in the cache (http_render.go:336, policy_render.go:575).
GuardIsFirst ==
  \A c \in Callers \ Authorized : "authorization" \in Range(calls[c].layers) => calls[c].value = NoValue

\* The decorators are nested so that retries, transactions, the cache and the guard mean what they say together.
LayersNest == OnlySuccessIsKept /\ GuardIsFirst

DistinctNames(s) == \A i, j \in DOMAIN s : s[i] = s[j] => i = j

\* A name that reads as what the generator may put together: one with a number or with a derived word behind.
Ambiguous(name) == Last(name) \in {ToString(n) : n \in 0..9} \cup {"Cleanup", "Factory", "Scope", "Topic"}

\* Of the variables that the construction declares, those derived from other variables included (provider_render.go:170,
\* 203, 229, 344), two are the same only if one of the two providers is called what the generator makes of the name of
\* another: with a number (naming.go:31) or a derived word behind, as dbCleanup beside db; whatever packages they are in
\* and however often a name is used. The variable of a decorated service differs from all of them (policy_render.go:82),
\* fields of Components and interceptors from each other (components.go:63), and every adapter that the program calls is
\* in a source unit of the plan (source_units.go:224 and :782 decide it apart from provider_render.go:36).
PlanIsSound ==
  pc = "render" =>
    /\ \A s \in Names \cup {app.providers} : \A i, j \in DOMAIN s :
         i # j /\ Declared(s)[i] \cap Declared(s)[j] # {} => Ambiguous(s[i].name) \/ Ambiguous(s[j].name)
    /\ DistinctNames(ExposedNames(app))
    /\ Range(ExposedNames(app)) \cap UNION Range(Declared(app.providers)) = {}
    /\ DistinctNames([i \in DOMAIN ComponentFields(app) |-> ComponentFields(app)[i].name])
    /\ DistinctNames(InterceptorFields(app))
    /\ RenderFaults(app) = {} =>
         \A i \in DOMAIN Assembly(app) :
           Assembly(app)[i].op \in {"construct", "bind", "factory"}
             => <<"sources">> \o UnitOf(Bean(Assembly(app)[i].on)) \in Files(app)
===============================================================================

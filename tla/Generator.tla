------------------------------ MODULE Generator ------------------------------
(***************************************************************************)
(* What compiler/generate makes of an application model: the target it     *)
(* refuses to render, the features, the names, the files, and above all    *)
(* the program: the statements of NewApplicationWithOptions in their       *)
(* order, the lifecycle hooks, and the layers that the renderer nests      *)
(* around a service method and around a route.                             *)
(*                                                                         *)
(* An application is a record:                                             *)
(*   target     [valid, known, layout, bridge, entrypoint, imports]        *)
(*   bootstrap  [logging, management, httpObservation]: set by annotations *)
(*   providers  sequence in construction order of [id, package, name,      *)
(*              source, scope, file, public, exported, main, cleanup,      *)
(*              error, logger, interfaces, needs]; "needs" is a sequence   *)
(*              of [kind, of], "of" the providers selected for one         *)
(*              parameter                                                  *)
(*   policies   sequence of [provider, manager, methods]; a method is a    *)
(*              set of policies: "observation", "authorization", "cache",  *)
(*              "retry", "transaction"                                     *)
(*   topics     sequence of [provider, listeners]                          *)
(*   tasks, jobs   sequences of [provider, exported]                       *)
(*   components sequence of [provider, stop, exported]                     *)
(*   routes     sequence of [provider, package, name, policies, manager],  *)
(*              policies a set of the above, "raw", "form" and "validation"*)
(*   reserved   configuration fields that use a reserved key               *)
(*                                                                         *)
(* A name is a sequence of words, numerals among them: text that is put    *)
(* together is concatenation, and different sequences are different text.  *)
(***************************************************************************)
EXTENDS Naturals, Sequences, FiniteSets, SequencesExt

None == "none"

Has(s, P(_)) == \E i \in DOMAIN s : P(s[i])
Provider(app, id) == app.providers[CHOOSE i \in DOMAIN app.providers : app.providers[i].id = id]
When(condition, s) == IF condition THEN s ELSE <<>>
FlatMap(s, Op(_)) == FlattenSeq([i \in DOMAIN s |-> Op(s[i])])

------------------------------------------------------------------------------
(* The features that decide which parts of the program are rendered.       *)

PolicyMethods(app) == UNION {Range(app.policies[i].methods) : i \in DOMAIN app.policies}
PoliciesUse(app, policy) == \E m \in PolicyMethods(app) : policy \in m
RoutesUse(app, policy) == Has(app.routes, LAMBDA r : policy \in r.policies)

Features(app) ==
  [mux           |-> app.routes # <<>> \/ app.bootstrap.management \/ app.bootstrap.httpObservation,
   authorization |-> RoutesUse(app, "authorization") \/ PoliciesUse(app, "authorization"),
   scheduling    |-> app.jobs # <<>>,
   asynchronous  |-> app.tasks # <<>>,
   logging       |-> app.bootstrap.logging,
   lifecycle     |-> app.components # <<>> \/ app.jobs # <<>>,
   requestScope  |-> Has(app.providers, LAMBDA p : p.scope = "request")]

------------------------------------------------------------------------------
(* Why an application is not rendered.                                     *)

LayoutFaults(t) ==
  CASE t.layout = "application" -> (IF t.bridge THEN {} ELSE {"bridge-dir"})
                                     \cup (IF t.entrypoint THEN {} ELSE {"entrypoint-package"})
    [] t.layout = "generated"   -> (IF t.bridge THEN {"bridge-dir"} ELSE {})
                                     \cup (IF t.entrypoint THEN {"entrypoint-package"} ELSE {})
    [] OTHER                    -> {"layout"}

TargetFaults(t) == (IF t.valid THEN {} ELSE {"target"}) \cup LayoutFaults(t)

\* providerVisibilityDiagnostics: the logger of the application is not declared anywhere.
VisibilityFaults(app) ==
  UNION {LET p == app.providers[i] IN
         IF p.source = "logging" THEN {}
         ELSE IF p.package = "generated" THEN {"self-import"}
         ELSE IF p.main THEN {"main-package"}
         ELSE IF ~p.exported THEN {"unexported-provider"} ELSE {} : i \in DOMAIN app.providers}

\* generatedImportCycleDiagnostics.
ImportFaults(t) == IF t.layout = "generated" /\ t.imports THEN {"import-cycle"} ELSE {}

\* The generated package calls hooks and jobs by name.
MethodFaults(app) ==
  (IF Has(app.components, LAMBDA c : ~c.exported) THEN {"unexported-hook"} ELSE {})
    \cup (IF Has(app.jobs, LAMBDA j : ~j.exported) THEN {"unexported-scheduled-method"} ELSE {})

\* Keys and environment variables that generated properties use: shutdown, asynchronous tasks, caches.
ReservedFaults(app) == IF app.reserved THEN {"reserved-configuration"} ELSE {}

RenderableFaults(app) ==
  ImportFaults(app.target) \cup VisibilityFaults(app) \cup MethodFaults(app) \cup ReservedFaults(app)

\* A dependency that is not optional by its kind needs a validated edge.
DependencyFaults(app) ==
  IF Has(app.providers, LAMBDA p : Has(p.needs, LAMBDA n : n.of = <<>> /\ n.kind \notin {"slice", "map", "optional"}))
  THEN {"render"} ELSE {}

\* What is scoped needs an adapter.
AdapterFaults(app) ==
  IF Has(app.providers, LAMBDA p : p.scope # "singleton" /\ p.source \in {"event", "logging"}) THEN {"render"} ELSE {}

\* A raw route owns no transaction, a form route no cache.
RouteFaults(app) ==
  IF Has(app.routes, LAMBDA r : {"raw", "transaction"} \subseteq r.policies \/ {"form", "cache"} \subseteq r.policies)
  THEN {"render"} ELSE {}

\* render: each group of checks ends the rendering when it finds something.
RenderFaults(app) ==
  IF TargetFaults(app.target) # {} THEN TargetFaults(app.target)
  ELSE IF ~app.target.known THEN {"unknown-target"}
  ELSE IF RenderableFaults(app) # {} THEN RenderableFaults(app)
  ELSE DependencyFaults(app) \cup AdapterFaults(app) \cup RouteFaults(app)

------------------------------------------------------------------------------
(* Names.                                                                  *)

DistinguishedByPackage(bases, packages) ==
  LET shared(b) == Cardinality({i \in DOMAIN bases : bases[i] = b}) > 1
  IN [i \in DOMAIN bases |-> IF shared(bases[i]) THEN <<packages[i]>> \o bases[i] ELSE bases[i]]

\* A name that is used more than once gets the package in front, and what is still the same a number behind.
Distinguished(bases, packages) ==
  LET shared(b) == Cardinality({i \in DOMAIN bases : bases[i] = b}) > 1
      full(i)   == IF shared(bases[i]) THEN <<packages[i]>> \o bases[i] ELSE bases[i]
      nth(i)    == Cardinality({j \in 1..i : full(j) = full(i)})
  IN [i \in DOMAIN bases |-> IF nth(i) > 1 THEN Append(full(i), ToString(nth(i))) ELSE full(i)]

\* The first of base, base2, base3, ... that is not used.
Unused(base, used) ==
  LET candidate(n) == IF n = 1 THEN base ELSE Append(base, ToString(n))
  IN candidate(CHOOSE n \in 1..(Cardinality(used) + 1) :
                 candidate(n) \notin used /\ \A k \in 1..(n - 1) : candidate(k) \in used)

VariableNames(providers) ==
  Distinguished([i \in DOMAIN providers |-> providers[i].name], [i \in DOMAIN providers |-> providers[i].package])

Constructed(p) == p.source \in {"bean", "starter", "auto", "stereotype"}

\* The variables beside its own that the construction of a provider declares: its name with one of these words behind.
Derived(p) ==
  CASE p.scope \in {"request", "session"}             -> {"Factory", "Scope"}
    [] p.scope = "prototype"                          -> {"Factory"}
    [] p.scope = "singleton" /\ Constructed(p)        -> {"Cleanup"}
    [] p.scope = "singleton" /\ p.source = "event"    -> {"Topic"}
    [] OTHER                                          -> {}

\* All of them are in the one scope of the function that constructs the providers.
Declared(providers) ==
  LET variables == VariableNames(providers)
  IN [i \in DOMAIN providers |-> {variables[i]} \cup {Append(variables[i], word) : word \in Derived(providers[i])}]

\* policyExposureVariables: the variable of the decorated service, one service after the other.
ExposedNames(app) ==
  LET variables == VariableNames(app.providers)
      base(i) == LET k == CHOOSE k \in DOMAIN app.providers : app.providers[k].id = app.policies[i].provider
                 IN Append(variables[k], "Policy")
      exposed[i \in 0..Len(app.policies)] ==
        IF i = 0 THEN <<>> ELSE Append(exposed[i - 1], Unused(base(i), Range(variables) \cup Range(exposed[i - 1])))
  IN exposed[Len(app.policies)]

IsService(app, id) == Has(app.policies, LAMBDA s : s.provider = id)

\* Singletons of a type that the generated package may name are fields of Components; those that user code constructs
\* and that no policy decorates can be replaced through BeanOverrides.
ComponentFields(app) ==
  LET shown == SelectSeq(app.providers, LAMBDA p : p.source # "logging" /\ p.scope = "singleton" /\ p.public)
      names == Distinguished([i \in DOMAIN shown |-> shown[i].name], [i \in DOMAIN shown |-> shown[i].package])
  IN [i \in DOMAIN shown |-> [provider    |-> shown[i].id, name |-> names[i],
                              overridable |-> Constructed(shown[i]) /\ ~IsService(app, shown[i].id)]]
Overridable(app) == {f.provider : f \in {g \in Range(ComponentFields(app)) : g.overridable}}

\* A field of interceptors for each route with a typed call.
Interceptable(policies) == policies \cap {"raw", "form"} = {}
InterceptorFields(app) ==
  LET typed == SelectSeq(app.routes, LAMBDA r : Interceptable(r.policies))
  IN Distinguished([i \in DOMAIN typed |-> typed[i].name], [i \in DOMAIN typed |-> typed[i].package])

------------------------------------------------------------------------------
(* Files.                                                                  *)

\* The unit that holds the adapters of the providers of one source file: directories that Go treats specially are
\* renamed, and files of other modules are kept apart by their package.
UnitOf(p) ==
  IF ~p.file.local THEN <<"_external", p.package, p.file.base>>
  ELSE <<CASE p.file.directory = "."        -> "_root"
           [] p.file.directory = "internal" -> "internal_"
           [] p.file.directory = "vendor"   -> "vendor_"
           [] OTHER                         -> p.file.directory, p.file.base>>

HasUnit(p) == Constructed(p) \/ p.source = "configuration" \/ (p.source = "event" /\ p.interfaces)
Units(app) == {UnitOf(p) : p \in {q \in Range(app.providers) : HasUnit(q)}} \cup {app.target.unit}

Files(app) ==
  {<<"target", f>> : f \in {"contracts", "configuration", "providers", "assembly", "lifecycle", "command"}
     \cup (IF Features(app).asynchronous \/ Features(app).lifecycle THEN {"features"} ELSE {})
     \cup (IF Features(app).mux THEN {"http"} ELSE {})}
    \cup {<<"sources">> \o u : u \in Units(app)}
    \cup {<<"route", i>> : i \in DOMAIN app.routes}
    \cup (IF app.routes # <<>> THEN {<<"artifacts", "openapi">>} ELSE {})

------------------------------------------------------------------------------
(* The statements of NewApplicationWithOptions. A statement is the part of *)
(* the program between two places where it can fail: [op, on, uses, fails],*)
(* uses the providers whose variables it reads, fails what the generated   *)
(* code does with an error: "abort" through the coordinator, "return"      *)
(* without it, "never".                                                    *)

Statement(op, on, uses, fails) == [op |-> op, on |-> on, uses |-> uses, fails |-> fails]

ConfigurationSetup ==
  <<Statement("schema", None, {}, "return"), Statement("resolve", None, {}, "return"),
    Statement("timeout", None, {}, "abort")>>

LoggingSetup(app) == When(Features(app).logging, <<Statement("logging", None, {}, "abort")>>)

\* The observers of the logger are put in front of the ones that the options give.
BootstrapObservers(app) == When(Features(app).logging, <<Statement("observation", None, {}, "abort")>>)

AuthorizationSetup(app) == When(Features(app).authorization, <<Statement("authorizer", None, {}, "abort")>>)

Needed(p) == UNION {Range(p.needs[i].of) : i \in DOMAIN p.needs}
Listeners(app, id) == UNION {Range(app.topics[i].listeners) : i \in {j \in DOMAIN app.topics : app.topics[j].provider = id}}
Managers(app, id) == {app.policies[i].manager : i \in {j \in DOMAIN app.policies : app.policies[j].provider = id}} \ {None}

\* A bean that user code makes, or the override that replaces it; then its cleanup, if it has one.
AdapterCall(p) == <<Statement("construct", p.id, Needed(p), "abort"), Statement("register", p.id, {}, "abort")>>

ScopedAdapter(p) == <<Statement("factory", p.id, Needed(p), "never")>>
ConfigurationCall(p) == <<Statement("bind", p.id, {}, "abort")>>
EventTopic(app, p) == <<Statement("topic", p.id, Listeners(app, p.id), "abort")>>
PolicyConstruction(app, p) == <<Statement("decorate", p.id, {p.id} \cup Managers(app, p.id), "abort")>>

\* writeProviders: one provider. What is not a singleton is only a factory; the decorator of a service follows it.
Construction(app, p) ==
  IF p.scope # "singleton" THEN ScopedAdapter(p)
  ELSE (CASE Constructed(p)             -> AdapterCall(p)
          [] p.source = "configuration" -> ConfigurationCall(p)
          [] p.source = "event"         -> EventTopic(app, p)
          [] p.source = "logging"       -> <<Statement("logger", p.id, {}, "never")>>)
         \o When(IsService(app, p.id), PolicyConstruction(app, p))

\* A logger that the application declares replaces the one that was set up; it must not be nil.
LoggerSelection(app) ==
  When(Has(app.providers, LAMBDA p : p.logger), <<Statement("selected", None, {}, "abort")>>)

\* writeAsyncSetup: the executor is registered for cleanup after every provider.
AsyncSetup(app) ==
  When(Features(app).asynchronous,
       <<Statement("concurrency", None, {}, "abort"), Statement("executor", None, {}, "abort"),
         Statement("register", "executor", {}, "abort"),
         Statement("closures", None, {app.tasks[i].provider : i \in DOMAIN app.tasks}, "never")>>)

ScheduleSetup(app) ==
  When(Features(app).scheduling,
       <<Statement("scheduler", None, {app.jobs[i].provider : i \in DOMAIN app.jobs}, "abort")>>)

HookSetup(app) ==
  When(Features(app).lifecycle,
       <<Statement("hooks", None, {app.components[i].provider : i \in DOMAIN app.components}, "never")>>)

CacheSetup(r) == When("cache" \in r.policies, <<Statement("cache", r.provider, {}, "abort")>>)
RouteAuthorization(r) == When("authorization" \in r.policies, <<Statement("guard", r.provider, {}, "abort")>>)
RouteObservation(r) == <<Statement("observe", r.provider, {}, "abort")>>
RouteInterceptors(r) == When(Interceptable(r.policies), <<Statement("intercept", r.provider, {}, "abort")>>)

RouteSetup(r) ==
  CacheSetup(r) \o RouteAuthorization(r) \o RouteObservation(r) \o RouteInterceptors(r)
    \o <<Statement("route", r.provider, {r.provider, r.manager} \ {None}, "abort")>>

ManagementSetup(app) == When(app.bootstrap.management, <<Statement("management", None, {}, "abort")>>)
RequestScopeSetup(app) == When(Features(app).requestScope, <<Statement("scope", None, {}, "abort")>>)

HttpSetup(app) ==
  When(Features(app).mux, FlatMap(app.routes, RouteSetup) \o ManagementSetup(app) \o RequestScopeSetup(app))

\* Everything before the first provider.
Preparation(app) ==
  ConfigurationSetup \o LoggingSetup(app) \o BootstrapObservers(app) \o AuthorizationSetup(app)
    \o <<Statement("observers", None, {}, "return")>>

\* The executor would be shut down after the beans that its tasks use.
AssemblyExecutorFirst(app) ==
  LET construction(p) == Construction(app, p)
  IN Preparation(app) \o SelectSeq(AsyncSetup(app), LAMBDA s : s.op # "closures")
       \o FlatMap(app.providers, construction) \o ScheduleSetup(app) \o HookSetup(app) \o HttpSetup(app)

\* The order of renderAssemblyTargetSource.
Assembly(app) ==
  LET construction(p) == Construction(app, p)
  IN Preparation(app) \o FlatMap(app.providers, construction) \o LoggerSelection(app)
       \o AsyncSetup(app) \o ScheduleSetup(app) \o HookSetup(app) \o HttpSetup(app)

\* writeHooks: the components in their order, then the scheduler.
Hooks(app) ==
  [i \in DOMAIN app.components |-> [bean |-> app.components[i].provider, stop |-> app.components[i].stop]]
    \o When(app.jobs # <<>>, <<[bean |-> "scheduler", stop |-> TRUE]>>)

------------------------------------------------------------------------------
(* What the compiler has established of a model that it hands over.        *)

Ids(app) == {p.id : p \in Range(app.providers)}
Sources == {"bean", "starter", "auto", "stereotype", "configuration", "event", "logging"}

\* Every list is a sequence, and what it names is a provider.
Listed(app) ==
  /\ \A s \in {app.providers, app.policies, app.topics, app.tasks, app.jobs, app.components, app.routes} : s \in Seq(Range(s))
  /\ \A s \in {app.tasks, app.jobs, app.components, app.routes, app.policies} : \A i \in DOMAIN s : s[i].provider \in Ids(app)
  /\ \A i \in DOMAIN app.routes : app.routes[i].manager \in Ids(app) \cup {None}

\* Identities are unique, and providers stand after everything they are constructed from: the order of compiler/graph,
\* which takes the listeners of a topic and the manager of a service for dependencies too.
Ordered(app) ==
  /\ \A i, j \in DOMAIN app.providers : app.providers[i].id = app.providers[j].id => i = j
  /\ \A i \in DOMAIN app.providers :
       LET p == app.providers[i] IN
       /\ p.source \in Sources /\ p.id \notin {None, "executor", "scheduler"}
       /\ Needed(p) \cup Listeners(app, p.id) \cup Managers(app, p.id) \subseteq {app.providers[j].id : j \in 1..(i - 1)}

------------------------------------------------------------------------------
(* The layers of a call, the outermost first; the last one is the target.  *)

\* A cache inside the transaction keeps what may still be rolled back.
MethodLayersCacheInside(m) ==
  When("observation" \in m, <<"observation">>) \o When("authorization" \in m, <<"authorization">>)
    \o When("retry" \in m, <<"retry">>) \o When("transaction" \in m, <<"transaction">>)
    \o When("cache" \in m, <<"cache">>) \o <<"target">>

\* writeDecoratedMethodBody wraps from the inside: transaction, retry, cache, authorization, observation.
MethodLayers(m) ==
  When("observation" \in m, <<"observation">>) \o When("authorization" \in m, <<"authorization">>)
    \o When("cache" \in m, <<"cache">>) \o When("retry" \in m, <<"retry">>)
    \o When("transaction" \in m, <<"transaction">>) \o <<"target">>

\* The calls inside a typed route: a transaction leaves no place for the cache of the route.
InvocationLayers(r) ==
  When(Interceptable(r), <<"interceptors">>)
    \o (IF "transaction" \in r THEN <<"transaction">> ELSE When("cache" \in r, <<"cache">>))

TypedLayers(r) ==
  <<"negotiation", IF "form" \in r THEN "form" ELSE "binding">> \o When("validation" \in r, <<"validation">>)
    \o InvocationLayers(r)

\* writeControllerRoute: the observation is outside the middleware, whose last element is the guard.
RouteLayers(r) ==
  <<"observation">> \o When("authorization" \in r, <<"authorization">>)
    \o (IF "raw" \in r THEN <<>> ELSE TypedLayers(r)) \o <<"target">>
==============================================================================

------------------------------ MODULE Compiler ------------------------------
(***************************************************************************)
(* The passes that turn a resolved program into an application model:      *)
(* compiler/service prepares the catalogs, and BuildWithOptions of         *)
(* compiler/application runs the passes one after the other.  Each pass    *)
(* sees the results of the earlier ones; the first that reports something  *)
(* ends the build.                                                         *)
(*                                                                         *)
(* A program is given by its source, or by its resolved annotations alone, *)
(* and then the passes begin at the catalogs.                              *)
(*                                                                         *)
(* Beside what the passes read, a program has entrypoints (configured      *)
(* providers), starters, defaults (of libraries), definitions (features of *)
(* starters), universe (modules of other platforms), mains (packages named *)
(* main) and observers (types that can observe HTTP).                      *)
(***************************************************************************)
EXTENDS Wiring, AppSettings, Annotations

CONSTANT Programs       \* the programs that are compiled, in families

Modules == INSTANCE AppModules
Web == INSTANCE ServicePolicies
Events == INSTANCE EventTopics

VARIABLES
    p,              \* the program
    pass,           \* the pass that is next, "failed" or "accepted"
    model,          \* the results of the passes
    diagnostics     \* what the last pass reported

vars == <<p, pass, model, diagnostics>>

Logger == Pointer("logging.Logger")
ServeMux == Pointer("http.ServeMux")

EmptyCatalog == [providers |-> <<>>, diagnostics |-> {}]

Init ==
    /\ \E family \in DOMAIN Programs : p \in Programs[family]
    /\ pass = IF p.source.files = <<>> THEN "catalogs" ELSE "load"
    /\ diagnostics = {}
    /\ model = [annotations |-> <<>>, primary |-> EmptyCatalog, extensions |-> <<>>, modules |-> {}, features |-> <<>>, types |-> <<>>,
                catalog |-> EmptyCatalog, topics |-> {}, edges |-> {}, services |-> {}, routes |-> <<>>,
                transactions |-> {}, caches |-> {}, hooks |-> {}, jobs |-> {}, tasks |-> {}, targets |-> {}]

\* A pass: its results are kept, its diagnostics end the build.
Pass(name, next, result, found) ==
    /\ pass = name
    /\ model' = result
    /\ diagnostics' = found
    /\ pass' = IF found = {} THEN next ELSE "failed"
    /\ UNCHANGED p

-----------------------------------------------------------------------------
(* From the source to annotations.                                         *)

\* loadProgram: the imports are discovered first, and their packages loaded with the requested ones.
LoadProgram ==
    Pass("load", "descriptors", model, IF p.source.requested = {} THEN {<<"list", 0>>} ELSE {})

PrepareDescriptors == Pass("descriptors", "resolution", model, DescriptorDiagnostics(p.source))

Resolved(result) ==
    Pass("resolution", "validation", [model EXCEPT !.annotations = result.occs], result.diagnostics)
Resolve == Resolved(ResolveAnnotations(p.source))

Validate ==
    LET Problems(o) == ValidateOccurrence(p.source.declared[o.def], o)
    IN  Pass("validation", "contributions", model,
             UNION {{<<x, o.at>> : x \in Problems(o)} : o \in ToSet(model.annotations)})

\* applyToolContributions: the tools are asked in order, the first failure ends it, and so does
\* anything a tool has to say, whatever its severity.
Contributed(o, c) ==
    LET placed == [c EXCEPT !.sym = o.sym, !.target = IF o.target = "parameter" \/ @ # "declaration" THEN o.target ELSE @]
    IN  IF o.target = "parameter" THEN [placed EXCEPT !.param = o.param] ELSE placed
ApplyContributions ==
    LET answers == [i \in DOMAIN model.annotations |-> p.source.handlers[model.annotations[i].name]]
        Fails(i) == answers[i].failed \/ \E a, b \in DOMAIN answers[i].contributions :
                        a # b /\ answers[i].contributions[a].kind = answers[i].contributions[b].kind
        failed == {i \in DOMAIN answers : Fails(i)}
        asked == {i \in DOMAIN answers : \A f \in failed : i < f}
        found == {<<"operation", model.annotations[i].at>> : i \in {f \in failed : \A g \in failed : f <= g}}
                 \cup UNION {{<<x, model.annotations[i].at>> : x \in answers[i].diagnostics} : i \in asked}
        Of(i) == [k \in DOMAIN answers[i].contributions |-> Contributed(model.annotations[i], answers[i].contributions[k])]
    IN  /\ pass = "contributions"
        /\ p' = [p EXCEPT !.occs = FlattenSeq([i \in DOMAIN answers |-> Of(i)])]
        /\ diagnostics' = found
        /\ pass' = IF found = {} THEN "catalogs" ELSE "failed"
        /\ UNCHANGED model

-----------------------------------------------------------------------------
(* The catalogs that the service hands to the build.                       *)

\* Some annotation turns the logging feature on.
LoggingWanted == \E o \in ToSet(Contributions(p, "bootstrap")) : o.capability = "logging"

\* The logger is offered to the defaults when one of them asks for it.
LoggingOffer(defaults) ==
    IF LoggingWanted /\ \E i \in DOMAIN defaults.providers : \E d \in DOMAIN defaults.providers[i].deps :
                            defaults.providers[i].deps[d].type = Logger
    THEN <<Logger>> ELSE <<>>

\* Defaults are judged against the annotated providers alone.
PrepareCatalogs ==
    LET primary == BuildCatalog(p)
        configured == BuildEntrypoints(p, p.entrypoints)
        starters == BuildEntrypoints(p, p.starters)
        defaults == BuildEntrypoints(p, p.defaults)
        selected == SelectDefaults(primary.providers, defaults, LoggingOffer(defaults))
        First(sets) == IF \E i \in DOMAIN sets : sets[i] # {}
                       THEN sets[CHOOSE i \in DOMAIN sets : sets[i] # {} /\ \A j \in 1..(i - 1) : sets[j] = {}] ELSE {}
    IN  Pass("catalogs", "modules",
             [model EXCEPT !.primary = primary, !.extensions = <<configured, starters, selected>>],
             First(<<configured.diagnostics, starters.diagnostics, defaults.diagnostics, selected.diagnostics>>))

-----------------------------------------------------------------------------
(* The passes over declarations.                                           *)

BuildModules ==
    LET built == Modules!ModulithBuild(p, p.universe)
    IN  Pass("modules", "enums", [model EXCEPT !.modules = built.roots], built.diagnostics)

BuildEnums == Pass("enums", "configuration", model, EnumBuild(p).diagnostics)

BuildConfiguration ==
    LET built == ConfigurationBuild(p)
    IN  Pass("configuration", "bootstrap", [model EXCEPT !.types = built.types], built.diagnostics)

CompileBootstrap ==
    LET built == BootstrapCompile(p, Builtins \o p.definitions)
    IN  Pass("bootstrap", "providers", [model EXCEPT !.features = built.features], built.diagnostics)

-----------------------------------------------------------------------------
(* Providers and their graph.                                              *)

\* Provider lists that are added to a catalog without diagnostics.
AsCatalog(items) == [providers |-> items, diagnostics |-> {}]

\* buildProviderMetadata: annotated providers, configuration types, extensions, then publishers.
BuildProviders ==
    LET configured == Merge(model.primary, AsCatalog(ConfigurationProviders(p, model.types)))
        merged == FoldLeft(Merge, configured, model.extensions)
        events == Events!EventBuild(p, merged.providers)
        publishers == LET ids == InOrder({t.id : t \in events.topics})
                      IN  [k \in DOMAIN ids |-> (CHOOSE t \in events.topics : t.id = ids[k]).provider]
        complete == Merge(merged, AsCatalog(publishers))
        found == IF model.primary.diagnostics # {} THEN model.primary.diagnostics
                 ELSE IF configured.diagnostics # {} THEN configured.diagnostics
                 ELSE IF merged.diagnostics # {} THEN merged.diagnostics
                 ELSE IF events.diagnostics # {} THEN events.diagnostics ELSE complete.diagnostics
    IN  Pass("providers", "logging", [model EXCEPT !.catalog = complete, !.topics = events.topics], found)

\* exactLoggingType: the logger is known when some provider makes one or asks for one.
LoggingTypes(items) ==
    {t \in {Logger} : \E i \in DOMAIN items : items[i].output = t \/ \E d \in DOMAIN items[i].deps : MatchType(items[i].deps[d]) = t}

\* The framework's logger is a fallback.
FrameworkLogger ==
    [NewProvider("logging", 0, "spiceLogger", Logger) EXCEPT !.role = "framework-logging", !.fallback = TRUE]

AddLogger ==
    LET enabled == \E app \in DOMAIN model.features : \E f \in model.features[app] : f.capability = "logging"
        added == IF enabled /\ LoggingTypes(model.catalog.providers) # {}
                 THEN Merge(model.catalog, AsCatalog(<<FrameworkLogger>>)) ELSE model.catalog
    IN  Pass("logging", "graph", [model EXCEPT !.catalog = added], added.diagnostics)

ConnectProviders ==
    LET built == BuildGraph(model.catalog)
    IN  Pass("graph", "policies", [model EXCEPT !.edges = built.edges], built.diagnostics)

-----------------------------------------------------------------------------
(* Policies and HTTP.                                                      *)

providers == model.catalog.providers
IndexOf(id) == CHOOSE i \in DOMAIN providers : providers[i].id = id

BuildPolicies ==
    LET built == Web!PolicyBuild(p, providers)
    IN  Pass("policies", "order", [model EXCEPT !.services = built.services], built.diagnostics)

\* orderProvidersForPolicies: a service also waits for the manager of its transactions.  ProviderOrder
\* is about the order itself.
ManagerEdges ==
    UNION {{[consumer |-> IndexOf(s.id), dependency |-> IndexOf(m)] : m \in s.manager} : s \in model.services}
OrderForPolicies ==
    LET plain == {[consumer |-> e.consumer, dependency |-> e.dependency] : e \in model.edges}
        cyclic == \E n \in DOMAIN providers : n \in RequiredBy(plain \cup ManagerEdges, n)
    IN  Pass("order", "web", model, IF cyclic THEN {<<"policy-dependency-cycle", 0>>} ELSE {})

\* buildHTTPMetadata: controllers, then transactions, then caches.
WebMetadata(controllers) ==
    LET transactions == Web!TransactionBuild(p, providers, controllers.routes)
        caches == Web!CacheBuild(p, providers, controllers.routes)
        found == IF controllers.diagnostics # {} THEN controllers.diagnostics
                 ELSE IF transactions.diagnostics # {} THEN transactions.diagnostics ELSE caches.diagnostics
    IN  Pass("web", "caches", [model EXCEPT !.routes = controllers.routes, !.transactions = transactions.boundaries,
                                            !.caches = caches.boundaries], found)
BuildWeb == WebMetadata(Web!ControllerBuild(p, providers))

\* serviceCacheIdentityDiagnostics: caches of routes come first, then those of services.
ServiceCaches ==
    UNION {{m.id : m \in {x \in s.methods : "cache" \in x.kinds}} : s \in model.services}
CacheName(id) == SelectSeq(Contributions(p, "cache"), LAMBDA o : o.sym = id)[1].name
CheckCacheIdentities ==
    LET all == InOrder({b.route : b \in model.caches}) \o InOrder(ServiceCaches)
        Named(k) == \A j \in 1..(k - 1) : CacheName(all[j]) # CacheName(all[k])
        Problem(k) == FirstProblem(<<
            <<"duplicate-cache-name", ~Named(k)>>,
            <<"duplicate-cache-environment",
              \E j \in 1..(k - 1) : Named(j) /\ p.environment[CacheName(all[j])] = p.environment[CacheName(all[k])]>> >>)
    IN  Pass("caches", "lifecycle", model, {<<Problem(k), all[k]>> : k \in {j \in DOMAIN all : Problem(j) # ""}})

-----------------------------------------------------------------------------
(* Methods that the framework calls.                                       *)

BuildLifecycle ==
    LET built == LifecycleBuild(p, providers)
    IN  Pass("lifecycle", "schedule", [model EXCEPT !.hooks = built.hooks], built.diagnostics)

BuildSchedule ==
    LET built == ScheduleBuild(p, providers)
    IN  Pass("schedule", "async", [model EXCEPT !.jobs = built.jobs], built.diagnostics)

BuildAsync ==
    LET built == AsyncBuild(p, providers)
    IN  Pass("async", "scopes", [model EXCEPT !.tasks = built.tasks], built.diagnostics)

\* scopedComponentDiagnostics: what the framework calls is a singleton.
FrameworkUses ==
    {[user |-> r.controller, provider |-> r.provider] : r \in ToSet(model.routes)}
    \cup {[user |-> h.method, provider |-> h.owner] : h \in model.hooks}
    \cup {[user |-> j.method, provider |-> j.owner] : j \in model.jobs}
    \cup {[user |-> t.method, provider |-> t.owner] : t \in model.tasks}
    \cup UNION {{[user |-> l.method, provider |-> l.owner] : l \in ToSet(t.listeners)} : t \in model.topics}
CheckScopes ==
    Pass("scopes", "targets", model,
         {<<"scoped-component", u.user>> : u \in {x \in FrameworkUses : providers[IndexOf(x.provider)].scope # "singleton"}})

-----------------------------------------------------------------------------
(* Applications.                                                           *)

\* main in a package main starts everything; another marker names its roots.
Automatic(sym) == sym.name = "main" /\ sym.pkg \in p.mains

MarkerProblem(o, sym) ==
    FirstProblem(<<
        <<"invalid-target", o.target # "function" \/ sym.kind # "function" \/ sym.recv # {}>>,
        <<"arguments", o.args>>,
        <<"generic", sym.generic>>,
        <<"variadic", sym.variadic>>,
        <<"results", sym.results # <<>> >>,
        <<"main-package", sym.name = "main" /\ ~Automatic(sym)>>,
        <<"main-parameters", sym.name = "main" /\ sym.params # <<>> >> >>)

\* exactProvider and selectRootCandidates: interfaces do not count, the rest is as in the graph.
RootCandidates(param) ==
    LET exact == {i \in DOMAIN providers : providers[i].output = param.type}
        regular == Prefer(exact, {i \in exact : ~providers[i].fallback})
        primary == IF Cardinality(regular) > 1 THEN Prefer(regular, {i \in exact : providers[i].primary}) ELSE regular
    IN  IF Cardinality(primary) > 1 /\ param.name # ""
        THEN Prefer(primary, {i \in exact : param.name \in ToSet(Names(providers[i]))}) ELSE primary
RootValid(param) ==
    Cardinality(RootCandidates(param)) = 1 /\ \A i \in RootCandidates(param) : providers[i].scope = "singleton"

\* applicationTargets.
BuildTargets ==
    LET all == Contributions(p, "application")
        Marker(k) == IF \E j \in 1..(k - 1) : all[j].sym = all[k].sym THEN "duplicate-annotation"
                     ELSE IF all[k].sym \notin DOMAIN p.syms THEN "missing-symbol"
                     ELSE MarkerProblem(all[k], p.syms[all[k].sym])
        Params(k) == p.syms[all[k].sym].params
        Lost(k) == Marker(k) = "" /\ \E i \in DOMAIN Params(k) : ~RootValid(Params(k)[i])
        good == {k \in DOMAIN all : Marker(k) = "" /\ ~Lost(k)}
    IN  Pass("targets", "requirements",
             [model EXCEPT !.targets = {[id |-> all[k].sym, automatic |-> Automatic(p.syms[all[k].sym]),
                                         roots |-> UNION {RootCandidates(Params(k)[i]) : i \in DOMAIN Params(k)}] : k \in good}],
             {<<Marker(k), all[k].sym>> : k \in {j \in DOMAIN all : Marker(j) # ""}}
             \cup {<<"missing-root-provider", all[k].sym>> : k \in {j \in DOMAIN all : Lost(j)}})

\* What an application constructs.
Reachable(target) ==
    IF target.automatic THEN DOMAIN providers
    ELSE target.roots \cup UNION {RequiredBy(model.edges, r) : r \in target.roots}

\* bootstrapRequirementDiagnostics: a feature that serves needs the multiplexer, and an observer of HTTP
\* is one provider of a starter with the right method.
CheckRequirements ==
    LET Offered(t) == IF \E i \in Reachable(t) : providers[i].output = ServeMux THEN {"http-serve-mux"} ELSE {}
        Observers(e) == {i \in DOMAIN providers : providers[i].source = "starter" /\ providers[i].id = e /\ providers[i].name = p.syms[e].name}
        RoleProblem(e) == FirstProblem(<<
            <<"invalid-entrypoint", Cardinality(Observers(e)) # 1>>,
            <<"invalid-entrypoint-type", \A i \in Observers(e) : providers[i].output \notin p.observers>> >>)
        Of(t, f) == {"missing-capability" : r \in f.requirements \ Offered(t)}
                    \cup (IF f.capability = "http-observation" THEN {RoleProblem(e) : e \in f.entrypoints} \ {""} ELSE {})
    IN  Pass("requirements", "accepted", model,
             UNION {UNION {{<<x, t.id>> : x \in Of(t, f)} : f \in model.features[t.id]} : t \in model.targets})

-----------------------------------------------------------------------------

Next ==
    \/ LoadProgram \/ PrepareDescriptors \/ Resolve \/ Validate \/ ApplyContributions
    \/ PrepareCatalogs \/ BuildModules \/ BuildEnums \/ BuildConfiguration \/ CompileBootstrap
    \/ BuildProviders \/ AddLogger \/ ConnectProviders
    \/ BuildPolicies \/ OrderForPolicies \/ BuildWeb \/ CheckCacheIdentities
    \/ BuildLifecycle \/ BuildSchedule \/ BuildAsync \/ CheckScopes
    \/ BuildTargets \/ CheckRequirements

Spec == Init /\ [][Next]_vars
-----------------------------------------------------------------------------
(* What the annotations of a source come to.                               *)

\* The grammar of annotations: a value is a word, a literal, a list of values, or a word with type
\* arguments in balanced brackets; arguments are positional first, then named, each name once.
Pieces(t, commas) ==
    LET cuts == <<0>> \o InOrder(commas) \o <<Len(t) + 1>>
    IN  [i \in 1..(Len(cuts) - 1) |-> SubSeq(t, cuts[i] + 1, cuts[i + 1] - 1)]
Commas(t) == {i \in DOMAIN t : t[i] = ","}
Balanced(t) ==
    LET Open(i) == Cardinality({j \in 1..i : t[j] = "["})
        Closed(i) == Cardinality({j \in 1..i : t[j] = "]"})
    IN  t[1] = "[" /\ Open(Len(t)) = Closed(Len(t)) /\ ")" \notin ToSet(t) /\ \A i \in 1..(Len(t) - 1) : Open(i) > Closed(i)
RECURSIVE IsValue(_)
IsValue(t) ==
    \/ Len(t) = 1 /\ (IsWord(t[1]) \/ t[1] \in {"str", "int"} \cup DOMAIN Quoted)
    \/ Len(t) > 1 /\ IsWord(t[1]) /\ Balanced(Tail(t))
    \/ t = <<"[", "]">>
    \/ /\ Len(t) > 2 /\ t[1] = "[" /\ t[Len(t)] = "]"
       /\ LET body == SubSeq(t, 2, Len(t) - 1)
          IN  \E cs \in SUBSET Commas(body) : \A piece \in ToSet(Pieces(body, cs)) : IsValue(piece)
IsNamed(piece) == Len(piece) > 2 /\ IsWord(piece[1]) /\ piece[2] = "="
IsArguments(pieces) ==
    /\ \A i \in DOMAIN pieces : IsValue(IF IsNamed(pieces[i]) THEN SubSeq(pieces[i], 3, Len(pieces[i])) ELSE pieces[i])
    /\ \A i, j \in DOMAIN pieces : i < j /\ IsNamed(pieces[i]) => IsNamed(pieces[j]) /\ pieces[i][1] # pieces[j][1]
IsAnnotation(c) ==
    /\ c.name # <<>>
    /\ \/ c.tokens \in {<<>>, <<"(", ")">>}
       \/ /\ Len(c.tokens) > 2 /\ c.tokens[1] = "(" /\ c.tokens[Len(c.tokens)] = ")"
          /\ LET body == SubSeq(c.tokens, 2, Len(c.tokens) - 1)
             IN  \E cs \in SUBSET Commas(body) : IsArguments(Pieces(body, cs))

\* NoAnnotationIgnored: imports fail closed.  When the source of a program passes without a diagnostic,
\* every annotation that documents something in it stands for exactly one occurrence, on the one
\* symbol that it documents: also in a file whose imports collide, in a grouped declaration, above a
\* parameter, on a blank name.  (Parameters of functions without a symbol are passed over.)
Standing(group, names, target, param) ==
    {[at |-> c.at, sym |-> n.sym, target |-> target, param |-> param] :
        c \in {x \in ToSet(group) : x.line /\ x.form = "annotation"}, n \in ToSet(names)}
DocumentedBy(d) ==
    IF d.tok = "func"
    THEN Standing(d.doc, d.names, IF d.receiver THEN "method" ELSE "function", 0)
         \cup UNION {UNION {Standing(g.group, d.names, "parameter", Cardinality({<<j, n>> \in (1..(k - 1)) \X (1..9) : n = 1 \/ n <= d.params[j].names})) :
                              g \in {x \in ToSet(d.params[k].before) : x.lines = 1}}
                     : k \in {j \in DOMAIN d.params : HasSymbol(d.names[1], "func", d.receiver)}}
    ELSE UNION {Standing(d.doc \o s.doc, s.names, [type |-> "type", var |-> "variable", const |-> "constant"][d.tok], 0) : s \in ToSet(d.specs)}
DocumentedIn(f) ==
    Standing(f.doc, <<[text |-> f.pkg, sym |-> 0]>>, "package", 0)
    \cup UNION {DocumentedBy(d) : d \in {x \in ToSet(f.decls) : x.tok # "import"}}
NoAnnotationIgnored ==
    pass = "catalogs" /\ p.source.files # <<>> =>
        LET expected == UNION {DocumentedIn(f) : f \in {x \in ToSet(p.source.files) : x.built /\ Primary(p.source, x.pkg)}}
        IN  /\ {[at |-> o.at, sym |-> o.sym, target |-> o.target, param |-> o.param] : o \in ToSet(model.annotations)} = expected
            /\ Len(model.annotations) = Cardinality({x.at : x \in expected})

\* There is a way to give each supplied argument to one of the definition's, as their names, places,
\* kinds and numbers ask for.
Fits(def, o) ==
    \E give \in [DOMAIN o.args -> DOMAIN def.args] :
        /\ \A i \in DOMAIN o.args :
              LET a == def.args[give[i]]
              IN  /\ IF o.args[i].name = "" THEN a.positional ELSE a.name = o.args[i].name
                  /\ o.args[i].value.kind \in a.kinds
                  /\ o.args[i].value.kind = "list" /\ a.elements # {} => ToSet(o.args[i].value.items) \subseteq a.elements
        /\ \A k \in DOMAIN def.args :
              LET given == {i \in DOMAIN o.args : give[i] = k}
              IN  /\ def.args[k].required => given # {}
                  /\ Cardinality(given) > 1 => def.args[k].variadic

\* AnnotationsExact: the parser of annotations, which decides by one token at a time and falls back
\* from a name to a value, accepts the sentences of the grammar and nothing else; validation, which
\* counts arguments as it meets them, accepts what fits the definition and nothing else.
AnnotationsExact ==
    /\ pass = "load" =>
          \A f \in ToSet(p.source.files) : \A c \in ToSet(CommentsOf(f)) :
              c.form = "annotation" => (ParseAnnotation(c).ok <=> IsAnnotation(c))
    /\ pass = "validation" =>
          \A o \in ToSet(model.annotations) :
              LET def == p.source.declared[o.def]
              IN  ValidateOccurrence(def, o) = {} <=> o.target \in def.targets /\ Fits(def, o)

-----------------------------------------------------------------------------
(* What an accepted program has.                                           *)

Accepted == pass = "accepted"

\* Every function that provides something returns a value that is not an error, then
\* possibly its cleanup, then possibly an error; and a name that some annotation chose designates
\* one provider, whatever catalogs the providers come from.
ProviderForms(t) == {<<t>>, <<t, ErrorType>>, <<t, CleanupType>>, <<t, CleanupType, ErrorType>>}
ChosenNames(item) == ToSet(item.aliases) \cup (IF item.explicit THEN {item.name} ELSE {})
CatalogSound ==
    Accepted =>
        /\ \A item \in ToSet(providers) :
              item.source \in {"bean", "stereotype", "starter", "auto-configuration"} /\ item.construction = "factory" =>
                  item.output # ErrorType /\ p.syms[item.ctor].results \in ProviderForms(item.output)
        /\ \A i, j \in DOMAIN providers : i # j => ChosenNames(providers[i]) \cap ToSet(Names(providers[j])) = {}

\* Every input of every provider is supplied as its type asks for.  One that must have a value has
\* exactly one, a value that lives shorter than the application is injected through a provider handle
\* only, a collection holds every bean that qualifies, each at a place of its own, and a fallback (the
\* framework's logger is one) supplies only what nothing else can.
Supplied(c, dep) == {e \in model.edges : e.consumer = c /\ e.parameter = dep.index}
Qualified(dep) == {i \in DOMAIN providers : Exposes(providers[i], MatchType(dep))
                                            /\ \A q \in ToSet(dep.quals) : Matches(providers[i], q)}
OneSupplier(c, dep) ==
    LET mine == Supplied(c, dep)
    IN  /\ Cardinality(mine) = IF dep.kind = "optional" /\ Qualified(dep) = {} THEN 0 ELSE 1
        /\ \A e \in mine :
              /\ e.dependency \in Qualified(dep)
              /\ providers[e.dependency].scope # "singleton" => dep.kind = "provider"
              /\ providers[e.dependency].fallback => \A i \in Qualified(dep) : providers[i].fallback
AllSuppliers(c, dep) ==
    LET mine == Supplied(c, dep)
    IN  /\ {e.dependency : e \in mine} = Qualified(dep)
        /\ {e.position : e \in mine} = 0..(Cardinality(Qualified(dep)) - 1)
        /\ \A e \in mine : providers[e.dependency].scope = "singleton"
InputsSupplied ==
    Accepted =>
        \A c \in DOMAIN providers : \A d \in DOMAIN providers[c].deps :
            LET dep == providers[c].deps[d]
            IN  IF dep.kind \in {"slice", "map"} /\ ~\E i \in DOMAIN providers : Exposes(providers[i], dep.type)
                THEN AllSuppliers(c, dep)
                ELSE dep.kind \notin {"slice", "map"} => OneSupplier(c, dep)

\* A library default is selected only when everything it must have is there, so the graph never misses
\* an input of one, whatever the later passes add to the catalog.  None is lost or selected twice by
\* the compaction of the candidates: what is left out misses an input or gives way to an annotated
\* provider of its type.
DefaultsAreSatisfied ==
    /\ \A x \in diagnostics : x[1] = "missing-dependency" =>
          \A i \in DOMAIN providers : providers[i].id = x[2] => providers[i].source # "auto-configuration"
    /\ pass = "modules" =>
          LET defaults == BuildEntrypoints(p, p.defaults)
              annotated == model.primary.providers
              selected == model.extensions[3].providers
          IN  /\ \A i, j \in DOMAIN selected : selected[i].id = selected[j].id => i = j
              /\ \A item \in ToSet(defaults.providers) \ ToSet(selected) :
                    \/ \E i \in DOMAIN annotated : annotated[i].output = item.output
                    \/ MissingInputs(item, annotated \o selected) \ ToSet(LoggingOffer(defaults)) # {}

\* Every @Listener method is heard by exactly one topic, and the topic's publisher is
\* constructed after the provider of each of its listeners.
PublishersWait ==
    Accepted =>
        /\ \A o \in ToSet(Contributions(p, "listener")) :
              Cardinality({t \in model.topics : \E l \in ToSet(t.listeners) : l.method = o.sym}) = 1
        /\ \A t \in model.topics : \A l \in ToSet(t.listeners) :
              IndexOf(l.owner) \in RequiredBy(model.edges, IndexOf(t.id))

\* WiringSound: what the passes say to each other about providers, through a catalog that each of them
\* may extend, agrees in the end: the catalog is well formed, inputs are supplied, defaults are complete,
\* publishers come last (provider.go:259-317, graph/build.go, autoconfigure.go:63, event.go:870).
WiringSound == CatalogSound /\ InputsSupplied /\ DefaultsAreSatisfied /\ PublishersWait

\* Where an accepted program enforces a policy: in the decorator of a service or at a route.
EnforcedByService(o) == {s.id : s \in {x \in model.services : \E m \in x.methods : m.id = o.sym /\ o.kind \in m.kinds}}
EnforcedByRoute(o) ==
    {r.id : r \in {x \in ToSet(model.routes) : x.id = o.sym /\
        \/ o.kind = "authorization" /\ x.protected
        \/ o.kind = "transaction" /\ \E b \in model.transactions : b.route = x.id
        \/ o.kind = "cache" /\ \E b \in model.caches : b.route = x.id}}
PolicyOccurrences == {o \in ToSet(p.occs) : o.kind \in Web!PolicyKinds}

\* Each policy annotation of an accepted program is enforced, and by one pass only: the policy pass
\* and the passes over routes decide independently whose it is.  (On a type that several providers
\* make, an annotation is lost: policy.go:170-176.)
OnePassEnforces ==
    \A o \in PolicyOccurrences :
        Cardinality({i \in DOMAIN providers : providers[i].output \in p.syms[o.sym].recv}) = 1 =>
            Cardinality(EnforcedByService(o)) + Cardinality(EnforcedByRoute(o)) = 1

\* What is constructed gets a decorated service through its decorator: no edge supplies the concrete
\* type, and the decorator's own inputs come before it.
ServiceHidden ==
    \A s \in model.services :
        /\ \A e \in model.edges : e.dependency = IndexOf(s.id) =>
              \E d \in DOMAIN providers[e.consumer].deps :
                  providers[e.consumer].deps[d].index = e.parameter /\ MatchType(providers[e.consumer].deps[d]) = s.interface
        /\ \A m \in s.manager : IndexOf(s.id) \notin RequiredBy(model.edges \cup ManagerEdges, IndexOf(m))

\* PoliciesEnforced: in an accepted program no call gets past a policy.
PoliciesEnforced == Accepted => OnePassEnforces /\ ServiceHidden

\* ModulesIsolated: in an accepted program an import that leaves its module (the nearest package above
\* it that declares one) reaches the root or a named interface of another, declared as a dependency
\* there, and modules do not use each other in a circle.
Above(pkg) == {m \in model.modules : p.packages[m].gomod = p.packages[pkg].gomod /\ IsPrefix(p.packages[m].path, p.packages[pkg].path)}
Home(pkg) == {m \in Above(pkg) : \A n \in Above(pkg) : IsPrefix(p.packages[n].path, p.packages[m].path)}
ModulesIsolated ==
    Accepted =>
        LET leaving == {e \in UNION {{<<a, b>> : b \in p.packages[a].imports} : a \in DOMAIN p.packages} :
                           Home(e[1]) # {} /\ Home(e[2]) # {} /\ Home(e[1]) # Home(e[2])}
            Declares(m, n, i) == \E o \in ToSet(Contributions(p, "module")) :
                                    o.pkg \in m /\ \E d \in ToSet(o.allowed) : d.module \in n /\ d.interface = i
            NamesOf(b) == {o.name : o \in {x \in ToSet(Contributions(p, "named-interface")) : x.pkg = b}}
        IN  /\ \A e \in leaving : \/ e[2] \in Home(e[2]) /\ Declares(Home(e[1]), Home(e[2]), "")
                                  \/ \E i \in NamesOf(e[2]) : Declares(Home(e[1]), Home(e[2]), i)
            /\ \A S \in SUBSET model.modules : S # {} =>
                  \E m \in S : \A e \in leaving : m \in Home(e[1]) => Home(e[2]) \cap S = {}
=============================================================================

----------------------------- MODULE MCCompiler -----------------------------
(***************************************************************************)
(* Families of small programs for the compiler.  All of them vary one base *)
(* program: a repository, a service that is exposed as an interface, a     *)
(* controller and main.                                                    *)
(***************************************************************************)
EXTENDS Compiler

MCNames == <<"A", "B", "C", "Config", "D", "Event", "Lib1", "Lib2", "Lib3", "More", "NewMux", "Observer", "Topic",
             "a", "api", "b", "c", "lib1", "lib2", "lib3", "orders", "repo", "spiceLogger">>

-----------------------------------------------------------------------------
(* Declarations.                                                           *)

Declaration(kind, name) ==
    [kind |-> kind, recv |-> {}, pkg |-> "app", name |-> name, lower |-> name, makes |-> "", exported |-> TRUE,
     generic |-> FALSE, variadic |-> FALSE, alias |-> FALSE, struct |-> FALSE, interface |-> FALSE,
     constraint |-> FALSE, implementers |-> {}, params |-> <<>>, results |-> <<>>, methods |-> {}, unwritable |-> FALSE]
Struct(name, lower) == [Declaration("type", name) EXCEPT !.struct = TRUE, !.lower = lower]
Param(name, type) == [name |-> name, type |-> type]
Func(name, makes, params, results) ==
    [Declaration("function", name) EXCEPT !.makes = makes, !.params = params, !.results = results]
Method(receiver, name, params, results) ==
    [Declaration("method", name) EXCEPT !.recv = {Pointer(receiver)}, !.params = params, !.results = results]

Request == Plain("Req")
Context == Param("ctx", ContextType)

Symbols ==
    << Struct("Repo", "repo"),                                                              \* 1
       Func("NewRepo", "Repo", <<>>, <<Pointer("Repo")>>),                                  \* 2
       Struct("Orders", "orders"),                                                          \* 3
       Func("NewOrders", "Orders", <<Param("repo", Pointer("Repo"))>>, <<Pointer("Orders")>>), \* 4
       [Declaration("type", "Placer") EXCEPT !.interface = TRUE, !.implementers = {Pointer("Orders")}, !.methods = {"Place"}], \* 5
       Method("Orders", "Place", <<Context, Param("r", Request)>>, <<Plain("Res"), ErrorType>>),  \* 6
       Struct("Api", "api"),                                                                \* 7
       Func("NewApi", "Api", <<Param("orders", Plain("Placer"))>>, <<Pointer("Api")>>),      \* 8
       Method("Api", "Get", <<Context, Param("r", Request)>>, <<Plain("Res"), ErrorType>>),  \* 9
       [Func("main", "", <<>>, <<>>) EXCEPT !.pkg = "cmd"],                                 \* 10
       Func("A", "", <<>>, <<Pointer("T")>>),                                               \* 11
       Func("B", "", <<>>, <<Pointer("T")>>),                                               \* 12
       Func("C", "", <<Param("a", Pointer("T"))>>, <<Pointer("U")>>),                       \* 13
       Func("D", "", <<>>, <<Pointer("data.Manager")>>),                                    \* 14
       Method("Repo", "Start", <<Context>>, <<ErrorType>>),                                 \* 15
       Method("Repo", "Stop", <<Context>>, <<ErrorType>>),                                  \* 16
       Struct("Event", "event"),                                                            \* 17
       Method("Repo", "Hear", <<Context, Param("e", Plain("Event"))>>, <<ErrorType>>),      \* 18
       Method("Orders", "Hear", <<Context, Param("e", Plain("Event"))>>, <<ErrorType>>),    \* 19
       Func("Topic", "", <<Param("x", Pointer("Repo"))>>, << <<"publisher", "Event">> >>),  \* 20
       [Func("Lib1", "", <<>>, <<Pointer("T")>>) EXCEPT !.pkg = "lib"],                     \* 21
       [Func("Lib2", "", <<Param("u", Pointer("U"))>>, <<Pointer("V")>>) EXCEPT !.pkg = "lib"], \* 22
       [Func("Lib3", "", <<Param("v", Pointer("T"))>>, <<Pointer("U")>>) EXCEPT !.pkg = "lib"], \* 23
       Struct("Config", "config"),                                                          \* 24
       Struct("More", "more"),                                                              \* 25
       Declaration("type", "Color"),                                                        \* 26
       Func("Retryable", "", <<Param("err", ErrorType)>>, <<Plain("bool")>>),               \* 27
       Func("NewMux", "", <<>>, <<Pointer("http.ServeMux")>>),                              \* 28
       Func("Run", "", <<Param("orders", Pointer("Orders"))>>, <<>>),                       \* 29
       [Func("Observer", "", <<>>, <<Plain("Observer")>>) EXCEPT !.pkg = "lib"],            \* 30
       Method("Repo", "Work", <<Context, Param("n", Plain("int"))>>, <<ErrorType>>) >>      \* 31

-----------------------------------------------------------------------------
(* Annotations.                                                            *)

Path(segments) == [malformed |-> FALSE, segments |-> segments]
Word(name) == [wild |-> FALSE, name |-> name]
Wild(name) == [wild |-> TRUE, name |-> name]
Ident(name) == [form |-> "ident", q |-> "", name |-> name]

Stereotype(sym, role) == [kind |-> "stereotype", sym |-> sym, target |-> "type", role |-> role, construct |-> TRUE,
                          ctor |-> NoExpression, name |-> "", aliases |-> <<>>]
Bean(sym, name) == [kind |-> "provider", sym |-> sym, target |-> "function", name |-> name, aliases |-> <<>>]
Meta(sym, m) == [kind |-> "metadata", sym |-> sym, target |-> "declaration", param |-> 0, meta |-> m]
ParamMeta(sym, param, m) == [kind |-> "metadata", sym |-> sym, target |-> "parameter", param |-> param, meta |-> m]
Expose(sym, name) == [kind |-> "interface", sym |-> sym, target |-> "type", exprs |-> {Ident(name)}]
Application(sym) == [kind |-> "application", sym |-> sym, target |-> "function", args |-> FALSE]
Feature(capability, options) == [kind |-> "bootstrap", sym |-> 10, target |-> "function", capability |-> capability, options |-> options]
Controller == [kind |-> "controller", sym |-> 7, target |-> "type", prefix |-> Path(<<Word("api")>>)]
Route == [kind |-> "route", sym |-> 9, target |-> "method", verb |-> "GET", path |-> Path(<<Word("x")>>)]
OnMethodOf(kind, sym) ==
    [kind |-> kind, sym |-> sym, target |-> "method", args |-> FALSE, order |-> 0, demands |-> TRUE, expression |-> "none",
     classifier |-> "", name |-> "c", isolation |-> "default", phase |-> "start",
     delay |-> [text |-> "duration", value |-> 1], initial |-> [text |-> "", value |-> 0], continue |-> FALSE]
OnType(kind, sym) == [kind |-> kind, sym |-> sym, target |-> "type", args |-> FALSE, prefix |-> <<>>]

Core == <<Stereotype(1, "repository"), Stereotype(3, "service"), Expose(3, "Placer"), Stereotype(7, "controller"),
          Controller, Route, Application(10)>>

Entrypoint(sym, name) ==
    [invalid |-> FALSE, sym |-> sym, source |-> "auto-configuration", name |-> name, aliases |-> <<>>, quals |-> <<>>,
     primary |-> FALSE, fallback |-> FALSE, order |-> 0]

RequestField == [exported |-> TRUE, embedded |-> FALSE, ignored |-> FALSE, tags |-> {"query"}, valid |-> TRUE,
                 name |-> "q", scalar |-> TRUE, accessible |-> TRUE]
Property == [exported |-> TRUE, embedded |-> FALSE, tag |-> "options", key |-> <<"k">>, environment |-> "", scalar |-> TRUE,
             accessible |-> TRUE, fits |-> TRUE]

NoSource == [files |-> <<>>, declared |-> <<>>, requested |-> {}, handlers |-> <<>>]
Package(x) == [path |-> <<x>>, gomod |-> "m", imports |-> {}]
Base ==
    [source |-> NoSource, syms |-> Symbols, occs |-> Core, files |-> (26 :> 26),
     scopes |-> [app |-> ("Placer" :> 5 @@ "Retryable" :> 27 @@ "NewRepo" :> 2), cmd |-> ("main" :> 10), lib |-> ("Lib1" :> 21)],
     imports |-> [app |-> <<>>, cmd |-> <<>>, lib |-> <<>>],
     packages |-> [app |-> Package("app"), cmd |-> Package("cmd"), lib |-> Package("lib")],
     universe |-> <<>>, mains |-> {"cmd"}, observers |-> {Plain("Observer")},
     unnameable |-> {}, incomparable |-> {}, environment |-> [c |-> "C", d |-> "D", D |-> "D"],
     requests |-> (Request :> [fields |-> <<RequestField>>, validator |-> "none"]),
     events |-> TRUE, scalars |-> {26}, constants |-> <<>>, fields |-> (24 :> <<Property>> @@ 25 :> <<Property>>),
     entrypoints |-> <<>>, starters |-> <<>>, defaults |-> <<>>, definitions |-> <<>>]

With(occs) == [Base EXCEPT !.occs = Core \o occs]

-----------------------------------------------------------------------------
(* Wiring: two beans of one type and a consumer of it.                     *)

Kinds == {NoMetadata, [NoMetadata EXCEPT !.primary = TRUE], [NoMetadata EXCEPT !.fallback = TRUE],
          [NoMetadata EXCEPT !.scope = "prototype"], [NoMetadata EXCEPT !.quals = <<"b">>],
          [NoMetadata EXCEPT !.order = {1}]}
WiringPrograms ==
    {[With(<<Bean(11, names[1]), Meta(11, first), Bean(12, names[2]), Meta(12, second), Bean(13, "c"),
             ParamMeta(13, 0, [NoMetadata EXCEPT !.quals = quals])>>) EXCEPT
        !.syms[13].params = <<Param("a", <<shape, "T">>)>>,
        !.syms[11].results = <<output>>, !.syms[12].results = <<output>>] :
        names \in {<<"a", "b">>, <<"", "">>}, first \in Kinds, second \in Kinds, quals \in {<<>>, <<"b">>},
        shape \in {"pointer", "slice", "map", "optional", "provider"}, output \in {Pointer("T"), Plain("T")}}

-----------------------------------------------------------------------------
(* Providers: signatures, names and interfaces.                            *)

SomeResults == (UNION {[1..n -> {Pointer("T"), ErrorType, CleanupType}] : n \in 0..3}) \cup {[i \in 1..4 |-> ErrorType]}
CatalogPrograms ==
    {[With(<<Bean(11, "a")>>) EXCEPT !.syms[11].results = results, !.syms[11].generic = generic] :
        results \in SomeResults, generic \in BOOLEAN}
    \cup {With(<<[Bean(11, n1) EXCEPT !.aliases = aliases], Bean(12, n2), Bean(13, "c"), Bean(14, n3)>>) :
            n1 \in {"", "a", "b"}, n2 \in {"", "a", "b"}, n3 \in {"", "a"}, aliases \in {<<>>, <<"a">>, <<"b", "b">>}}
    \cup {[With(<<[Expose(3, name) EXCEPT !.target = target]>>) EXCEPT !.occs[2].ctor = ctor, !.occs[2].construct = construct] :
            name \in {"Placer", "Missing", "NewRepo"}, target \in {"type", "parameter"}, construct \in BOOLEAN,
            ctor \in {NoExpression, Ident("NewRepo"), Ident("Retryable"), Ident("Missing")}}
    \cup {[Base EXCEPT !.syms[3].exported = exported, !.syms[3].struct = struct, !.syms[5].constraint = constraint,
                       !.syms[5].implementers = implementers] :
            exported \in BOOLEAN, struct \in BOOLEAN, constraint \in BOOLEAN, implementers \in {{}, {Pointer("Orders")}}}
    \cup {[With(<<[Bean(16, "b") EXCEPT !.target = "method"]>>) EXCEPT !.occs[1].role = role,
             !.syms[16].params = <<>>, !.syms[16].results = <<Pointer("T")>>] : role \in {"repository", "configuration"}}

-----------------------------------------------------------------------------
(* Library defaults, starters and the logger.                              *)

Logging == Feature("logging", <<>>)
Lib(n) == Entrypoint(20 + n, <<"lib1", "lib2", "lib3">>[n])
Libs == {<<Lib(1)>>, <<Lib(1), Lib(3)>>, <<Lib(3), Lib(1), Lib(2)>>, <<Lib(2), Lib(3), Lib(1)>>, <<Lib(1), Lib(2), Lib(3)>>}
DefaultPrograms ==
    {[With(beans \o features) EXCEPT
        !.defaults = libs,
        !.syms[22].params = <<Param("u", input)>>, !.syms[23].params = <<Param("v", <<shape, "T">>)>>,
        !.syms[23].results = <<output>>] :
        libs \in Libs, input \in {Pointer("U"), Logger}, shape \in {"pointer", "lazy", "slice"},
        output \in {Pointer("U"), Pointer("T")}, features \in {<<>>, <<Logging>>},
        beans \in {<<>>, <<Bean(11, "a")>>, <<Bean(11, "lib1")>>, <<Bean(13, "")>>}}
    \cup {[With(<<Bean(11, "a"), Logging>> \o more) EXCEPT
             !.syms[11].results = <<Logger>>, !.syms[13].params = <<Param("x", Logger)>>,
             !.starters = IF starter THEN <<[Entrypoint(30, "") EXCEPT !.source = "starter"]>> ELSE <<>>] :
            more \in {<<Bean(13, "c")>>, <<Bean(13, "c"), Meta(11, [NoMetadata EXCEPT !.fallback = TRUE])>>},
            starter \in BOOLEAN}

-----------------------------------------------------------------------------
(* Policies of services and routes.                                        *)

Policies(sym) == {<<>>} \cup {<<OnMethodOf(k, sym)>> : k \in Web!PolicyKinds}
                 \cup {<<OnMethodOf("transaction", sym), OnMethodOf("cache", sym)>>}
Managers == {<<>>, <<Bean(14, "a")>>, <<Bean(14, "a"), Bean(11, "b")>>}
PolicyPrograms ==
    {[With(service \o route \o managers \o twin) EXCEPT
        !.syms[11].results = <<Pointer("data.Manager")>>, !.syms[12].results = <<Pointer("Orders")>>,
        !.syms[9].params = IF executor THEN <<Context, Param("x", Web!Executor), Param("r", Request)>> ELSE @] :
        service \in Policies(6), route \in Policies(9), managers \in Managers, executor \in BOOLEAN,
        twin \in {<<>>, <<Bean(12, "b")>>}}
    \cup {[With(<<OnMethodOf("observation", 6)>>) EXCEPT !.syms[8].params = <<Param("o", type)>>, !.occs[7] = marker,
             !.syms[6].params = <<Param("ctx", first), Param("r", Request)>>, !.syms[6].exported = exported] :
            type \in {Plain("Placer"), Pointer("Orders")}, marker \in {Application(10), Application(29)},
            first \in {ContextType, Request}, exported \in BOOLEAN}
    \cup {With(<<[OnMethodOf("cache", 6) EXCEPT !.name = one], [OnMethodOf("cache", 9) EXCEPT !.name = two]>>) :
            one \in {"c", "d", "D"}, two \in {"c", "d", "D", "malformed"}}
    \cup {[With(<<OnMethodOf("transaction", 6), Bean(14, "a")>>) EXCEPT !.syms[14].params = <<Param("x", Plain("Placer"))>>]}
    \cup {With(<<[OnMethodOf("retry", 6) EXCEPT !.classifier = c], Meta(3, [NoMetadata EXCEPT !.scope = s])>>) :
            c \in {"", "Retryable", "NewRepo"}, s \in {"", "prototype"}}
    \cup {[With(<<Route>>) EXCEPT !.occs[6].path = one, !.occs[8].sym = second, !.occs[8].path = two,
             !.syms[31].params = <<Context, Param("r", Request)>>, !.syms[31].results = <<Plain("Res"), ErrorType>>,
             !.syms[31].recv = {Pointer("Api")}, !.requests[Request].fields[1].tags = {tag}] :
            one \in {Path(<<Word("x")>>), Path(<<Wild("q")>>)}, two \in {Path(<<Word("x")>>), Path(<<Wild("q")>>), Path(<<Wild("q"), Wild("q")>>)}, second \in {9, 31},
            tag \in {"query", "path", "form", "body"}}

-----------------------------------------------------------------------------
(* Topics and listeners.                                                   *)

Listener(sym, order) == [OnMethodOf("listener", sym) EXCEPT !.order = order]
Topics == {<<>>, <<OnType("topic", 17)>>, <<[OnType("topic", 20) EXCEPT !.target = "function"]>>,
           <<OnType("topic", 17), [OnType("topic", 20) EXCEPT !.target = "function"]>>}
EventPrograms ==
    {[With(topics \o heard \o twin) EXCEPT !.syms[8].params = @ \o extra, !.syms[20].params = marker,
        !.syms[12].results = <<Pointer("Repo")>>] :
        topics \in Topics, heard \in {<<>>, <<Listener(18, 1)>>, <<Listener(18, 1), Listener(19, 0)>>,
                                      <<Listener(19, 0), Listener(18, 0)>>, <<Listener(18, 0), Listener(18, 0)>>},
        extra \in {<<>>, <<Param("e", <<"publisher", "Event">>)>>}, twin \in {<<>>, <<Bean(12, "b")>>},
        marker \in {<<Param("x", Pointer("Repo"))>>, <<Param("x", Pointer("Repo")), Param("y", Pointer("Orders"))>>}}

-----------------------------------------------------------------------------
(* Modules: a module with a named interface, one inside it, and another.   *)

Module(pkg, allowed) == [kind |-> "module", sym |-> 0, pkg |-> pkg, target |-> "package", allowed |-> allowed]
NamedInterface(pkg) == [kind |-> "named-interface", sym |-> 0, pkg |-> pkg, target |-> "package", name |-> "n"]
Dependency(module, interface) == [module |-> module, interface |-> interface, malformed |-> FALSE]
AllowedSets == {<<>>, <<Dependency("app", "")>>, <<Dependency("app", "n")>>, <<Dependency("cmd", "")>>,
                <<Dependency("other", "")>>, <<Dependency("app", ""), Dependency("app", "")>>}
ModulePrograms ==
    {[Base EXCEPT !.occs = Core \o <<Module("app", one), Module("cmd", two), Module("lib", three)>> \o named,
        !.packages = [app |-> [path |-> <<"app">>, gomod |-> "m", imports |-> from.app],
                      sub |-> [path |-> <<"app", "sub">>, gomod |-> "m", imports |-> {}],
                      lib |-> [path |-> <<"app", "lib">>, gomod |-> "m", imports |-> from.lib],
                      cmd |-> [path |-> <<"cmd">>, gomod |-> "m", imports |-> from.cmd]],
        !.universe = universe] :
        one \in {<<>>, <<Dependency("lib", "")>>}, two \in AllowedSets, three \in {<<>>, <<Dependency("app", "")>>},
        from \in [app : {{}, {"lib"}}, lib : {{}, {"app"}}, cmd : {{}, {"app"}, {"sub"}, {"lib"}}],
        universe \in {<<>>, [other |-> {}]}, named \in {<<>>, <<NamedInterface("sub")>>}}

-----------------------------------------------------------------------------
(* Settings: configuration, enums and features.                            *)

Constant(file, name, type, value) == [pkg |-> "app", file |-> file, type |-> Plain(type), name |-> name, value |-> value]
SomeConstants == {Constant(26, "Red", "Color", 1), Constant(26, "Blue", "Color", 1), Constant(26, "_", "Color", 2),
                  Constant(26, "Green", "Color", 3), Constant(27, "Black", "Color", 4), Constant(26, "Size", "int", 5)}
Management(shown, access) == Feature("management",
    <<[name |-> "expose", kind |-> "list", items |-> shown]>>
    \o (IF access = "" THEN <<>> ELSE <<[name |-> "access", kind |-> "string", items |-> <<access>>]>>))
SettingPrograms ==
    {[With(<<[OnType("configuration", 24) EXCEPT !.prefix = prefix], OnType("configuration", 25)>>) EXCEPT
        !.fields[24] = <<[Property EXCEPT !.environment = env, !.tag = tag, !.exported = exported, !.fits = fits]>>,
        !.fields[25] = <<[Property EXCEPT !.key = key, !.environment = env]>>] :
        prefix \in {<<>>, <<"p">>}, env \in {"", "E"}, tag \in {"none", "ignored", "malformed", "options"},
        exported \in BOOLEAN, fits \in BOOLEAN, key \in {<<"k">>, <<"p", "k">>, <<"z">>}}
    \cup {[With(<<OnType("enum", 26)>>) EXCEPT !.constants = <<one, two>>, !.scalars = scalars] :
            one \in SomeConstants, two \in SomeConstants, scalars \in {{}, {26}}}
    \cup {With(features \o mux) :
            mux \in {<<>>, <<Bean(28, "")>>},
            features \in {<<Management(shown, access)>> : shown \in {<<>>, <<"health">>, <<"loggers">>, <<"health", "health">>},
                                                        access \in {"", "public", "loopback", "other"}}
                         \cup {<<Logging, Management(<<"loggers">>, access)>> : access \in {"public", "loopback"}}
                         \cup {<<Logging, Logging>>, <<Feature("unknown", <<>>)>>,
                               <<Feature("logging", <<[name |-> "x", kind |-> "string", items |-> <<"y">>]>>)>>,
                               <<[Logging EXCEPT !.sym = 11]>>}}
    \cup {[With(<<Feature("http-observation", <<>>)>>) EXCEPT
             !.definitions = <<[annotation |-> "HTTP", capability |-> "http-observation", malformed |-> malformed,
                                requirements |-> {}, entrypoints |-> {30}, options |-> <<>>]>>,
             !.starters = starters, !.observers = observers] :
            malformed \in BOOLEAN, observers \in {{}, {Plain("Observer")}},
            starters \in {<<>>, <<[Entrypoint(30, "") EXCEPT !.source = "starter"]>>}}

-----------------------------------------------------------------------------
(* Methods that the framework calls.                                       *)

Hook(sym, phase) == [OnMethodOf("lifecycle", sym) EXCEPT !.phase = phase]
Delay(text, value) == [text |-> text, value |-> value]
ManagedPrograms ==
    {[With(hooks \o <<Meta(1, [NoMetadata EXCEPT !.scope = scope])>>) EXCEPT !.syms[15].results = results, !.syms[8].params = <<>>,
        !.syms[4].params = <<>>] :
        scope \in {"", "prototype"}, results \in {<<ErrorType>>, <<>>},
        hooks \in {<<Hook(15, one), Hook(16, two)>> : one, two \in {"start", "stop"}}
                  \cup {<<Hook(15, "start")>>, <<Hook(15, "start"), Hook(15, "stop")>>, <<Hook(15, "stop")>>}
                  \cup {<<OnMethodOf("async", 31)>>, <<OnMethodOf("schedule", 15)>>}}
    \cup {With(<<[OnMethodOf("schedule", 15) EXCEPT !.delay = delay, !.initial = initial]>>) :
            delay \in {Delay("", 0), Delay("malformed", 0), Delay("duration", 0), Delay("duration", 1)},
            initial \in {Delay("", 0), Delay("malformed", 0), Delay("duration", -1), Delay("duration", 0)}}
    \cup {[With(<<OnMethodOf("async", 31), OnMethodOf("async", 15)>>) EXCEPT !.syms[31].name = name, !.syms[15].name = "Work",
             !.unnameable = unnameable, !.syms[15].recv = {Pointer(owner)}] :
            name \in {"Work", "sWork"}, owner \in {"Repo", "Repos", "Orders"}, unnameable \in {{}, {Plain("int")}}}

-----------------------------------------------------------------------------
(* Sources: what comments say, where they stand and what they bind.        *)

MCQuoted == ("'core'" :> "core" @@ "'app'" :> "app" @@ "'./x'" :> "")
MCExported == {"A", "B", "C", "D", "E", "F", "Q", "Lost", "Twin", "Repo"}

Comment(form, at, name, tokens) == [line |-> TRUE, form |-> form, at |-> at, name |-> name, tokens |-> tokens]
Annotation(at, name, tokens) == Comment("annotation", at, name, tokens)
Import(tokens) == Comment("import", 1, <<>>, tokens)
Text(at) == Comment("text", at, <<>>, <<>>)

Argument(name, kinds, elements) ==
    [name |-> name, kinds |-> kinds, elements |-> elements, required |-> FALSE, positional |-> FALSE, variadic |-> FALSE]
Field(key) == [key |-> key, static |-> TRUE]
Descriptor(name, args) ==
    [form |-> "function", returns |-> TRUE, plain |-> TRUE, documented |-> TRUE, body |-> "literal",
     literals |-> <<[of |-> "definition", fields |-> <<Field("Name"), Field("Arguments"), Field("Implementation")>>],
                    [of |-> "implementation", fields |-> <<Field("Tool"), Field("Handler")>>]>>,
     file |-> name, handler |-> "core", handlerFile |-> name, suffix |-> name, valid |-> TRUE, name |-> name,
     targets |-> {"package", "type", "function", "method", "parameter", "variable", "constant"}, args |-> args]
Declared ==
    (<<"core", "A">> :> Descriptor("A", <<>>)
     @@ <<"core", "B">> :> [Descriptor("B", <<[Argument("a", {"string"}, {}) EXCEPT !.positional = TRUE], Argument("b", {"string"}, {})>>)
                            EXCEPT !.targets = {"function"}]
     @@ <<"core", "C">> :> Descriptor("C", <<[Argument("a", {"string", "list"}, {"string"}) EXCEPT !.positional = TRUE, !.variadic = TRUE]>>)
     @@ <<"core", "D">> :> Descriptor("D", <<[Argument("a", {"identifier", "string"}, {}) EXCEPT !.required = TRUE],
                                              [Argument("b", {"list"}, {}) EXCEPT !.required = TRUE, !.positional = TRUE]>>)
     @@ <<"core", "Q">> :> [Descriptor("Q", <<>>) EXCEPT !.targets = {"parameter"}])

Answer(contributions) == [failed |-> FALSE, contributions |-> contributions, diagnostics |-> {}]
Handlers ==
    [A |-> Answer(<<>>), B |-> Answer(<<Bean(2, "repo"), [Meta(2, NoMetadata) EXCEPT !.target = "declaration"]>>),
     C |-> Answer(<<>>), D |-> Answer(<<>>), Q |-> Answer(<<ParamMeta(4, 0, [NoMetadata EXCEPT !.quals = <<"repo">>])>>)]

Named(text, sym) == [text |-> text, sym |-> sym]
General(tok, doc, specs) == [tok |-> tok, receiver |-> FALSE, doc |-> doc, names |-> <<>>, specs |-> specs, params |-> <<>>]
Spec1(doc, names) == [doc |-> doc, names |-> names]
Function(doc, name, params) == [tok |-> "func", receiver |-> FALSE, doc |-> doc, names |-> <<name>>, specs |-> <<>>, params |-> params]
Before(lines, group) == [lines |-> lines, group |-> group]
File(pkg, loose, doc, decls) ==
    [pkg |-> pkg, name |-> "source", excluded |-> FALSE, nested |-> FALSE, overlay |-> FALSE, built |-> TRUE,
     doc |-> doc, decls |-> decls, loose |-> loose]
Header == <<Import(<<"{", "A", ",", "B", ",", "C", ",", "D", ",", "Q", "}", "from", "'core'">>)>>

FromSource(files) ==
    [Base EXCEPT !.occs = <<>>, !.source = [files |-> files, declared |-> Declared, requested |-> {"app"}, handlers |-> Handlers]]
OnFunction(c) == FromSource(<<File("app", Header, <<>>, <<Function(<<Text(2), c>>, Named("NewRepo", 2), <<>>)>>)>>)

\* What an annotation says: pieces of arguments, with and without the end.
Chunks == {<<"a", "=">>, <<"str">>, <<"a">>, <<",">>, <<"[">>, <<"]">>, <<"[", "a">>, <<",", "str">>,
           <<",", "b", "=", "str">>, <<",", "a", "=", "str">>}
ChunkLists(n) == UNION {[1..k -> Chunks] : k \in 0..n}
SyntaxPrograms ==
    {OnFunction(Annotation(3, <<"B">>, <<"(">> \o FlattenSeq(l) \o <<")">>)) : l \in ChunkLists(3)}
    \cup {OnFunction(Annotation(3, <<"B">>, FlattenSeq(l))) : l \in ChunkLists(2)}
    \cup {OnFunction(Annotation(3, name, t)) : name \in {<<>>, <<"B">>},
            t \in {<<"(", "huge", ")">>, <<"(", "true", ")">>, <<"(", "a", "[", "str", ",", "(", "]", ")">>, <<"(", "[", "[", "a", "]", ",", "int", "]", ")">>}}

\* Whether arguments fit the definition.
Supplies == {<<"str">>, <<"int">>, <<"[", "str", "]">>, <<"[", "]">>, <<"a", "=", "str">>, <<"a", "=", "a">>, <<"b", "=", "[", "a", ",", "int", "]">>}
ArgumentPrograms ==
    {OnFunction(Annotation(3, <<name>>, <<"(">> \o l[1] \o FlattenSeq([i \in 1..(Len(l) - 1) |-> <<",">> \o l[i + 1]]) \o <<")">>)) :
        name \in {"A", "B", "C", "D", "Q"}, l \in UNION {[1..k -> Supplies] : k \in 1..3}}

\* What a file binds: imports of every kind, good and bad, and the names that use them.
Headers ==
    {Header, <<>>, <<Import(<<"*", "as", "core", "from", "'core'">>)>>, <<Import(<<"{", "A", "as", "x", "}", "from", "'core'">>)>>,
     <<Import(<<"{", "A", "as", "core", "}", "from", "'core'">>), Import(<<"*", "as", "core", "from", "'core'">>)>>,
     <<Import(<<"{", "A", "A", "}", "from", "'core'">>)>>, <<Import(<<"{", "x", "}", "from", "'core'">>)>>,
     <<Import(<<"{", "A", ",", "A", "as", "x", "}", "from", "'core'">>)>>, <<Import(<<"{", "A", "}", "from", "'./x'">>)>>,
     <<Import(<<"{", "A", "}", "from", "'core'">>), Import(<<"{", "A", "}", "from", "'core'">>)>>,
     <<Comment("legacy", 1, <<>>, <<>>)>>, <<Import(<<"{", "Lost", "}", "from", "'core'">>)>>,
     <<Import(<<"{", "A", "}", "from", "'app'">>)>>, <<[Import(<<"*", "as", "core", "from", "'core'">>) EXCEPT !.line = FALSE]>>}
Spellings == {<<"A">>, <<"x">>, <<"core", "A">>, <<"core", "a">>, <<"core", "Lost">>, <<"core", "A", "A">>, <<"", "A">>}
ImportPrograms ==
    {FromSource(<<[File("app", h, <<>>, <<General("type", <<Annotation(3, s, <<>>)>>, <<Spec1(<<>>, <<Named("Repo", 1)>>)>>)>>)
                   EXCEPT !.excluded = place[1], !.nested = place[2], !.overlay = place[3], !.name = place[4]]>>) :
        h \in Headers, s \in Spellings,
        place \in {<<FALSE, FALSE, FALSE, "source">>, <<TRUE, FALSE, FALSE, "source">>, <<TRUE, FALSE, TRUE, "source">>,
                   <<FALSE, TRUE, TRUE, "source">>, <<FALSE, FALSE, FALSE, "generated">>}}

\* Where annotations stand.
Mark(at) == <<Annotation(at, <<"A">>, <<>>)>>
Block(at) == <<[Annotation(at, <<"A">>, <<>>) EXCEPT !.line = FALSE]>>
Quali(at) == <<Annotation(at, <<"Q">>, <<>>)>>
Docs(at) == {<<>>, Mark(at), Block(at), <<Annotation(at, <<"A">>, <<"(">>)>>}
Shapes ==
    {General(tok, d1, <<Spec1(d2, <<Named("Repo", 1)>>), Spec1(d3, <<Named("Api", 7)>>)>>) :
        tok \in {"type", "var", "import"}, d1 \in Docs(10), d2 \in Docs(11), d3 \in Docs(12)}
    \cup {General(tok, d1, <<Spec1(d2, names)>>) :
            tok \in {"var", "const"}, d1 \in Docs(10), d2 \in Docs(11),
            names \in {<<Named("Repo", 1)>>, <<Named("_", 0)>>, <<Named("Repo", 1), Named("Api", 7)>>}}
    \cup {Function(d1, name, <<[names |-> n, before |-> <<Before(0, <<>>), Before(1, Quali(11))>>],
                               [names |-> 1, before |-> <<Before(l, Quali(12)), Before(2, Mark(13))>>]>>) :
            d1 \in {<<>>, Mark(10)}, name \in {Named("NewOrders", 4), Named("_", 0)}, n \in 0..2, l \in 1..2}
    \cup {[Function(Mark(10), Named("init", 15), <<>>) EXCEPT !.receiver = TRUE], Function(Mark(10), Named("init", 0), <<>>)}
PlacePrograms ==
    {FromSource(<<File("app", Header, d, <<shape>>)>>) : d \in {<<>>, Mark(5)}, shape \in Shapes}
    \cup {FromSource(<<File("app", Header, <<>>, <<General("type", Mark(10), <<Spec1(<<>>, <<Named("Repo", 1)>>)>>)>>),
                       [File(pkg, Header, <<>>, <<General("type", Mark(20), <<Spec1(<<>>, <<Named("Api", 7)>>)>>)>>)
                        EXCEPT !.built = built, !.name = name]>>) :
            pkg \in {"app", "core", "cmd"}, built \in BOOLEAN, name \in {"source", "test"}}

\* What descriptors and tools may do.
Plainly == Descriptor("A", <<>>)
Broken ==
    {[Plainly EXCEPT !.form = "variable"], [Plainly EXCEPT !.plain = FALSE], [Plainly EXCEPT !.file = "B"],
     [Plainly EXCEPT !.literals[2].fields = @ \o @], [Plainly EXCEPT !.literals[1].fields[1].static = FALSE],
     [Plainly EXCEPT !.suffix = "B"], [Plainly EXCEPT !.handler = "app"], Plainly}
ToolPrograms ==
    {[FromSource(<<File("app", h, <<>>, <<General("type", <<Annotation(3, s, <<>>)>>, <<Spec1(<<>>, <<Named("Repo", 1)>>)>>),
                                          Function(<<Annotation(9, <<"B">>, <<>>)>>, Named("NewRepo", 2), <<>>)>>)>>)
      EXCEPT !.source.declared = (<<"core", "A">> :> d @@ Declared @@ twin), !.source.handlers.A = answer, !.source.requested = r] :
        h \in {Header, Header \o <<Import(<<"*", "as", "core", "from", "'core'">>)>>}, s \in {<<"A">>, <<"core", "A">>}, d \in Broken,
        twin \in {<<>>, (<<"core", "E">> :> Descriptor("A", <<>>))}, r \in {{}, {"app"}},
        answer \in {Answer(<<>>), [Answer(<<>>) EXCEPT !.failed = TRUE], [Answer(<<>>) EXCEPT !.diagnostics = {"hint"}],
                    Answer(<<Meta(1, NoMetadata), Meta(1, NoMetadata)>>)}}

MCPrograms == <<CatalogPrograms, WiringPrograms, DefaultPrograms, PolicyPrograms, EventPrograms,
               ModulePrograms, SettingPrograms, ManagedPrograms,
               SyntaxPrograms, ArgumentPrograms, ImportPrograms, PlacePrograms, ToolPrograms>>
=============================================================================

-------------------------- MODULE ServicePolicies --------------------------
(***************************************************************************)
(* compiler/policy, compiler/transaction and compiler/cache: policies on   *)
(* the methods of services, and the transaction and cache boundaries of    *)
(* routes.  Every contribution is an annotation of its own here.           *)
(***************************************************************************)
EXTENDS HttpRoutes

PolicyKinds == {"observation", "authorization", "cache", "retry", "transaction"}
Manager == Pointer("data.Manager")

\* The policy annotations of a method, in source order.
PoliciesOn(p, id) == SelectSeq(p.occs, LAMBDA o : o.kind \in PolicyKinds /\ o.target = "method" /\ o.sym = id)
PolicyMethods(p) == {o.sym : o \in {x \in ToSet(p.occs) : x.kind \in PolicyKinds /\ x.target = "method"}}

-----------------------------------------------------------------------------
(* Methods of services.                                                    *)

\* Retry and observation exist for services only; the other policies may belong to a route.
OnlyForServices(occurrences) == \E o \in ToSet(occurrences) : o.kind \in {"retry", "observation"}

\* What a policy asks of the method's declaration.
MethodProblem(p, owner, sym) ==
    FirstProblem(<<
        <<"scoped-service", owner.scope # "singleton">>,
        <<"unexported-method", ~sym.exported>>,
        <<"variadic-method", sym.variadic>>,
        <<"generic-method", sym.generic>>,
        <<"context-parameter", ParamType(sym, 1) # ContextType>>,
        <<"error-result", ResultType(sym, Len(sym.results)) # ErrorType>>,
        <<"unnameable-signature", \/ \E i \in DOMAIN sym.params : sym.params[i].type \in p.unnameable
                                  \/ \E i \in DOMAIN sym.results : sym.results[i] \in p.unnameable>> >>)

\* A classifier is an exported function of the package from an error to a Boolean.
ValidClassifier(p, pkg, name) ==
    \E id \in DOMAIN p.syms :
        /\ p.syms[id].pkg = pkg /\ p.syms[id].kind = "function" /\ p.syms[id].name = name /\ p.syms[id].exported
        /\ ~p.syms[id].variadic /\ Len(p.syms[id].params) = 1 /\ ParamType(p.syms[id], 1) = ErrorType
        /\ p.syms[id].results = <<Plain("bool")>>

\* What each policy asks of its own options.
PolicyProblems(p, sym, occurrences) ==
    LET First(kind) == {o \in ToSet(occurrences) : o.kind = kind}
        If(kind, problem, condition) == IF First(kind) # {} /\ condition THEN {problem} ELSE {}
        Some(kind, Bad(_)) == \E o \in First(kind) : Bad(o)
    IN  If("cache", "cache-result", Len(sym.results) # 2)
        \cup If("cache", "cache-key", \E i \in 2..Len(sym.params) : sym.params[i].type \in p.incomparable)
        \cup If("authorization", "empty-authorization", Some("authorization", AuthorizationEmpty))
        \cup If("authorization", "authorization-expression",
                Some("authorization", LAMBDA o : o.expression = "malformed"))
        \cup If("retry", "retry-classifier",
                Some("retry", LAMBDA o : o.classifier # "" /\ ~ValidClassifier(p, sym.pkg, o.classifier)))

\* compileMethod.
MethodDiagnostics(p, owner, id) ==
    LET occurrences == PoliciesOn(p, id)
        repeated == \E i, j \in DOMAIN occurrences : i < j /\ occurrences[i].kind = occurrences[j].kind
        firsts == SelectSeq(occurrences, LAMBDA o : \A i \in DOMAIN occurrences :
                      occurrences[i].kind = o.kind => \E j \in 1..i : occurrences[j] = o)
        shape == MethodProblem(p, owner, p.syms[id])
    IN  {<<k, id>> : k \in (IF repeated THEN {"duplicate-policy"} ELSE {})
                           \cup (IF shape = "" THEN {} ELSE {shape})
                           \cup PolicyProblems(p, p.syms[id], firsts)}

\* The passes decide one by one whether a method's policies are theirs.
PolicyMethod(p, items, id) ==
    LET target == id \in DOMAIN p.syms /\ p.syms[id].kind = "method" /\ p.syms[id].recv # {}
        owners == Owners(items, p.syms[id])
        owner == items[CHOOSE i \in owners : TRUE]
        Skip(kind) == [service |-> 0, diagnostics |-> IF OnlyForServices(PoliciesOn(p, id)) THEN {<<kind, id>>} ELSE {}]
    IN  IF ~target THEN [service |-> 0, diagnostics |-> {<<"invalid-target", id>>}]
        ELSE IF Cardinality(owners) # 1 THEN Skip("receiver-provider")
        ELSE IF owner.role # "service" THEN Skip("service-only")
        ELSE [service |-> owner.id, diagnostics |-> MethodDiagnostics(p, owner, id)]

-----------------------------------------------------------------------------
(* Services.                                                               *)

InterfaceSymbol(p, type) == p.syms[CHOOSE id \in DOMAIN p.syms : p.syms[id].interface /\ Plain(p.syms[id].name) = type]

\* compileService: one declared interface that has all the decorated methods (the binding has
\* checked that their signatures agree), and one transaction manager when there is a transaction.
ServiceProblem(p, items, item, methods) ==
    LET type == CHOOSE t \in item.interfaces : TRUE
        face == InterfaceSymbol(p, type)
        transactional == \E id \in methods : \E o \in ToSet(PoliciesOn(p, id)) : o.kind = "transaction"
        managers == {i \in DOMAIN items : items[i].output = Manager}
    IN  IF Cardinality(item.interfaces) # 1 THEN "interface-binding"
        ELSE FirstProblem(<<
            <<"interface-binding", \E id \in methods : p.syms[id].name \notin face.methods>>,
            <<"interface-method", face.unwritable>>,
            <<"transaction-manager", transactional /\ Cardinality(managers) # 1>> >>)

NewService(p, items, item, methods) ==
    [id |-> item.id, interface |-> CHOOSE t \in item.interfaces : TRUE, output |-> item.output, pkg |-> item.pkg,
     manager |-> IF \E id \in methods : \E o \in ToSet(PoliciesOn(p, id)) : o.kind = "transaction"
                 THEN {items[i].id : i \in {j \in DOMAIN items : items[j].output = Manager}} ELSE {},
     methods |-> {[id |-> id, kinds |-> {o.kind : o \in ToSet(PoliciesOn(p, id))}] : id \in methods}]

\* A decorated service is injected through its interface only.
RawConcreteInjection(services, items) ==
    {<<"raw-concrete-injection", items[x[1]].id>> : x \in
        {y \in UNION {{<<c, d>> : d \in DOMAIN items[c].deps} : c \in DOMAIN items} :
            \E s \in services : MatchType(items[y[1]].deps[y[2]]) = s.output}}

\* Build: the decorated services.
PolicyBuild(p, items) ==
    LET Compiled(id) == PolicyMethod(p, items, id)
        MethodsOf(item) == {id \in PolicyMethods(p) : Compiled(id).service = item.id /\ Compiled(id).diagnostics = {}}
        decorated == {item \in ToSet(items) : MethodsOf(item) # {}}
        Problem(item) == ServiceProblem(p, items, item, MethodsOf(item))
        services == {NewService(p, items, item, MethodsOf(item)) : item \in {x \in decorated : Problem(x) = ""}}
        found == UNION {Compiled(id).diagnostics : id \in PolicyMethods(p)}
                 \cup {<<Problem(item), item.id>> : item \in {x \in decorated : Problem(x) # ""}}
    IN  [services |-> services, diagnostics |-> IF found = {} THEN RawConcreteInjection(services, items) ELSE found]

-----------------------------------------------------------------------------
(* Boundaries of routes.                                                   *)

\* The annotations that are not on methods of a service.
BoundaryOccurrences(p, items, kind) == SelectSeq(Contributions(p, kind), LAMBDA o : ~ServiceOwned(p, items, o.sym))
BoundaryMethods(p, items, kind) == {o.sym : o \in ToSet(BoundaryOccurrences(p, items, kind))}
FirstOf(p, items, kind, id) == SelectSeq(BoundaryOccurrences(p, items, kind), LAMBDA o : o.sym = id)[1]
Repeats2(p, items, kind, id) == Len(SelectSeq(BoundaryOccurrences(p, items, kind), LAMBDA o : o.sym = id)) > 1
RoutesOf(routes, id) == {k \in DOMAIN routes : routes[k].id = id}

\* A transaction needs a route with an executor and a manager.
TransactionProblem(items, routes, id, o) ==
    FirstProblem(<<
        <<"invalid-transaction-target", Cardinality(RoutesOf(routes, id)) # 1>>,
        <<"missing-executor", \A k \in RoutesOf(routes, id) : ~routes[k].executor>>,
        <<"missing-manager", \A i \in DOMAIN items : items[i].output # Manager>>,
        <<"invalid-transaction", o.isolation = "malformed">> >>)

\* The first manager of the catalog.
TransactionManager(items) ==
    LET managers == {i \in DOMAIN items : items[i].output = Manager}
    IN  items[CHOOSE i \in managers : \A j \in managers : i <= j].id

TransactionBuild(p, items, routes) ==
    LET Of(id) == TransactionProblem(items, routes, id, FirstOf(p, items, "transaction", id))
        methods == BoundaryMethods(p, items, "transaction")
        good == {id \in methods : Of(id) = ""}
    IN  [boundaries |-> {[route |-> id, manager |-> TransactionManager(items)] : id \in good},
         diagnostics |-> {<<Of(id), id>> : id \in methods \ good}
                         \cup {<<"duplicate-transaction", id>> : id \in {x \in methods : Repeats2(p, items, "transaction", x)}}
                         \cup {<<"missing-transaction", r.id>> :
                                  r \in {x \in ToSet(routes) : x.executor /\ x.id \notin methods}}]

\* compileBoundary: a cached route is a public GET from a comparable request to a value.
CacheProblem(p, routes, id, o) ==
    LET k == CHOOSE x \in RoutesOf(routes, id) : TRUE
        route == routes[k]
    IN  IF Cardinality(RoutesOf(routes, id)) # 1 THEN "invalid-cache-target"
        ELSE FirstProblem(<<
            <<"invalid-cacheable", \/ o.name = "malformed" \/ route.raw \/ route.verb # "GET" \/ route.response = NoContent
                                   \/ route.request \in p.incomparable \/ route.executor \/ route.protected>> >>)

\* Cache names are unique, and so are the environment variables made of them: "." and "-" become "_".
CacheBuild(p, items, routes) ==
    LET First(id) == FirstOf(p, items, "cache", id)
        methods == BoundaryMethods(p, items, "cache")
        sound == {id \in methods : CacheProblem(p, routes, id, First(id)) = ""}
        Taken(id, kept) == FirstProblem(<<
            <<"duplicate-cache-name", \E x \in kept : First(x).name = First(id).name>>,
            <<"duplicate-cache-environment", \E x \in kept : p.environment[First(x).name] = p.environment[First(id).name]>> >>)
        Claim(s, id) == IF Taken(id, s.kept) = "" THEN [s EXCEPT !.kept = @ \cup {id}]
                        ELSE [s EXCEPT !.diagnostics = @ \cup {<<Taken(id, s.kept), id>>}]
        end == FoldLeft(Claim, [kept |-> {}, diagnostics |-> {}], InOrder(sound))
    IN  [boundaries |-> {[route |-> id, name |-> First(id).name] : id \in end.kept},
         diagnostics |-> end.diagnostics
                         \cup {<<CacheProblem(p, routes, id, First(id)), id>> : id \in methods \ sound}
                         \cup {<<"duplicate-cacheable", id>> : id \in {x \in methods : Repeats2(p, items, "cache", x)}}]
=============================================================================

----------------------------- MODULE HttpRoutes -----------------------------
(***************************************************************************)
(* compiler/controller: the HTTP routes of a program.                      *)
(*                                                                         *)
(* A path is [malformed, segments]; malformed stands for every text that   *)
(* is refused by its characters, a segment is [wild, name].  A request     *)
(* type is known by p.requests: an exported named struct has its fields    *)
(* [exported, embedded, ignored, tags, valid, name, scalar, accessible]    *)
(* there, tags being the locations the field is bound to.                  *)
(***************************************************************************)
EXTENDS ManagedMethods

Executor == Plain("data.Executor")
BindingResult == Plain("web.BindingResult")
ViewResult == Plain("view.Result")
NoContent == Plain("web.NoContent")
Renderer == Pointer("view.Renderer")
RawParameters == <<Plain("http.ResponseWriter"), Pointer("http.Request")>>

-----------------------------------------------------------------------------
(* Controllers.                                                            *)

ControllerProblem(o, sym) ==
    FirstProblem(<<
        <<"invalid-controller", o.target # "type" \/ sym.kind # "type" \/ sym.alias>>,
        <<"unexported-controller", ~sym.exported>>,
        <<"generic-controller", sym.generic>>,
        <<"invalid-controller", ~sym.struct>>,
        <<"invalid-prefix", o.prefix.malformed \/ \E i \in DOMAIN o.prefix.segments : o.prefix.segments[i].wild>> >>)

\* The first annotation of a type declares the controller.
Controllers(p) ==
    LET all == Contributions(p, "controller")
        First(k) == ~\E j \in 1..(k - 1) : all[j].sym = all[k].sym
        Problem(k) == IF ~First(k) THEN "duplicate-controller"
                      ELSE IF all[k].sym \notin DOMAIN p.syms THEN "missing-symbol"
                      ELSE ControllerProblem(all[k], p.syms[all[k].sym])
        good == SelectSeq([k \in DOMAIN all |-> k], LAMBDA k : Problem(k) = "")
    IN  [list |-> [k \in DOMAIN good |-> all[good[k]]],
         diagnostics |-> {<<Problem(k), all[k].sym>> : k \in {j \in DOMAIN all : Problem(j) # ""}}]

-----------------------------------------------------------------------------
(* Request bindings.                                                       *)

FieldProblem(f) ==
    LET bound == f.tags # {}
        body == f.tags = {"body"}
    IN  FirstProblem(
          IF ~f.exported THEN << <<"unexported-field", bound>> >>
          ELSE IF f.ignored /\ ~f.embedded THEN << <<"conflicting-tags", bound>> >>
          ELSE << <<"embedded-field", f.embedded>>,
                  <<"binding-tags", Cardinality(f.tags) # 1>>,
                  <<"body-tag", body /\ ~f.valid>>,
                  <<"binding-tag", ~f.valid>>,
                  <<"binding-type", ~body /\ ~(f.scalar /\ f.accessible)>> >>)

Included(f) == f.exported /\ ~f.ignored

\* Fields are read in order; a location takes a name once, and there is one body.
BindingProblem(fields) ==
    LET Clash(i, j) == fields[j].tags = fields[i].tags /\ ("body" \in fields[i].tags \/ fields[j].name = fields[i].name)
        At(i) == IF FieldProblem(fields[i]) # "" THEN FieldProblem(fields[i])
                 ELSE IF Included(fields[i]) /\ \E j \in 1..(i - 1) : Included(fields[j]) /\ Clash(i, j)
                 THEN IF fields[i].tags = {"body"} THEN "duplicate-body" ELSE "duplicate-binding" ELSE ""
    IN  FirstProblem([i \in DOMAIN fields |-> <<At(i), At(i) # "">>])

Bound(fields, location) == {fields[i].name : i \in {k \in DOMAIN fields : Included(fields[k]) /\ location \in fields[k].tags}}

-----------------------------------------------------------------------------
(* Routes.                                                                 *)

\* Where the request parameter is, and which optional parameters surround it.
TypedParameters(sym) ==
    LET n == Len(sym.params)
        executor == ParamType(sym, 2) = Executor
        Form(at, e, b) == [request |-> at, executor |-> e, binding |-> b]
    IN  CASE n = 2 -> Form(2, FALSE, FALSE)
          [] n = 3 /\ executor -> Form(3, TRUE, FALSE)
          [] n = 3 /\ ~executor /\ ParamType(sym, 3) = BindingResult -> Form(2, FALSE, TRUE)
          [] n = 4 /\ executor /\ ParamType(sym, 4) = BindingResult -> Form(3, TRUE, TRUE)
          [] OTHER -> Form(0, FALSE, FALSE)

FullPath(controller, o) == controller.prefix.segments \o o.path.segments
Wildcards(path) == SelectSeq(path, LAMBDA s : s.wild)
PathProblem(controller, o) ==
    LET wild == Wildcards(FullPath(controller, o))
    IN  o.path.malformed \/ \E i, j \in DOMAIN wild : i # j /\ wild[i].name = wild[j].name

IsRaw(sym) == [i \in DOMAIN sym.params |-> sym.params[i].type] = RawParameters /\ sym.results = <<>>

\* typedRoute and the rules for GET.
TypedProblem(p, items, o, sym, path) ==
    LET form == TypedParameters(sym)
        type == ParamType(sym, form.request)
        fields == p.requests[type].fields
        hasForm == Bound(fields, "form") # {}
        view == ResultType(sym, 1) = ViewResult
        signature == \/ form.request = 0 \/ Len(sym.results) # 2 \/ ParamType(sym, 1) # ContextType
                     \/ ResultType(sym, 2) # ErrorType
    IN  IF signature THEN "typed-signature"
        ELSE IF type \notin DOMAIN p.requests THEN "request-type"
        ELSE FirstProblem(<<
            <<BindingProblem(fields), BindingProblem(fields) # "">>,
            <<"path-bindings", Bound(fields, "path") # {s.name : s \in ToSet(Wildcards(path))}>>,
            <<"form-signature", hasForm # form.binding>>,
            <<"mixed-body-form", hasForm /\ Bound(fields, "body") # {}>>,
            <<"form-response", hasForm /\ ~view>>,
            <<"missing-view-renderer", view /\ Cardinality({i \in DOMAIN items : items[i].output = Renderer}) # 1>>,
            <<"validator-signature", p.requests[type].validator = "malformed">>,
            <<"get-body", o.verb = "GET" /\ Bound(fields, "body") # {}>>,
            <<"get-form", o.verb = "GET" /\ hasForm>> >>)

RouteProblem(p, items, controller, o, sym) ==
    LET early == FirstProblem(<<
            <<"invalid-route", ~OnMethod(o, sym) \/ ~sym.exported \/ sym.variadic \/ sym.generic>>,
            <<"invalid-path", PathProblem(controller, o)>>,
            <<"missing-controller-provider", Owners(items, sym) = {}>> >>)
    IN  IF early # "" \/ IsRaw(sym) THEN early ELSE TypedProblem(p, items, o, sym, FullPath(controller, o))

\* The first provider of the receiver's type is the one whose method is called.
NewRoute(p, items, controller, o) ==
    LET sym == p.syms[o.sym]
        form == TypedParameters(sym)
        owner == CHOOSE i \in Owners(items, sym) : \A j \in Owners(items, sym) : i <= j
    IN  [id |-> o.sym, controller |-> controller.sym, pkg |-> sym.pkg, verb |-> o.verb,
         path |-> FullPath(controller, o), provider |-> items[owner].id, raw |-> IsRaw(sym),
         request |-> IF IsRaw(sym) THEN Nothing ELSE ParamType(sym, form.request),
         response |-> ResultType(sym, 1), executor |-> ~IsRaw(sym) /\ form.executor, protected |-> FALSE]

\* The routes of all controllers, in source order.  The first valid route of a controller fixes its provider.
RouteSteps(p, items, controllers) ==
    LET OwnerOfRoute(o) == {k \in DOMAIN controllers :
                               p.syms[controllers[k].sym].name = ReceiverOf(p.syms[o.sym])[2]}
        Add(s, o) ==
            LET c == controllers[CHOOSE k \in OwnerOfRoute(o) : TRUE]
                problem == RouteProblem(p, items, c, o, p.syms[o.sym])
                route == NewRoute(p, items, c, o)
                mixed == \E r \in ToSet(s.routes) : r.controller = c.sym /\ r.provider # route.provider
                Report(kind) == [s EXCEPT !.diagnostics = @ \cup {<<kind, o.sym>>}]
            IN  IF o.sym \notin DOMAIN p.syms THEN Report("missing-symbol")
                ELSE IF OwnerOfRoute(o) = {} THEN Report("orphan-route")
                ELSE LET counted == [s EXCEPT !.declared = @ \cup {c.sym}]
                     IN  IF problem # "" THEN [counted EXCEPT !.diagnostics = @ \cup {<<problem, o.sym>>}]
                         ELSE IF mixed THEN [counted EXCEPT !.diagnostics = @ \cup {<<"receiver-provider", o.sym>>}]
                         ELSE [counted EXCEPT !.routes = Append(@, route)]
    IN  FoldLeft(Add, [routes |-> <<>>, declared |-> {}, diagnostics |-> {}], Contributions(p, "route"))

-----------------------------------------------------------------------------
(* Authorization of routes.                                                *)

\* Seeded fault: controllers count as services.
ServiceOwnedAny(p, items, id) ==
    id \in DOMAIN p.syms /\ p.syms[id].recv # {} /\ \E i \in DOMAIN items : items[i].output = ReceiverOf(p.syms[id])

\* Methods of a service are the business of the service's policies.
ServiceOwned(p, items, id) ==
    id \in DOMAIN p.syms /\ p.syms[id].recv # {}
    /\ \E i \in DOMAIN items : items[i].role = "service" /\ items[i].output = ReceiverOf(p.syms[id])

AuthorizationEmpty(o) == ~o.demands /\ o.expression = "none"

\* applyAuthorizations: rejected annotations, and the routes that are protected.
Authorizations(p, items, routes) ==
    LET all == SelectSeq(Contributions(p, "authorization"), LAMBDA o : ~ServiceOwned(p, items, o.sym))
        Repeated(k) == \E j \in 1..(k - 1) : all[j].sym = all[k].sym
        Problem(k) == FirstProblem(<<
            <<"duplicate-authorization", Repeated(k)>>,
            <<"invalid-authorization-target", Cardinality({r \in DOMAIN routes : routes[r].id = all[k].sym}) # 1>>,
            <<"invalid-authorization", all[k].target # "method" \/ AuthorizationEmpty(all[k])
                                       \/ all[k].expression = "malformed">> >>)
    IN  [protected |-> {all[k].sym : k \in {j \in DOMAIN all : Problem(j) = ""}},
         diagnostics |-> {<<Problem(k), all[k].sym>> : k \in {j \in DOMAIN all : Problem(j) # ""}}]

\* finalize: a controller has routes, and a verb and path have one route: the one of the earliest
\* controller, and in a controller of the smallest symbol.
FinalDiagnostics(controllers, declared, routes) ==
    LET Index(r) == CHOOSE k \in DOMAIN controllers : controllers[k].sym = r.controller
        Before(a, b) == Index(a) < Index(b) \/ (Index(a) = Index(b) /\ a.id < b.id)
    IN  {<<"empty-controller", c.sym>> : c \in {x \in ToSet(controllers) : x.sym \notin declared}}
        \cup {<<"duplicate-route", r.id>> : r \in {x \in ToSet(routes) :
                 \E y \in ToSet(routes) : y.verb = x.verb /\ y.path = x.path /\ Before(y, x)}}

\* Build, after its loops: routes are protected by their authorizations and compared with each other.
ProtectRoutes(controllers, steps, auth) ==
    LET routes == [k \in DOMAIN steps.routes |->
                      [steps.routes[k] EXCEPT !.protected = steps.routes[k].id \in auth.protected]]
    IN  [routes |-> routes,
         diagnostics |-> controllers.diagnostics \cup steps.diagnostics \cup auth.diagnostics
                         \cup FinalDiagnostics(controllers.list, steps.declared, routes)]
ProtectSteps(p, items, controllers, steps) == ProtectRoutes(controllers, steps, Authorizations(p, items, steps.routes))

\* Build: the routes of the program.
ControllerBuild(p, items) ==
    LET controllers == Controllers(p)
    IN  ProtectSteps(p, items, controllers, RouteSteps(p, items, controllers.list))
=============================================================================

--------------------------- MODULE ProviderCatalog ---------------------------
(***************************************************************************)
(* compiler/provider: the catalog of providers that the compiler builds    *)
(* from the annotated declarations of a program, and the selection of      *)
(* library defaults (auto-configuration).  Everything here is a function   *)
(* of the program.                                                         *)
(*                                                                         *)
(* A program is a record of                                                *)
(*   syms     symbol ID -> declaration; IDs are numbers in the order of    *)
(*            the code's string IDs                                        *)
(*   occs     the resolved annotations, in source order                    *)
(*   scopes   package -> name -> symbol ID                                 *)
(*   imports  package -> qualifier -> imported package                     *)
(* and what the later passes read.  A type is <<shape, name>>: "plain",    *)
(* "pointer", a collection or a handle of the named type.  A diagnostic is *)
(* <<kind, symbol ID>>; positions and texts are left out.                  *)
(***************************************************************************)
EXTENDS Integers, Sequences, FiniteSets, SequencesExt

Plain(t) == <<"plain", t>>
Pointer(t) == <<"pointer", t>>
ErrorType == Plain("error")
CleanupType == Plain("lifecycle.Cleanup")
Handles == {"slice", "map", "optional", "lazy", "provider"}

NoExpression == [form |-> "none", q |-> "", name |-> ""]
NoMetadata == [quals |-> <<>>, primary |-> FALSE, fallback |-> FALSE, order |-> {}, scope |-> ""]

\* A provider with nothing but its identity and its output.
NewProvider(source, id, name, output) ==
    [source |-> source, role |-> "", construction |-> "factory", id |-> id, ctor |-> id, name |-> name,
     explicit |-> FALSE, aliases |-> <<>>, quals |-> <<>>, primary |-> FALSE, fallback |-> FALSE, order |-> 0,
     scope |-> "singleton", pkg |-> "", output |-> output, deps |-> <<>>, interfaces |-> {},
     cleanup |-> FALSE, err |-> FALSE]

\* A set of symbols as a sequence.
InOrder(S) == [k \in 1..Cardinality(S) |-> CHOOSE x \in S : Cardinality({y \in S : y < x}) = k - 1]

\* The annotations of a program that contribute something of this kind.
Contributions(p, kind) == SelectSeq(p.occs, LAMBDA o : o.kind = kind)

\* A validation returns at its first failure: rows of a kind and the condition that reports it.
FirstProblem(rows) ==
    LET failed == {i \in DOMAIN rows : rows[i][2]}
    IN  IF failed = {} THEN "" ELSE rows[CHOOSE i \in failed : \A j \in failed : i <= j][1]

-----------------------------------------------------------------------------
(* Signatures.                                                             *)

\* What the results of a provider function mean.
AnalyzeResults(results) ==
    LET n == Len(results)
        Count(t, from) == Cardinality({i \in from..n : results[i] = t})
        Ok(c, e) == [problem |-> "", output |-> results[1], cleanup |-> c, err |-> e]
        Bad(kind) == [problem |-> kind, output |-> ErrorType, cleanup |-> FALSE, err |-> FALSE]
    IN  CASE n = 0 -> Bad("zero-results")
          [] n = 1 -> IF results[1] = ErrorType THEN Bad("error-only") ELSE Ok(FALSE, FALSE)
          [] n = 2 -> CASE results[1] = ErrorType -> Bad("error-position")
                        [] results[1] # ErrorType /\ results[2] = ErrorType -> Ok(FALSE, TRUE)
                        [] results[1] # ErrorType /\ results[2] = CleanupType -> Ok(TRUE, FALSE)
                        [] OTHER -> Bad("invalid-second-result")
          [] n = 3 -> IF Count(CleanupType, 2) > 1 \/ Count(ErrorType, 2) > 1 THEN Bad("too-many-results")
                      ELSE IF results[1] = ErrorType THEN Bad("error-position")
                      ELSE IF results[2] # CleanupType THEN Bad("cleanup-position")
                      ELSE IF results[3] # ErrorType THEN Bad("error-position")
                      ELSE Ok(TRUE, TRUE)
          [] OTHER -> Bad("too-many-results")

\* A parameter's type decides how the dependency is supplied.
ClassifyDependency(index, name, type) ==
    [index |-> index, name |-> name, type |-> type, quals |-> <<>>,
     kind |-> IF type[1] \in Handles THEN type[1] ELSE "single",
     element |-> IF type[1] \in Handles THEN Plain(type[2]) ELSE type]

MatchType(dep) == dep.element

\* The receiver of a configuration method is its first dependency.
Dependencies(sym) ==
    LET inputs == IF sym.recv = {} THEN sym.params
                  ELSE <<[name |-> "", type |-> CHOOSE t \in sym.recv : TRUE]>> \o sym.params
    IN  [i \in 1..Len(inputs) |-> ClassifyDependency(i - 1, inputs[i].name, inputs[i].type)]

\* Which declarations can be provider functions.
SignatureProblem(sym, target, source) ==
    FirstProblem(<<
        <<"invalid-target", ~( \/ target = "function" /\ sym.kind = "function" /\ sym.recv = {}
                               \/ source = "bean" /\ target = "method" /\ sym.kind = "method" /\ sym.recv # {})>>,
        <<"generic", sym.generic>>,
        <<"variadic", sym.variadic>> >>)

\* A provider and its diagnostics; problem = "" when there is one.
AnalyzeProvider(id, sym, target, source) ==
    LET sig == SignatureProblem(sym, target, source)
        res == AnalyzeResults(sym.results)
    IN  [problem |-> IF sig # "" THEN sig ELSE res.problem,
         provider |-> [NewProvider(source, id, sym.name, res.output) EXCEPT
                          !.pkg = sym.pkg, !.deps = Dependencies(sym), !.cleanup = res.cleanup, !.err = res.err]]

-----------------------------------------------------------------------------
(* Go symbols named by annotations.                                        *)

\* The symbol that an expression names in the package of the annotation: an identifier of the
\* package, or pkg.Name through a Go import or a file's namespace import.  0 when there is none.
ResolveObject(p, pkg, e) ==
    LET Lookup(in, name) == IF name \in DOMAIN p.scopes[in] THEN p.scopes[in][name] ELSE 0
    IN  CASE e.form = "ident" -> Lookup(pkg, e.name)
          [] e.form = "selector" ->
                LET from == IF e.q \in DOMAIN p.imports[pkg] THEN p.imports[pkg][e.q] ELSE ""
                    found == IF from \in DOMAIN p.scopes THEN Lookup(from, e.name) ELSE 0
                IN  IF found # 0 /\ p.syms[found].exported THEN found ELSE 0
          [] OTHER -> 0

\* constructor = "...": a package-level function.
ResolveFunction(p, pkg, e) ==
    LET id == ResolveObject(p, pkg, e)
    IN  IF id # 0 /\ p.syms[id].kind = "function" THEN id ELSE 0

\* The constructor of a stereotype: the named one, NewT, or New when T is the only one in its package.
SelectConstructor(p, o, sym) ==
    LET Functions == {id \in DOMAIN p.syms : p.syms[id].pkg = sym.pkg /\ p.syms[id].kind = "function"}
        newT == {id \in Functions : p.syms[id].makes = sym.name}
        new == {id \in Functions : p.syms[id].name = "New"}
        The(S) == CHOOSE id \in S : TRUE
        siblings == SelectSeq(Contributions(p, "stereotype"),
                              LAMBDA s : s.construct /\ p.syms[s.sym].pkg = sym.pkg)
        explicit == ResolveFunction(p, sym.pkg, o.ctor)
    IN  CASE o.ctor # NoExpression -> [problem |-> IF explicit = 0 THEN "constructor" ELSE "", id |-> explicit]
          [] o.ctor = NoExpression /\ newT # {} -> [problem |-> "", id |-> The(newT)]
          [] o.ctor = NoExpression /\ newT = {} /\ Len(siblings) = 1 /\ new # {} -> [problem |-> "", id |-> The(new)]
          [] OTHER -> [problem |-> "", id |-> 0]

\* What a constructible stereotype must be.
StereotypeProblem(sym) ==
    FirstProblem(<<
        <<"invalid-stereotype", sym.kind # "type" \/ sym.alias>>,
        <<"unexported-stereotype", ~sym.exported>>,
        <<"generic-stereotype", sym.generic>>,
        <<"invalid-stereotype", ~sym.struct>> >>)

\* The provider of a stereotype: its constructor, or new(T), which keeps the default name whatever name
\* and aliases the annotation gives.
StereotypeProvider(p, o) ==
    LET sym == p.syms[o.sym]
        ctor == SelectConstructor(p, o, sym)
        made == AnalyzeProvider(ctor.id, p.syms[ctor.id], "function", "stereotype")
        own(item) == [item EXCEPT !.id = o.sym, !.role = o.role, !.aliases = o.aliases, !.pkg = sym.pkg,
                                  !.name = IF o.name = "" THEN sym.lower ELSE o.name, !.explicit = o.name # ""]
        allocated == [NewProvider("stereotype", o.sym, sym.lower, Pointer(sym.name)) EXCEPT
                         !.role = o.role, !.construction = "allocate", !.ctor = 0, !.pkg = sym.pkg]
        early == FirstProblem(<< <<StereotypeProblem(sym), StereotypeProblem(sym) # "">>,
                                 <<ctor.problem, ctor.problem # "">> >>)
        foreign == made.provider.output \notin {Plain(sym.name), Pointer(sym.name)}
    IN  IF early # "" \/ ctor.id = 0 THEN [problem |-> early, provider |-> allocated]
        ELSE [problem |-> FirstProblem(<< <<made.problem, made.problem # "">>, <<"constructor-result", foreign>> >>),
              provider |-> own(made.provider)]

\* The provider of a @Bean function or method.
BeanProvider(p, o) ==
    LET made == AnalyzeProvider(o.sym, p.syms[o.sym], o.target, "bean")
    IN  [made EXCEPT !.provider.name = IF o.name = "" THEN p.syms[o.sym].lower ELSE o.name,
                     !.provider.explicit = o.name # "", !.provider.aliases = o.aliases]

-----------------------------------------------------------------------------
(* Interfaces, qualifiers, order and scope.                                *)

\* Whether a provider may be exposed under an interface: a named interface with methods only that its
\* exact output implements.
InterfaceProblem(p, pkg, e, output) ==
    LET id == ResolveObject(p, pkg, e)
        sym == p.syms[id]
    IN  IF id = 0 THEN "interface-expression"
        ELSE FirstProblem(<<
                <<"interface-expression", sym.kind # "type" \/ ~sym.interface>>,
                <<"constraint-interface", sym.constraint>>,
                <<"interface-method-set", output \notin sym.implementers>> >>)

\* attachInterfaceBindings for one annotation and the provider it belongs to.
OwnerOf(items, o) ==
    IF \E i \in DOMAIN items : items[i].id = o.sym
    THEN {i \in DOMAIN items : items[i].id = o.sym}
    ELSE {i \in DOMAIN items : o.target = "parameter" /\ items[i].ctor = o.sym}

InterfaceDiagnostics(p, items, o) ==
    LET IsInterface(t) == \E id \in DOMAIN p.syms : Plain(p.syms[id].name) = t /\ p.syms[id].interface
        i == CHOOSE k \in OwnerOf(items, o) : TRUE
    IN  IF OwnerOf(items, o) = {} THEN {<<"interface-binding-provider", o.sym>>}
        ELSE IF IsInterface(items[i].output) THEN {<<"redundant-interface-binding", o.sym>>}
        ELSE {<<InterfaceProblem(p, p.syms[o.sym].pkg, e, items[i].output), o.sym>> :
                  e \in {x \in o.exprs : InterfaceProblem(p, p.syms[o.sym].pkg, x, items[i].output) # ""}}

BoundInterfaces(p, items, i) ==
    UNION {{Plain(e.name) : e \in {x \in o.exprs : InterfaceProblem(p, p.syms[o.sym].pkg, x, items[i].output) = ""}} :
              o \in {x \in ToSet(Contributions(p, "interface")) :
                        i \in OwnerOf(items, x) /\ InterfaceDiagnostics(p, items, x) \cap
                            {<<"redundant-interface-binding", x.sym>>} = {}}}

\* A qualifier on a parameter is stored with the dependency of the parameter's index.
ParameterDiagnostics(item, o) ==
    LET problem == FirstProblem(<<
            <<"parameter-metadata", o.meta.primary \/ o.meta.fallback \/ o.meta.order # {} \/ o.meta.scope # "">>,
            <<"parameter-index", o.param >= Len(item.deps)>> >>)
    IN  IF problem = "" THEN {} ELSE {<<problem, o.sym>>}

\* The metadata annotations of one provider, in source order.
MetadataOf(p, id, target) ==
    SelectSeq(Contributions(p, "metadata"),
              LAMBDA o : o.sym = id /\ (target = "parameter") = (o.target = "parameter"))

\* The qualifiers that a list of metadata annotations adds, in order.
QualifiersOf(metadata) == FlattenSeq([i \in 1..Len(metadata) |-> metadata[i].meta.quals])

Repeats(s) == Cardinality(ToSet(s)) < Len(s)

\* attachBeanMetadata: the first order and the first scope count, qualifiers add up.
WithMetadata(p, item) ==
    LET own == MetadataOf(p, item.id, "declaration")
        ofParameter(d) == SelectSeq(MetadataOf(p, item.id, "parameter"),
                                    LAMBDA o : o.param = d.index /\ ParameterDiagnostics(item, o) = {})
        ordered == SelectSeq(own, LAMBDA o : o.meta.order # {})
        scoped == SelectSeq(own, LAMBDA o : o.meta.scope # "")
    IN  [item EXCEPT
           !.quals = QualifiersOf(own),
           !.primary = \E i \in 1..Len(own) : own[i].meta.primary,
           !.fallback = \E i \in 1..Len(own) : own[i].meta.fallback,
           !.order = IF ordered = <<>> THEN 0 ELSE CHOOSE n \in ordered[1].meta.order : TRUE,
           !.scope = IF scoped = <<>> THEN @ ELSE scoped[1].meta.scope,
           !.deps = [i \in DOMAIN item.deps |->
                        [item.deps[i] EXCEPT !.quals = QualifiersOf(ofParameter(item.deps[i]))]]]

MetadataDiagnostics(p, items) ==
    LET Own(item) == MetadataOf(p, item.id, "declaration")
        Orders(item) == SelectSeq(Own(item), LAMBDA o : o.meta.order # {})
        Scopes(item) == SelectSeq(Own(item), LAMBDA o : o.meta.scope # "")
        after == [i \in DOMAIN items |-> WithMetadata(p, items[i])]
    IN  {<<"bean-metadata-provider", o.sym>> :
            o \in {x \in ToSet(Contributions(p, "metadata")) : \A i \in DOMAIN items : items[i].id # x.sym}}
        \cup UNION {
            (UNION {ParameterDiagnostics(items[i], o) : o \in ToSet(MetadataOf(p, items[i].id, "parameter"))})
            \cup {<<k, items[i].id>> : k \in
                    {x \in {"duplicate-qualifier", "duplicate-order", "duplicate-scope", "conflicting-selection"} :
                        \/ x = "duplicate-qualifier" /\ (Repeats(after[i].quals)
                              \/ \E d \in DOMAIN after[i].deps : Repeats(after[i].deps[d].quals))
                        \/ x = "duplicate-order" /\ Len(Orders(items[i])) > 1
                        \/ x = "duplicate-scope" /\ Len(Scopes(items[i])) > 1
                        \/ x = "conflicting-selection" /\ after[i].primary /\ after[i].fallback}}
            : i \in DOMAIN items}

\* A @Bean method needs exactly one @Configuration provider for its receiver.
ConfigurationMethodValid(p, items, item) ==
    \/ item.source # "bean" \/ p.syms[item.ctor].kind # "method"
    \/ Cardinality({i \in DOMAIN items : /\ items[i].source = "stereotype" /\ items[i].role = "configuration"
                                         /\ items[i].output = item.deps[1].type}) = 1

-----------------------------------------------------------------------------
(* Identity.                                                               *)

Names(item) == <<item.name>> \o item.aliases

\* A name is owned by the first provider that claims it; several providers may share a name that none
\* of them chose.  (The code keeps the latest of the unchosen claims; all of them are equivalent.)
IdentityDiagnostics(items) ==
    LET Claims(i, k) == \E c \in DOMAIN Names(items[i]) : Names(items[i])[c] = k
        Explicit(i, k) == items[i].explicit \/ items[i].name # k
        First(k) == CHOOSE i \in DOMAIN items : Claims(i, k) /\ \A j \in DOMAIN items : Claims(j, k) => i <= j
    IN  {<<"duplicate-bean-alias", items[i].id>> : i \in {j \in DOMAIN items : Repeats(Names(items[j]))}}
        \cup {<<"duplicate-bean-name", items[i].id>> :
                i \in {j \in DOMAIN items : \E k \in ToSet(Names(items[j])) :
                          First(k) < j /\ (Explicit(j, k) \/ Explicit(First(k), k))}}

\* Sources whose providers may compete for a type; the others are the only one of theirs.
Selectable == {"bean", "stereotype", "starter", "auto-configuration", "logging"}
DuplicateOutputs(items) ==
    {<<"duplicate-output", items[i].id>> : i \in
        {j \in DOMAIN items :
            LET group == {k \in DOMAIN items : items[k].output = items[j].output}
            IN  /\ Cardinality(group) > 1 /\ \A k \in group : j <= k
                /\ \/ Cardinality({items[k].id : k \in group}) < Cardinality(group)
                   \/ \E k \in group : items[k].source \notin Selectable}}

ById(items) == SortSeq(items, LAMBDA a, b : a.id < b.id)
Catalog(items, diagnostics) ==
    [providers |-> ById(items),
     diagnostics |-> diagnostics \cup IdentityDiagnostics(ById(items)) \cup DuplicateOutputs(ById(items))]

\* Build, the providers bound to their interfaces: methods of configurations whose owner is none are dropped.
CheckOwners(p, bound, diagnostics) ==
    Catalog(SelectSeq(bound, LAMBDA x : ConfigurationMethodValid(p, bound, x)),
            diagnostics \cup {<<"configuration-method-owner", bound[i].id>> :
                                 i \in {j \in DOMAIN bound : ~ConfigurationMethodValid(p, bound, bound[j])}})

\* Build, the providers found: interfaces and metadata are added to them.
BindProviders(p, items, diagnostics) ==
    CheckOwners(p, [i \in DOMAIN items |-> WithMetadata(p, [items[i] EXCEPT !.interfaces = BoundInterfaces(p, items, i)])],
                diagnostics \cup UNION {InterfaceDiagnostics(p, items, o) : o \in ToSet(Contributions(p, "interface"))}
                            \cup MetadataDiagnostics(p, items))

\* Build, the declarations analysed: those without a problem are providers.
CollectProviders(p, results, origin) ==
    LET sound == SelectSeq([i \in 1..Len(results) |-> [r |-> results[i]]], LAMBDA x : x.r.problem = "")
    IN  BindProviders(p, [i \in 1..Len(sound) |-> sound[i].r.provider],
                      {<<results[i].problem, origin[i]>> : i \in {j \in 1..Len(results) : results[j].problem # ""}})

\* Build: the catalog of a program.
BuildCatalog(p) ==
    LET beans == Contributions(p, "provider")
        types == SelectSeq(Contributions(p, "stereotype"), LAMBDA o : o.construct)
        results == [i \in 1..Len(beans) |-> BeanProvider(p, beans[i])]
                   \o [i \in 1..Len(types) |-> StereotypeProvider(p, types[i])]
        origin == [i \in 1..Len(beans) |-> beans[i].sym] \o [i \in 1..Len(types) |-> types[i].sym]
    IN  CollectProviders(p, results, origin)

\* Add and Merge: identities are checked again only when nothing was wrong before.
Merge(a, b) ==
    LET items == a.providers \o b.providers
    IN  IF a.diagnostics \cup b.diagnostics # {}
        THEN [providers |-> ById(items), diagnostics |-> a.diagnostics \cup b.diagnostics]
        ELSE Catalog(items, {})

\* BuildEntrypoints: the functions that starters and libraries name.
EntrypointProblem(p, e, earlier) ==
    LET found == e.sym \in DOMAIN p.syms /\ p.syms[e.sym].kind = "function"
        problem == FirstProblem(<<
            <<"invalid-entrypoint", e.invalid>>,
            <<"duplicate-entrypoint", e.sym \in earlier>>,
            <<"missing-entrypoint", ~found>> >>)
    IN  IF problem # "" THEN problem ELSE AnalyzeProvider(e.sym, p.syms[e.sym], "function", e.source).problem

EntrypointProvider(p, e) ==
    [AnalyzeProvider(e.sym, p.syms[e.sym], "function", e.source).provider EXCEPT
        !.name = IF e.name = "" THEN @ ELSE e.name, !.explicit = e.name # "", !.aliases = e.aliases,
        !.quals = e.quals, !.primary = e.primary, !.fallback = e.fallback, !.order = e.order]

BuildEntrypoints(p, es) ==
    LET Earlier(i) == {es[j].sym : j \in {k \in 1..(i - 1) : ~es[k].invalid}}
        Problem(i) == EntrypointProblem(p, es[i], Earlier(i))
        good == SelectSeq([i \in 1..Len(es) |-> i], LAMBDA i : Problem(i) = "")
    IN  Catalog([i \in 1..Len(good) |-> EntrypointProvider(p, es[good[i]])],
                {<<Problem(i), es[i].sym>> : i \in {j \in 1..Len(es) : Problem(j) # ""}})

-----------------------------------------------------------------------------
(* Library defaults.                                                       *)

Required == {"single", "lazy", "provider"}

Exposes(item, type) == item.output = type \/ type \in item.interfaces
MatchesType(items, type) == \E i \in DOMAIN items : Exposes(items[i], type)

\* The required inputs of a default that nothing provides.
MissingInputs(item, items) ==
    {MatchType(item.deps[d]) : d \in {x \in DOMAIN item.deps :
        item.deps[x].kind \in Required /\ ~MatchesType(items, MatchType(item.deps[x]))}}

\* An application bean that takes the place of a default: one of its type when the default is the
\* only one of the type among pending, otherwise one of its type and one of its names.
Replacements(primary, pending, item) ==
    LET alone == Cardinality({i \in DOMAIN pending : pending[i].output = item.output}) = 1
    IN  {i \in DOMAIN primary : /\ primary[i].output = item.output
                                /\ alone \/ ToSet(Names(primary[i])) \cap ToSet(Names(item)) # {}}

\* The candidates are compacted in place: pending and eligible share their memory, so while candidate
\* k is judged the first kept entries of pending are the defaults that were kept so far.
Eligible(primary, defaults) ==
    LET Judge(s, k) == IF Replacements(primary, s.pending, s.pending[k]) # {} THEN s
                       ELSE [pending |-> [s.pending EXCEPT ![s.kept + 1] = s.pending[k]], kept |-> s.kept + 1]
        end == FoldLeft(Judge, [pending |-> defaults, kept |-> 0], [k \in 1..Len(defaults) |-> k])
    IN  SubSeq(end.pending, 1, end.kept)

\* One round over the pending defaults: those whose inputs are available are selected.
SelectRound(s) ==
    LET Consider(r, item) == IF MissingInputs(item, r.available) # {} THEN [r EXCEPT !.pending = Append(@, item)]
                             ELSE [r EXCEPT !.available = Append(@, item), !.selected = Append(@, item)]
    IN  FoldLeft(Consider, [s EXCEPT !.pending = <<>>], s.pending)

\* SelectAutoConfigurationWithAvailable: features are types that enter the graph later.  As many
\* rounds as there are defaults reach the round that makes no progress.
SelectDefaults(primary, defaults, features) ==
    LET offered == [i \in 1..Len(features) |-> NewProvider("logging", 0, "", features[i])]
        start == [available |-> primary \o offered, selected |-> <<>>,
                  pending |-> Eligible(primary, defaults.providers)]
        end == FoldLeft(LAMBDA s, k : SelectRound(s), start, defaults.providers)
    IN  IF defaults.diagnostics # {} THEN defaults ELSE Catalog(end.selected, {})
=============================================================================

----------------------------- MODULE AppModules -----------------------------
(***************************************************************************)
(* compiler/modulith: application modules, their named interfaces and the  *)
(* dependencies between them.                                              *)
(*                                                                         *)
(* p.packages maps a package to [path, gomod, imports]: path is the        *)
(* sequence of its import path's segments.  An allowed dependency is       *)
(* [module, interface, malformed], interface = "" for the root package.    *)
(* A universe is what other builds of the program know: module -> names.   *)
(***************************************************************************)
EXTENDS ProviderCatalog

\* The first annotation of a package in its documentation declares a module.
ModuleRoots(p) ==
    LET all == Contributions(p, "module")
        OnPackage(k) == all[k].target = "package"
        Problem(k) == FirstProblem(<<
            <<"invalid-target", ~OnPackage(k)>>,
            <<"duplicate-module", \E j \in 1..(k - 1) : OnPackage(j) /\ all[j].pkg = all[k].pkg>>,
            <<"missing-package", all[k].pkg \notin DOMAIN p.packages>> >>)
        good == {k \in DOMAIN all : Problem(k) = ""}
    IN  [modules |-> [m \in {all[k].pkg : k \in good} |-> all[CHOOSE k \in good : all[k].pkg = m].allowed],
         diagnostics |-> {<<Problem(k), all[k].pkg>> : k \in DOMAIN all \ good}]

\* parseDependencyValues: the dependencies that can be read, each once.
AllowedDiagnostics(modules) ==
    UNION {{<<"dependency-identity", m>> : i \in {x \in DOMAIN modules[m] : modules[m][x].malformed}}
           \cup {<<"duplicate-dependency", m>> : i \in {x \in DOMAIN modules[m] :
                    ~modules[m][x].malformed /\ \E j \in 1..(x - 1) : modules[m][j] = modules[m][x]}}
           : m \in DOMAIN modules}
Allowed(modules, m) == {[module |-> d.module, interface |-> d.interface] : d \in {x \in ToSet(modules[m]) : ~x.malformed}}

\* Seeded fault: the shortest root above a package owns it.
OwnerLoose(p, roots, pkg) ==
    LET above == {m \in roots : p.packages[m].gomod = p.packages[pkg].gomod
                                /\ IsPrefix(p.packages[m].path, p.packages[pkg].path)}
    IN  {m \in above : \A n \in above : Len(p.packages[m].path) <= Len(p.packages[n].path)}

\* The module that owns a package: the nearest root above it in the same Go module.
Owner(p, roots, pkg) ==
    LET above == {m \in roots : p.packages[m].gomod = p.packages[pkg].gomod
                                /\ IsPrefix(p.packages[m].path, p.packages[pkg].path)}
    IN  {m \in above : \A n \in above : Len(p.packages[n].path) <= Len(p.packages[m].path)}

\* Packages of a Go module with application modules that belong to none of them.
Unassigned(p, roots) ==
    {pkg \in DOMAIN p.packages : Owner(p, roots, pkg) = {} /\ \E m \in roots : p.packages[m].gomod = p.packages[pkg].gomod}

\* The named interfaces: a name is declared once in a module.
NamedInterfaces(p, roots) ==
    LET all == Contributions(p, "named-interface")
        Found(k) == all[k].pkg \in DOMAIN p.packages
        OwnerAt(k) == IF Found(k) THEN Owner(p, roots, all[k].pkg) ELSE {}
        Early(k) == FirstProblem(<<
            <<"interface-name", all[k].name = "malformed">>,
            <<"invalid-target", all[k].target # "package" \/ ~Found(k)>>,
            <<"unassigned-interface", OwnerAt(k) = {}>> >>)
        Problem(k) == IF Early(k) # "" THEN Early(k)
                      ELSE IF \E j \in 1..(k - 1) : Early(j) = "" /\ OwnerAt(j) = OwnerAt(k) /\ all[j].name = all[k].name
                      THEN "duplicate-interface" ELSE ""
        good == {k \in DOMAIN all : Problem(k) = ""}
    IN  [names |-> {[module |-> CHOOSE m \in OwnerAt(k) : TRUE, name |-> all[k].name, pkg |-> all[k].pkg] : k \in good},
         diagnostics |-> {<<Problem(k), all[k].pkg>> : k \in DOMAIN all \ good}]

\* validateDependencies: a dependency names a module, and an interface of it, that some build knows.
DependencyDiagnostics(modules, names, universe) ==
    LET Known(m) == m \in DOMAIN modules \/ m \in DOMAIN universe
        Interfaces(m) == {n.name : n \in {x \in names : x.module = m}}
                         \cup (IF m \in DOMAIN universe THEN universe[m] ELSE {})
        Problem(m, d) == FirstProblem(<<
            <<"self-dependency", d.module = m>>,
            <<"unknown-module", ~Known(d.module)>>,
            <<"unknown-interface", d.interface # "" /\ d.interface \notin Interfaces(d.module)>> >>)
    IN  UNION {{<<Problem(m, d), m>> : d \in {x \in Allowed(modules, m) : Problem(m, x) # ""}} : m \in DOMAIN modules}

\* The imports that cross modules, with what they reach and whether that is declared.
ImportEdges(p, modules, names) ==
    LET roots == DOMAIN modules
        OwnerIn(pkg) == IF pkg \in DOMAIN p.packages THEN Owner(p, roots, pkg) ELSE {}
        crossing == {e \in UNION {{<<a, b>> : b \in p.packages[a].imports} : a \in DOMAIN p.packages} :
                        OwnerIn(e[1]) # {} /\ OwnerIn(e[2]) # {} /\ OwnerIn(e[1]) # OwnerIn(e[2])}
        Edge1(a, b) ==
            LET from == CHOOSE m \in OwnerIn(a) : TRUE
                to == CHOOSE m \in OwnerIn(b) : TRUE
                exposed == IF b = to THEN {""} ELSE {n.name : n \in {x \in names : x.module = to /\ x.pkg = b}}
            IN  [from |-> from, to |-> to, package |-> a, exported |-> exposed # {},
                 allowed |-> \E i \in exposed : [module |-> to, interface |-> i] \in Allowed(modules, from)]
    IN  {Edge1(e[1], e[2]) : e \in crossing}

ImportDiagnostics(edges) ==
    {<<IF e.exported THEN "undeclared-dependency" ELSE "internal-access", e.package>> :
        e \in {x \in edges : ~(x.exported /\ x.allowed)}}

\* The modules that a module uses, directly or not.
Uses(edges, m) ==
    LET Grow(S) == S \cup {e.to : e \in {x \in edges : x.from \in S}}
    IN  FoldLeft(LAMBDA S, k : Grow(S), {e.to : e \in {x \in edges : x.from = m}},
                [k \in 1..Cardinality(edges) |-> k])

\* discoverCycles: one report for each group of modules that use each other.  Members are named by the
\* group here; the code names the first of them and one path.
CycleGroups(edges, roots) ==
    {{n \in roots : n \in Uses(edges, m) /\ m \in Uses(edges, n)} : m \in {x \in roots : x \in Uses(edges, x)}}

\* Focus: the modules that one module needs, or nothing when they use each other.
Focus(edges, roots, m) ==
    LET needed == {m} \cup Uses(edges, m)
    IN  [found |-> m \in roots, cyclic |-> \E n \in needed : n \in Uses(edges, n), modules |-> needed]

\* BuildWithUniverse.
ModulithBuild(p, universe) ==
    LET declared == ModuleRoots(p)
        named == NamedInterfaces(p, DOMAIN declared.modules)
        edges == ImportEdges(p, declared.modules, named.names)
    IN  [roots |-> DOMAIN declared.modules, names |-> named.names, edges |-> edges,
         diagnostics |-> declared.diagnostics \cup AllowedDiagnostics(declared.modules) \cup named.diagnostics
                         \cup DependencyDiagnostics(declared.modules, named.names, universe) \cup ImportDiagnostics(edges)
                         \cup {<<"module-cycle", CHOOSE m \in g : TRUE>> : g \in CycleGroups(edges, DOMAIN declared.modules)}]

\* NewUniverse: what the builds of several platforms know together.
NewUniverse(models) ==
    [m \in UNION {x.roots : x \in models} |-> {n.name : n \in {y \in UNION {x.names : x \in models} : y.module = m}}]
=============================================================================

------------------------------- MODULE Wiring -------------------------------
(***************************************************************************)
(* compiler/graph: which provider supplies which constructor parameter.    *)
(* The graph of a catalog is its edges and diagnostics; its cycles and its *)
(* construction order are the subject of ProviderOrder.                    *)
(***************************************************************************)
EXTENDS ProviderCatalog

CONSTANT NamesInOrder   \* the bean names of the program, sorted
Rank(name) == CHOOSE k \in DOMAIN NamesInOrder : NamesInOrder[k] = name

\* The providers of a type, by their output or an interface they are exposed under.
Lookup(items, type) == {i \in DOMAIN items : Exposes(items[i], type)}

Matches(item, q) == q = item.name \/ q \in ToSet(item.aliases) \/ q \in ToSet(item.quals)
FilterQualified(items, S, quals) == {i \in S : \A q \in ToSet(quals) : Matches(items[i], q)}

\* A provider of the collection itself wins over collecting its elements.
DependencyCandidates(items, dep) ==
    LET whole == IF dep.kind \in {"slice", "map"} THEN Lookup(items, dep.type) ELSE {}
    IN  [kind |-> IF whole # {} THEN "single" ELSE dep.kind,
         found |-> FilterQualified(items, IF whole # {} THEN whole ELSE Lookup(items, MatchType(dep)), dep.quals)]

\* The candidates with a property, if there are any.
Prefer(S, T) == IF S \cap T # {} THEN S \cap T ELSE S

\* Seeded fault: the parameter's name is looked at before fallbacks are left out.
SelectedCandidatesByName(items, S, dep) ==
    Prefer(S, {i \in S : dep.name \in ToSet(Names(items[i]))})

\* Fallbacks only when there is nothing else, then primaries, then the parameter's name.
SelectedCandidates(items, S, dep) ==
    LET regular == Prefer(S, {i \in S : ~items[i].fallback})
        primary == IF Cardinality(regular) > 1 THEN Prefer(regular, {i \in S : items[i].primary}) ELSE regular
    IN  IF Cardinality(primary) > 1 /\ dep.name # ""
        THEN Prefer(primary, {i \in S : dep.name \in ToSet(Names(items[i]))}) ELSE primary

Edge(c, d, dep, kind, position) ==
    [consumer |-> c, dependency |-> d, parameter |-> dep.index, kind |-> kind, position |-> position]

\* Collections are ordered by @Order, then name, then symbol.
Precedes(a, b) ==
    \/ a.order < b.order
    \/ a.order = b.order /\ (Rank(a.name) < Rank(b.name) \/ (a.name = b.name /\ a.id < b.id))
CollectionPosition(items, S, i) == Cardinality({j \in S : Precedes(items[j], items[i])})

ConnectCollection(items, c, dep, kind, S) ==
    IF kind = "map" /\ \E i, j \in S : i # j /\ items[i].name = items[j].name
    THEN [edges |-> {}, diagnostics |-> {<<"duplicate-collection-name", items[c].id>>}]
    ELSE IF \E i \in S : items[i].scope # "singleton"
    THEN [edges |-> {}, diagnostics |-> {<<"scope-mismatch", items[c].id>>}]
    ELSE [edges |-> {Edge(c, i, dep, kind, CollectionPosition(items, S, i)) : i \in S}, diagnostics |-> {}]

ConnectSingle(items, c, dep, kind, S) ==
    LET selected == SelectedCandidates(items, S, dep)
        only == CHOOSE i \in selected : TRUE
        Failed(k) == [edges |-> {}, diagnostics |-> {<<k, items[c].id>>}]
    IN  CASE S = {} /\ dep.kind = "optional" -> [edges |-> {}, diagnostics |-> {}]
          [] S = {} /\ dep.kind # "optional" -> Failed("missing-dependency")
          [] S # {} /\ Cardinality(selected) # 1 -> Failed("ambiguous-dependency")
          [] S # {} /\ Cardinality(selected) = 1 /\ items[only].scope # "singleton" /\ dep.kind # "provider" ->
                Failed("scope-mismatch")
          [] OTHER -> [edges |-> {Edge(c, only, dep, kind, 0)}, diagnostics |-> {}]

ConnectDependency(items, c, dep) ==
    LET candidates == DependencyCandidates(items, dep)
    IN  IF candidates.kind \in {"slice", "map"}
        THEN ConnectCollection(items, c, dep, candidates.kind, candidates.found)
        ELSE ConnectSingle(items, c, dep, candidates.kind, candidates.found)

Inputs(items) == UNION {{<<c, d>> : d \in DOMAIN items[c].deps} : c \in DOMAIN items}

\* The providers from which a provider can be reached.
RequiredBy(edges, n) ==
    LET Grow(S) == S \cup {e.dependency : e \in {x \in edges : x.consumer \in S}}
        direct == {e.dependency : e \in {x \in edges : x.consumer = n}}
    IN  FoldLeft(LAMBDA S, k : Grow(S), direct, [k \in 1..Cardinality(edges) |-> k])

\* Build: the edges and the diagnostics of a catalog without diagnostics; ProviderOrder shows that a
\* cycle is reported exactly for each component with one, at its first provider.
BuildGraph(catalog) ==
    LET items == catalog.providers
        linked == {ConnectDependency(items, x[1], items[x[1]].deps[x[2]]) : x \in Inputs(items)}
        edges == UNION {l.edges : l \in linked}
        cyclic == {n \in DOMAIN items : n \in RequiredBy(edges, n)}
        first == {n \in cyclic : \A m \in RequiredBy(edges, n) : n \in RequiredBy(edges, m) => n <= m}
    IN  IF catalog.diagnostics # {} THEN [edges |-> {}, diagnostics |-> {}]
        ELSE [edges |-> edges,
              diagnostics |-> (UNION {l.diagnostics : l \in linked}) \cup {<<"cycle", items[n].id>> : n \in first}]
=============================================================================

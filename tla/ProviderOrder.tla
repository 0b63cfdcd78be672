----------------------------- MODULE ProviderOrder -----------------------------
(***************************************************************************)
(* How the compiler orders the construction of beans (compiler/graph/      *)
(* build.go) and reorders it for transactional services                    *)
(* (orderProvidersForPolicies in compiler/application/application.go).     *)
(*                                                                         *)
(* Providers are numbered in the order of their symbol IDs; deps is what   *)
(* each one needs.  The dependencies are searched for cycles (Tarjan's     *)
(* strongly connected components, with the recursion of visit kept as a    *)
(* sequence of frames), a representative of every cycle is found by a      *)
(* depth-first search, and an acyclic graph is ordered by repeatedly       *)
(* taking the least provider all of whose dependencies are constructed.    *)
(* A second ordering adds an edge from every transactional service to the  *)
(* provider of its *data.Manager.                                          *)
(*                                                                         *)
(* A definition directly above another of a similar name is a seeded       *)
(* fault: the code with one mistake, used only to show that the            *)
(* properties notice it.                                                   *)
(***************************************************************************)
EXTENDS Integers, Sequences, FiniteSets, SequencesExt

CONSTANTS
    N,              \* number of providers
    SelfLoops       \* the providers that may need their own output

Nodes == 1..N

ASSUME OrderAssumption == N \in Nat /\ SelfLoops \subseteq Nodes

VARIABLES
    phase,          \* "visit", "report", "search", "order", "ordered", "policies", or an end
    deps,           \* the dependencies of each provider
    \* stronglyConnected
    index,          \* indices: -1 if not visited
    lowlink,        \* lowlinks
    stack,          \* the nodes whose component is not known yet
    frames,         \* the calls of visit: a node and the dependencies it has yet to look at
    nextIndex,      \* the next index
    components,     \* the components
    \* representativeCycle
    cyclic,         \* the cyclic components that have no diagnostic yet
    path,           \* the nodes of the search
    choices,        \* for each node of the path the successors yet to try
    reported,       \* the cycles in the diagnostics
    \* constructionOrder
    remaining,      \* the number of dependencies that are not in order
    ready,          \* the providers to take next
    order,          \* the construction order
    \* orderProvidersForPolicies
    graphOrder,     \* the order that graph.Build returned
    managers,       \* the *data.Manager of each service, 0 for a provider without one
    blamed          \* the service named by the diagnostic, or 0

tarjanVars == <<index, lowlink, stack, frames, nextIndex, components>>
cycleVars == <<cyclic, path, choices, reported>>
orderVars == <<remaining, ready, order>>
vars == <<phase, deps, tarjanVars, cycleVars, orderVars, graphOrder, managers, blamed>>

Least(S) == CHOOSE x \in S : \A y \in S : x <= y
Smaller(a, b) == IF a < b THEN a ELSE b
Elements(s) == {s[i] : i \in 1..Len(s)}
Top(s) == s[Len(s)]

Init ==
    /\ phase = "visit"
    /\ deps \in [Nodes -> SUBSET Nodes]
    /\ \A n \in Nodes \ SelfLoops : n \notin deps[n]
    /\ index = [n \in Nodes |-> -1]
    /\ lowlink = [n \in Nodes |-> -1]
    /\ stack = <<>> /\ frames = <<>>
    /\ nextIndex = 0
    /\ components = {}
    /\ cyclic = {} /\ path = <<>> /\ choices = <<>> /\ reported = {}
    /\ remaining = [n \in Nodes |-> 0]
    /\ ready = {}
    /\ order = <<>> /\ graphOrder = <<>>
    /\ managers = [n \in Nodes |-> 0]
    /\ blamed = 0

-----------------------------------------------------------------------------
(* stronglyConnected.                                                      *)

OnStack(n) == n \in Elements(stack)

\* visit(n) begins.
Visit(n) ==
    /\ index' = [index EXCEPT ![n] = nextIndex]
    /\ lowlink' = [lowlink EXCEPT ![n] = nextIndex]
    /\ nextIndex' = nextIndex + 1
    /\ stack' = Append(stack, n)

\* The loop over all nodes takes the next one that was not visited.
VisitRoot ==
    LET fresh == {n \in Nodes : index[n] = -1}
    IN  /\ phase = "visit" /\ frames = <<>> /\ fresh # {}
        /\ Visit(Least(fresh))
        /\ frames' = <<[node |-> Least(fresh), todo |-> deps[Least(fresh)]]>>
        /\ UNCHANGED <<phase, deps, components, cycleVars, orderVars, graphOrder, managers, blamed>>

\* The next dependency of the node on top: visited first, or an edge back into the stack.
VisitEdge ==
    LET top == Top(frames)
        d == Least(top.todo)
        rest == [frames EXCEPT ![Len(frames)].todo = @ \ {d}]
    IN  /\ phase = "visit" /\ frames # <<>> /\ top.todo # {}
        /\ IF index[d] = -1
           THEN Visit(d) /\ frames' = Append(rest, [node |-> d, todo |-> deps[d]])
           ELSE /\ lowlink' = IF OnStack(d) THEN [lowlink EXCEPT ![top.node] = Smaller(@, index[d])]
                              ELSE lowlink
                /\ frames' = rest
                /\ UNCHANGED <<index, stack, nextIndex>>
        /\ UNCHANGED <<phase, deps, components, cycleVars, orderVars, graphOrder, managers, blamed>>

\* Nodes are popped up to and including the root of the component.
Popped(node) ==
    LET at == CHOOSE i \in 1..Len(stack) : stack[i] = node
    IN  [left |-> SubSeq(stack, 1, at - 1), members |-> {stack[i] : i \in at..Len(stack)}]

\* visit returns: a node that reaches nothing older is the root of a component, and the caller
\* takes over the lowlink.
VisitReturn ==
    LET top == Top(frames)
        node == top.node
    IN  /\ phase = "visit" /\ frames # <<>> /\ top.todo = {}
        /\ IF lowlink[node] = index[node]
           THEN /\ stack' = Popped(node).left
                /\ components' = components \cup {Popped(node).members}
           ELSE UNCHANGED <<stack, components>>
        /\ frames' = Front(frames)
        /\ lowlink' = IF Len(frames) = 1 THEN lowlink
                      ELSE [lowlink EXCEPT ![frames[Len(frames) - 1].node] = Smaller(@, lowlink[node])]
        /\ UNCHANGED <<phase, deps, index, nextIndex, cycleVars, orderVars, graphOrder, managers, blamed>>

IsCyclic(c) == Cardinality(c) > 1 \/ Least(c) \in deps[Least(c)]

\* Every provider is visited: the cyclic components get a diagnostic each.
EndVisit ==
    /\ phase = "visit" /\ frames = <<>> /\ \A n \in Nodes : index[n] # -1
    /\ cyclic' = {c \in components : IsCyclic(c)}
    /\ phase' = "report"
    /\ UNCHANGED <<deps, tarjanVars, path, choices, reported, orderVars, graphOrder, managers, blamed>>

-----------------------------------------------------------------------------
(* cycleDiagnostic and representativeCycle.                                *)

\* The component with the least first member.
Component == CHOOSE c \in cyclic : \A other \in cyclic : Least(c) <= Least(other)

Report(cycle) ==
    /\ reported' = reported \cup {cycle}
    /\ cyclic' = cyclic \ {Component}
    /\ path' = <<>> /\ choices' = <<>>
    /\ phase' = "report"

\* A provider that needs itself is its own cycle; otherwise the search starts.
BeginCycle ==
    LET start == Least(Component)
    IN  /\ phase = "report" /\ cyclic # {}
        /\ IF start \in deps[start]
           THEN Report(<<start, start>>)
           ELSE /\ path' = <<start>>
                /\ choices' = <<deps[start]>>
                /\ phase' = "search"
                /\ UNCHANGED <<cyclic, reported>>
        /\ UNCHANGED <<deps, tarjanVars, orderVars, graphOrder, managers, blamed>>

\* The next successor of the last node: outside, the start, already on the path, or further.
SearchNext ==
    LET n == Least(Top(choices))
        rest == [choices EXCEPT ![Len(choices)] = @ \ {n}]
    IN  /\ phase = "search" /\ choices # <<>> /\ Top(choices) # {}
        /\ IF n = Least(Component)
           THEN Report(Append(path, n))
           ELSE /\ IF n \in Component /\ n \notin Elements(path)
                   THEN path' = Append(path, n) /\ choices' = Append(rest, deps[n])
                   ELSE path' = path /\ choices' = rest
                /\ UNCHANGED <<phase, cyclic, reported>>
        /\ UNCHANGED <<deps, tarjanVars, orderVars, graphOrder, managers, blamed>>

\* Seeded fault: the node that led nowhere stays in the path.
SearchBackKeeps ==
    /\ phase = "search" /\ choices # <<>> /\ Top(choices) = {}
    /\ path' = path
    /\ choices' = Front(choices)
    /\ UNCHANGED <<phase, deps, tarjanVars, cyclic, reported, orderVars, graphOrder, managers, blamed>>

SearchBack ==
    /\ phase = "search" /\ choices # <<>> /\ Top(choices) = {}
    /\ path' = Front(path)
    /\ choices' = Front(choices)
    /\ UNCHANGED <<phase, deps, tarjanVars, cyclic, reported, orderVars, graphOrder, managers, blamed>>

-----------------------------------------------------------------------------
(* constructionOrder.                                                      *)

Count(d) == [n \in Nodes |-> Cardinality(d[n])]

\* With a diagnostic there is no order.
EndReport ==
    /\ phase = "report" /\ cyclic = {}
    /\ IF reported # {}
       THEN phase' = "cycles" /\ UNCHANGED orderVars
       ELSE /\ phase' = "order"
            /\ remaining' = Count(deps)
            /\ ready' = {n \in Nodes : deps[n] = {}}
            /\ order' = <<>>
    /\ UNCHANGED <<deps, tarjanVars, cycleVars, graphOrder, managers, blamed>>

\* Seeded fault: a consumer is ready when its first dependency is constructed.
ReadyEarly(node) == {c \in Nodes : node \in deps[c] /\ c \notin ready}

\* The consumers whose last dependency is this node.
NowReady(node) == {c \in Nodes : node \in deps[c] /\ remaining[c] = 1}

\* Seeded fault: any ready provider is taken, as from an unordered queue.
NextReadyAny(node) == node \in ready

\* heap.Pop takes the least one.
NextReady(node) == node \in ready /\ node = Least(ready)

Take(node) ==
    /\ phase \in {"order", "policies"}
    /\ NextReady(node)
    /\ order' = Append(order, node)
    /\ remaining' = [c \in Nodes |-> IF node \in deps[c] THEN remaining[c] - 1 ELSE remaining[c]]
    /\ ready' = (ready \ {node}) \cup NowReady(node)
    /\ UNCHANGED <<phase, deps, tarjanVars, cycleVars, graphOrder, managers, blamed>>

EndOrder ==
    /\ phase = "order" /\ ready = {}
    /\ graphOrder' = order
    /\ phase' = "ordered"
    /\ UNCHANGED <<deps, tarjanVars, cycleVars, orderVars, managers, blamed>>

-----------------------------------------------------------------------------
(* orderProvidersForPolicies, after compilerpolicy has found the managers. *)

\* There is exactly one provider of *data.Manager, and it is not a transactional service itself.
ManagersOf(manager, services) == [s \in Nodes |-> IF s \in services THEN manager ELSE 0]

\* The edges of the second ordering.
WithManagers(m) == [s \in Nodes |-> deps[s] \cup ({m[s]} \ {0})]

\* Duplicate edges are counted once.
CountOnce(m) == Count(WithManagers(m))

BeginPolicies(m) ==
    /\ phase = "ordered"
    /\ deps' = WithManagers(m)
    /\ remaining' = CountOnce(m)
    /\ ready' = {n \in Nodes : WithManagers(m)[n] = {}}
    /\ order' = <<>>
    /\ managers' = m
    /\ phase' = "policies"
    /\ UNCHANGED <<tarjanVars, cycleVars, graphOrder, blamed>>

EndPolicies ==
    /\ phase = "policies" /\ ready = {} /\ Len(order) = N
    /\ phase' = "done"
    /\ UNCHANGED <<deps, tarjanVars, cycleVars, orderVars, graphOrder, managers, blamed>>

Waiting == {s \in Nodes : managers[s] # 0 /\ remaining[s] > 0}

\* The first service with a manager that is still waiting is named; the last return of the
\* function names nobody.
PolicyCycle ==
    /\ phase = "policies" /\ ready = {} /\ Len(order) < N
    /\ blamed' = IF Waiting = {} THEN 0 ELSE Least(Waiting)
    /\ phase' = "policyCycle"
    /\ UNCHANGED <<deps, tarjanVars, cycleVars, orderVars, graphOrder, managers>>

-----------------------------------------------------------------------------
\* The model is complete or has diagnostics.
Ended == phase \in {"cycles", "done", "policyCycle"} /\ UNCHANGED vars

Step ==
    \/ VisitRoot \/ VisitEdge \/ VisitReturn \/ EndVisit
    \/ BeginCycle \/ SearchNext \/ SearchBack \/ EndReport
    \/ \E n \in Nodes : Take(n)
    \/ EndOrder \/ (\E m \in Nodes, S \in SUBSET Nodes : m \notin S /\ BeginPolicies(ManagersOf(m, S))) \/ EndPolicies \/ PolicyCycle

Next == Step \/ Ended

Spec == Init /\ [][Next]_vars

-----------------------------------------------------------------------------
(* Properties.                                                             *)

\* What can be reached from a node, the node included: the least set closed under deps.
Reach(n) ==
    {m \in Nodes : \A S \in SUBSET Nodes :
        n \in S /\ (\A s \in S : deps[s] \subseteq S) => m \in S}

\* What can be reached in one step or more.
After(n) == UNION {Reach(d) : d \in deps[n]}

\* A cycle of the graph: it starts and ends at its least provider, follows dependencies and
\* repeats no other provider.
IsCycle(c) ==
    /\ Len(c) > 1 /\ c[1] = c[Len(c)]
    /\ \A i \in 1..(Len(c) - 1) : c[i + 1] \in deps[c[i]] /\ c[1] <= c[i]
    /\ Cardinality(Elements(c)) = Len(c) - 1

\* Cycles are reported exactly where they are: what a diagnostic shows is a cycle, the search
\* always finds one, so the fallback after it is never reached ("Tarjan guarantees a path for an
\* SCC"), and the providers that need themselves are those of the components with a diagnostic.
CyclesAreExact ==
    /\ \A c \in reported : IsCycle(c)
    /\ phase = "search" => path # <<>>
    /\ phase \in {"cycles", "order"} =>
         \A n \in Nodes : n \in After(n) <=>
             \E c \in components : n \in c /\ \E r \in reported : Elements(r) \subseteq c

\* A provider is constructed after everything it needs, its manager included, and only once.
DependencyFirst ==
    /\ \A i \in 1..Len(order) : \A d \in deps[order[i]] : \E j \in 1..(i - 1) : order[j] = d
    /\ \A i, j \in 1..Len(order) : order[i] = order[j] => i = j

\* When an ordering ends, a provider that it leaves out waits for another one that it leaves out:
\* only a cycle keeps a provider from being constructed.
LeftOutWaits ==
    phase \in {"ordered", "done", "policyCycle"} =>
        \A n \in Nodes \ Elements(order) : deps[n] \ Elements(order) # {}

\* A provider is never constructed too early and, but for cycles, never forgotten.
OrderIsSound == DependencyFirst /\ LeftOutWaits

Topological(s) ==
    \A i, j \in 1..N : s[j] \in deps[s[i]] => j < i
Precedes(s, t) ==
    s = t \/ \E k \in 1..N : s[k] < t[k] /\ \A i \in 1..(k - 1) : s[i] = t[i]

\* A finished order has every provider and is the first one, by symbol IDs, of all the orders that
\* respect the dependencies: it is determined by the graph alone.  The second ordering rejects a
\* model only for a cycle that the managers close, and without managers it changes nothing.
OrderIsLeast ==
    /\ phase \in {"ordered", "done"} =>
         /\ Len(order) = N
         /\ \A s \in [Nodes -> Nodes] : Elements(s) = Nodes /\ Topological(s) => Precedes(order, s)
    /\ phase = "policyCycle" => (\E n \in Nodes : n \in After(n)) /\ blamed # 0
    /\ phase = "done" =>
         /\ \A s \in Nodes : managers[s] # 0 =>
              \E i, j \in Nodes : i < j /\ order[i] = managers[s] /\ order[j] = s
         /\ managers = [s \in Nodes |-> 0] => order = graphOrder
================================================================================

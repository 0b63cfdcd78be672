--------------------------- MODULE ConstructionProofs ---------------------------
(***************************************************************************)
(* The construction order of the providers, and the application that is    *)
(* generated from it.                                                      *)
(*                                                                         *)
(* The construction order respects every dependency, constructs no         *)
(* provider twice and leaves out only providers that wait for each other,  *)
(* for any number of providers and any graph.  The inductive invariant     *)
(* says what the two data structures of constructionOrder mean: remaining  *)
(* counts the dependencies that are not placed, and ready holds exactly    *)
(* the providers that could be placed next.                                *)
(*                                                                         *)
(* A finished order is the first one, by symbol IDs, of all those that     *)
(* respect the dependencies.  This needs the search for components: it     *)
(* has reported every cycle, so what it lets through can be ordered.       *)
(* VisitInv is the part of Tarjan's algorithm that says so: a component    *)
(* is finished after everything it needs, and if no component is cyclic,   *)
(* every set of finished providers has one that needs no other of the set. *)
(* Least elements and cycles come from the well-foundedness of < and of    *)
(* the inclusion of finite sets (WFMin).                                   *)
(*                                                                         *)
(* Cycles are reported exactly where they are.  ConnectInv is the other    *)
(* part of Tarjan's algorithm: what is taken from the stack is connected,  *)
(* that is, no part of it needs nothing of the rest, and it is separate    *)
(* from what it needs.  PathInv says that the search for a representative  *)
(* has a way back to its start that it has yet to try.                     *)
(*                                                                         *)
(* The generated application.  WellBuilt says what its program is, given   *)
(* providers in construction order; it is preserved by every part that the *)
(* renderer appends, and for the providers by induction over their number. *)
(* BeanInv then follows the program and the list of cleanups: the places   *)
(* at which the cleanups were registered decide in which order beans are   *)
(* released.  WorkInv says what tasks, jobs and calls keep alive, CallInv  *)
(* where a call is in its layers.                                          *)
(***************************************************************************)
EXTENDS ProviderOrder, GeneratedApp, FiniteSetTheorems, SequenceTheorems, WellFoundedInduction, TLAPS

Placed == Elements(order)

\* The types of what the orderings use.
OrderTypes ==
    /\ order \in Seq(Nodes)
    /\ deps \in [Nodes -> SUBSET Nodes]

\* remaining[c] is the number of dependencies of c that are not placed.
RemainingCounts ==
    phase \in {"order", "policies"} =>
        /\ remaining \in [Nodes -> Int]
        /\ \A c \in Nodes : remaining[c] = Cardinality(deps[c] \ Placed)

\* ready holds the providers that are not placed and whose dependencies all are.
ReadyIsExact ==
    phase \in {"order", "policies"} =>
        ready = {n \in Nodes \ Placed : deps[n] \subseteq Placed}

\* Nothing is placed before the first ordering.
NothingPlaced == phase \in {"visit", "report", "search"} => order = <<>>

OrderInv ==
    /\ OrderTypes
    /\ DependencyFirst
    /\ RemainingCounts
    /\ ReadyIsExact
    /\ NothingPlaced
    /\ LeftOutWaits

-----------------------------------------------------------------------------
\* An empty order has no elements and satisfies DependencyFirst whatever the dependencies.
LEMMA EmptyOrder ==
    ASSUME order = <<>>
    PROVE  /\ order \in Seq(Nodes) /\ Placed = {} /\ DependencyFirst
  BY DEF Placed, Elements, DependencyFirst

\* Sets of providers are finite: dependencies can be counted (len(dependencies) in
\* constructionOrder).
LEMMA NodesFinite ==
    ASSUME NEW S \in SUBSET Nodes
    PROVE  IsFiniteSet(S) /\ Cardinality(S) \in Nat
  <1>1. IsFiniteSet(Nodes)
    BY FS_Interval, OrderAssumption DEF Nodes
  <1>2. IsFiniteSet(S)
    BY <1>1, FS_Subset
  <1> QED
    BY <1>2, FS_CardinalityType

\* Appending a provider adds it to the placed ones and leaves the earlier positions alone.
LEMMA AppendPlaced ==
    ASSUME order \in Seq(Nodes), NEW node \in Nodes, order' = Append(order, node)
    PROVE  /\ order' \in Seq(Nodes)
           /\ Len(order) \in Nat
           /\ Len(order') = Len(order) + 1
           /\ order'[Len(order) + 1] = node
           /\ \A i \in 1..Len(order) : order'[i] = order[i]
           /\ Placed' = Placed \cup {node}
  <1>1. /\ order' \in Seq(Nodes)
        /\ Len(order) \in Nat
        /\ Len(order') = Len(order) + 1
        /\ order'[Len(order) + 1] = node
        /\ \A i \in 1..Len(order) : order'[i] = order[i]
    OBVIOUS
  <1>2. 1..(Len(order) + 1) = (1..Len(order)) \cup {Len(order) + 1}
    BY <1>1
  <1>3. Placed' = {order'[i] : i \in 1..(Len(order) + 1)}
    BY <1>1 DEF Placed, Elements
  <1>4. ASSUME NEW x PROVE x \in Placed' <=> x \in Placed \cup {node}
    <2>1. x \in Placed' <=> \E i \in 1..(Len(order) + 1) : x = order'[i]
      BY <1>3
    <2>2. x \in Placed <=> \E i \in 1..Len(order) : x = order[i]
      BY DEF Placed, Elements
    <2> QED
      BY <2>1, <2>2, <1>1, <1>2
  <1> QED
    BY <1>1, <1>4

\* An ordering that starts with an empty order: what EndReport and BeginPolicies establish.
LEMMA FreshOrder ==
    ASSUME deps' \in [Nodes -> SUBSET Nodes], order' = <<>>,
           remaining' = [n \in Nodes |-> Cardinality(deps'[n])],
           ready' = {n \in Nodes : deps'[n] = {}},
           phase' \in {"order", "policies"}
    PROVE  OrderInv'
  <1>1. order' \in Seq(Nodes) /\ Placed' = {} /\ DependencyFirst'
    BY DEF Placed, Elements, DependencyFirst
  <1>2. ASSUME NEW c \in Nodes PROVE deps'[c] \ Placed' = deps'[c] /\ Cardinality(deps'[c]) \in Nat
    BY <1>1, NodesFinite
  <1>3. RemainingCounts'
    BY <1>2 DEF RemainingCounts
  <1>4. ReadyIsExact'
    BY <1>1 DEF ReadyIsExact
  <1>5. NothingPlaced' /\ LeftOutWaits'
    BY DEF NothingPlaced, LeftOutWaits
  <1> QED
    BY <1>1, <1>3, <1>4, <1>5 DEF OrderInv, OrderTypes

\* A step that leaves the dependencies and the order alone, outside the orderings or to their end.
LEMMA OrderUntouched ==
    ASSUME OrderInv, deps' = deps, order' = order,
           phase' \notin {"order", "policies"},
           phase' \in {"visit", "report", "search"} => phase \in {"visit", "report", "search"},
           LeftOutWaits'
    PROVE  OrderInv'
  BY DEF OrderInv, OrderTypes, DependencyFirst, RemainingCounts, ReadyIsExact, NothingPlaced

-----------------------------------------------------------------------------
\* Placing a ready provider keeps the invariant: the heart of constructionOrder.
LEMMA TakeInv ==
    ASSUME OrderInv, NEW node \in Nodes, Take(node)
    PROVE  OrderInv'
  <1>1. /\ phase \in {"order", "policies"} /\ phase' = phase
        /\ node \in ready /\ deps' = deps
        /\ order' = Append(order, node)
        /\ remaining' = [c \in Nodes |-> IF node \in deps[c] THEN remaining[c] - 1 ELSE remaining[c]]
        /\ ready' = (ready \ {node}) \cup NowReady(node)
    BY DEF Take, NextReady
  <1>2. /\ order \in Seq(Nodes) /\ deps \in [Nodes -> SUBSET Nodes]
        /\ remaining \in [Nodes -> Int]
        /\ \A c \in Nodes : remaining[c] = Cardinality(deps[c] \ Placed)
        /\ ready = {n \in Nodes \ Placed : deps[n] \subseteq Placed}
    BY <1>1 DEF OrderInv, OrderTypes, RemainingCounts, ReadyIsExact
  <1>3. /\ order' \in Seq(Nodes)
        /\ Len(order) \in Nat
        /\ Len(order') = Len(order) + 1
        /\ order'[Len(order) + 1] = node
        /\ \A i \in 1..Len(order) : order'[i] = order[i]
        /\ Placed' = Placed \cup {node}
    BY <1>1, <1>2, AppendPlaced
  <1>4. node \notin Placed /\ deps[node] \subseteq Placed
    BY <1>1, <1>2
  <1>5. \A c \in Nodes : c \in Placed => deps[c] \subseteq Placed
    <2> SUFFICES ASSUME NEW c \in Placed, NEW d \in deps[c] PROVE d \in Placed
      OBVIOUS
    <2>1. PICK i \in 1..Len(order) : order[i] = c
      BY DEF Placed, Elements
    <2>2. \E j \in 1..Len(order) : order[j] = d
      BY <1>2, <2>1 DEF OrderInv, DependencyFirst
    <2> QED BY <2>2 DEF Placed, Elements
  <1>6. DependencyFirst'
    <2>1. ASSUME NEW i \in 1..Len(order'), NEW d \in deps'[order'[i]]
          PROVE  \E j \in 1..(i - 1) : order'[j] = d
      <3>1. CASE i \in 1..Len(order)
        <4>1. order'[i] = order[i]
          BY <3>1, <1>3
        <4>2. PICK j \in 1..(i - 1) : order[j] = d
          BY <2>1, <3>1, <4>1, <1>1 DEF OrderInv, DependencyFirst
        <4>3. j \in 1..Len(order)
          BY <3>1, <1>3
        <4> QED
          BY <4>2, <4>3, <1>3
      <3>2. CASE i = Len(order) + 1
        <4>1. d \in Placed
          BY <2>1, <3>2, <1>1, <1>3, <1>4
        <4>2. PICK j \in 1..Len(order) : order[j] = d
          BY <4>1 DEF Placed, Elements
        <4> QED
          BY <4>2, <3>2, <1>3
      <3> QED
        BY <3>1, <3>2, <1>3
    <2>2. ASSUME NEW i \in 1..Len(order'), NEW j \in 1..Len(order'), order'[i] = order'[j]
          PROVE  i = j
      <3>1. \A k \in 1..Len(order) : order'[k] # node
        BY <1>3, <1>4 DEF Placed, Elements
      <3>2. CASE i \in 1..Len(order) /\ j \in 1..Len(order)
        BY <2>2, <3>2, <1>3 DEF OrderInv, DependencyFirst
      <3>3. CASE i = Len(order) + 1 \/ j = Len(order) + 1
        BY <2>2, <3>1, <3>3, <1>3
      <3> QED
        BY <3>2, <3>3, <1>3
    <2> QED
      BY <2>1, <2>2 DEF DependencyFirst
  <1>7. RemainingCounts'
    <2>1. ASSUME NEW c \in Nodes PROVE remaining'[c] = Cardinality(deps'[c] \ Placed')
      <3>1. deps[c] \ Placed \in SUBSET Nodes
        BY <1>2
      <3>2. IsFiniteSet(deps[c] \ Placed)
        BY <3>1, NodesFinite
      <3>3. deps'[c] \ Placed' = (deps[c] \ Placed) \ {node}
        BY <1>1, <1>3
      <3>4. Cardinality((deps[c] \ Placed) \ {node})
              = IF node \in deps[c] \ Placed THEN Cardinality(deps[c] \ Placed) - 1
                ELSE Cardinality(deps[c] \ Placed)
        BY <3>2, FS_RemoveElement
      <3> QED
        BY <3>3, <3>4, <1>1, <1>2, <1>4
    <2>2. remaining' \in [Nodes -> Int]
      BY <1>1, <1>2
    <2> QED
      BY <2>1, <2>2 DEF RemainingCounts
  <1>8. ReadyIsExact'
    <2>1. ASSUME NEW c \in Nodes
          PROVE  c \in ready' <=> c \notin Placed' /\ deps'[c] \subseteq Placed'
      <3>1. CASE node \in deps[c]
        <4>1. c \notin Placed /\ c # node /\ c \notin ready
          BY <3>1, <1>2, <1>4, <1>5
        <4>2. deps[c] \ Placed \in SUBSET Nodes
          BY <1>2
        <4>3. Cardinality(deps[c] \ Placed) = 1 <=> \E x : deps[c] \ Placed = {x}
          BY <4>2, NodesFinite, FS_Singleton
        <4>4. node \in deps[c] \ Placed
          BY <3>1, <1>4
        <4>5. remaining[c] = 1 <=> deps[c] \subseteq Placed \cup {node}
          BY <4>3, <4>4, <1>2, ZenonT(30)
        <4>6. c \in ready' <=> remaining[c] = 1
          BY <3>1, <4>1, <1>1 DEF NowReady
        <4> QED
          BY <4>1, <4>5, <4>6, <1>1, <1>3
      <3>2. CASE node \notin deps[c]
        <4>1. c \in ready' <=> c \in ready /\ c # node
          BY <3>2, <1>1 DEF NowReady
        <4> QED
          BY <4>1, <3>2, <1>1, <1>2, <1>3
      <3> QED
        BY <3>1, <3>2
    <2>2. ready' \subseteq Nodes
      BY <1>1, <1>2 DEF NowReady
    <2> QED
      BY <2>1, <2>2 DEF ReadyIsExact
  <1>9. NothingPlaced' /\ LeftOutWaits'
    BY <1>1 DEF NothingPlaced, LeftOutWaits
  <1> QED
    BY <1>1, <1>2, <1>3, <1>6, <1>7, <1>8, <1>9 DEF OrderInv, OrderTypes

-----------------------------------------------------------------------------
\* No provider is placed when the compiler starts.
LEMMA OrderInvInit == Init => OrderInv
  <1> SUFFICES ASSUME Init PROVE OrderInv
    OBVIOUS
  <1>1. order = <<>> /\ phase = "visit" /\ deps \in [Nodes -> SUBSET Nodes]
    BY DEF Init
  <1>2. order \in Seq(Nodes) /\ DependencyFirst
    BY <1>1, EmptyOrder
  <1> QED
    BY <1>1, <1>2
    DEF OrderInv, OrderTypes, RemainingCounts, ReadyIsExact, NothingPlaced, LeftOutWaits

\* When ready is empty, whoever is left out waits for someone who is left out.
LEMMA NobodyReady ==
    ASSUME OrderInv, phase \in {"order", "policies"}, ready = {}
    PROVE  \A n \in Nodes \ Elements(order) : deps[n] \ Elements(order) # {}
  BY DEF OrderInv, ReadyIsExact, Placed

\* Every step of the compiler keeps the invariant.
LEMMA OrderInvNext == OrderInv /\ [Next]_vars => OrderInv'
  <1> SUFFICES ASSUME OrderInv, [Next]_vars PROVE OrderInv'
    OBVIOUS
  <1>1. ASSUME phase \in {"visit", "report", "search"}, phase' \in {"visit", "report", "search", "cycles"},
               deps' = deps, order' = order
        PROVE  OrderInv'
    <2>1. LeftOutWaits'
      BY <1>1 DEF LeftOutWaits
    <2> QED
      BY <1>1, <2>1, OrderUntouched
  <1>2. CASE VisitRoot \/ VisitEdge \/ VisitReturn
    BY <1>1, <1>2 DEF VisitRoot, VisitEdge, VisitReturn, orderVars
  <1>3. CASE EndVisit
    BY <1>1, <1>3 DEF EndVisit, orderVars
  <1>4. CASE BeginCycle \/ SearchNext \/ SearchBack
    BY <1>1, <1>4 DEF BeginCycle, SearchNext, SearchBack, Report, orderVars
  <1>5. CASE EndReport
    <2>1. CASE reported # {}
      BY <1>1, <1>5, <2>1 DEF EndReport, orderVars
    <2>2. CASE reported = {}
      <3>1. deps' \in [Nodes -> SUBSET Nodes]
        BY <1>5 DEF EndReport, OrderInv, OrderTypes
      <3> QED
        BY <1>5, <2>2, <3>1, FreshOrder DEF EndReport, Count
    <2> QED
      BY <2>1, <2>2
  <1>6. CASE \E n \in Nodes : Take(n)
    BY <1>6, TakeInv
  <1>7. CASE EndOrder
    <2>1. phase = "order" /\ ready = {} /\ phase' = "ordered" /\ order' = order /\ deps' = deps
      BY <1>7 DEF EndOrder, orderVars
    <2>2. LeftOutWaits'
      BY <2>1, NobodyReady DEF LeftOutWaits
    <2> QED
      BY <2>1, <2>2, OrderUntouched
  <1>8. CASE \E m \in Nodes, S \in SUBSET Nodes : m \notin S /\ BeginPolicies(ManagersOf(m, S))
    <2>1. PICK m \in Nodes, S \in SUBSET Nodes : BeginPolicies(ManagersOf(m, S))
      BY <1>8
    <2>2. ManagersOf(m, S) \in [Nodes -> Nodes \cup {0}]
      BY DEF ManagersOf
    <2>3. deps \in [Nodes -> SUBSET Nodes]
      BY DEF OrderInv, OrderTypes
    <2>4. WithManagers(ManagersOf(m, S)) \in [Nodes -> SUBSET Nodes]
      BY <2>2, <2>3 DEF WithManagers
    <2> QED
      BY <2>1, <2>4, FreshOrder DEF BeginPolicies, CountOnce, Count
  <1>9. CASE EndPolicies \/ PolicyCycle
    <2>1. /\ phase = "policies" /\ ready = {} /\ phase' \in {"done", "policyCycle"}
          /\ order' = order /\ deps' = deps
      BY <1>9 DEF EndPolicies, PolicyCycle, orderVars
    <2>2. LeftOutWaits'
      BY <2>1, NobodyReady DEF LeftOutWaits
    <2> QED
      BY <2>1, <2>2, OrderUntouched
  <1>10. CASE UNCHANGED vars
    BY <1>10 DEF vars, orderVars, OrderInv, OrderTypes, DependencyFirst, RemainingCounts,
       ReadyIsExact, NothingPlaced, LeftOutWaits, Placed
  <1> QED
    BY <1>2, <1>3, <1>4, <1>5, <1>6, <1>7, <1>8, <1>9, <1>10 DEF Next, Step, Ended

\* For every number of providers and every graph, constructionOrder and orderProvidersForPolicies
\* place a provider after everything it needs, and only once.
THEOREM OrderRespectsDependencies == Spec => []DependencyFirst
  <1>1. OrderInv => DependencyFirst
    BY DEF OrderInv
  <1> QED
    BY <1>1, OrderInvInit, OrderInvNext, PTL DEF Spec

\* For every number of providers and every graph, a finished ordering leaves out a provider only if
\* it waits for another one that is left out.
THEOREM OnlyCyclesAreLeftOut == Spec => []LeftOutWaits
  <1>1. OrderInv => LeftOutWaits
    BY DEF OrderInv
  <1> QED
    BY <1>1, OrderInvInit, OrderInvNext, PTL DEF Spec

\* The construction order is never too early for a provider and, but for cycles, leaves none out.
THEOREM OrdersAreSound == Spec => []OrderIsSound
  <1>1. DependencyFirst /\ LeftOutWaits => OrderIsSound
    BY DEF OrderIsSound
  <1> QED BY <1>1, OrderRespectsDependencies, OnlyCyclesAreLeftOut, PTL

-----------------------------------------------------------------------------
(* The search for components.  What it guarantees for the ordering: when   *)
(* no component is cyclic, no set of providers waits for itself.           *)

Finished == UNION components
Open == Elements(stack)
Frame(k) == frames[k].node

\* The dependencies of m that visit(m) has looked at.
Looked(m) == {d \in deps[m] : \A k \in 1..Len(frames) : Frame(k) = m => d \notin frames[k].todo}

\* The innermost call of visit that began no later than m was met.
Owner(k, m) == index[Frame(k)] <= index[m] /\ (k = Len(frames) \/ index[m] < index[Frame(k + 1)])

VisitTypes ==
    /\ deps \in [Nodes -> SUBSET Nodes]
    /\ index \in [Nodes -> Int] /\ lowlink \in [Nodes -> Int] /\ nextIndex \in Nat
    /\ stack \in Seq(Nodes)
    /\ frames \in Seq([node : Nodes, todo : SUBSET Nodes])
    /\ components \in SUBSET (SUBSET Nodes)

\* Indices are given in the order of the stack, and to nobody else who is not in a component.
IndexInv ==
    /\ \A n \in Nodes : index[n] = -1 \/ (0 <= index[n] /\ index[n] < nextIndex)
    /\ \A n \in Nodes : index[n] # -1 <=> n \in Finished \cup Open
    /\ \A i, j \in 1..Len(stack) : i < j => index[stack[i]] < index[stack[j]]

\* The calls of visit are on the stack, in its order; the outermost one is at its bottom.
FrameInv ==
    /\ \A k \in 1..Len(frames) : Frame(k) \in Open
    /\ \A k, l \in 1..Len(frames) : k < l => index[Frame(k)] < index[Frame(l)]
    /\ \A m \in Open : frames # <<>> /\ index[Frame(1)] <= index[m]

\* The lowlink of a call is not below the stack.
LowInv == \A k \in 1..Len(frames) : index[Frame(1)] <= lowlink[Frame(k)] /\ lowlink[Frame(k)] <= index[Frame(k)]

\* A dependency that was looked at was visited; if it is on the stack, the owner knows of it.
EdgeInv ==
    \A m \in Open : \A d \in Looked(m) :
        /\ index[d] # -1
        /\ d \in Open => \A k \in 1..Len(frames) : Owner(k, m) => lowlink[Frame(k)] <= index[d]

\* Some provider of S needs no other one of S.
Grounded(S) == \E n \in S : deps[n] \cap S = {}

\* A component is finished after everything it needs.
FinishedInv ==
    /\ \A n \in Finished : deps[n] \subseteq Finished
    /\ (\A c \in components : ~IsCyclic(c)) => \A S \in SUBSET Finished : S # {} => Grounded(S)

VisitInv == VisitTypes /\ IndexInv /\ FrameInv /\ LowInv /\ EdgeInv /\ FinishedInv

-----------------------------------------------------------------------------
\* A set of numbers has a least one.
LEMMA HasLeast ==
    ASSUME NEW S \in SUBSET Nat, S # {}
    PROVE  Least(S) \in S /\ \A y \in S : Least(S) <= y
  <1>1. PICK R : R = {xy \in Nat \X Nat : xy[1] < xy[2]}
    OBVIOUS
  <1>2. IsWellFoundedOn(R, Nat)
    BY <1>1, NatLessThanWellFounded DEF OpToRel
  <1>3. PICK x \in S : \A y \in S : ~(<<y, x>> \in R)
    BY <1>2, WFMin
  <1>4. ASSUME NEW y \in S PROVE x <= y
    <2>1. x \in Nat /\ y \in Nat /\ <<y, x>> \notin R
      BY <1>3
    <2> QED
      BY <1>1, <2>1
  <1> QED
    BY <1>4 DEF Least

\* The components and the dependencies alone decide who is grounded.
LEMMA FinishedStays ==
    ASSUME FinishedInv, deps' = deps, components' = components
    PROVE  FinishedInv'
  BY DEF FinishedInv, Finished, Grounded, IsCyclic

\* A sequence of members of F.
LEMMA SeqFacts ==
    ASSUME NEW F, NEW s \in Seq(F)
    PROVE  Len(s) \in Nat /\ (\A k \in 1..Len(s) : s[k] \in F) /\ (Len(s) = 0 <=> s = <<>>)
  OBVIOUS

\* What the types say of the calls.
LEMMA FrameFacts ==
    ASSUME VisitTypes
    PROVE  /\ Len(frames) \in Nat /\ Len(stack) \in Nat /\ (Len(frames) = 0 <=> frames = <<>>)
           /\ \A k \in 1..Len(frames) : Frame(k) \in Nodes /\ frames[k].todo \subseteq Nodes
           /\ Open \subseteq Nodes /\ Finished \subseteq Nodes
           /\ \A n \in Nodes : index[n] \in Int /\ lowlink[n] \in Int
  <1>1. \A k \in 1..Len(frames) : frames[k] \in [node : Nodes, todo : SUBSET Nodes]
    BY SeqFacts DEF VisitTypes
  <1>2. Open \subseteq Nodes /\ Finished \subseteq Nodes
    BY DEF VisitTypes, Open, Elements, Finished
  <1> QED
    BY <1>1, <1>2, SeqFacts DEF VisitTypes, Frame

\* Nothing is visited when the compiler starts.
LEMMA VisitInit == Init => VisitInv
  <1> SUFFICES ASSUME Init PROVE VisitInv
    OBVIOUS
  <1>1. /\ stack = <<>> /\ frames = <<>> /\ components = {} /\ nextIndex = 0
        /\ index = [n \in Nodes |-> -1] /\ lowlink = [n \in Nodes |-> -1] /\ deps \in [Nodes -> SUBSET Nodes]
    BY DEF Init
  <1>2. Open = {} /\ Finished = {} /\ Len(frames) = 0 /\ Len(stack) = 0
    BY <1>1 DEF Open, Elements, Finished
  <1>3. VisitTypes
    BY <1>1 DEF VisitTypes
  <1> QED
    BY <1>1, <1>2, <1>3 DEF VisitInv, IndexInv, FrameInv, LowInv, EdgeInv, FinishedInv

\* visit(d) begins, with rest as the calls that are under way.
Pushed(d, rest, len) ==
    /\ Len(frames') = len + 1 /\ frames' \in Seq([node : Nodes, todo : SUBSET Nodes])
    /\ \A k \in 1..len : Frame(k)' = Frame(k) /\ frames'[k].todo = rest[k].todo
    /\ Frame(len + 1)' = d /\ frames'[len + 1].todo = deps[d]
    /\ Open' = Open \cup {d} /\ Finished' = Finished /\ d \notin Open /\ d \notin Finished
    /\ index'[d] = nextIndex /\ lowlink'[d] = nextIndex
    /\ \A n \in Nodes \ {d} : index'[n] = index[n] /\ lowlink'[n] = lowlink[n]
    /\ \A n \in Open : n \in Nodes /\ 0 <= index[n] /\ index[n] < nextIndex /\ n # d
    /\ \A k \in 1..len : /\ Frame(k) \in Open /\ index'[Frame(k)] = index[Frame(k)]
                         /\ lowlink'[Frame(k)] = lowlink[Frame(k)] /\ index[Frame(k)] < nextIndex

\* What visit(d) changes when it begins.
LEMMA PushFacts ==
    ASSUME VisitInv, NEW d \in Nodes, index[d] = -1, Visit(d), NEW len \in Nat, len = Len(frames),
           NEW rest \in Seq([node : Nodes, todo : SUBSET Nodes]), Len(rest) = len,
           \A k \in 1..len : rest[k].node = Frame(k),
           frames' = Append(rest, [node |-> d, todo |-> deps[d]]), components' = components
    PROVE  Pushed(d, rest, len)
  <1>1. /\ VisitTypes /\ IndexInv /\ FrameInv /\ Len(stack) \in Nat /\ deps[d] \subseteq Nodes
        /\ Open \subseteq Nodes /\ stack \in Seq(Nodes)
    BY FrameFacts DEF VisitInv, VisitTypes
  <1>2. /\ Len(frames') = len + 1 /\ frames' \in Seq([node : Nodes, todo : SUBSET Nodes])
        /\ \A k \in 1..len : Frame(k)' = Frame(k) /\ frames'[k].todo = rest[k].todo
        /\ Frame(len + 1)' = d /\ frames'[len + 1].todo = deps[d]
    BY <1>1 DEF Frame
  <1>3. /\ index' = [index EXCEPT ![d] = nextIndex] /\ lowlink' = [lowlink EXCEPT ![d] = nextIndex]
        /\ stack' = Append(stack, d)
    BY DEF Visit
  <1>4. /\ index'[d] = nextIndex /\ lowlink'[d] = nextIndex
        /\ \A n \in Nodes \ {d} : index'[n] = index[n] /\ lowlink'[n] = lowlink[n]
    BY <1>1, <1>3 DEF VisitTypes
  <1>5. /\ Len(stack') = Len(stack) + 1 /\ stack'[Len(stack) + 1] = d
        /\ \A i \in 1..Len(stack) : stack'[i] = stack[i]
    BY <1>1, <1>3
  <1>6. ASSUME NEW x PROVE x \in Open' <=> x \in Open \/ x = d
    <2>1. x \in Open' <=> \E i \in 1..(Len(stack) + 1) : x = stack'[i]
      BY <1>5 DEF Open, Elements
    <2>2. x \in Open <=> \E i \in 1..Len(stack) : x = stack[i]
      BY DEF Open, Elements
    <2>3. Len(stack) \in Nat
      BY <1>1
    <2>4. 1..(Len(stack) + 1) = (1..Len(stack)) \cup {Len(stack) + 1}
      BY ONLY <2>3
    <2> QED
      BY <1>5, <2>1, <2>2, <2>4
  <1>7. Open' = Open \cup {d} /\ Finished' = Finished
    BY <1>6 DEF Finished
  <1>8. d \notin Open /\ d \notin Finished
        /\ \A n \in Open : n \in Nodes /\ 0 <= index[n] /\ index[n] < nextIndex /\ n # d
    BY <1>1 DEF IndexInv
  <1>9. \A k \in 1..len : /\ Frame(k) \in Open /\ index'[Frame(k)] = index[Frame(k)]
                          /\ lowlink'[Frame(k)] = lowlink[Frame(k)] /\ index[Frame(k)] < nextIndex
    BY <1>1, <1>4, <1>8 DEF FrameInv
  <1> QED
    BY <1>2, <1>4, <1>7, <1>8, <1>9 DEF Pushed

\* visit(d) begins; the caller, if there is one, has looked at d.
LEMMA VisitPush ==
    ASSUME VisitInv, NEW d \in Nodes, index[d] = -1, Visit(d),
           NEW rest \in Seq([node : Nodes, todo : SUBSET Nodes]), Len(rest) = Len(frames),
           \A k \in 1..Len(frames) : rest[k].node = Frame(k) /\ frames[k].todo \subseteq rest[k].todo \cup {d},
           frames' = Append(rest, [node |-> d, todo |-> deps[d]]),
           deps' = deps, components' = components
    PROVE  VisitInv'
  <1>0. PICK len \in Nat : len = Len(frames)
    BY DEF VisitInv, VisitTypes
  <1> USE <1>0
  <1>1. /\ VisitTypes /\ IndexInv /\ FrameInv /\ LowInv /\ EdgeInv /\ FinishedInv
        /\ Len(stack) \in Nat /\ nextIndex \in Nat /\ deps[d] \subseteq Nodes
        /\ \A k \in 1..len : Frame(k) \in Nodes
        /\ Open \subseteq Nodes /\ Finished \subseteq Nodes
        /\ \A n \in Nodes : index[n] \in Int /\ lowlink[n] \in Int
    BY FrameFacts DEF VisitInv, VisitTypes
  <1>21. Pushed(d, rest, len)
    <2>1. Len(rest) = len /\ \A k \in 1..len : rest[k].node = Frame(k)
      OBVIOUS
    <2> QED
      BY <2>1, PushFacts
  <1>2. /\ Len(frames') = len + 1 /\ frames' \in Seq([node : Nodes, todo : SUBSET Nodes])
        /\ \A k \in 1..len : Frame(k)' = Frame(k) /\ frames'[k].todo = rest[k].todo
        /\ Frame(len + 1)' = d /\ frames'[len + 1].todo = deps[d]
    BY <1>21 DEF Pushed
  <1>3. /\ index' = [index EXCEPT ![d] = nextIndex] /\ lowlink' = [lowlink EXCEPT ![d] = nextIndex]
        /\ nextIndex' = nextIndex + 1 /\ stack' = Append(stack, d)
    BY DEF Visit
  <1>4. /\ index'[d] = nextIndex /\ lowlink'[d] = nextIndex
        /\ \A n \in Nodes \ {d} : index'[n] = index[n] /\ lowlink'[n] = lowlink[n]
    BY <1>21 DEF Pushed
  <1>5. VisitTypes'
    BY <1>1, <1>2, <1>3 DEF VisitTypes
  <1>6. /\ Len(stack') = Len(stack) + 1 /\ stack'[Len(stack) + 1] = d
        /\ \A i \in 1..Len(stack) : stack'[i] = stack[i] /\ stack[i] \in Open
    BY <1>1, <1>3 DEF VisitTypes, Open, Elements
  <1>7. Open' = Open \cup {d} /\ Finished' = Finished
    BY <1>21 DEF Pushed
  <1>8. d \notin Open /\ d \notin Finished /\ \A n \in Open : 0 <= index[n] /\ index[n] < nextIndex /\ n # d
    BY <1>21 DEF Pushed
  <1>9. IndexInv'
    <2>1. ASSUME NEW n \in Nodes
          PROVE  /\ index'[n] = -1 \/ (0 <= index'[n] /\ index'[n] < nextIndex')
                 /\ index'[n] # -1 <=> n \in Finished' \cup Open'
      BY <1>1, <1>3, <1>4, <1>7, <1>8 DEF IndexInv
    <2>2. ASSUME NEW i \in 1..Len(stack'), NEW j \in 1..Len(stack'), i < j
          PROVE  index'[stack'[i]] < index'[stack'[j]]
      <3>1. CASE j \in 1..Len(stack)
        <4>1. i \in 1..Len(stack)
          BY <1>1, <1>6, <2>2, <3>1
        <4>2. index[stack[i]] < index[stack[j]]
          BY <1>1, <2>2, <3>1, <4>1 DEF IndexInv
        <4>3. /\ stack'[i] = stack[i] /\ stack'[j] = stack[j] /\ stack[i] \in Nodes \ {d} /\ stack[j] \in Nodes \ {d}
          BY <1>1, <1>6, <1>8, <3>1, <4>1
        <4> QED
          BY <1>4, <4>2, <4>3
      <3>2. CASE j = Len(stack) + 1
        <4>1. i \in 1..Len(stack)
          BY <1>1, <1>6, <2>2, <3>2
        <4>2. stack'[i] = stack[i] /\ stack[i] \in Nodes \ {d} /\ index[stack[i]] < nextIndex
          BY <1>1, <1>6, <1>8, <4>1
        <4> QED
          BY <1>4, <1>6, <3>2, <4>2
      <3> QED
        BY <1>1, <1>6, <3>1, <3>2
    <2> QED
      BY <2>1, <2>2 DEF IndexInv
  <1>10. \A k \in 1..len : /\ Frame(k) \in Open /\ Frame(k)' = Frame(k)
                           /\ index'[Frame(k)] = index[Frame(k)] /\ lowlink'[Frame(k)] = lowlink[Frame(k)]
                           /\ index[Frame(k)] < nextIndex
    BY <1>21 DEF Pushed
  <1>11. FrameInv'
    <2>1. \A k \in 1..Len(frames') : Frame(k)' \in Open'
      BY <1>1, <1>2, <1>7, <1>10
    <2>2. ASSUME NEW k \in 1..Len(frames'), NEW l \in 1..Len(frames'), k < l
          PROVE  index'[Frame(k)'] < index'[Frame(l)']
      <3>1. CASE l \in 1..len
        <4>1. k \in 1..len
          BY <2>2, <3>1
        <4>2. index[Frame(k)] < index[Frame(l)]
          BY <1>1, <2>2, <3>1, <4>1 DEF FrameInv
        <4> QED
          BY <1>10, <3>1, <4>1, <4>2
      <3>2. CASE l = len + 1
        <4>1. k \in 1..len
          BY <1>2, <2>2, <3>2
        <4> QED
          BY <1>2, <1>4, <1>10, <3>2, <4>1
      <3> QED
        BY <1>1, <1>2, <3>1, <3>2
    <2>3. ASSUME NEW m \in Open' PROVE frames' # <<>> /\ index'[Frame(1)'] <= index'[m]
      <3>1. frames' # <<>>
        BY <1>1, <1>2
      <3>2. CASE len = 0
        <4>1. Open = {}
          BY <1>1, <3>2, FrameFacts DEF FrameInv
        <4> QED
          BY <1>1, <1>2, <1>4, <1>7, <3>1, <3>2, <4>1, <2>3
      <3>3. CASE len # 0
        <4>1. 1 \in 1..len /\ Frame(1)' = Frame(1) /\ index'[Frame(1)] = index[Frame(1)] /\ index[Frame(1)] < nextIndex
          BY <1>1, <1>10, <3>3
        <4>2. CASE m = d
          BY <1>1, <1>4, <3>1, <4>1, <4>2
        <4>3. CASE m \in Open
          BY <1>1, <1>4, <1>8, <3>1, <4>1, <4>3 DEF FrameInv
        <4> QED
          BY <1>7, <4>2, <4>3
      <3> QED
        BY <3>2, <3>3
    <2> QED
      BY <2>1, <2>2, <2>3 DEF FrameInv
  <1>12. LowInv'
    <2> SUFFICES ASSUME NEW k \in 1..Len(frames')
                 PROVE  index'[Frame(1)'] <= lowlink'[Frame(k)'] /\ lowlink'[Frame(k)'] <= index'[Frame(k)']
      BY DEF LowInv
    <2>1. CASE k \in 1..len
      BY <1>1, <1>10, <2>1 DEF LowInv
    <2>2. CASE k = len + 1
      <3>1. d \in Open' /\ index'[Frame(1)'] <= index'[d]
        BY <1>7, <1>11 DEF FrameInv
      <3> QED
        BY <1>1, <1>2, <1>4, <2>2, <3>1
    <2> QED
      BY <1>1, <1>2, <2>1, <2>2
  <1>13. EdgeInv'
    <2> SUFFICES ASSUME NEW m \in Open', NEW e \in Looked(m)'
                 PROVE  /\ index'[e] # -1
                        /\ e \in Open' => \A k \in 1..Len(frames') : Owner(k, m)' => lowlink'[Frame(k)'] <= index'[e]
      BY DEF EdgeInv
    <2>1. e \in deps[m] /\ \A k \in 1..Len(frames') : Frame(k)' = m => e \notin frames'[k].todo
      BY DEF Looked
    <2>2. m # d
      BY <1>1, <1>2, <2>1
    <2>3. m \in Open /\ m \in Nodes /\ index'[m] = index[m] /\ index[m] < nextIndex
      BY <1>1, <1>4, <1>7, <1>8, <2>2
    <2>4. e \in Nodes
      BY <1>1, <2>1, <2>3 DEF VisitTypes
    <2>5. e = d \/ e \in Looked(m)
      <3>1. ASSUME e # d, NEW k \in 1..len, Frame(k) = m PROVE e \notin frames[k].todo
        BY <1>2, <2>1, <3>1
      <3> QED
        BY <2>1, <3>1 DEF Looked
    <2>6. ASSUME NEW k \in 1..Len(frames'), Owner(k, m)' PROVE k \in 1..len /\ Owner(k, m)
      <3>1. index'[Frame(k)'] <= index[m] /\ (k = len + 1 \/ index[m] < index'[Frame(k + 1)'])
        BY <1>2, <2>3, <2>6 DEF Owner
      <3>2. k \in 1..len
        BY <1>1, <1>2, <1>4, <2>3, <3>1
      <3>3. index[Frame(k)] <= index[m]
        BY <1>10, <3>1, <3>2
      <3>4. k = len \/ index[m] < index[Frame(k + 1)]
        BY <1>1, <1>10, <3>1, <3>2
      <3> QED
        BY <3>2, <3>3, <3>4 DEF Owner
    <2>7. CASE e = d
      <3>1. index'[e] = nextIndex /\ nextIndex # -1
        BY <1>1, <1>4, <2>7
      <3>2. ASSUME NEW k \in 1..len PROVE lowlink'[Frame(k)'] <= nextIndex
        <4>1. lowlink[Frame(k)] <= index[Frame(k)]
          BY <1>1 DEF LowInv
        <4>2. Frame(k) \in Nodes /\ lowlink[Frame(k)] \in Int /\ index[Frame(k)] \in Int
          BY <1>1
        <4>3. lowlink'[Frame(k)'] = lowlink[Frame(k)] /\ index[Frame(k)] < nextIndex
          BY <1>10
        <4> QED
          BY <1>1, <4>1, <4>2, <4>3
      <3> QED
        BY <2>6, <3>1, <3>2
    <2>8. CASE e # d /\ e \in Looked(m)
      <3>1. index[e] # -1 /\ index'[e] = index[e] /\ (e \in Open' => e \in Open)
        BY <1>1, <1>4, <1>7, <2>3, <2>4, <2>8 DEF EdgeInv
      <3>2. ASSUME e \in Open, NEW k \in 1..len, Owner(k, m) PROVE lowlink[Frame(k)] <= index[e]
        BY <1>1, <2>3, <2>8, <3>2 DEF EdgeInv
      <3> QED
        BY <1>10, <2>6, <3>1, <3>2
    <2> QED
      BY <2>5, <2>7, <2>8
  <1> QED
    BY <1>1, <1>5, <1>9, <1>11, <1>12, <1>13, FinishedStays DEF VisitInv

\* The loop over all nodes visits one that was not visited.
LEMMA VisitRootKeeps ==
    ASSUME VisitInv, VisitRoot
    PROVE  VisitInv'
  <1> DEFINE fresh == {n \in Nodes : index[n] = -1}
             d == Least(fresh)
  <1>1. /\ frames = <<>> /\ fresh # {} /\ Visit(d) /\ frames' = <<[node |-> d, todo |-> deps[d]]>>
        /\ deps' = deps /\ components' = components
    BY DEF VisitRoot
  <1>2. d \in fresh
    <2>1. fresh \in SUBSET Nat
      BY OrderAssumption DEF Nodes
    <2> QED
      BY <1>1, <2>1, HasLeast
  <1>3. d \in Nodes /\ index[d] = -1
    BY <1>2
  <1> HIDE DEF d
  <1>4. frames' = Append(frames, [node |-> d, todo |-> deps[d]])
    BY <1>1
  <1>5. frames \in Seq([node : Nodes, todo : SUBSET Nodes])
    BY DEF VisitInv, VisitTypes
  <1>6. \A k \in 1..Len(frames) : frames[k].node = Frame(k) /\ frames[k].todo \subseteq frames[k].todo \cup {d}
    BY DEF Frame
  <1> QED
    BY <1>1, <1>3, <1>4, <1>5, <1>6, VisitPush

\* The calls after the innermost one has looked at d.
Without(d) == [frames EXCEPT ![Len(frames)].todo = @ \ {d}]

\* The calls rest are those of frames, but for a dependency d that the innermost one has looked at.
Reduced(rest, d) ==
    /\ rest \in Seq([node : Nodes, todo : SUBSET Nodes]) /\ Len(rest) = Len(frames)
    /\ \A k \in 1..Len(frames) : /\ rest[k].node = Frame(k)
                                 /\ rest[k].todo = IF k = Len(frames) THEN frames[k].todo \ {d} ELSE frames[k].todo

\* Nothing else changes.
LEMMA LooksAt ==
    ASSUME VisitTypes, frames # <<>>, NEW d
    PROVE  Reduced(Without(d), d)
  <1>0. PICK rest : rest = Without(d)
    OBVIOUS
  <1> DEFINE top == frames[Len(frames)]
             new == [top EXCEPT !.todo = @ \ {d}]
  <1>1. PICK F : F = [node : Nodes, todo : SUBSET Nodes]
    OBVIOUS
  <1>2. Len(frames) \in Nat \ {0} /\ frames \in Seq(F)
    BY <1>1, SeqFacts DEF VisitTypes
  <1>3. top \in F
    BY <1>2, SeqFacts
  <1>4. new \in F /\ new.node = top.node /\ new.todo = top.todo \ {d}
    BY <1>1, <1>3
  <1>5. rest = [frames EXCEPT ![Len(frames)] = new]
    BY <1>0 DEF Without
  <1> HIDE DEF new
  <1>6. /\ rest \in Seq(F) /\ Len(rest) = Len(frames)
        /\ \A k \in 1..Len(frames) : rest[k] = IF k = Len(frames) THEN new ELSE frames[k]
    BY ONLY <1>2, <1>4, <1>5
  <1>7. ASSUME NEW k \in 1..Len(frames)
        PROVE  /\ rest[k].node = Frame(k)
               /\ rest[k].todo = IF k = Len(frames) THEN frames[k].todo \ {d} ELSE frames[k].todo
    <2>1. CASE k = Len(frames)
      BY <1>4, <1>6, <2>1 DEF Frame
    <2>2. CASE k # Len(frames)
      BY <1>6, <2>2 DEF Frame
    <2> QED
      BY <2>1, <2>2
  <1>8. Reduced(rest, d)
    BY <1>1, <1>6, <1>7 DEF Reduced
  <1> QED
    BY <1>0, <1>8

\* The innermost call looks at d: it visits it, or takes its index if it is on the stack.
EdgeStep(d, rest, len) ==
    /\ deps' = deps /\ components' = components
    /\ len \in 1..len /\ d \in frames[len].todo /\ d \in Nodes /\ Frame(len) \in Nodes
    /\ Reduced(rest, d)
    /\ \/ index[d] = -1 /\ Visit(d) /\ frames' = Append(rest, [node |-> d, todo |-> deps[d]])
       \/ /\ index[d] # -1 /\ frames' = rest /\ index' = index /\ stack' = stack /\ nextIndex' = nextIndex
          /\ lowlink' = IF OnStack(d) THEN [lowlink EXCEPT ![Frame(len)] = Smaller(@, index[d])] ELSE lowlink

\* VisitEdge does this with some dependency.
LEMMA EdgeFacts ==
    ASSUME VisitInv, VisitEdge, NEW len \in Nat, len = Len(frames)
    PROVE  \E d, rest : EdgeStep(d, rest, len)
  <1>1. PICK d : d = Least(Top(frames).todo)
    OBVIOUS
  <1>2. PICK rest : rest = Without(d)
    OBVIOUS
  <1>3. Top(frames).node = Frame(len)
    BY DEF Top, Frame
  <1>4. /\ frames # <<>> /\ Top(frames).todo # {} /\ deps' = deps /\ components' = components
        /\ \/ index[d] = -1 /\ Visit(d) /\ frames' = Append(rest, [node |-> d, todo |-> deps[d]])
           \/ /\ index[d] # -1 /\ frames' = rest /\ index' = index /\ stack' = stack /\ nextIndex' = nextIndex
              /\ lowlink' = IF OnStack(d) THEN [lowlink EXCEPT ![Frame(len)] = Smaller(@, index[d])] ELSE lowlink
    BY <1>1, <1>2, <1>3 DEF VisitEdge, Without
  <1>5. /\ VisitTypes /\ len # 0
        /\ \A k \in 1..len : Frame(k) \in Nodes /\ frames[k].todo \subseteq Nodes
    BY <1>4, FrameFacts DEF VisitInv
  <1>6. Frame(len) \in Nodes /\ frames[len].todo # {} /\ frames[len].todo \subseteq Nodes /\ len \in 1..len
    BY <1>4, <1>5 DEF Top
  <1>7. d \in frames[len].todo /\ d \in Nodes
    <2>1. frames[len].todo \in SUBSET Nat
      BY <1>6, OrderAssumption DEF Nodes
    <2> QED
      BY <1>1, <1>6, <2>1, HasLeast DEF Top
  <1>8. Reduced(rest, d)
    BY <1>2, <1>4, <1>5, LooksAt
  <1>9. EdgeStep(d, rest, len)
    BY <1>4, <1>6, <1>7, <1>8 DEF EdgeStep
  <1> QED
    BY <1>9

\* The innermost call looks at its next dependency.
LEMMA VisitEdgeKeeps ==
    ASSUME VisitInv, VisitEdge
    PROVE  VisitInv'
  <1>0. PICK len \in Nat : len = Len(frames)
    BY DEF VisitInv, VisitTypes
  <1> USE <1>0
  <1>1. PICK d, rest : EdgeStep(d, rest, len)
    BY EdgeFacts
  <1>3. PICK a : a = Frame(len)
    OBVIOUS
  <1>4. /\ deps' = deps /\ components' = components
        /\ \/ index[d] = -1 /\ Visit(d) /\ frames' = Append(rest, [node |-> d, todo |-> deps[d]])
           \/ /\ index[d] # -1 /\ frames' = rest /\ index' = index /\ stack' = stack /\ nextIndex' = nextIndex
              /\ lowlink' = IF OnStack(d) THEN [lowlink EXCEPT ![a] = Smaller(@, index[d])] ELSE lowlink
    BY <1>1, <1>3 DEF EdgeStep
  <1>5. /\ VisitTypes /\ IndexInv /\ FrameInv /\ LowInv /\ EdgeInv /\ FinishedInv
        /\ \A k \in 1..len : Frame(k) \in Nodes /\ frames[k].todo \subseteq Nodes
        /\ Open \subseteq Nodes /\ len # 0
        /\ \A n \in Nodes : index[n] \in Int /\ lowlink[n] \in Int
    BY <1>1, FrameFacts DEF VisitInv, EdgeStep
  <1>6. a = Frame(len) /\ a \in Nodes /\ len \in 1..len
    BY <1>1, <1>3 DEF EdgeStep
  <1>7. d \in frames[len].todo /\ d \in Nodes
    BY <1>1 DEF EdgeStep
  <1>8. /\ rest \in Seq([node : Nodes, todo : SUBSET Nodes]) /\ Len(rest) = len
        /\ \A k \in 1..len :
             rest[k].node = Frame(k) /\ rest[k].todo = IF k = len THEN frames[k].todo \ {d} ELSE frames[k].todo
    BY <1>1 DEF EdgeStep, Reduced
  <1>9. CASE index[d] = -1 /\ Visit(d) /\ frames' = Append(rest, [node |-> d, todo |-> deps[d]])
    <2>1. \A k \in 1..len : rest[k].node = Frame(k) /\ frames[k].todo \subseteq rest[k].todo \cup {d}
      BY <1>8
    <2> QED
      BY <1>4, <1>7, <1>8, <1>9, <2>1, VisitPush
  <1>10. CASE /\ index[d] # -1 /\ frames' = rest /\ index' = index /\ stack' = stack /\ nextIndex' = nextIndex
              /\ lowlink' = IF OnStack(d) THEN [lowlink EXCEPT ![a] = Smaller(@, index[d])] ELSE lowlink
    <2>1. /\ Len(frames') = len /\ Open' = Open /\ Finished' = Finished
          /\ \A k \in 1..len : Frame(k)' = Frame(k) /\ frames'[k].todo = rest[k].todo
      BY <1>4, <1>8, <1>10 DEF Frame, Open, Finished
    <2>2. /\ \A n \in Nodes \ {a} : lowlink'[n] = lowlink[n]
          /\ lowlink'[a] = IF d \in Open THEN Smaller(lowlink[a], index[d]) ELSE lowlink[a]
          /\ lowlink' \in [Nodes -> Int]
      BY <1>5, <1>6, <1>7, <1>10 DEF VisitTypes, OnStack, Open, Smaller
    <2>3. /\ lowlink'[a] <= lowlink[a] /\ (d \in Open => lowlink'[a] <= index[d]) /\ index[Frame(1)] <= lowlink'[a]
      <3>1. index[Frame(1)] <= lowlink[a] /\ index[Frame(1)] \in Int
        BY <1>5, <1>6 DEF LowInv
      <3>2. d \in Open => index[Frame(1)] <= index[d]
        BY <1>5 DEF FrameInv
      <3> QED
        BY <1>5, <1>6, <1>7, <2>2, <3>1, <3>2 DEF Smaller
    <2>4. \A n \in Nodes : lowlink'[n] <= lowlink[n] /\ lowlink'[n] \in Int
      BY <1>5, <2>2, <2>3
    <2>5. VisitTypes'
      BY <1>4, <1>5, <1>8, <1>10, <2>2 DEF VisitTypes
    <2>6. IndexInv'
      BY <1>5, <1>10, <2>1 DEF IndexInv
    <2>7. FrameInv'
      <3>1. frames' # <<>>
        BY <1>5, <2>1, <2>5, FrameFacts
      <3>2. \A k \in 1..Len(frames') : Frame(k)' \in Open'
        BY <1>5, <2>1 DEF FrameInv
      <3>3. \A k, l \in 1..Len(frames') : k < l => index'[Frame(k)'] < index'[Frame(l)']
        BY <1>5, <1>10, <2>1 DEF FrameInv
      <3>4. \A m \in Open' : index'[Frame(1)'] <= index'[m]
        BY <1>5, <1>6, <1>10, <2>1 DEF FrameInv
      <3> QED
        BY <3>1, <3>2, <3>3, <3>4 DEF FrameInv
    <2>8. LowInv'
      <3> SUFFICES ASSUME NEW k \in 1..len
                   PROVE  index[Frame(1)] <= lowlink'[Frame(k)] /\ lowlink'[Frame(k)] <= index[Frame(k)]
        BY <1>5, <1>6, <1>10, <2>1 DEF LowInv
      <3>1. index[Frame(1)] <= lowlink[Frame(k)] /\ lowlink[Frame(k)] <= index[Frame(k)]
        BY <1>5 DEF LowInv
      <3>2. CASE Frame(k) = a
        BY <1>5, <2>3, <2>4, <3>1, <3>2
      <3>3. CASE Frame(k) # a
        BY <1>5, <2>2, <3>1, <3>3
      <3> QED
        BY <3>2, <3>3
    <2>9. EdgeInv'
      <3> SUFFICES ASSUME NEW m \in Open, NEW e \in Looked(m)'
                   PROVE  /\ index[e] # -1
                          /\ e \in Open => \A k \in 1..len : Owner(k, m)' => lowlink'[Frame(k)] <= index[e]
        BY <1>10, <2>1 DEF EdgeInv
      <3>1. e \in deps[m] /\ \A k \in 1..len : Frame(k) = m => e \notin rest[k].todo
        BY <1>4, <2>1 DEF Looked
      <3>2. m \in Nodes /\ e \in Nodes
        BY <1>5, <3>1 DEF VisitTypes
      <3>3. ASSUME NEW k \in 1..len, Owner(k, m)' PROVE Owner(k, m)
        <4>1. k + 1 \in 1..len \/ k = len
          OBVIOUS
        <4> QED
          BY <1>10, <2>1, <3>3, <4>1 DEF Owner
      <3>4. CASE e \in Looked(m)
        <4>1. index[e] # -1 /\ (e \in Open => \A k \in 1..len : Owner(k, m) => lowlink[Frame(k)] <= index[e])
          BY <1>5, <3>4 DEF EdgeInv
        <4>2. ASSUME e \in Open, NEW k \in 1..len, Owner(k, m)' PROVE lowlink'[Frame(k)] <= index[e]
          <5>1. lowlink[Frame(k)] <= index[e] /\ Frame(k) \in Nodes
            BY <1>5, <3>3, <4>1, <4>2
          <5> QED
            BY <1>5, <2>4, <3>2, <5>1
        <4> QED
          BY <4>1, <4>2
      <3>5. CASE e \notin Looked(m)
        <4>1. PICK j \in 1..len : Frame(j) = m /\ e \in frames[j].todo
          BY <3>1, <3>5 DEF Looked
        <4>2. j = len /\ e = d
          BY <1>8, <3>1, <4>1
        <4>3. m = a
          BY <1>6, <4>1, <4>2
        <4>4. ASSUME NEW k \in 1..len, Owner(k, m)' PROVE k = len
          <5>1. k = len \/ index[a] < index[Frame(k + 1)]
            BY <3>3, <4>3, <4>4 DEF Owner
          <5>2. ASSUME k # len PROVE index[Frame(k + 1)] <= index[a]
            <6>1. k + 1 \in 1..len
              BY <5>2
            <6>2. k + 1 = len \/ index[Frame(k + 1)] < index[Frame(len)]
              BY <1>5, <1>6, <6>1 DEF FrameInv
            <6> QED
              BY <1>5, <1>6, <6>1, <6>2
          <5> QED
            BY <1>5, <1>6, <5>1, <5>2
        <4> QED
          BY <1>6, <1>10, <2>3, <4>2, <4>4
      <3> QED
        BY <3>4, <3>5
    <2> QED
      BY <1>4, <1>5, <2>5, <2>6, <2>7, <2>8, <2>9, FinishedStays DEF VisitInv
  <1> QED
    BY <1>4, <1>9, <1>10

\* What is below a on the stack.
Below(a) == {m \in Open : index[m] < index[a]}

\* The stack is cut at a node a.
LEMMA PoppedFacts ==
    ASSUME VisitTypes, IndexInv, NEW a \in Open
    PROVE  /\ Popped(a).left \in Seq(Nodes) /\ Elements(Popped(a).left) = Below(a)
           /\ Popped(a).members = Open \ Below(a)
           /\ \A i, j \in 1..Len(Popped(a).left) : i < j => index[Popped(a).left[i]] < index[Popped(a).left[j]]
  <1>1. PICK len \in Nat : len = Len(stack)
    BY DEF VisitTypes
  <1>2. PICK cut : cut = CHOOSE i \in 1..Len(stack) : stack[i] = a
    OBVIOUS
  <1>3. cut \in 1..len /\ stack[cut] = a
    BY <1>1, <1>2 DEF Open, Elements
  <1>4. PICK left : left = SubSeq(stack, 1, cut - 1)
    OBVIOUS
  <1>5. Popped(a).left = left /\ Popped(a).members = {stack[i] : i \in cut..len}
    BY <1>1, <1>2, <1>4 DEF Popped
  <1>6. stack \in Seq(Nodes) /\ cut - 1 \in Nat /\ cut - 1 <= len
    BY <1>1, <1>3 DEF VisitTypes
  <1>7. left \in Seq(Nodes) /\ Len(left) = cut - 1 /\ \A i \in 1..(cut - 1) : left[i] = stack[i]
    BY <1>1, <1>3, <1>4, <1>6
  <1>8. \A i \in 1..len : stack[i] \in Open /\ stack[i] \in Nodes /\ index[stack[i]] \in Int
    BY <1>1, <1>6 DEF Open, Elements, VisitTypes
  <1>9. \A i, j \in 1..len : i < j => index[stack[i]] < index[stack[j]]
    BY <1>1 DEF IndexInv
  <1>10. \A i \in 1..len : i \in 1..(cut - 1) <=> index[stack[i]] < index[a]
    <2> SUFFICES ASSUME NEW i \in 1..len PROVE i \in 1..(cut - 1) <=> index[stack[i]] < index[a]
      OBVIOUS
    <2>1. i < cut => index[stack[i]] < index[stack[cut]]
      BY <1>3, <1>9
    <2>2. cut < i => index[stack[cut]] < index[stack[i]]
      BY <1>3, <1>9
    <2> QED
      BY <1>3, <1>8, <2>1, <2>2
  <1>11. \A x : x \in Open <=> \E i \in 1..len : x = stack[i]
    BY <1>1 DEF Open, Elements
  <1>12. ASSUME NEW x PROVE x \in Elements(left) <=> x \in Below(a)
    <2>1. x \in Elements(left) <=> \E i \in 1..(cut - 1) : x = stack[i]
      BY <1>7 DEF Elements
    <2>2. 1..(cut - 1) \subseteq 1..len
      BY <1>6
    <2>3. x \in Below(a) <=> x \in Open /\ index[x] < index[a]
      BY DEF Below
    <2> QED
      BY <1>10, <1>11, <2>1, <2>2, <2>3
  <1>13. ASSUME NEW x PROVE x \in Popped(a).members <=> x \in Open \ Below(a)
    <2>1. x \in Popped(a).members <=> \E i \in cut..len : x = stack[i]
      BY <1>5
    <2>2. \A i \in 1..len : i \in cut..len <=> ~(i \in 1..(cut - 1))
      BY <1>3
    <2>3. cut..len \subseteq 1..len
      BY <1>3
    <2>4. x \in Below(a) <=> x \in Open /\ index[x] < index[a]
      BY DEF Below
    <2> QED
      BY <1>10, <1>11, <2>1, <2>2, <2>3, <2>4
  <1>14. \A i, j \in 1..Len(left) : i < j => index[left[i]] < index[left[j]]
    BY <1>6, <1>7, <1>9
  <1> QED
    BY <1>5, <1>7, <1>12, <1>13, <1>14

\* The calls without the innermost one.
LEMMA FrontFacts ==
    ASSUME VisitTypes, frames # <<>>, frames' = Front(frames), NEW len \in Nat, len = Len(frames)
    PROVE  /\ frames' \in Seq([node : Nodes, todo : SUBSET Nodes]) /\ Len(frames') = len - 1
           /\ \A k \in 1..(len - 1) : Frame(k)' = Frame(k) /\ frames'[k].todo = frames[k].todo
  <1>1. PICK F : F = [node : Nodes, todo : SUBSET Nodes]
    OBVIOUS
  <1>2. frames \in Seq(F) /\ len # 0
    BY <1>1, SeqFacts DEF VisitTypes
  <1>3. frames' = SubSeq(frames, 1, len - 1)
    BY DEF Front
  <1>4. frames' \in Seq(F) /\ Len(frames') = len - 1 /\ \A k \in 1..(len - 1) : frames'[k] = frames[k]
    BY ONLY <1>2, <1>3, len \in Nat, len = Len(frames)
  <1> QED
    BY <1>1, <1>4 DEF Frame

\* A component of which no part was left out: its dependencies are finished or in it.
LEMMA ComponentFinished ==
    ASSUME FinishedInv, Finished \subseteq Nodes, deps \in [Nodes -> SUBSET Nodes], deps' = deps,
           NEW C \in SUBSET Nodes, C # {}, components' = components \cup {C},
           \A n \in C : deps[n] \subseteq Finished \cup C
    PROVE  FinishedInv'
  <1>1. Finished' = Finished \cup C
    BY DEF Finished
  <1>2. \A n \in Finished' : deps'[n] \subseteq Finished'
    BY <1>1 DEF FinishedInv
  <1>3. ASSUME \A c \in components' : ~IsCyclic(c)', NEW S \in SUBSET Finished', S # {} PROVE Grounded(S)'
    <2>1. (\A c \in components : ~IsCyclic(c)) /\ ~IsCyclic(C)
      BY <1>3 DEF IsCyclic
    <2>2. \A T \in SUBSET Finished : T # {} => Grounded(T)
      BY <2>1 DEF FinishedInv
    <2>3. PICK n : C = {n}
      <3>1. IsFiniteSet(C) /\ Cardinality(C) \in Nat /\ Cardinality(C) # 0
        BY NodesFinite, FS_EmptySet
      <3>2. Cardinality(C) = 1
        BY <2>1, <3>1 DEF IsCyclic
      <3> QED
        BY <3>1, <3>2, FS_Singleton
    <2>4. Least(C) = n /\ n \in Nodes
      <3>1. C \in SUBSET Nat
        BY OrderAssumption DEF Nodes
      <3> QED
        BY <2>3, <3>1, HasLeast
    <2>5. n \notin deps[n] /\ deps[n] \subseteq Finished
      BY <2>1, <2>3, <2>4 DEF IsCyclic
    <2>6. CASE S \cap Finished = {}
      <3>1. S = {n}
        BY <1>1, <1>3, <2>3, <2>6
      <3> QED
        BY <2>5, <3>1 DEF Grounded
    <2>7. CASE S \cap Finished # {}
      <3>1. PICK m \in S \cap Finished : deps[m] \cap (S \cap Finished) = {}
        BY <2>2, <2>7 DEF Grounded
      <3>2. deps[m] \subseteq Finished
        BY <3>1 DEF FinishedInv
      <3> QED
        BY <3>1, <3>2 DEF Grounded
    <2> QED
      BY <2>6, <2>7
  <1> QED
    BY <1>2, <1>3 DEF FinishedInv

\* The innermost call ends, whether or not it takes its component with it: what it knew of the stack, the caller knows.
LEMMA CallEnds ==
    ASSUME VisitInv, NEW len \in Nat, len = Len(frames), frames # <<>>, NEW a, a = Frame(len), frames[len].todo = {},
           frames' = Front(frames), deps' = deps, index' = index, Open' \subseteq Open, Below(a) \subseteq Open',
           lowlink' = IF len = 1 THEN lowlink ELSE [lowlink EXCEPT ![Frame(len - 1)] = Smaller(@, lowlink[a])],
           len = 1 => Open' = {}
    PROVE  lowlink' \in [Nodes -> Int] /\ FrameInv' /\ LowInv' /\ EdgeInv'
  <1>1. /\ VisitTypes /\ IndexInv /\ FrameInv /\ LowInv /\ EdgeInv
        /\ \A k \in 1..len : Frame(k) \in Nodes
        /\ Open \subseteq Nodes /\ len # 0
        /\ \A n \in Nodes : index[n] \in Int /\ lowlink[n] \in Int
    BY FrameFacts DEF VisitInv
  <1>2. Len(frames') = len - 1 /\ \A k \in 1..(len - 1) : Frame(k)' = Frame(k) /\ frames'[k].todo = frames[k].todo
    BY <1>1, FrontFacts
  <1>3. a \in Nodes /\ len \in 1..len /\ \A k \in 1..(len - 1) : k \in 1..len /\ index[Frame(k)] < index[a]
    BY <1>1 DEF FrameInv
  <1>4. index[Frame(1)] <= lowlink[a] /\ lowlink[a] <= index[a] /\ Frame(1) \in Nodes
    BY <1>1, <1>3 DEF LowInv
  <1>5. ASSUME len # 1
        PROVE  /\ len - 1 \in 1..(len - 1) /\ Frame(len - 1) \in Nodes
               /\ lowlink'[Frame(len - 1)] = Smaller(lowlink[Frame(len - 1)], lowlink[a])
               /\ \A n \in Nodes \ {Frame(len - 1)} : lowlink'[n] = lowlink[n]
    BY <1>1, <1>3, <1>5, SMTT(30) DEF VisitTypes
  <1>6. lowlink' \in [Nodes -> Int]
    BY <1>1, <1>3 DEF VisitTypes, Smaller
  <1>7. \A n \in Nodes : lowlink'[n] <= lowlink[n]
    <2>1. CASE len = 1
      BY <1>1, <2>1
    <2>2. CASE len # 1
      BY <1>1, <1>3, <1>5, <2>2 DEF Smaller
    <2> QED
      BY <2>1, <2>2
  <1>8. FrameInv'
    <2>1. \A k \in 1..Len(frames') : Frame(k)' \in Open'
      <3> SUFFICES ASSUME NEW k \in 1..(len - 1) PROVE Frame(k) \in Open'
        BY <1>2
      <3>1. Frame(k) \in Open
        BY <1>1, <1>3 DEF FrameInv
      <3> QED
        BY <1>3, <3>1 DEF Below
    <2>2. \A k, l \in 1..Len(frames') : k < l => index'[Frame(k)'] < index'[Frame(l)']
      BY <1>1, <1>2, <1>3 DEF FrameInv
    <2>3. ASSUME NEW m \in Open' PROVE frames' # <<>> /\ index'[Frame(1)'] <= index'[m]
      <3>1. len # 1 /\ m \in Open
        BY <2>3
      <3>2. Frame(1)' = Frame(1)
        BY <1>2, <1>5, <3>1
      <3>3. frames' # <<>>
        BY <1>1, <1>2, <3>1
      <3> QED
        BY <1>1, <3>1, <3>2, <3>3 DEF FrameInv
    <2> QED
      BY <2>1, <2>2, <2>3 DEF FrameInv
  <1>9. LowInv'
    <2> SUFFICES ASSUME NEW k \in 1..(len - 1)
                 PROVE  index[Frame(1)] <= lowlink'[Frame(k)] /\ lowlink'[Frame(k)] <= index[Frame(k)]
      BY <1>2 DEF LowInv
    <2>1. index[Frame(1)] <= lowlink[Frame(k)] /\ lowlink[Frame(k)] <= index[Frame(k)] /\ Frame(k) \in Nodes
      BY <1>1, <1>3 DEF LowInv
    <2>2. CASE Frame(k) = Frame(len - 1)
      BY <1>1, <1>3, <1>4, <1>5, <2>1, <2>2 DEF Smaller
    <2>3. CASE Frame(k) # Frame(len - 1)
      BY <1>5, <2>1, <2>3
    <2> QED
      BY <2>2, <2>3
  <1>10. EdgeInv'
    <2> SUFFICES ASSUME NEW m \in Open', NEW e \in Looked(m)'
                 PROVE  /\ index[e] # -1
                        /\ e \in Open' => \A k \in 1..(len - 1) : Owner(k, m)' => lowlink'[Frame(k)] <= index[e]
      BY <1>2 DEF EdgeInv
    <2>1. m \in Open /\ m \in Nodes /\ e \in deps[m] /\ e \in Nodes
      BY <1>1 DEF Looked, VisitTypes
    <2>2. e \in Looked(m)
      <3>1. ASSUME NEW k \in 1..len, Frame(k) = m PROVE e \notin frames[k].todo
        <4>1. CASE k = len
          BY <4>1
        <4>2. CASE k \in 1..(len - 1)
          BY <1>2, <3>1, <4>2 DEF Looked
        <4> QED
          BY <4>1, <4>2
      <3> QED
        BY <2>1, <3>1 DEF Looked
    <2>3. index[e] # -1 /\ (e \in Open => \A k \in 1..len : Owner(k, m) => lowlink[Frame(k)] <= index[e])
      BY <1>1, <2>1, <2>2 DEF EdgeInv
    <2>4. ASSUME e \in Open', NEW k \in 1..(len - 1), Owner(k, m)' PROVE lowlink'[Frame(k)] <= index[e]
      <3>1. index[Frame(k)] <= index[m] /\ (k = len - 1 \/ (k + 1 \in 1..(len - 1) /\ index[m] < index[Frame(k + 1)]))
        BY <1>2, <2>4 DEF Owner
      <3>2. e \in Open /\ index[e] \in Int /\ Frame(k) \in Nodes
        BY <1>1, <1>3, <2>1, <2>4
      <3>3. CASE Owner(k, m)
        <4>1. lowlink[Frame(k)] <= index[e]
          BY <1>3, <2>3, <3>2, <3>3
        <4>2. lowlink'[Frame(k)] <= lowlink[Frame(k)] /\ lowlink[Frame(k)] \in Int /\ lowlink'[Frame(k)] \in Int
          BY <1>1, <1>6, <1>7, <3>2
        <4> QED
          BY ONLY <3>2, <4>1, <4>2
      <3>4. CASE ~Owner(k, m)
        <4>1. k = len - 1 /\ ~(index[m] < index[Frame(k + 1)])
          BY <3>1, <3>4 DEF Owner
        <4>2. Owner(len, m)
          BY <1>1, <1>3, <2>1, <4>1 DEF Owner
        <4>3. lowlink[a] <= index[e]
          BY <1>3, <2>3, <3>2, <4>2
        <4>4. lowlink'[Frame(k)] = Smaller(lowlink[Frame(k)], lowlink[a])
          BY <1>5, <4>1
        <4> QED
          BY <1>1, <1>3, <3>2, <4>3, <4>4 DEF Smaller
      <3> QED
        BY <3>3, <3>4
    <2> QED
      BY <2>3, <2>4
  <1> QED
    BY <1>6, <1>8, <1>9, <1>10

\* What was met from a call that reaches nobody below it on the stack has been looked at completely, and needs only
\* what is finished or was met from the call too.
LEMMA ComponentNeeds ==
    ASSUME VisitInv, NEW len \in Nat, len = Len(frames), frames # <<>>, NEW a, a = Frame(len), frames[len].todo = {},
           NEW m \in Open \ Below(a)
    PROVE  /\ m = a \/ \A k \in 1..len : Frame(k) # m
           /\ Owner(len, m)
           /\ \A e \in deps[m] : e \in Open => lowlink[a] <= index[e]
           /\ lowlink[a] = index[a] => deps[m] \subseteq Finished \cup (Open \ Below(a))
  <1>1. /\ VisitTypes /\ IndexInv /\ FrameInv /\ EdgeInv /\ len \in 1..len
        /\ \A k \in 1..len : Frame(k) \in Nodes
        /\ Open \subseteq Nodes
        /\ \A n \in Nodes : index[n] \in Int /\ lowlink[n] \in Int
    BY FrameFacts DEF VisitInv
  <1>2. m \in Open /\ m \in Nodes /\ a \in Nodes /\ index[a] <= index[m]
    BY <1>1 DEF Below
  <1>3. ASSUME NEW k \in 1..len, Frame(k) = m PROVE k = len
    BY <1>1, <1>2, <1>3 DEF FrameInv
  <1>4. Owner(len, m)
    BY <1>2 DEF Owner
  <1>5. ASSUME NEW e \in deps[m]
        PROVE  (e \in Open => lowlink[a] <= index[e]) /\ e \in Nodes /\ e \in Finished \cup Open
    <2>1. e \in Looked(m) /\ e \in Nodes
      BY <1>1, <1>2, <1>3, <1>5 DEF Looked, VisitTypes
    <2>2. index[e] # -1 /\ (e \in Open => lowlink[a] <= index[e])
      BY <1>1, <1>2, <1>4, <2>1 DEF EdgeInv
    <2> QED
      BY <1>1, <2>1, <2>2 DEF IndexInv
  <1>6. ASSUME lowlink[a] = index[a], NEW e \in deps[m] PROVE e \in Finished \cup (Open \ Below(a))
    BY <1>1, <1>2, <1>5, <1>6 DEF Below
  <1> QED
    BY <1>3, <1>4, <1>5, <1>6

\* visit returns.
LEMMA VisitReturnKeeps ==
    ASSUME VisitInv, VisitReturn
    PROVE  VisitInv'
  <1>0. PICK len \in Nat : len = Len(frames)
    BY DEF VisitInv, VisitTypes
  <1>1. PICK a : a = Top(frames).node
    OBVIOUS
  <1>2. /\ frames # <<>> /\ Top(frames).todo = {} /\ frames' = Front(frames)
        /\ deps' = deps /\ index' = index /\ nextIndex' = nextIndex
        /\ lowlink' = IF len = 1 THEN lowlink ELSE [lowlink EXCEPT ![Frame(len - 1)] = Smaller(@, lowlink[a])]
        /\ IF lowlink[a] = index[a] THEN stack' = Popped(a).left /\ components' = components \cup {Popped(a).members}
           ELSE stack' = stack /\ components' = components
    BY <1>0, <1>1 DEF VisitReturn, Frame
  <1>3. /\ VisitTypes /\ IndexInv /\ FrameInv /\ LowInv /\ EdgeInv /\ FinishedInv
        /\ \A k \in 1..len : Frame(k) \in Nodes
        /\ Open \subseteq Nodes /\ len # 0 /\ Finished \subseteq Nodes
        /\ \A n \in Nodes : index[n] \in Int /\ lowlink[n] \in Int
    BY <1>0, <1>2, FrameFacts DEF VisitInv
  <1>4. a = Frame(len) /\ a \in Nodes /\ a \in Open /\ frames[len].todo = {} /\ len \in 1..len
    BY <1>0, <1>1, <1>2, <1>3 DEF Frame, Top, FrameInv
  <1>5. frames' \in Seq([node : Nodes, todo : SUBSET Nodes])
    BY <1>0, <1>2, <1>3, FrontFacts
  <1>6. \A m \in Open : index[Frame(1)] <= index[m]
    BY <1>3 DEF FrameInv
  <1>7. CASE lowlink[a] # index[a]
    <2>1. len # 1
      BY <1>0, <1>3, <1>4, <1>7 DEF LowInv
    <2>2. Open' = Open /\ Finished' = Finished /\ stack' = stack /\ components' = components
      BY <1>2, <1>7 DEF Open, Finished
    <2>3. lowlink' \in [Nodes -> Int] /\ FrameInv' /\ LowInv' /\ EdgeInv'
      BY <1>0, <1>2, <1>4, <2>1, <2>2, CallEnds DEF Below
    <2>4. VisitTypes'
      BY <1>2, <1>3, <1>5, <2>2, <2>3 DEF VisitTypes
    <2>5. IndexInv'
      BY <1>2, <1>3, <2>2 DEF IndexInv
    <2> QED
      BY <1>2, <1>3, <2>2, <2>3, <2>4, <2>5, FinishedStays DEF VisitInv
  <1>8. CASE lowlink[a] = index[a]
    <2>1. PICK left, C : left = Popped(a).left /\ C = Popped(a).members
      OBVIOUS
    <2>2. /\ left \in Seq(Nodes) /\ Elements(left) = Below(a) /\ C = Open \ Below(a)
          /\ \A i, j \in 1..Len(left) : i < j => index[left[i]] < index[left[j]]
      BY <1>3, <1>4, <2>1, PoppedFacts
    <2>3. stack' = left /\ components' = components \cup {C}
      BY <1>2, <1>8, <2>1
    <2>4. Open' = Below(a) /\ Finished' = Finished \cup C
      BY <2>2, <2>3 DEF Open, Finished
    <2>5. Below(a) \subseteq Open /\ C \in SUBSET Nodes /\ a \in C
      BY <1>3, <1>4, <2>2 DEF Below
    <2>6. len = 1 => Open' = {}
      BY <1>3, <1>4, <1>6, <2>4 DEF Below
    <2>7. lowlink' \in [Nodes -> Int] /\ FrameInv' /\ LowInv' /\ EdgeInv'
      BY <1>0, <1>2, <1>4, <2>4, <2>5, <2>6, CallEnds
    <2>8. VisitTypes'
      BY <1>2, <1>3, <1>5, <2>2, <2>3, <2>5, <2>7 DEF VisitTypes
    <2>9. IndexInv'
      <3>1. \A n \in Nodes : n \in Finished' \cup Open' <=> n \in Finished \cup Open
        BY <2>2, <2>4, <2>5
      <3> QED
        BY <1>2, <1>3, <2>2, <2>3, <3>1 DEF IndexInv
    <2>10. \A m \in C : deps[m] \subseteq Finished \cup C
      BY <1>0, <1>2, <1>4, <1>8, <2>2, ComponentNeeds
    <2>11. FinishedInv'
      <3>1. deps \in [Nodes -> SUBSET Nodes] /\ C # {} /\ \A n \in C : deps[n] \subseteq Finished \cup C
        BY <1>3, <2>5, <2>10 DEF VisitTypes
      <3> QED
        BY <1>2, <1>3, <2>3, <2>5, <3>1, ComponentFinished
    <2> QED
      BY <2>7, <2>8, <2>9, <2>11 DEF VisitInv
  <1> QED
    BY <1>7, <1>8

-----------------------------------------------------------------------------
(* From the components to the orderings.                                   *)

\* No set of providers waits for itself.
Acyclic == \A S \in SUBSET Nodes : S # {} => Grounded(S)

\* If nothing is or was to be reported, there is no cycle.
SearchInv ==
    /\ phase = "visit" => VisitInv
    /\ phase \in {"report", "search"} /\ cyclic = {} /\ reported = {} => Acyclic
    /\ phase \in {"order", "ordered"} => Acyclic

\* Acyclic depends on the dependencies alone.
LEMMA AcyclicStays ==
    ASSUME Acyclic, deps' = deps
    PROVE  Acyclic'
  BY DEF Acyclic, Grounded

\* Every provider is visited and belongs to a component.
LEMMA EndVisitKeeps ==
    ASSUME SearchInv, EndVisit
    PROVE  SearchInv'
  <1>1. /\ phase = "visit" /\ frames = <<>> /\ (\A n \in Nodes : index[n] # -1)
        /\ cyclic' = {c \in components : IsCyclic(c)} /\ phase' = "report" /\ deps' = deps
    BY DEF EndVisit
  <1>2. VisitInv
    BY <1>1 DEF SearchInv
  <1>3. Open = {}
    BY <1>1, <1>2 DEF VisitInv, FrameInv
  <1>4. Nodes \subseteq Finished
    BY <1>1, <1>2, <1>3 DEF VisitInv, IndexInv
  <1>5. cyclic' = {} => Acyclic
    BY <1>1, <1>2, <1>4 DEF VisitInv, FinishedInv, Acyclic
  <1> QED
    BY <1>1, <1>5, AcyclicStays DEF SearchInv

\* A step that does not concern the search.
LEMMA VisitStutters ==
    ASSUME VisitInv, deps' = deps, index' = index, lowlink' = lowlink, nextIndex' = nextIndex, stack' = stack,
           frames' = frames, components' = components
    PROVE  VisitInv'
  <1>1. VisitTypes'
    BY DEF VisitInv, VisitTypes
  <1>2. IndexInv'
    BY DEF VisitInv, IndexInv, Finished, Open, Elements
  <1>3. FrameInv'
    BY DEF VisitInv, FrameInv, Frame, Open, Elements
  <1>4. LowInv'
    BY DEF VisitInv, LowInv, Frame
  <1>5. EdgeInv'
    <2>1. /\ Len(frames') = Len(frames) /\ Open' = Open /\ \A k : Frame(k)' = Frame(k)
          /\ \A m : Looked(m)' = Looked(m)
      BY DEF Frame, Looked, Open, Elements
    <2>2. \A k, m : Owner(k, m)' <=> Owner(k, m)
      BY DEF Owner, Frame
    <2> QED
      BY <2>1, <2>2 DEF VisitInv, EdgeInv
  <1> QED
    BY <1>1, <1>2, <1>3, <1>4, <1>5, FinishedStays DEF VisitInv

\* Every step keeps SearchInv.
LEMMA SearchStep == SearchInv /\ [Next]_vars => SearchInv'
  <1> SUFFICES ASSUME SearchInv, [Next]_vars PROVE SearchInv'
    OBVIOUS
  <1>1. CASE VisitRoot \/ VisitEdge \/ VisitReturn
    <2>1. phase = "visit" /\ phase' = "visit"
      BY <1>1 DEF VisitRoot, VisitEdge, VisitReturn
    <2> QED
      BY <1>1, <2>1, VisitRootKeeps, VisitEdgeKeeps, VisitReturnKeeps DEF SearchInv
  <1>2. CASE EndVisit
    BY <1>2, EndVisitKeeps
  <1>3. CASE BeginCycle \/ SearchNext \/ SearchBack
    <2>1. /\ phase \in {"report", "search"} /\ phase' \in {"report", "search"} /\ deps' = deps
          /\ reported' # {} \/ (reported' = reported /\ cyclic' = cyclic)
      BY <1>3 DEF BeginCycle, SearchNext, SearchBack, Report
    <2> QED
      BY <2>1, AcyclicStays DEF SearchInv
  <1>4. CASE EndReport
    BY <1>4, AcyclicStays DEF SearchInv, EndReport
  <1>5. CASE \E n \in Nodes : Take(n)
    BY <1>5, AcyclicStays DEF SearchInv, Take
  <1>6. CASE EndOrder
    BY <1>6, AcyclicStays DEF SearchInv, EndOrder
  <1>7. CASE \E m \in Nodes, S \in SUBSET Nodes : m \notin S /\ BeginPolicies(ManagersOf(m, S))
    BY <1>7 DEF SearchInv, BeginPolicies
  <1>8. CASE EndPolicies \/ PolicyCycle
    BY <1>8 DEF SearchInv, EndPolicies, PolicyCycle
  <1>9. CASE UNCHANGED vars
    <2>1. VisitInv => VisitInv'
      BY <1>9, VisitStutters DEF vars, tarjanVars
    <2> QED
      BY <1>9, <2>1, AcyclicStays DEF SearchInv, vars, cycleVars
  <1> QED
    BY <1>1, <1>2, <1>3, <1>4, <1>5, <1>6, <1>7, <1>8, <1>9 DEF Next, Step, Ended

-----------------------------------------------------------------------------
(* Complete orders.                                                        *)

\* The sequences that are compared.
LEMMA Arrangement ==
    ASSUME NEW s \in [Nodes -> Nodes]
    PROVE  Len(s) = N /\ s \in Seq(Nodes)
  BY OrderAssumption DEF Nodes

\* One with every provider has none twice.
LEMMA NoneTwice ==
    ASSUME NEW s \in [Nodes -> Nodes], Elements(s) = Nodes
    PROVE  \A i, j \in Nodes : s[i] = s[j] => i = j
  <1>1. Len(s) = N
    BY Arrangement
  <1>2. \A n \in Nodes : \E i \in Nodes : s[i] = n
    BY <1>1 DEF Elements, Nodes
  <1>3. s \in Surjection(Nodes, Nodes)
    BY <1>2 DEF Surjection
  <1>4. IsFiniteSet(Nodes)
    BY NodesFinite
  <1>5. s \in Injection(Nodes, Nodes)
    BY <1>3, <1>4, FS_SurjSameCardinalityImpliesInj
  <1> QED
    BY <1>5 DEF Injection, IsInjective

\* The order is as long as there are providers exactly when it has all of them.
LEMMA CompleteOrder ==
    ASSUME OrderInv
    PROVE  /\ Len(order) \in Nat /\ Len(order) <= N
           /\ Len(order) = N <=> Placed = Nodes
           /\ Len(order) = N => order \in [Nodes -> Nodes]
           /\ Placed \subseteq Nodes
  <1>1. order \in Seq(Nodes) /\ DependencyFirst
    BY DEF OrderInv, OrderTypes
  <1>2. PICK len \in Nat : len = Len(order)
    BY <1>1
  <1>3. order \in [1..len -> Nodes] /\ N \in Nat
    BY <1>1, <1>2, OrderAssumption
  <1>4. order \in Injection(1..len, Nodes)
    BY <1>1, <1>2, <1>3 DEF DependencyFirst, Injection, IsInjective
  <1>5. IsFiniteSet(Nodes) /\ Cardinality(Nodes) = N /\ Cardinality(1..len) = len
    BY <1>3, FS_Interval DEF Nodes
  <1>6. len <= N /\ (len = N <=> order \in Surjection(1..len, Nodes))
    BY <1>4, <1>5, FS_Injection
  <1>7. Placed = {order[i] : i \in 1..len}
    BY <1>2 DEF Placed, Elements
  <1>8. order \in Surjection(1..len, Nodes) <=> Placed = Nodes
    <2>1. order \in Surjection(1..len, Nodes) <=> \A n \in Nodes : \E i \in 1..len : order[i] = n
      BY <1>3 DEF Surjection
    <2> QED
      BY <1>3, <1>7, <2>1
  <1> QED
    BY <1>2, <1>3, <1>6, <1>7, <1>8 DEF Nodes

-----------------------------------------------------------------------------
(* The least order.                                                        *)

\* So far the order agrees with s, or is before it.
Leads(s) ==
    \/ \A i \in 1..Len(order) : order[i] = s[i]
    \/ \E k \in 1..Len(order) : order[k] < s[k] /\ \A i \in 1..(k - 1) : order[i] = s[i]

\* An ordering is never behind an arrangement that respects the dependencies.
LeastInv ==
    phase \in {"order", "ordered", "policies", "done"} =>
        \A s \in [Nodes -> Nodes] : Elements(s) = Nodes /\ Topological(s) => Leads(s)

\* An ordering that has placed nothing is not behind.
LEMMA EmptyLeads ==
    ASSUME order = <<>>, NEW s
    PROVE  Leads(s)
  BY DEF Leads

\* If the order agrees with s so far, the next provider of s is ready: heap.Pop takes it or one before it.
LEMMA NextOfOther ==
    ASSUME OrderInv, NEW node \in Nodes, Take(node),
           NEW s \in [Nodes -> Nodes], Elements(s) = Nodes, Topological(s),
           \A i \in 1..Len(order) : order[i] = s[i]
    PROVE  node <= s[Len(order) + 1] /\ s[Len(order) + 1] \in Nodes
  <1>1. /\ order \in Seq(Nodes) /\ deps \in [Nodes -> SUBSET Nodes] /\ N \in Nat
        /\ ready = {n \in Nodes \ Placed : deps[n] \subseteq Placed} /\ node = Least(ready) /\ node \in ready
    BY OrderAssumption DEF Take, NextReady, OrderInv, OrderTypes, ReadyIsExact
  <1>2. PICK len \in Nat : len = Len(order)
    BY <1>1
  <1>3. len < N
    BY <1>1, <1>2, CompleteOrder
  <1>4. len + 1 \in Nodes /\ Len(s) = N
    BY <1>1, <1>2, <1>3, Arrangement DEF Nodes
  <1>5. PICK x \in Nodes : x = s[len + 1]
    BY <1>4
  <1>6. x \notin Placed
    <2> SUFFICES ASSUME NEW i \in 1..len, x = order[i] PROVE FALSE
      BY <1>2 DEF Placed, Elements
    <2>0. i \in Nodes
      BY <1>1, <1>2, <1>3 DEF Nodes
    <2>1. i \in Nodes /\ s[i] = s[len + 1]
      BY <2>0, <1>2, <1>5
    <2>2. i = len + 1
      BY <2>1, <1>4, NoneTwice
    <2> QED
      BY <2>2, <1>2
  <1>7. ASSUME NEW d \in deps[x] PROVE d \in Placed
    <2>1. d \in Elements(s)
      BY <1>1, <1>5
    <2>2. PICK j \in 1..N : d = s[j]
      BY <2>1, <1>4 DEF Elements
    <2>3. j < len + 1
      BY <2>2, <1>4, <1>5, <1>7 DEF Topological, Nodes
    <2>4. j \in 1..len
      BY <2>3, <1>1, <1>2
    <2> QED
      BY <2>2, <2>4, <1>2 DEF Placed, Elements
  <1>8. x \in ready
    BY <1>1, <1>6, <1>7
  <1>9. ready \in SUBSET Nat /\ ready # {}
    <2>1. Nodes \subseteq Nat
      BY <1>1 DEF Nodes
    <2> QED
      BY <2>1, <1>1, <1>8
  <1> QED
    BY <1>1, <1>2, <1>5, <1>8, <1>9, HasLeast

\* Placing the least ready provider never falls behind.
LEMMA TakeLeads ==
    ASSUME OrderInv, LeastInv, NEW node \in Nodes, Take(node)
    PROVE  LeastInv'
  <1>1. /\ phase \in {"order", "policies"} /\ phase' = phase /\ deps' = deps /\ order' = Append(order, node)
        /\ order \in Seq(Nodes)
    BY DEF Take, OrderInv, OrderTypes
  <1>2. PICK len \in Nat : len = Len(order)
    BY <1>1
  <1>3. Len(order') = len + 1 /\ order'[len + 1] = node /\ \A i \in 1..len : order'[i] = order[i]
    BY <1>1, <1>2, AppendPlaced
  <1> SUFFICES ASSUME NEW s \in [Nodes -> Nodes], Elements(s) = Nodes, Topological(s)' PROVE Leads(s)'
    BY DEF LeastInv, Elements
  <1>4. Topological(s)
    BY <1>1 DEF Topological
  <1>5. Leads(s)
    BY <1>1, <1>4 DEF LeastInv
  <1>6. CASE \E k \in 1..len : order[k] < s[k] /\ \A i \in 1..(k - 1) : order[i] = s[i]
    <2>1. PICK k \in 1..len : order[k] < s[k] /\ \A i \in 1..(k - 1) : order[i] = s[i]
      BY <1>6
    <2>2. k \in 1..(len + 1) /\ order'[k] < s[k] /\ \A i \in 1..(k - 1) : order'[i] = s[i]
      BY <2>1, <1>2, <1>3
    <2> QED
      BY <2>2, <1>3 DEF Leads
  <1>7. CASE \A i \in 1..len : order[i] = s[i]
    <2>1. node <= s[len + 1] /\ s[len + 1] \in Nodes
      BY <1>2, <1>4, <1>7, NextOfOther
    <2>2. CASE node = s[len + 1]
      <3>1. \A i \in 1..(len + 1) : order'[i] = s[i]
        BY <2>2, <1>2, <1>3, <1>7
      <3> QED
        BY <3>1, <1>3 DEF Leads
    <2>3. CASE node # s[len + 1]
      <3>1. node < s[len + 1]
        BY <2>1, <2>3 DEF Nodes
      <3>2. len + 1 \in 1..(len + 1) /\ order'[len + 1] < s[len + 1] /\ \A i \in 1..((len + 1) - 1) : order'[i] = s[i]
        BY <3>1, <1>2, <1>3, <1>7
      <3> QED
        BY <3>2, <1>3 DEF Leads
    <2> QED
      BY <2>2, <2>3
  <1> QED
    BY <1>2, <1>5, <1>6, <1>7 DEF Leads

\* Every step keeps the orderings from falling behind.
LEMMA LeastStep == OrderInv /\ LeastInv /\ [Next]_vars => LeastInv'
  <1> SUFFICES ASSUME OrderInv, LeastInv, [Next]_vars PROVE LeastInv'
    OBVIOUS
  <1>1. ASSUME order' = <<>> PROVE LeastInv'
    BY <1>1 DEF Leads, LeastInv
  <1>2. ASSUME phase' \notin {"order", "ordered", "policies", "done"} PROVE LeastInv'
    BY <1>2 DEF LeastInv
  <1>3. ASSUME phase \in {"order", "ordered", "policies", "done"}, order' = order, deps' = deps PROVE LeastInv'
    BY <1>3 DEF LeastInv, Leads, Topological, Elements
  <1>4. CASE VisitRoot \/ VisitEdge \/ VisitReturn \/ EndVisit
    BY <1>2, <1>4 DEF VisitRoot, VisitEdge, VisitReturn, EndVisit
  <1>5. CASE BeginCycle \/ SearchNext \/ SearchBack
    BY <1>2, <1>5 DEF BeginCycle, SearchNext, SearchBack, Report
  <1>6. CASE EndReport
    BY <1>1, <1>2, <1>6 DEF EndReport
  <1>7. CASE \E n \in Nodes : Take(n)
    BY <1>7, TakeLeads
  <1>8. CASE EndOrder \/ EndPolicies
    BY <1>3, <1>8 DEF EndOrder, EndPolicies, orderVars
  <1>9. CASE \E m \in Nodes, S \in SUBSET Nodes : m \notin S /\ BeginPolicies(ManagersOf(m, S))
    BY <1>1, <1>9 DEF BeginPolicies
  <1>10. CASE PolicyCycle
    BY <1>2, <1>10 DEF PolicyCycle
  <1>11. CASE UNCHANGED vars
    BY <1>2, <1>3, <1>11 DEF vars, orderVars
  <1> QED
    BY <1>4, <1>5, <1>6, <1>7, <1>8, <1>9, <1>10, <1>11 DEF Next, Step, Ended

\* The first of the arrangements that respect the dependencies.
First(o) ==
    /\ o \in [Nodes -> Nodes] /\ Elements(o) = Nodes /\ Topological(o)
    /\ \A s \in [Nodes -> Nodes] : Elements(s) = Nodes /\ Topological(s) => Precedes(o, s)

\* An ordering that has placed every provider is the first arrangement.
LEMMA CompleteIsFirst ==
    ASSUME OrderInv, LeastInv, phase \in {"order", "ordered", "policies", "done"}, Len(order) = N
    PROVE  First(order)
  <1>1. order \in [Nodes -> Nodes] /\ Elements(order) = Nodes /\ N \in Nat
    BY CompleteOrder, OrderAssumption DEF Placed
  <1>2. ASSUME NEW i \in 1..N, NEW j \in 1..N, order[j] \in deps[order[i]] PROVE j < i
    <2>1. PICK l \in 1..(i - 1) : order[l] = order[j]
      BY <1>2 DEF OrderInv, DependencyFirst
    <2>2. l \in 1..N
      BY <2>1, <1>1
    <2>3. l = j
      BY <2>1, <2>2 DEF OrderInv, DependencyFirst
    <2> QED
      BY <2>1, <2>3
  <1>3. ASSUME NEW s \in [Nodes -> Nodes], Elements(s) = Nodes, Topological(s) PROVE Precedes(order, s)
    <2>1. Leads(s)
      BY <1>3 DEF LeastInv
    <2>2. (\A i \in 1..N : order[i] = s[i]) => order = s
      BY <1>1 DEF Nodes
    <2> QED
      BY <2>1, <2>2 DEF Leads, Precedes
  <1> QED
    BY <1>1, <1>2, <1>3 DEF First, Topological

\* There is one first arrangement.
LEMMA OneFirst ==
    ASSUME NEW a, NEW b, First(a), First(b)
    PROVE  a = b
  <1>1. a \in [Nodes -> Nodes] /\ b \in [Nodes -> Nodes] /\ Precedes(a, b) /\ Precedes(b, a)
    BY DEF First
  <1>2. ASSUME a # b PROVE FALSE
    <2>1. PICK k \in 1..N : a[k] < b[k] /\ \A i \in 1..(k - 1) : a[i] = b[i]
      BY <1>1, <1>2 DEF Precedes
    <2>2. PICK l \in 1..N : b[l] < a[l] /\ \A i \in 1..(l - 1) : b[i] = a[i]
      BY <1>1, <1>2 DEF Precedes
    <2>3. N \in Nat /\ a[k] \in Int /\ b[k] \in Int /\ a[l] \in Int /\ b[l] \in Int
      BY <1>1, OrderAssumption DEF Nodes
    <2>4. k = l \/ k \in 1..(l - 1) \/ l \in 1..(k - 1)
      BY <2>3
    <2> QED
      BY <2>1, <2>2, <2>3, <2>4
  <1> QED
    BY <1>2

-----------------------------------------------------------------------------
(* The second ordering.                                                    *)

\* If nothing is cyclic, the first ordering places every provider.
LEMMA AllPlaced ==
    ASSUME OrderInv, SearchInv, phase = "ordered"
    PROVE  Len(order) = N
  <1>1. Acyclic /\ deps \in [Nodes -> SUBSET Nodes]
    BY DEF SearchInv, OrderInv, OrderTypes
  <1>2. \A n \in Nodes \ Placed : deps[n] \ Placed # {}
    BY DEF OrderInv, LeftOutWaits, Placed
  <1>3. ASSUME Nodes \ Placed # {} PROVE FALSE
    <2>1. PICK n \in Nodes \ Placed : deps[n] \cap (Nodes \ Placed) = {}
      BY <1>1, <1>3 DEF Acyclic, Grounded
    <2> QED
      BY <1>1, <1>2, <2>1
  <1> QED
    BY <1>3, CompleteOrder

\* What is reached from a dependency is reached from the provider.
LEMMA ReachFacts ==
    ASSUME deps \in [Nodes -> SUBSET Nodes], NEW n \in Nodes
    PROVE  /\ n \in Reach(n) /\ Reach(n) \in SUBSET Nodes
           /\ \A d \in deps[n] : Reach(d) \subseteq Reach(n)
  BY DEF Reach

\* Where everyone of L waits for someone of L, there is a cycle.
LEMMA WaitingIsCyclic ==
    ASSUME deps \in [Nodes -> SUBSET Nodes], NEW L \in SUBSET Nodes, L # {}, \A n \in L : deps[n] \cap L # {}
    PROVE  \E n \in Nodes : n \in After(n)
  <1>1. PICK T : T = {Reach(n) : n \in L}
    OBVIOUS
  <1>2. T \subseteq SUBSET Nodes /\ T # {}
    BY <1>1, ReachFacts
  <1>3. IsWellFoundedOn(StrictSubsetOrdering(Nodes), SUBSET Nodes)
    <2>1. FiniteSubsetsOf(Nodes) = SUBSET Nodes
      BY NodesFinite, FS_FiniteSubsetsOfFinite
    <2> QED
      BY <2>1, FS_StrictSubsetOrderingWellFounded
  <1>4. PICK R \in T : \A Q \in T : ~(<<Q, R>> \in StrictSubsetOrdering(Nodes))
    BY <1>2, <1>3, WFMin
  <1>5. PICK n \in L : R = Reach(n)
    BY <1>1, <1>4
  <1>6. PICK d \in deps[n] : d \in L
    BY <1>5
  <1>7. Reach(d) \in T /\ Reach(d) \subseteq R /\ Reach(d) \in SUBSET Nodes /\ R \in SUBSET Nodes
    BY <1>1, <1>5, <1>6, ReachFacts
  <1>8. Reach(d) = R
    BY <1>4, <1>7 DEF StrictSubsetOrdering
  <1>9. n \in Reach(d)
    BY <1>5, <1>8, ReachFacts
  <1> QED
    BY <1>5, <1>6, <1>9 DEF After

\* The second ordering: the managers are dependencies, the providers without one are as acyclic as before, and
\* without any manager the graph is the one that graph.Build has ordered.
PolicyInv ==
    /\ phase = "ordered" => graphOrder = order
    /\ phase \in {"policies", "done", "policyCycle"} =>
         /\ managers \in [Nodes -> Nodes \cup {0}]
         /\ \A s \in Nodes : managers[s] # 0 => managers[s] \in deps[s]
    /\ phase = "policies" => \A S \in SUBSET {s \in Nodes : managers[s] = 0} : S # {} => Grounded(S)
    /\ phase \in {"policies", "done"} /\ managers = [s \in Nodes |-> 0] => First(graphOrder)
    /\ phase = "done" => Len(order) = N
    /\ phase = "policyCycle" => (\E n \in Nodes : n \in After(n)) /\ blamed # 0

\* Which arrangement is the first depends on the dependencies alone.
LEMMA FirstStays ==
    ASSUME First(graphOrder), deps' = deps, graphOrder' = graphOrder
    PROVE  First(graphOrder)'
  <1>1. PICK o : o = graphOrder
    OBVIOUS
  <1>2. First(o)
    BY <1>1
  <1>3. \A s : Topological(s)' <=> Topological(s)
    BY DEF Topological
  <1>4. First(o)'
    BY <1>2, <1>3 DEF First, Precedes, Elements
  <1> QED
    BY <1>1, <1>4

\* The managers are added to a graph without cycles.
LEMMA BeginPoliciesKeeps ==
    ASSUME OrderInv, SearchInv, LeastInv, PolicyInv, NEW m \in Nodes, NEW S \in SUBSET Nodes,
           BeginPolicies(ManagersOf(m, S))
    PROVE  PolicyInv'
  <1>1. /\ phase = "ordered" /\ deps' = WithManagers(managers') /\ managers' = ManagersOf(m, S)
        /\ phase' = "policies" /\ graphOrder' = graphOrder /\ graphOrder = order
    BY DEF BeginPolicies, PolicyInv
  <1>2. Acyclic /\ First(order) /\ deps \in [Nodes -> SUBSET Nodes]
    BY <1>1, AllPlaced, CompleteIsFirst DEF SearchInv, OrderInv, OrderTypes
  <1>3. managers' \in [Nodes -> Nodes \cup {0}]
    BY <1>1 DEF ManagersOf
  <1>4. \A s \in Nodes : deps'[s] = deps[s] \cup ({managers'[s]} \ {0})
    BY <1>1 DEF WithManagers
  <1>5. ASSUME NEW L \in SUBSET {s \in Nodes : managers'[s] = 0}, L # {} PROVE Grounded(L)'
    <2>1. PICK n \in L : deps[n] \cap L = {}
      BY <1>2, <1>5 DEF Acyclic, Grounded
    <2>2. deps'[n] = deps[n]
      BY <1>4
    <2> QED
      BY <2>1, <2>2 DEF Grounded
  <1>6. ASSUME managers' = [s \in Nodes |-> 0] PROVE First(graphOrder)'
    <2>0. \A s \in Nodes : managers'[s] = 0
      BY <1>6
    <2>1. \A s \in Nodes : deps'[s] = deps[s]
      BY <1>4, <2>0
    <2>2. deps' = [s \in Nodes |-> deps'[s]]
      BY <1>1 DEF WithManagers
    <2>3. deps' = deps
      BY <2>1, <2>2, <1>2
    <2> QED
      BY <2>3, <1>1, <1>2, FirstStays
  <1> QED
    BY <1>1, <1>3, <1>4, <1>5, <1>6 DEF PolicyInv

\* The second ordering stops early only for a cycle, and then some service with a manager waits.
LEMMA PolicyCycleKeeps ==
    ASSUME OrderInv, PolicyInv, PolicyCycle
    PROVE  PolicyInv'
  <1>1. /\ phase = "policies" /\ ready = {} /\ Len(order) < N /\ phase' = "policyCycle" /\ deps' = deps
        /\ managers' = managers /\ blamed' = (IF Waiting = {} THEN 0 ELSE Least(Waiting))
        /\ deps \in [Nodes -> SUBSET Nodes] /\ managers \in [Nodes -> Nodes \cup {0}] /\ N \in Nat
    BY OrderAssumption DEF PolicyCycle, PolicyInv, OrderInv, OrderTypes
  <1>2. PICK L \in SUBSET Nodes : L = Nodes \ Placed
    OBVIOUS
  <1>3. L # {}
    BY <1>1, <1>2, CompleteOrder
  <1>4. \A n \in L : deps[n] \cap L # {}
    BY <1>1, <1>2, NobodyReady DEF Placed
  <1>5. \E n \in Nodes : n \in After(n)
    BY <1>1, <1>3, <1>4, WaitingIsCyclic
  <1>6. Waiting # {}
    <2>1. PICK n \in L : managers[n] # 0
      BY <1>1, <1>3, <1>4 DEF PolicyInv, Grounded
    <2>2. remaining[n] = Cardinality(deps[n] \ Placed) /\ deps[n] \ Placed # {} /\ deps[n] \ Placed \in SUBSET Nodes
      BY <1>1, <1>2, <1>4, <2>1 DEF OrderInv, RemainingCounts
    <2>3. Cardinality(deps[n] \ Placed) \in Nat /\ Cardinality(deps[n] \ Placed) # 0
      BY <2>2, NodesFinite, FS_EmptySet
    <2>4. n \in Nodes /\ remaining[n] > 0
      BY <1>2, <2>2, <2>3
    <2> QED
      BY <2>1, <2>4 DEF Waiting
  <1>7. blamed' # 0
    <2>1. Waiting \in SUBSET Nodes
      BY DEF Waiting
    <2>2. Nodes \subseteq Nat /\ 0 \notin Nodes
      BY <1>1 DEF Nodes
    <2>3. Least(Waiting) \in Waiting
      BY <1>6, <2>1, <2>2, HasLeast
    <2> QED
      BY <1>1, <1>6, <2>1, <2>2, <2>3
  <1>8. (\E n \in Nodes : n \in After(n))'
    BY <1>1, <1>5 DEF After, Reach
  <1> QED
    BY <1>1, <1>7, <1>8 DEF PolicyInv

\* Every step keeps PolicyInv.
LEMMA PolicyStep == OrderInv /\ SearchInv /\ LeastInv /\ PolicyInv /\ [Next]_vars => PolicyInv'
  <1> SUFFICES ASSUME OrderInv, SearchInv, LeastInv, PolicyInv, [Next]_vars PROVE PolicyInv'
    OBVIOUS
  <1>1. ASSUME phase' \notin {"ordered", "policies", "done", "policyCycle"} PROVE PolicyInv'
    BY <1>1 DEF PolicyInv
  <1>2. CASE VisitRoot \/ VisitEdge \/ VisitReturn \/ EndVisit
    BY <1>1, <1>2 DEF VisitRoot, VisitEdge, VisitReturn, EndVisit
  <1>3. CASE BeginCycle \/ SearchNext \/ SearchBack
    BY <1>1, <1>3 DEF BeginCycle, SearchNext, SearchBack, Report
  <1>4. CASE EndReport
    BY <1>1, <1>4 DEF EndReport
  <1>5. ASSUME deps' = deps, managers' = managers, graphOrder' = graphOrder
        PROVE  /\ First(graphOrder) => First(graphOrder)'
               /\ (\A S \in SUBSET {s \in Nodes : managers[s] = 0} : S # {} => Grounded(S)) =>
                    (\A S \in SUBSET {s \in Nodes : managers[s] = 0} : S # {} => Grounded(S))'
               /\ (\E n \in Nodes : n \in After(n)) => (\E n \in Nodes : n \in After(n))'
    <2>1. (\E n \in Nodes : n \in After(n)) => (\E n \in Nodes : n \in After(n))'
      BY <1>5 DEF After, Reach
    <2>2. (\A S \in SUBSET {s \in Nodes : managers[s] = 0} : S # {} => Grounded(S)) =>
            (\A S \in SUBSET {s \in Nodes : managers[s] = 0} : S # {} => Grounded(S))'
      BY <1>5 DEF Grounded
    <2> QED
      BY <1>5, <2>1, <2>2, FirstStays
  <1>6. CASE \E n \in Nodes : Take(n)
    <2>1. /\ phase \in {"order", "policies"} /\ phase' = phase
          /\ deps' = deps /\ managers' = managers /\ graphOrder' = graphOrder
      BY <1>6 DEF Take
    <2> QED
      BY <1>5, <2>1 DEF PolicyInv
  <1>7. CASE EndOrder
    BY <1>7 DEF EndOrder, PolicyInv, orderVars
  <1>8. CASE \E m \in Nodes, S \in SUBSET Nodes : m \notin S /\ BeginPolicies(ManagersOf(m, S))
    BY <1>8, BeginPoliciesKeeps
  <1>9. CASE EndPolicies
    <2>1. /\ phase = "policies" /\ phase' = "done" /\ Len(order) = N /\ order' = order
          /\ deps' = deps /\ managers' = managers /\ graphOrder' = graphOrder
      BY <1>9 DEF EndPolicies, orderVars
    <2> QED
      BY <1>5, <2>1 DEF PolicyInv
  <1>10. CASE PolicyCycle
    BY <1>10, PolicyCycleKeeps
  <1>11. CASE UNCHANGED vars
    <2>1. /\ phase' = phase /\ order' = order /\ deps' = deps /\ managers' = managers /\ graphOrder' = graphOrder
          /\ blamed' = blamed
      BY <1>11 DEF vars, orderVars
    <2> QED
      BY <1>5, <2>1 DEF PolicyInv
  <1> QED
    BY <1>2, <1>3, <1>4, <1>6, <1>7, <1>8, <1>9, <1>10, <1>11 DEF Next, Step, Ended

\* The four invariants together say that a finished order is the least one.
LEMMA LeastFromInvs ==
    ASSUME OrderInv, SearchInv, LeastInv, PolicyInv
    PROVE  OrderIsLeast
  <1>1. ASSUME phase \in {"ordered", "done"} PROVE Len(order) = N /\ First(order)
    BY <1>1, AllPlaced, CompleteIsFirst DEF PolicyInv
  <1>2. ASSUME phase = "done", NEW s \in Nodes, managers[s] # 0
        PROVE  \E i, j \in Nodes : i < j /\ order[i] = managers[s] /\ order[j] = s
    <2>1. managers[s] \in deps[s] /\ Len(order) = N /\ N \in Nat
      BY <1>2, OrderAssumption DEF PolicyInv
    <2>2. Placed = Nodes
      BY <2>1, CompleteOrder
    <2>3. PICK j \in 1..N : order[j] = s
      BY <2>1, <2>2 DEF Placed, Elements
    <2>4. PICK i \in 1..(j - 1) : order[i] = managers[s]
      BY <2>1, <2>3 DEF OrderInv, DependencyFirst
    <2> QED
      BY <2>1, <2>3, <2>4 DEF Nodes
  <1>3. ASSUME phase = "done", managers = [s \in Nodes |-> 0] PROVE order = graphOrder
    BY <1>1, <1>3, OneFirst DEF PolicyInv
  <1> QED
    BY <1>1, <1>2, <1>3 DEF OrderIsLeast, First, PolicyInv

\* For every number of providers and every graph: a finished order has every provider and is the first one, by
\* symbol IDs, that respects the dependencies; orderProvidersForPolicies rejects a model only for a cycle and then
\* names a service, constructs the manager before its services, and changes nothing where there are none.
THEOREM OrdersAreLeast == Spec => []OrderIsLeast
  <1>1. Init => OrderInv /\ SearchInv /\ LeastInv /\ PolicyInv
    <2> SUFFICES ASSUME Init PROVE SearchInv /\ LeastInv /\ PolicyInv
      BY OrderInvInit
    <2>1. phase = "visit"
      BY DEF Init
    <2> QED
      BY <2>1, VisitInit DEF SearchInv, LeastInv, PolicyInv
  <1>2. OrderInv /\ SearchInv /\ LeastInv /\ PolicyInv => OrderIsLeast
    BY LeastFromInvs
  <1> QED
    BY <1>1, <1>2, OrderInvNext, SearchStep, LeastStep, PolicyStep, PTL DEF Spec

-----------------------------------------------------------------------------
(* That the components are the strongly connected ones.                    *)

\* visit(m) has returned and m is still on the stack.
Returned(m) == m \in Open /\ \A k \in 1..Len(frames) : Frame(k) # m

\* A call was made for a dependency of its caller, and whoever is above a call on the stack was met from the call
\* or from someone above it.
TreeInv ==
    /\ \A k \in 1..Len(frames) : frames[k].todo \subseteq deps[Frame(k)]
    /\ \A k \in 1..(Len(frames) - 1) : Frame(k + 1) \in deps[Frame(k)]
    /\ \A k \in 1..Len(frames) : \A m \in Open : index[Frame(k)] < index[m] =>
         \E p \in Open : index[Frame(k)] <= index[p] /\ index[p] < index[m] /\ m \in deps[p]

\* m needs the provider with its lowlink, or one above it that has returned with the same lowlink.
Lowered(m) ==
    /\ lowlink[m] < index[m]
    /\ \E w \in deps[m] \cap Open :
         \/ index[w] = lowlink[m]
         \/ index[m] < index[w] /\ Returned(w) /\ lowlink[w] = lowlink[m]

\* A lowlink is the index of someone who is reached, and a call that returned without a component has passed it on.
LowlinkInv ==
    /\ \A m \in Open : lowlink[m] = index[m] \/ Lowered(m)
    /\ \A m \in Open : Returned(m) => lowlink[m] < index[m]
    /\ \A m \in Open : \A k \in 1..Len(frames) : Returned(m) /\ Owner(k, m) => lowlink[Frame(k)] <= lowlink[m]

\* There is no part of c that needs nothing of the rest of c.
Connected(c) == \A X \in SUBSET c : X # {} /\ X # c => \E n \in X : deps[n] \cap (c \ X) # {}

\* What c needs does not need c.
Separate(c) ==
    \E F \in SUBSET Nodes : /\ F \cap c = {}
                            /\ \A n \in F : deps[n] \subseteq F
                            /\ \A n \in c : deps[n] \subseteq F \cup c

ComponentInv ==
    /\ \A c \in components : c \in SUBSET Nodes /\ c # {} /\ Connected(c) /\ Separate(c)
    /\ \A c, e \in components : c = e \/ c \cap e = {}

ConnectInv == TreeInv /\ LowlinkInv /\ ComponentInv /\ Open \cap Finished = {}

\* Nothing is visited when the compiler starts.
LEMMA ConnectInit == Init => ConnectInv
  <1> SUFFICES ASSUME Init PROVE ConnectInv
    OBVIOUS
  <1>1. stack = <<>> /\ frames = <<>> /\ components = {}
    BY DEF Init
  <1>2. Open = {} /\ Finished = {} /\ Len(frames) = 0
    BY <1>1 DEF Open, Elements, Finished
  <1> QED
    BY <1>1, <1>2 DEF ConnectInv, TreeInv, LowlinkInv, ComponentInv

\* What is known of the components depends on them and the dependencies alone.
LEMMA ComponentStays ==
    ASSUME ComponentInv, deps' = deps, components' = components
    PROVE  ComponentInv'
  BY DEF ComponentInv, Connected, Separate

\* visit(d) begins.
LEMMA ConnectPush ==
    ASSUME VisitInv, ConnectInv, NEW len \in Nat, len = Len(frames), NEW d \in Nodes, NEW rest, Pushed(d, rest, len),
           len # 0 => d \in deps[Frame(len)],
           \A k \in 1..len : rest[k].todo \subseteq frames[k].todo,
           deps' = deps, components' = components
    PROVE  ConnectInv'
  <1>1. /\ TreeInv /\ LowlinkInv /\ ComponentInv /\ Open \cap Finished = {}
        /\ FrameInv /\ nextIndex \in Nat
        /\ \A k \in 1..len : Frame(k) \in Nodes
        /\ \A n \in Nodes : index[n] \in Int /\ lowlink[n] \in Int
    BY FrameFacts DEF VisitInv, ConnectInv, VisitTypes
  <1>2. /\ Len(frames') = len + 1 /\ Frame(len + 1)' = d /\ frames'[len + 1].todo = deps[d]
        /\ \A k \in 1..len : Frame(k)' = Frame(k) /\ frames'[k].todo = rest[k].todo
        /\ Open' = Open \cup {d} /\ Finished' = Finished /\ d \notin Open /\ d \notin Finished
        /\ index'[d] = nextIndex /\ lowlink'[d] = nextIndex
    BY DEF Pushed
  <1>3. \A n \in Open : /\ n \in Nodes /\ 0 <= index[n] /\ index[n] < nextIndex /\ n # d
                        /\ index'[n] = index[n] /\ lowlink'[n] = lowlink[n]
    BY DEF Pushed
  <1>4. \A k \in 1..len : Frame(k) \in Open
    BY DEF Pushed
  <1>5. \A k \in 1..(len + 1) : k \in 1..len \/ k = len + 1
    OBVIOUS
  <1>6. TreeInv'
    <2>1. \A k \in 1..Len(frames') : frames'[k].todo \subseteq deps'[Frame(k)']
      BY <1>1, <1>2, <1>5 DEF TreeInv
    <2>2. ASSUME NEW k \in 1..(Len(frames') - 1) PROVE Frame(k + 1)' \in deps'[Frame(k)']
      <3>1. k \in 1..len
        BY <1>2
      <3>2. CASE k = len
        BY <1>2, <3>1, <3>2
      <3>3. CASE k # len
        <4>1. k \in 1..(len - 1) /\ k + 1 \in 1..len
          BY <3>1, <3>3
        <4> QED
          BY <1>1, <1>2, <3>1, <4>1 DEF TreeInv
      <3> QED
        BY <3>2, <3>3
    <2>3. ASSUME NEW k \in 1..Len(frames'), NEW m \in Open', index'[Frame(k)'] < index'[m]
          PROVE  \E p \in Open' : index'[Frame(k)'] <= index'[p] /\ index'[p] < index'[m] /\ m \in deps'[p]
      <3>1. k \in 1..len
        <4>1. k = len + 1 => index'[m] <= nextIndex
          BY <1>1, <1>2, <1>3
        <4> QED
          BY <1>1, <1>2, <1>3, <1>5, <2>3, <4>1
      <3>2. index'[Frame(k)'] = index[Frame(k)] /\ Frame(k) \in Open
        BY <1>2, <1>3, <1>4, <3>1
      <3>3. CASE m = d
        <4>1. len \in 1..len /\ Frame(len) \in Open /\ d \in deps[Frame(len)]
          BY <1>4, <3>1
        <4>2. index[Frame(k)] <= index[Frame(len)]
          <5>1. k = len \/ index[Frame(k)] < index[Frame(len)]
            BY <1>1, <3>1, <4>1 DEF FrameInv
          <5>2. index[Frame(k)] \in Int /\ index[Frame(len)] \in Int
            BY <1>1, <3>1, <4>1
          <5> QED
            BY <5>1, <5>2
        <4> QED
          BY <1>2, <1>3, <3>2, <3>3, <4>1, <4>2
      <3>4. CASE m \in Open
        <4>1. index[Frame(k)] < index[m]
          BY <1>3, <2>3, <3>2, <3>4
        <4>2. PICK p \in Open : index[Frame(k)] <= index[p] /\ index[p] < index[m] /\ m \in deps[p]
          BY <1>1, <3>1, <3>4, <4>1 DEF TreeInv
        <4> QED
          BY <1>2, <1>3, <3>2, <3>4, <4>2
      <3> QED
        BY <1>2, <3>3, <3>4
    <2> QED
      BY <2>1, <2>2, <2>3 DEF TreeInv
  <1>7. \A m : Returned(m)' <=> Returned(m)
    <2> SUFFICES ASSUME NEW m PROVE Returned(m)' <=> Returned(m)
      OBVIOUS
    <2>1. CASE m = d
      <3>1. len + 1 \in 1..Len(frames')
        BY <1>2
      <3> QED
        BY <1>2, <2>1, <3>1 DEF Returned
    <2>2. CASE m # d
      BY <1>2, <1>5, <2>2 DEF Returned
    <2> QED
      BY <2>1, <2>2
  <1>8. LowlinkInv'
    <2>1. ASSUME NEW m \in Open PROVE lowlink'[m] = index'[m] \/ Lowered(m)'
      <3>1. CASE lowlink[m] = index[m]
        BY <1>3, <3>1
      <3>2. CASE Lowered(m)
        <4>1. PICK w \in deps[m] \cap Open : \/ index[w] = lowlink[m]
                                             \/ index[m] < index[w] /\ Returned(w) /\ lowlink[w] = lowlink[m]
          BY <3>2 DEF Lowered
        <4>2. lowlink[m] < index[m]
          BY <3>2 DEF Lowered
        <4> QED
          BY <1>2, <1>3, <1>7, <4>1, <4>2 DEF Lowered
      <3> QED
        BY <1>1, <3>1, <3>2 DEF LowlinkInv
    <2>2. ASSUME NEW m \in Open', Returned(m)' PROVE Returned(m) /\ m \in Open /\ lowlink'[m] < index'[m]
      BY <1>1, <1>3, <1>7, <2>2 DEF Returned, LowlinkInv
    <2>3. ASSUME NEW m \in Open', NEW k \in 1..Len(frames'), Returned(m)', Owner(k, m)'
          PROVE  lowlink'[Frame(k)'] <= lowlink'[m]
      <3>1. Returned(m) /\ m \in Open /\ index'[m] = index[m] /\ lowlink'[m] = lowlink[m] /\ index[m] < nextIndex
        BY <1>3, <2>2, <2>3
      <3>2. index'[Frame(k)'] <= index[m] /\ (k = len + 1 \/ index[m] < index'[Frame(k + 1)'])
        BY <1>2, <2>3, <3>1 DEF Owner
      <3>3. k \in 1..len
        BY <1>1, <1>2, <1>3, <1>5, <3>1, <3>2
      <3>4. Frame(k) \in Open /\ Frame(k)' = Frame(k) /\ index'[Frame(k)] = index[Frame(k)]
            /\ lowlink'[Frame(k)] = lowlink[Frame(k)]
        BY <1>2, <1>3, <1>4, <3>3
      <3>5. k = len \/ index[m] < index[Frame(k + 1)]
        <4>1. ASSUME k # len PROVE k + 1 \in 1..len
          BY <3>3, <4>1
        <4> QED
          BY <1>2, <1>3, <1>4, <3>2, <3>3, <4>1
      <3>6. Owner(k, m)
        BY <3>2, <3>4, <3>5 DEF Owner
      <3> QED
        BY <1>1, <3>1, <3>3, <3>4, <3>6 DEF LowlinkInv
    <2> QED
      BY <1>2, <2>1, <2>2, <2>3 DEF LowlinkInv
  <1> QED
    BY <1>1, <1>2, <1>6, <1>8, ComponentStays DEF ConnectInv

\* The loop over all nodes visits one that was not visited.
LEMMA ConnectRoot ==
    ASSUME VisitInv, ConnectInv, VisitRoot
    PROVE  ConnectInv'
  <1> DEFINE fresh == {n \in Nodes : index[n] = -1}
  <1>1. PICK d : d = Least(fresh)
    OBVIOUS
  <1>2. /\ frames = <<>> /\ fresh # {} /\ Visit(d) /\ frames' = <<[node |-> d, todo |-> deps[d]]>>
        /\ deps' = deps /\ components' = components
    BY <1>1 DEF VisitRoot
  <1>3. d \in Nodes /\ index[d] = -1
    <2>1. fresh \in SUBSET Nat
      BY OrderAssumption DEF Nodes
    <2>2. d \in fresh
      BY <1>1, <1>2, <2>1, HasLeast
    <2> QED
      BY <2>2
  <1>4. frames' = Append(frames, [node |-> d, todo |-> deps[d]])
    BY <1>2
  <1>5. PICK len \in Nat : len = Len(frames) /\ len = 0
    BY <1>2
  <1>6. frames \in Seq([node : Nodes, todo : SUBSET Nodes])
    BY DEF VisitInv, VisitTypes
  <1>7. Pushed(d, frames, len)
    BY <1>2, <1>3, <1>4, <1>5, <1>6, PushFacts DEF Frame
  <1> QED
    BY <1>2, <1>3, <1>5, <1>7, ConnectPush

\* The innermost call looks at its next dependency.
LEMMA ConnectEdge ==
    ASSUME VisitInv, ConnectInv, VisitEdge
    PROVE  ConnectInv'
  <1>0. PICK len \in Nat : len = Len(frames)
    BY DEF VisitInv, VisitTypes
  <1>1. PICK d, rest : EdgeStep(d, rest, len)
    BY <1>0, EdgeFacts
  <1>2. PICK a : a = Frame(len)
    OBVIOUS
  <1>3. /\ VisitTypes /\ TreeInv /\ LowlinkInv /\ LowInv /\ ComponentInv /\ Open \cap Finished = {}
        /\ \A k \in 1..len : Frame(k) \in Nodes
        /\ Open \subseteq Nodes
        /\ \A n \in Nodes : index[n] \in Int /\ lowlink[n] \in Int
    BY <1>0, FrameFacts DEF VisitInv, ConnectInv
  <1>4. /\ deps' = deps /\ components' = components /\ len \in 1..len /\ d \in frames[len].todo /\ d \in Nodes
        /\ rest \in Seq([node : Nodes, todo : SUBSET Nodes]) /\ Len(rest) = len
        /\ \A k \in 1..len : rest[k].node = Frame(k) /\ rest[k].todo \subseteq frames[k].todo
    BY <1>0, <1>1 DEF EdgeStep, Reduced
  <1>5. d \in deps[a]
    BY <1>0, <1>2, <1>3, <1>4 DEF TreeInv
  <1>6. CASE index[d] = -1 /\ Visit(d) /\ frames' = Append(rest, [node |-> d, todo |-> deps[d]])
    <2>1. Pushed(d, rest, len)
      BY <1>0, <1>4, <1>6, PushFacts
    <2> QED
      BY <1>0, <1>2, <1>4, <1>5, <2>1, ConnectPush
  <1>7. CASE /\ index[d] # -1 /\ frames' = rest /\ index' = index /\ stack' = stack /\ nextIndex' = nextIndex
             /\ lowlink' = IF OnStack(d) THEN [lowlink EXCEPT ![a] = Smaller(@, index[d])] ELSE lowlink
    <2>1. /\ Len(frames') = len /\ Open' = Open /\ Finished' = Finished
          /\ \A k \in 1..len : Frame(k)' = Frame(k) /\ frames'[k].todo \subseteq frames[k].todo
      BY <1>4, <1>7 DEF Frame, Open, Finished
    <2>2. /\ \A n \in Nodes \ {a} : lowlink'[n] = lowlink[n]
          /\ lowlink'[a] = lowlink[a] \/ (d \in Open /\ lowlink'[a] = index[d] /\ index[d] < lowlink[a])
      <3>1. a \in Nodes /\ lowlink \in [Nodes -> Int] /\ (OnStack(d) <=> d \in Open)
        BY <1>2, <1>3, <1>4 DEF VisitTypes, OnStack, Open
      <3>2. CASE d \in Open
        <4>1. lowlink' = [lowlink EXCEPT ![a] = Smaller(lowlink[a], index[d])]
          BY <1>7, <3>1, <3>2
        <4> QED
          BY <1>3, <1>4, <3>1, <3>2, <4>1 DEF Smaller
      <3>3. CASE d \notin Open
        BY <1>7, <3>1, <3>3
      <3> QED
        BY <3>2, <3>3
    <2>3. a \in Nodes /\ \A n \in Nodes : lowlink'[n] <= lowlink[n] /\ lowlink'[n] \in Int
      BY <1>2, <1>3, <1>4, <2>2
    <2>4. \A m : Returned(m)' <=> Returned(m)
      BY <1>0, <2>1 DEF Returned
    <2>5. \A m : Returned(m) => m # a
      BY <1>0, <1>2, <1>4 DEF Returned
    <2>6. TreeInv'
      <3>1. \A k \in 1..Len(frames') : frames'[k].todo \subseteq deps'[Frame(k)']
        BY <1>0, <1>3, <1>4, <2>1 DEF TreeInv
      <3>2. ASSUME NEW k \in 1..(Len(frames') - 1) PROVE Frame(k + 1)' \in deps'[Frame(k)']
        <4>1. k \in 1..(len - 1) /\ k \in 1..len /\ k + 1 \in 1..len
          BY <2>1
        <4> QED
          BY <1>0, <1>3, <1>4, <2>1, <4>1 DEF TreeInv
      <3>3. ASSUME NEW k \in 1..Len(frames'), NEW m \in Open', index'[Frame(k)'] < index'[m]
            PROVE  \E p \in Open' : index'[Frame(k)'] <= index'[p] /\ index'[p] < index'[m] /\ m \in deps'[p]
        BY <1>0, <1>3, <1>4, <1>7, <2>1, <3>3 DEF TreeInv
      <3> QED
        BY <3>1, <3>2, <3>3 DEF TreeInv
    <2>7. LowlinkInv'
      <3>1. ASSUME NEW m \in Open PROVE lowlink'[m] = index[m] \/ Lowered(m)'
        <4>1. CASE m = a /\ lowlink'[a] # lowlink[a]
          <5>1. lowlink[a] <= index[a]
            BY <1>0, <1>2, <1>3, <1>4 DEF LowInv
          <5>2. lowlink'[a] < index'[a] /\ d \in deps'[a] \cap Open' /\ index'[d] = lowlink'[a]
            BY <1>3, <1>4, <1>5, <1>7, <2>1, <2>2, <4>1, <5>1
          <5> QED
            BY <4>1, <5>2 DEF Lowered
        <4>2. CASE lowlink'[m] = lowlink[m]
          <5>1. CASE lowlink[m] = index[m]
            BY <4>2, <5>1
          <5>2. CASE Lowered(m)
            <6>1. PICK w \in deps[m] \cap Open : \/ index[w] = lowlink[m]
                                                 \/ index[m] < index[w] /\ Returned(w) /\ lowlink[w] = lowlink[m]
              BY <5>2 DEF Lowered
            <6>2. lowlink[m] < index[m]
              BY <5>2 DEF Lowered
            <6>3. Returned(w) => Returned(w)' /\ lowlink'[w] = lowlink[w]
              BY <1>3, <2>2, <2>4, <2>5, <6>1
            <6> QED
              BY <1>4, <1>7, <2>1, <4>2, <6>1, <6>2, <6>3 DEF Lowered
          <5> QED
            BY <1>3, <5>1, <5>2 DEF LowlinkInv
        <4> QED
          BY <1>3, <2>2, <4>1, <4>2
      <3>2. ASSUME NEW m \in Open, Returned(m) PROVE lowlink'[m] = lowlink[m] /\ lowlink[m] < index[m]
        BY <1>3, <2>2, <2>5, <3>2 DEF LowlinkInv
      <3>3. ASSUME NEW m \in Open, NEW k \in 1..len, Returned(m), Owner(k, m)' PROVE lowlink'[Frame(k)] <= lowlink'[m]
        <4>1. Owner(k, m)
          <5>1. k + 1 \in 1..len \/ k = len
            OBVIOUS
          <5> QED
            BY <1>0, <1>7, <2>1, <3>3, <5>1 DEF Owner
        <4>2. lowlink[Frame(k)] <= lowlink[m] /\ lowlink'[m] = lowlink[m]
          BY <1>0, <1>3, <3>2, <3>3, <4>1 DEF LowlinkInv
        <4>3. lowlink'[Frame(k)] <= lowlink[Frame(k)] /\ lowlink'[Frame(k)] \in Int /\ lowlink[Frame(k)] \in Int
              /\ lowlink[m] \in Int
          BY <1>3, <2>3
        <4> QED
          BY ONLY <4>2, <4>3
      <3> QED
        BY <1>7, <2>1, <2>4, <3>1, <3>2, <3>3 DEF LowlinkInv
    <2> QED
      BY <1>3, <1>4, <2>1, <2>6, <2>7, ComponentStays DEF ConnectInv
  <1> QED
    BY <1>1, <1>2, <1>6, <1>7 DEF EdgeStep

\* No two providers on the stack have the same index.
LEMMA IndexDistinct ==
    ASSUME VisitTypes, IndexInv, NEW m \in Open, NEW n \in Open, index[m] = index[n]
    PROVE  m = n
  <1>1. PICK len \in Nat : len = Len(stack)
    BY DEF VisitTypes
  <1>2. PICK i \in 1..len, j \in 1..len : m = stack[i] /\ n = stack[j]
    BY <1>1 DEF Open, Elements
  <1>3. (i < j => index[m] < index[n]) /\ (j < i => index[n] < index[m])
    BY <1>1, <1>2 DEF IndexInv
  <1>4. index[m] \in Int /\ index[n] \in Int
    BY FrameFacts
  <1> QED
    BY <1>2, <1>3, <1>4

\* Of some providers on the stack, one was met first and one last.
LEMMA FirstAndLast ==
    ASSUME VisitTypes, IndexInv, NEW Y \in SUBSET Open, Y # {}
    PROVE  /\ \E m \in Y : \A y \in Y : index[m] <= index[y]
           /\ \E m \in Y : \A y \in Y : index[y] <= index[m]
  <1>1. nextIndex \in Nat /\ \A y \in Y : index[y] \in Nat /\ index[y] < nextIndex
    BY FrameFacts DEF VisitTypes, IndexInv
  <1>2. PICK S : S = {index[y] : y \in Y}
    OBVIOUS
  <1>3. S \in SUBSET Nat /\ S # {}
    BY <1>1, <1>2
  <1>4. Least(S) \in S /\ \A s \in S : Least(S) <= s
    BY <1>3, HasLeast
  <1>5. PICK T : T = {nextIndex - index[y] : y \in Y}
    OBVIOUS
  <1>6. T \in SUBSET Nat /\ T # {}
    BY <1>1, <1>5
  <1>7. Least(T) \in T /\ \A s \in T : Least(T) <= s
    BY <1>6, HasLeast
  <1>8. PICK m \in Y : Least(T) = nextIndex - index[m]
    BY <1>5, <1>7
  <1>9. ASSUME NEW y \in Y PROVE index[y] <= index[m]
    <2>1. nextIndex - index[m] <= nextIndex - index[y]
      BY <1>5, <1>7, <1>8
    <2> QED
      BY <1>1, <2>1
  <1> QED
    BY <1>2, <1>4, <1>9

\* What the innermost call takes from the stack is connected.
LEMMA ComponentConnected ==
    ASSUME VisitInv, ConnectInv, NEW len \in Nat, len = Len(frames), frames # <<>>, NEW a, a = Frame(len),
           frames[len].todo = {}, lowlink[a] = index[a]
    PROVE  Connected(Open \ Below(a))
  <1>1. PICK C : C = Open \ Below(a)
    OBVIOUS
  <1>2. /\ VisitTypes /\ IndexInv /\ TreeInv /\ LowlinkInv /\ a \in Open /\ len \in 1..len
        /\ Open \subseteq Nodes
        /\ \A n \in Nodes : index[n] \in Int /\ lowlink[n] \in Int
    BY FrameFacts DEF VisitInv, ConnectInv, FrameInv
  <1>3. \A m \in Open : m \in C <=> index[a] <= index[m]
    BY <1>1, <1>2 DEF Below
  <1>4. ASSUME NEW m \in C, m # a PROVE m \in Open /\ Returned(m) /\ index[a] < index[m]
    <2>1. \A k \in 1..len : Frame(k) # m
      BY <1>1, <1>4, ComponentNeeds
    <2>2. m \in Open /\ index[a] <= index[m]
      BY <1>1, <1>3, <1>4
    <2>3. index[a] # index[m]
      BY <1>2, <1>4, <2>2, IndexDistinct
    <2> QED
      BY <1>2, <2>1, <2>2, <2>3 DEF Returned
  <1>5. \A m \in C : \A e \in deps[m] : e \in Open => lowlink[a] <= index[e]
    BY <1>1, ComponentNeeds
  <1> SUFFICES ASSUME NEW X \in SUBSET C, X # {}, X # C, \A n \in X : deps[n] \cap (C \ X) = {} PROVE FALSE
    BY <1>1 DEF Connected
  <1>6. C \subseteq Open
    BY <1>1
  <1>7. CASE a \in X
    <2>1. PICK m \in C \ X : \A y \in C \ X : index[m] <= index[y]
      BY <1>2, <1>6, FirstAndLast
    <2>2. m # a /\ m \in Open /\ index[a] < index[m]
      BY <1>4, <1>7, <2>1
    <2>3. PICK p \in Open : index[a] <= index[p] /\ index[p] < index[m] /\ m \in deps[p]
      BY <1>2, <2>2 DEF TreeInv
    <2>4. p \in C
      BY <1>3, <2>3
    <2>5. p \in X
      BY <1>2, <2>1, <2>2, <2>3, <2>4
    <2> QED
      BY <2>1, <2>3, <2>5
  <1>8. CASE a \notin X
    <2>1. PICK m \in X : \A y \in X : index[m] <= index[y]
      BY <1>2, <1>6, FirstAndLast
    <2>2. \A x \in X : x \in Open /\ Returned(x) /\ lowlink[x] < index[x] /\ Lowered(x) /\ x \in C
      BY <1>2, <1>4, <1>8 DEF LowlinkInv
    <2>3. PICK Y \in SUBSET X : Y = {x \in X : lowlink[x] = lowlink[m]}
      OBVIOUS
    <2>4. PICK p \in Y : \A y \in Y : index[y] <= index[p]
      BY <1>2, <1>6, <2>1, <2>3, FirstAndLast
    <2>5. p \in X /\ lowlink[p] = lowlink[m]
      BY <2>3, <2>4
    <2>6. PICK w \in deps[p] \cap Open : \/ index[w] = lowlink[p]
                                         \/ index[p] < index[w] /\ lowlink[w] = lowlink[p]
      BY <2>2, <2>5 DEF Lowered
    <2>7. w \in C
      BY <1>3, <1>5, <2>2, <2>5, <2>6
    <2>8. w \in X
      BY <2>5, <2>6, <2>7
    <2>9. index[m] \in Int /\ index[w] \in Int /\ index[p] \in Int /\ lowlink[m] \in Int
      BY <1>2, <2>1, <2>2, <2>5, <2>6
    <2>10. CASE index[w] = lowlink[p]
      BY <2>1, <2>2, <2>5, <2>8, <2>9, <2>10
    <2>11. CASE index[p] < index[w] /\ lowlink[w] = lowlink[p]
      <3>1. w \in Y
        BY <2>3, <2>5, <2>8, <2>11
      <3> QED
        BY <2>4, <2>9, <2>11, <3>1
    <2> QED
      BY <2>6, <2>10, <2>11
  <1> QED
    BY <1>7, <1>8

\* visit(a) returns.
ReturnStep(a, len) ==
    /\ frames # <<>> /\ len \in 1..len /\ a = Frame(len) /\ frames[len].todo = {}
    /\ Len(frames') = len - 1
    /\ \A k \in 1..(len - 1) : Frame(k)' = Frame(k) /\ frames'[k].todo = frames[k].todo
    /\ deps' = deps /\ index' = index /\ lowlink' \in [Nodes -> Int]
    /\ \A n \in Nodes : (len = 1 \/ n # Frame(len - 1)) => lowlink'[n] = lowlink[n]
    /\ len # 1 => lowlink'[Frame(len - 1)] = Smaller(lowlink[Frame(len - 1)], lowlink[a])
    /\ \/ lowlink[a] < index[a] /\ len # 1 /\ Open' = Open /\ components' = components
       \/ lowlink[a] = index[a] /\ Open' = Below(a) /\ components' = components \cup {Open \ Below(a)}

\* VisitReturn does this with the innermost call.
LEMMA ReturnFacts ==
    ASSUME VisitInv, VisitReturn, NEW len \in Nat, len = Len(frames)
    PROVE  \E a : ReturnStep(a, len)
  <1>1. PICK a : a = Top(frames).node
    OBVIOUS
  <1>2. /\ frames # <<>> /\ Top(frames).todo = {} /\ frames' = Front(frames)
        /\ deps' = deps /\ index' = index
        /\ lowlink' = IF len = 1 THEN lowlink ELSE [lowlink EXCEPT ![Frame(len - 1)] = Smaller(@, lowlink[a])]
        /\ IF lowlink[a] = index[a] THEN stack' = Popped(a).left /\ components' = components \cup {Popped(a).members}
           ELSE stack' = stack /\ components' = components
    BY <1>1 DEF VisitReturn, Frame
  <1>3. /\ VisitTypes /\ IndexInv /\ FrameInv /\ LowInv
        /\ \A k \in 1..len : Frame(k) \in Nodes
        /\ len # 0 /\ lowlink \in [Nodes -> Int]
        /\ \A n \in Nodes : index[n] \in Int /\ lowlink[n] \in Int
    BY <1>2, FrameFacts DEF VisitInv, VisitTypes
  <1>4. a = Frame(len) /\ a \in Nodes /\ a \in Open /\ frames[len].todo = {} /\ len \in 1..len
    BY <1>1, <1>2, <1>3 DEF Frame, Top, FrameInv
  <1>5. Len(frames') = len - 1 /\ \A k \in 1..(len - 1) : Frame(k)' = Frame(k) /\ frames'[k].todo = frames[k].todo
    BY <1>2, <1>3, FrontFacts
  <1>6. /\ lowlink' \in [Nodes -> Int]
        /\ \A n \in Nodes : (len = 1 \/ n # Frame(len - 1)) => lowlink'[n] = lowlink[n]
        /\ len # 1 => lowlink'[Frame(len - 1)] = Smaller(lowlink[Frame(len - 1)], lowlink[a])
    <2>1. CASE len = 1
      BY <1>2, <1>3, <2>1
    <2>2. CASE len # 1
      <3>1. PICK f \in Nodes : f = Frame(len - 1)
        BY <1>3, <1>4, <2>2
      <3>2. PICK v \in Int : v = Smaller(lowlink[f], lowlink[a])
        BY <1>3, <1>4, <3>1 DEF Smaller
      <3>3. lowlink' = [lowlink EXCEPT ![f] = v]
        BY <1>2, <2>2, <3>1, <3>2
      <3> QED
        BY <1>3, <2>2, <3>1, <3>2, <3>3
    <2> QED
      BY <2>1, <2>2
  <1>7. \/ lowlink[a] < index[a] /\ len # 1 /\ Open' = Open /\ components' = components
        \/ lowlink[a] = index[a] /\ Open' = Below(a) /\ components' = components \cup {Open \ Below(a)}
    <2>1. index[Frame(1)] <= lowlink[a] /\ lowlink[a] <= index[a]
      BY <1>3, <1>4 DEF LowInv
    <2>2. CASE lowlink[a] = index[a]
      <3>1. PICK left, C : left = Popped(a).left /\ C = Popped(a).members
        OBVIOUS
      <3>2. Elements(left) = Below(a) /\ C = Open \ Below(a)
        BY <1>3, <1>4, <3>1, PoppedFacts
      <3>3. stack' = left /\ components' = components \cup {C}
        BY <1>2, <2>2, <3>1
      <3> QED
        BY <2>2, <3>2, <3>3 DEF Open
    <2>3. CASE lowlink[a] # index[a]
      BY <1>2, <1>3, <1>4, <2>1, <2>3 DEF Open
    <2> QED
      BY <2>2, <2>3
  <1>8. ReturnStep(a, len)
    BY <1>2, <1>4, <1>5, <1>6, <1>7 DEF ReturnStep
  <1> QED
    BY <1>8

\* visit returns to its caller, and the node stays on the stack.
LEMMA ConnectBack ==
    ASSUME VisitInv, ConnectInv, NEW len \in Nat, len = Len(frames), NEW a, ReturnStep(a, len), lowlink[a] < index[a]
    PROVE  ConnectInv'
  <1>1. /\ VisitTypes /\ FrameInv /\ LowInv /\ TreeInv /\ LowlinkInv /\ ComponentInv /\ Open \cap Finished = {}
        /\ \A k \in 1..len : Frame(k) \in Nodes /\ Frame(k) \in Open
        /\ Open \subseteq Nodes
        /\ \A n \in Nodes : index[n] \in Int /\ lowlink[n] \in Int
    BY FrameFacts DEF VisitInv, ConnectInv, FrameInv
  <1>2. /\ len \in 1..len /\ a = Frame(len) /\ Len(frames') = len - 1
        /\ \A k \in 1..(len - 1) : Frame(k)' = Frame(k) /\ frames'[k].todo = frames[k].todo
        /\ deps' = deps /\ index' = index /\ lowlink' \in [Nodes -> Int]
    BY DEF ReturnStep
  <1>3. a \in Nodes /\ a \in Open
    BY <1>1, <1>2
  <1>4. len # 1 /\ Open' = Open /\ components' = components
    BY <1>1, <1>3 DEF ReturnStep
  <1>5. PICK f : f = Frame(len - 1)
    OBVIOUS
  <1>6. len - 1 \in 1..len /\ len - 1 \in 1..(len - 1) /\ f \in Open /\ f \in Nodes /\ index[f] < index[a] /\ f # a
    BY <1>1, <1>2, <1>4, <1>5 DEF FrameInv
  <1>7. /\ \A n \in Nodes : n # f => lowlink'[n] = lowlink[n]
        /\ lowlink'[f] = Smaller(lowlink[f], lowlink[a])
    BY <1>4, <1>5 DEF ReturnStep
  <1>8. /\ \A n \in Nodes : lowlink'[n] <= lowlink[n] /\ lowlink'[n] \in Int
        /\ lowlink'[f] <= lowlink[a] /\ (lowlink'[f] = lowlink[f] \/ lowlink'[f] = lowlink[a])
        /\ lowlink'[a] = lowlink[a]
    BY <1>1, <1>2, <1>3, <1>6, <1>7 DEF Smaller
  <1>9. \A k \in 1..(len - 1) : k \in 1..len /\ Frame(k) # a /\ index[Frame(k)] < index[a]
    BY <1>1, <1>2, <1>3 DEF FrameInv
  <1>10. \A k \in 1..len : k \in 1..(len - 1) \/ k = len
    OBVIOUS
  <1>11. \A m : Returned(m)' <=> Returned(m) \/ m = a
    BY <1>2, <1>3, <1>4, <1>9, <1>10 DEF Returned
  <1>12. TreeInv'
    <2>1. \A k \in 1..Len(frames') : frames'[k].todo \subseteq deps'[Frame(k)']
      BY <1>1, <1>2, <1>9 DEF TreeInv
    <2>2. ASSUME NEW k \in 1..(Len(frames') - 1) PROVE Frame(k + 1)' \in deps'[Frame(k)']
      <3>1. k \in 1..(len - 1) /\ k + 1 \in 1..(len - 1)
        BY <1>2
      <3> QED
        BY <1>1, <1>2, <3>1 DEF TreeInv
    <2>3. ASSUME NEW k \in 1..Len(frames'), NEW m \in Open', index'[Frame(k)'] < index'[m]
          PROVE  \E p \in Open' : index'[Frame(k)'] <= index'[p] /\ index'[p] < index'[m] /\ m \in deps'[p]
      <3>1. k \in 1..len /\ Frame(k)' = Frame(k) /\ m \in Open /\ index[Frame(k)] < index[m]
        BY <1>2, <1>4, <1>9, <2>3
      <3>2. PICK p \in Open : index[Frame(k)] <= index[p] /\ index[p] < index[m] /\ m \in deps[p]
        BY <1>1, <3>1 DEF TreeInv
      <3> QED
        BY <1>2, <1>4, <3>1, <3>2
    <2> QED
      BY <2>1, <2>2, <2>3 DEF TreeInv
  <1>13. LowlinkInv'
    <2>1. ASSUME NEW m \in Open PROVE lowlink'[m] = index[m] \/ Lowered(m)'
      <3>1. CASE m = f /\ lowlink'[f] # lowlink[f]
        <4>1. lowlink[f] <= index[f]
          BY <1>1, <1>5, <1>6 DEF LowInv
        <4>2. lowlink'[f] < index[f] /\ lowlink'[f] = lowlink[a]
          BY <1>1, <1>6, <1>8, <3>1, <4>1
        <4>3. a \in deps[f]
          <5>1. Frame((len - 1) + 1) \in deps[Frame(len - 1)]
            BY <1>1, <1>6 DEF TreeInv
          <5> QED
            BY <1>2, <1>5, <5>1
        <4> QED
          BY <1>2, <1>3, <1>4, <1>6, <1>8, <1>11, <3>1, <4>2, <4>3 DEF Lowered
      <3>2. CASE lowlink'[m] = lowlink[m]
        <4>1. CASE lowlink[m] = index[m]
          BY <3>2, <4>1
        <4>2. CASE Lowered(m)
          <5>1. PICK w \in deps[m] \cap Open : \/ index[w] = lowlink[m]
                                               \/ index[m] < index[w] /\ Returned(w) /\ lowlink[w] = lowlink[m]
            BY <4>2 DEF Lowered
          <5>2. lowlink[m] < index[m]
            BY <4>2 DEF Lowered
          <5>3. Returned(w) => Returned(w)' /\ lowlink'[w] = lowlink[w]
            <6>1. Returned(w) => w # f
              BY <1>5, <1>6 DEF Returned
            <6> QED
              BY <1>1, <1>7, <1>11, <5>1, <6>1
          <5> QED
            BY <1>2, <1>4, <3>2, <5>1, <5>2, <5>3 DEF Lowered
        <4> QED
          BY <1>1, <4>1, <4>2 DEF LowlinkInv
      <3> QED
        BY <1>1, <1>7, <3>1, <3>2
    <2>2. ASSUME NEW m \in Open, Returned(m)' PROVE m # f /\ lowlink'[m] = lowlink[m] /\ lowlink[m] < index[m]
      <3>1. m # f
        BY <1>5, <1>6, <1>11, <2>2 DEF Returned
      <3> QED
        BY <1>1, <1>7, <1>11, <2>2, <3>1 DEF LowlinkInv
    <2>3. ASSUME NEW m \in Open, NEW k \in 1..(len - 1), Returned(m)', Owner(k, m)' PROVE lowlink'[Frame(k)] <= lowlink'[m]
      <3>1. index[Frame(k)] <= index[m] /\ (k = len - 1 \/ (k + 1 \in 1..(len - 1) /\ index[m] < index[Frame(k + 1)]))
        BY <1>2, <2>3 DEF Owner
      <3>2. /\ lowlink'[m] = lowlink[m] /\ lowlink[m] \in Int /\ index[m] \in Int /\ m \in Nodes
            /\ Frame(k) \in Nodes /\ lowlink[Frame(k)] \in Int /\ lowlink'[Frame(k)] \in Int
            /\ lowlink'[Frame(k)] <= lowlink[Frame(k)]
        BY <1>1, <1>8, <1>9, <2>2, <2>3
      <3>3. CASE k = len - 1 /\ index[a] <= index[m]
        <4>1. lowlink[a] <= lowlink[m]
          <5>1. CASE m = a
            BY <3>2, <5>1
          <5>2. CASE m # a
            <6>1. Returned(m) /\ Owner(len, m)
              BY <1>2, <1>11, <2>3, <3>3, <5>2 DEF Owner
            <6> QED
              BY <1>1, <1>2, <6>1 DEF LowlinkInv
          <5> QED
            BY <5>1, <5>2
        <4>2. lowlink'[Frame(k)] <= lowlink[a] /\ lowlink[a] \in Int
          BY <1>1, <1>3, <1>5, <1>8, <3>3
        <4> QED
          BY ONLY <3>2, <4>1, <4>2
      <3>4. CASE k # len - 1 \/ index[m] < index[a]
        <4>1. m # a
          <5>1. ASSUME k # len - 1 PROVE index[m] < index[a]
            <6>1. k + 1 \in 1..(len - 1) /\ index[m] < index[Frame(k + 1)]
              BY <3>1, <5>1
            <6>2. index[Frame(k + 1)] < index[a] /\ index[Frame(k + 1)] \in Int /\ index[a] \in Int
              BY <1>1, <1>3, <1>9, <6>1
            <6> QED
              BY ONLY <3>2, <6>1, <6>2
          <5> QED
            BY <1>1, <1>3, <3>4, <5>1
        <4>2. Returned(m) /\ Owner(k, m)
          <5>1. k # len
            OBVIOUS
          <5>2. index[m] < index[Frame(k + 1)]
            BY <1>2, <3>1, <3>4
          <5> QED
            BY <1>11, <2>3, <3>1, <4>1, <5>2 DEF Owner
        <4>3. lowlink[Frame(k)] <= lowlink[m]
          BY <1>1, <1>9, <4>2 DEF LowlinkInv
        <4> QED
          BY ONLY <3>2, <4>3
      <3> QED
        BY <1>1, <1>3, <3>2, <3>3, <3>4
    <2> QED
      BY <1>2, <1>4, <2>1, <2>2, <2>3 DEF LowlinkInv
  <1>14. Finished' = Finished
    BY <1>4 DEF Finished
  <1> QED
    BY <1>1, <1>2, <1>4, <1>12, <1>13, <1>14, ComponentStays DEF ConnectInv

\* visit returns and takes its component from the stack.
LEMMA ConnectPop ==
    ASSUME VisitInv, ConnectInv, NEW len \in Nat, len = Len(frames), NEW a, ReturnStep(a, len), lowlink[a] = index[a]
    PROVE  ConnectInv'
  <1>1. /\ VisitTypes /\ FrameInv /\ LowInv /\ TreeInv /\ LowlinkInv /\ ComponentInv /\ Open \cap Finished = {}
        /\ FinishedInv /\ Finished \subseteq Nodes
        /\ \A k \in 1..len : Frame(k) \in Nodes /\ Frame(k) \in Open
        /\ Open \subseteq Nodes
        /\ \A n \in Nodes : index[n] \in Int /\ lowlink[n] \in Int
    BY FrameFacts DEF VisitInv, ConnectInv, FrameInv
  <1>2. /\ len \in 1..len /\ a = Frame(len) /\ Len(frames') = len - 1 /\ frames # <<>> /\ frames[len].todo = {}
        /\ \A k \in 1..(len - 1) : Frame(k)' = Frame(k) /\ frames'[k].todo = frames[k].todo
        /\ deps' = deps /\ index' = index
    BY DEF ReturnStep
  <1>3. a \in Nodes /\ a \in Open
    BY <1>1, <1>2
  <1>4. PICK C : C = Open \ Below(a)
    OBVIOUS
  <1>5. Open' = Below(a) /\ components' = components \cup {C}
    BY <1>1, <1>3, <1>4 DEF ReturnStep
  <1>6. \A k \in 1..(len - 1) : k \in 1..len /\ Frame(k) # a /\ index[Frame(k)] < index[a]
    BY <1>1, <1>2, <1>3 DEF FrameInv
  <1>7. \A n \in Nodes : lowlink'[n] = lowlink[n]
    <2>1. ASSUME len # 1 PROVE lowlink'[Frame(len - 1)] = lowlink[Frame(len - 1)]
      <3>1. PICK f \in Nodes : f = Frame(len - 1)
        BY <1>1, <1>2, <2>1
      <3>2. len - 1 \in 1..(len - 1)
        BY <1>2, <2>1
      <3>3. lowlink[f] <= index[f] /\ index[f] < index[a]
        BY <1>1, <1>6, <3>1, <3>2 DEF LowInv
      <3>4. lowlink'[f] = Smaller(lowlink[f], lowlink[a])
        BY <2>1, <3>1 DEF ReturnStep
      <3> QED
        BY <1>1, <1>3, <3>1, <3>3, <3>4 DEF Smaller
    <2> QED
      BY <2>1 DEF ReturnStep
  <1>8. \A m \in Below(a) : m \in Open /\ m \in Nodes /\ index[m] < index[a] /\ m # a
    BY <1>1 DEF Below
  <1>9. \A k \in 1..len : k \in 1..(len - 1) \/ k = len
    OBVIOUS
  <1>10. \A m \in Below(a) : Returned(m)' <=> Returned(m)
    BY <1>2, <1>5, <1>6, <1>8, <1>9 DEF Returned
  <1>11. TreeInv'
    <2>1. \A k \in 1..Len(frames') : frames'[k].todo \subseteq deps'[Frame(k)']
      BY <1>1, <1>2, <1>6 DEF TreeInv
    <2>2. ASSUME NEW k \in 1..(Len(frames') - 1) PROVE Frame(k + 1)' \in deps'[Frame(k)']
      <3>1. k \in 1..(len - 1) /\ k + 1 \in 1..(len - 1)
        BY <1>2
      <3> QED
        BY <1>1, <1>2, <3>1 DEF TreeInv
    <2>3. ASSUME NEW k \in 1..Len(frames'), NEW m \in Open', index'[Frame(k)'] < index'[m]
          PROVE  \E p \in Open' : index'[Frame(k)'] <= index'[p] /\ index'[p] < index'[m] /\ m \in deps'[p]
      <3>1. k \in 1..len /\ index[Frame(k)] < index[m] /\ m \in Open /\ index[m] < index[a] /\ m \in Nodes
        BY <1>2, <1>5, <1>6, <1>8, <2>3
      <3>2. PICK p \in Open : index[Frame(k)] <= index[p] /\ index[p] < index[m] /\ m \in deps[p]
        BY <1>1, <3>1 DEF TreeInv
      <3>3. p \in Below(a)
        BY <1>1, <1>3, <3>1, <3>2 DEF Below
      <3> QED
        BY <1>2, <1>5, <3>2, <3>3
    <2> QED
      BY <2>1, <2>2, <2>3 DEF TreeInv
  <1>12. LowlinkInv'
    <2>1. ASSUME NEW m \in Below(a) PROVE lowlink'[m] = index[m] \/ Lowered(m)'
      <3>1. m \in Open /\ m \in Nodes /\ lowlink'[m] = lowlink[m] /\ index[m] < index[a]
        BY <1>7, <1>8
      <3>2. CASE lowlink[m] = index[m]
        BY <3>1, <3>2
      <3>3. CASE Lowered(m)
        <4>1. PICK w \in deps[m] \cap Open : \/ index[w] = lowlink[m]
                                             \/ index[m] < index[w] /\ Returned(w) /\ lowlink[w] = lowlink[m]
          BY <3>3 DEF Lowered
        <4>2. lowlink[m] < index[m]
          BY <3>3 DEF Lowered
        <4>3. w \in Nodes /\ index[w] \in Int /\ index[m] \in Int /\ lowlink[m] \in Int /\ index[a] \in Int
          BY <1>1, <1>3, <3>1, <4>1
        <4>4. w \in Below(a)
          <5>1. CASE index[w] = lowlink[m]
            BY <3>1, <4>1, <4>2, <4>3, <5>1 DEF Below
          <5>2. CASE Returned(w) /\ lowlink[w] = lowlink[m]
            <6>1. ASSUME w \notin Below(a) PROVE lowlink[a] <= lowlink[w]
              <7>1. Owner(len, w)
                BY <1>2, <4>1, <6>1, ComponentNeeds
              <7> QED
                BY <1>1, <1>2, <4>1, <5>2, <7>1 DEF LowlinkInv
            <6> QED
              BY <3>1, <4>2, <4>3, <5>2, <6>1
          <5> QED
            BY <4>1, <5>1, <5>2
        <4>5. lowlink'[w] = lowlink[w] /\ (Returned(w)' <=> Returned(w))
          BY <1>7, <1>10, <4>3, <4>4
        <4> QED
          BY <1>2, <1>5, <3>1, <4>1, <4>2, <4>4, <4>5 DEF Lowered
      <3> QED
        BY <1>1, <3>1, <3>2, <3>3 DEF LowlinkInv
    <2>2. ASSUME NEW m \in Below(a), Returned(m)' PROVE lowlink'[m] < index[m] /\ Returned(m)
      BY <1>1, <1>7, <1>8, <1>10, <2>2 DEF LowlinkInv
    <2>3. ASSUME NEW m \in Below(a), NEW k \in 1..(len - 1), Returned(m)', Owner(k, m)'
          PROVE  lowlink'[Frame(k)] <= lowlink'[m]
      <3>1. index[Frame(k)] <= index[m] /\ (k = len - 1 \/ (k + 1 \in 1..(len - 1) /\ index[m] < index[Frame(k + 1)]))
        BY <1>2, <2>3 DEF Owner
      <3>2. Returned(m) /\ m \in Open /\ m \in Nodes /\ index[m] < index[Frame(len)]
        BY <1>2, <1>8, <2>2, <2>3
      <3>3. Owner(k, m)
        BY <1>2, <3>1, <3>2 DEF Owner
      <3>4. lowlink[Frame(k)] <= lowlink[m] /\ Frame(k) \in Nodes
        BY <1>1, <1>6, <3>2, <3>3 DEF LowlinkInv
      <3> QED
        BY <1>7, <3>2, <3>4
    <2> QED
      BY <1>2, <1>5, <2>1, <2>2, <2>3 DEF LowlinkInv
  <1>13. Finished' = Finished \cup C
    BY <1>5 DEF Finished
  <1>14. C \in SUBSET Nodes /\ C # {} /\ C \cap Finished = {}
    BY <1>1, <1>3, <1>4 DEF Below
  <1>15. Connected(C)
    BY <1>2, <1>4, ComponentConnected
  <1>16. Separate(C)
    <2>1. \A n \in C : deps[n] \subseteq Finished \cup C
      BY <1>2, <1>4, ComponentNeeds
    <2>2. \A n \in Finished : deps[n] \subseteq Finished
      BY <1>1 DEF FinishedInv
    <2> QED
      BY <1>1, <1>14, <2>1, <2>2 DEF Separate
  <1>17. ComponentInv'
    <2>1. \A c \in components' : c \in SUBSET Nodes /\ c # {} /\ Connected(c) /\ Separate(c)
      BY <1>1, <1>5, <1>14, <1>15, <1>16 DEF ComponentInv
    <2>2. \A c : (Connected(c)' <=> Connected(c)) /\ (Separate(c)' <=> Separate(c))
      BY <1>2 DEF Connected, Separate
    <2>3. \A c \in components : c \cap C = {}
      BY <1>14 DEF Finished
    <2>4. \A c, e \in components' : c = e \/ c \cap e = {}
      BY <1>1, <1>5, <2>3 DEF ComponentInv
    <2> QED
      BY <2>1, <2>2, <2>4 DEF ComponentInv
  <1>18. Open' \cap Finished' = {}
    BY <1>1, <1>4, <1>5, <1>13 DEF Below
  <1> QED
    BY <1>11, <1>12, <1>17, <1>18 DEF ConnectInv

\* visit returns.
LEMMA ConnectReturn ==
    ASSUME VisitInv, ConnectInv, VisitReturn
    PROVE  ConnectInv'
  <1>1. PICK len \in Nat : len = Len(frames)
    BY DEF VisitInv, VisitTypes
  <1>2. PICK a : ReturnStep(a, len)
    BY <1>1, ReturnFacts
  <1>3. lowlink[a] < index[a] \/ lowlink[a] = index[a]
    BY <1>2 DEF ReturnStep
  <1> QED
    BY <1>1, <1>2, <1>3, ConnectBack, ConnectPop

-----------------------------------------------------------------------------
(* The search for a cycle in a component.                                  *)

\* The providers from which the search can come back to the start of the cycle without going through P.
Back(P) ==
    {m \in Nodes : \A X \in SUBSET Nodes :
        Least(Component) \in X /\ (\A n \in Component \ P : deps[n] \cap X # {} => n \in X) => m \in X}

\* The first k of the path.
Used(k) == {path[i] : i \in 1..k}

\* The search for a cycle goes along a path, and somewhere on it there is a way back yet to try.
PathInv ==
    /\ path \in Seq(Component) /\ choices \in Seq(SUBSET Nodes) /\ Len(choices) = Len(path)
    /\ path # <<>> /\ path[1] = Least(Component)
    /\ \A i \in 1..(Len(path) - 1) : path[i + 1] \in deps[path[i]]
    /\ \A i, j \in 1..Len(path) : path[i] = path[j] => i = j
    /\ \A k \in 1..Len(path) : choices[k] \subseteq deps[path[k]]
    /\ \E k \in 1..Len(path), P \in SUBSET Nodes : P = Used(k) /\ choices[k] \cap Back(P) # {}

\* The cyclic components are those that have a diagnostic or are still to get one.
ReportInv ==
    /\ components \in SUBSET (SUBSET Nodes) /\ deps \in [Nodes -> SUBSET Nodes]
    /\ ComponentInv /\ UNION components = Nodes
    /\ cyclic \subseteq {c \in components : IsCyclic(c)}
    /\ \A r \in reported : r \in Seq(Nodes) /\ IsCycle(r) /\ \E c \in components : IsCyclic(c) /\ Elements(r) \subseteq c
    /\ \A c \in components : IsCyclic(c) => c \in cyclic \/ \E r \in reported : Elements(r) \subseteq c

CycleInv ==
    /\ phase = "visit" => VisitInv /\ ConnectInv
    /\ phase \in {"report", "search", "cycles", "order"} => ReportInv
    /\ phase = "search" => cyclic # {} /\ PathInv
    /\ phase \in {"cycles", "order"} => cyclic = {}
    /\ phase \notin {"report", "search", "cycles"} => reported = {}
\* A set of providers has a least one.
LEMMA LeastProvider ==
    ASSUME NEW S \in SUBSET Nodes, S # {}
    PROVE  Least(S) \in S /\ Least(S) \in Nodes /\ \A y \in S : Least(S) <= y
  <1>1. S \in SUBSET Nat
    BY OrderAssumption DEF Nodes
  <1> QED
    BY <1>1, HasLeast

\* One of the components that have no diagnostic yet is taken.
LEMMA ComponentChosen ==
    ASSUME cyclic \subseteq SUBSET Nodes, \A c \in cyclic : c # {}, cyclic # {}
    PROVE  Component \in cyclic
  <1>1. PICK S : S = {Least(c) : c \in cyclic}
    OBVIOUS
  <1>2. S \in SUBSET Nodes /\ S # {}
    BY <1>1, LeastProvider
  <1>3. Least(S) \in S /\ \A y \in S : Least(S) <= y
    BY <1>2, LeastProvider
  <1>4. PICK c \in cyclic : Least(c) = Least(S)
    BY <1>1, <1>3
  <1>5. \A other \in cyclic : Least(c) <= Least(other)
    BY <1>1, <1>3, <1>4
  <1> QED
    BY <1>5 DEF Component

\* A component that is not cyclic is a single provider.
LEMMA SingleProvider ==
    ASSUME NEW c \in SUBSET Nodes, NEW n \in c, ~(Cardinality(c) > 1)
    PROVE  c = {n} /\ Least(c) = n
  <1>1. IsFiniteSet(c) /\ Cardinality(c) \in Nat /\ Cardinality(c) # 0
    BY NodesFinite, FS_EmptySet
  <1>2. Cardinality(c) = 1
    BY <1>1
  <1>3. \E x : c = {x}
    BY <1>1, <1>2, FS_Singleton
  <1>4. c = {n}
    BY <1>3
  <1> QED
    BY <1>4, LeastProvider

\* In a component with more than one provider, each needs another one.
LEMMA NeedsAnother ==
    ASSUME NEW c \in SUBSET Nodes, NEW n \in c, Cardinality(c) > 1, Connected(c)
    PROVE  deps[n] \cap (c \ {n}) # {}
  <1>1. Cardinality({n}) = 1
    BY FS_Singleton
  <1>2. c # {n}
    BY <1>1
  <1> QED
    BY <1>2 DEF Connected

\* Whoever is in a cyclic component needs itself.
LEMMA CyclicReaches ==
    ASSUME deps \in [Nodes -> SUBSET Nodes], NEW c \in SUBSET Nodes, NEW n \in c, Connected(c), IsCyclic(c)
    PROVE  n \in After(n)
  <1>1. CASE Cardinality(c) > 1
    <2>1. PICK d \in deps[n] : d \in c \ {n}
      BY <1>1, NeedsAnother
    <2>2. ASSUME NEW S \in SUBSET Nodes, d \in S, \A s \in S : deps[s] \subseteq S, n \notin S PROVE FALSE
      <3>1. PICK x \in S \cap c : deps[x] \cap (c \ (S \cap c)) # {}
        <4>1. S \cap c # {} /\ S \cap c # c /\ S \cap c \in SUBSET c
          BY <2>1, <2>2
        <4> QED
          BY <4>1 DEF Connected
      <3> QED
        BY <2>2, <3>1
    <2>3. n \in Reach(d)
      BY <2>2 DEF Reach
    <2> QED
      BY <2>1, <2>3 DEF After
  <1>2. CASE ~(Cardinality(c) > 1)
    <2>1. n \in deps[n]
      BY <1>2, SingleProvider DEF IsCyclic
    <2>2. n \in Reach(n)
      BY ReachFacts
    <2> QED
      BY <2>1, <2>2 DEF After
  <1> QED
    BY <1>1, <1>2

\* Whoever is in a component that is not cyclic does not.
LEMMA AcyclicReaches ==
    ASSUME NEW c \in SUBSET Nodes, NEW n \in c, Separate(c), ~IsCyclic(c)
    PROVE  n \notin After(n)
  <1>1. c = {n} /\ n \notin deps[n]
    BY SingleProvider DEF IsCyclic
  <1>2. PICK F \in SUBSET Nodes : /\ F \cap c = {}
                                  /\ \A m \in F : deps[m] \subseteq F
                                  /\ \A m \in c : deps[m] \subseteq F \cup c
    BY DEF Separate
  <1>3. deps[n] \subseteq F /\ n \notin F
    BY <1>1, <1>2
  <1>4. \A d \in F : Reach(d) \subseteq F
    BY <1>2 DEF Reach
  <1> QED
    BY <1>3, <1>4 DEF After

\* The components with a diagnostic are the cyclic ones, and their providers are those that need themselves.
LEMMA ReportExact ==
    ASSUME ReportInv, cyclic = {}, NEW n \in Nodes
    PROVE  n \in After(n) <=> \E c \in components : n \in c /\ \E r \in reported : Elements(r) \subseteq c
  <1>1. PICK c \in components : n \in c
    BY DEF ReportInv
  <1>2. /\ c \in SUBSET Nodes /\ Connected(c) /\ Separate(c) /\ deps \in [Nodes -> SUBSET Nodes]
        /\ \A e \in components : n \in e => e = c
    BY <1>1 DEF ReportInv, ComponentInv
  <1>3. n \in After(n) <=> IsCyclic(c)
    BY <1>1, <1>2, CyclicReaches, AcyclicReaches
  <1>4. IsCyclic(c) => \E r \in reported : Elements(r) \subseteq c
    BY <1>1 DEF ReportInv
  <1>5. ASSUME NEW r \in reported, Elements(r) \subseteq c PROVE IsCyclic(c)
    <2>1. PICK e \in components : IsCyclic(e) /\ Elements(r) \subseteq e
      BY <1>5 DEF ReportInv
    <2>2. IsCycle(r) /\ Len(r) \in Nat
      BY <1>5 DEF ReportInv
    <2>3. Len(r) > 1
      BY <2>2 DEF IsCycle
    <2>4. Elements(r) # {}
      <3>1. 1 \in 1..Len(r)
        BY <2>2, <2>3
      <3> QED
        BY <3>1 DEF Elements
    <2>5. e \cap c # {}
      BY <1>5, <2>1, <2>4
    <2> QED
      BY <1>1, <2>1, <2>5 DEF ReportInv, ComponentInv
  <1> QED
    BY <1>1, <1>2, <1>3, <1>4, <1>5

\* What was reported stays reported.
LEMMA ReportStays ==
    ASSUME ReportInv, deps' = deps, components' = components, cyclic' = cyclic, reported' = reported
    PROVE  ReportInv'
  <1>1. ComponentInv'
    BY ComponentStays DEF ReportInv
  <1>2. \A r : IsCycle(r)' <=> IsCycle(r)
    BY DEF IsCycle
  <1>3. \A c : IsCyclic(c)' <=> IsCyclic(c)
    BY DEF IsCyclic
  <1> QED
    BY <1>1, <1>2, <1>3 DEF ReportInv

\* A diagnostic for the component that was taken.
LEMMA ReportMore ==
    ASSUME ReportInv, cyclic # {}, NEW r \in Seq(Nodes), IsCycle(r), Elements(r) \subseteq Component, Report(r),
           deps' = deps, components' = components
    PROVE  ReportInv'
  <1>1. Component \in cyclic /\ reported' = reported \cup {r} /\ cyclic' = cyclic \ {Component}
    BY ComponentChosen DEF ReportInv, ComponentInv, Report
  <1>2. ComponentInv'
    BY ComponentStays DEF ReportInv
  <1>3. \A q : IsCycle(q)' <=> IsCycle(q)
    BY DEF IsCycle
  <1>4. \A c : IsCyclic(c)' <=> IsCyclic(c)
    BY DEF IsCyclic
  <1>5. Component \in components /\ IsCyclic(Component)
    BY <1>1 DEF ReportInv
  <1> QED
    BY <1>1, <1>2, <1>3, <1>4, <1>5 DEF ReportInv

\* A sequence without its last element.
LEMMA FrontOf ==
    ASSUME NEW F, NEW s \in Seq(F), s # <<>>
    PROVE  Front(s) \in Seq(F) /\ Len(Front(s)) = Len(s) - 1 /\ \A i \in 1..(Len(s) - 1) : Front(s)[i] = s[i]
  <1>1. PICK len \in Nat : len = Len(s) /\ len # 0
    OBVIOUS
  <1>2. PICK t : t = SubSeq(s, 1, len - 1)
    OBVIOUS
  <1>3. t \in Seq(F) /\ Len(t) = len - 1 /\ \A i \in 1..(len - 1) : t[i] = s[i]
    BY ONLY <1>1, <1>2, s \in Seq(F)
  <1> QED
    BY <1>1, <1>2, <1>3 DEF Front

\* Whoever finds the way back without P is in the component and not in P, or is the start.
LEMMA BackIn ==
    ASSUME NEW P, Component \in SUBSET Nodes, Component # {}, NEW n \in Back(P)
    PROVE  n = Least(Component) \/ (n \in Component /\ n \notin P)
  <1>1. PICK X \in SUBSET Nodes : X = (Component \ P) \cup {Least(Component)}
    BY LeastProvider
  <1>2. n \in X
    BY <1>1 DEF Back
  <1> QED
    BY <1>1, <1>2

\* The way back leads on to a provider that finds the way back without coming here again.
LEMMA BackOn ==
    ASSUME NEW P, Component \in SUBSET Nodes, Component # {}, NEW n \in Back(P), n # Least(Component)
    PROVE  deps[n] \cap Back(P \cup {n}) # {}
  <1>1. PICK X \in SUBSET Nodes : X = Back(P \cup {n})
    BY DEF Back
  <1>2. Least(Component) \in X
    BY <1>1, LeastProvider DEF Back
  <1>3. n \notin X
    BY <1>1, BackIn
  <1>4. ASSUME NEW m \in Component \ (P \cup {n}), deps[m] \cap X # {} PROVE m \in X
    <2>1. PICK d \in deps[m] : d \in X
      BY <1>4
    <2> SUFFICES ASSUME NEW Z \in SUBSET Nodes, Least(Component) \in Z,
                        \A x \in Component \ (P \cup {n}) : deps[x] \cap Z # {} => x \in Z
                 PROVE  m \in Z
      BY <1>1, <1>4 DEF Back
    <2>2. d \in Z
      BY <1>1, <2>1 DEF Back
    <2> QED
      BY <1>4, <2>1, <2>2
  <1>5. ASSUME deps[n] \cap X = {} PROVE FALSE
    <2>1. \A m \in Component \ P : deps[m] \cap X # {} => m \in X
      BY <1>4, <1>5
    <2>2. n \in X
      BY <1>2, <2>1 DEF Back
    <2> QED
      BY <1>3, <2>2
  <1> QED
    BY <1>1, <1>5

\* In a connected component there is a way back to the start.
LEMMA BackExists ==
    ASSUME Component \in SUBSET Nodes, Component # {}, Connected(Component), Cardinality(Component) > 1,
           deps \in [Nodes -> SUBSET Nodes], NEW start, start = Least(Component)
    PROVE  deps[start] \cap Back({start}) # {}
  <1>1. start \in Component /\ start \in Nodes
    BY LeastProvider
  <1>2. PICK d \in deps[start] : d \in Component \ {start}
    BY <1>1, NeedsAnother
  <1>3. ASSUME NEW X \in SUBSET Nodes, start \in X, \A n \in Component \ {start} : deps[n] \cap X # {} => n \in X,
               d \notin X
        PROVE  FALSE
    <2>1. PICK Y \in SUBSET Component : Y = Component \ X
      OBVIOUS
    <2>2. Y # {} /\ Y # Component
      BY <1>1, <1>2, <1>3, <2>1
    <2>3. PICK n \in Y : deps[n] \cap (Component \ Y) # {}
      BY <2>2 DEF Connected
    <2> QED
      BY <1>3, <2>1, <2>3
  <1>4. d \in Back({start})
    BY <1>2, <1>3 DEF Back
  <1> QED
    BY <1>2, <1>4

\* A path that comes back to its start is a cycle.
LEMMA PathCloses ==
    ASSUME PathInv, Component \in SUBSET Nodes, NEW start, start = Least(Component),
           start \in deps[path[Len(path)]], NEW r, r = Append(path, start)
    PROVE  IsCycle(r) /\ r \in Seq(Nodes) /\ Elements(r) \subseteq Component
  <1>1. PICK C : C = Component
    OBVIOUS
  <1>2. PICK len \in Nat : len = Len(path)
    BY DEF PathInv
  <1>3. path \in Seq(C) /\ len # 0 /\ path[1] = start
    BY <1>1, <1>2 DEF PathInv
  <1>4. \A i \in 1..len : path[i] \in C
    BY <1>2, <1>3
  <1>5. start \in C /\ \A y \in C : start <= y
    BY <1>1, <1>3, <1>4, LeastProvider
  <1>6. r \in Seq(C) /\ Len(r) = len + 1 /\ r[len + 1] = start /\ \A i \in 1..len : r[i] = path[i]
    BY <1>2, <1>3, <1>5
  <1>7. r[1] = start
    BY <1>2, <1>3, <1>6
  <1>8. \A i \in 1..(Len(r) - 1) : r[i + 1] \in deps[r[i]] /\ r[1] <= r[i]
    <2> SUFFICES ASSUME NEW i \in 1..len PROVE r[i + 1] \in deps[r[i]] /\ start <= r[i]
      BY <1>6, <1>7
    <2>1. start <= r[i]
      BY <1>4, <1>5, <1>6
    <2>2. CASE i = len
      BY <1>2, <1>6, <2>1, <2>2
    <2>3. CASE i # len
      <3>1. i \in 1..(len - 1) /\ i + 1 \in 1..len
        BY <2>3
      <3> QED
        BY <1>2, <1>6, <2>1, <3>1 DEF PathInv
    <2> QED
      BY <2>2, <2>3
  <1>9. Elements(r) = {path[i] : i \in 1..len}
    <2>1. \A x : x \in Elements(r) <=> \E i \in 1..(len + 1) : x = r[i]
      BY <1>6 DEF Elements
    <2>2. \A i \in 1..(len + 1) : i \in 1..len \/ i = len + 1
      OBVIOUS
    <2>3. 1 \in 1..len /\ \A i \in 1..len : i \in 1..(len + 1)
      BY <1>2, <1>3
    <2>4. ASSUME NEW x PROVE x \in Elements(r) <=> x \in {path[i] : i \in 1..len}
      BY <1>3, <1>6, <2>1, <2>2, <2>3
    <2> QED
      BY <2>4
  <1>10. Cardinality(Elements(r)) = len
    <2>1. PICK E : E = Elements(r)
      OBVIOUS
    <2>2. path \in [1..len -> E]
      BY <1>2, <1>3, <1>9, <2>1
    <2>3. path \in Bijection(1..len, E)
      <3>1. \A i, j \in 1..len : path[i] = path[j] => i = j
        BY <1>2 DEF PathInv
      <3>2. \A x \in E : \E i \in 1..len : path[i] = x
        BY <1>9, <2>1
      <3>3. path \in Injection(1..len, E)
        BY <2>2, <3>1 DEF Injection, IsInjective
      <3>4. path \in Surjection(1..len, E)
        BY <2>2, <3>2 DEF Surjection
      <3> QED
        BY <3>3, <3>4 DEF Bijection
    <2>4. IsFiniteSet(1..len) /\ Cardinality(1..len) = len
      <3>1. len \in Nat
        OBVIOUS
      <3> QED
        BY ONLY <3>1, FS_Interval
    <2> QED
      BY <2>1, <2>3, <2>4, FS_Bijection DEF ExistsBijection
  <1>11. r \in Seq(Nodes) /\ Elements(r) \subseteq C
    BY <1>1, <1>4, <1>6, <1>9
  <1> QED
    BY <1>1, <1>2, <1>3, <1>6, <1>7, <1>8, <1>10, <1>11 DEF IsCycle

\* What is known of the component that is searched.
LEMMA ComponentFacts ==
    ASSUME ReportInv, cyclic # {}
    PROVE  /\ Component \in components /\ Component \in SUBSET Nodes /\ Component # {}
           /\ Connected(Component) /\ IsCyclic(Component)
           /\ Least(Component) \in Component /\ Least(Component) \in Nodes
           /\ \A y \in Component : Least(Component) <= y
  <1>1. Component \in cyclic
    BY ComponentChosen DEF ReportInv, ComponentInv
  <1>2. /\ Component \in components /\ Component \in SUBSET Nodes /\ Component # {}
        /\ Connected(Component) /\ IsCyclic(Component)
    BY <1>1 DEF ReportInv, ComponentInv
  <1> QED
    BY <1>2, LeastProvider

\* The component and the ways back in it stay the same during a search.
LEMMA BackStays ==
    ASSUME deps' = deps, cyclic' = cyclic
    PROVE  Component' = Component /\ \A P : Back(P)' = Back(P)
  BY DEF Component, Back

\* The least provider of a component is its own cycle, or a search starts there.
LEMMA BeginCycleKeeps ==
    ASSUME CycleInv, BeginCycle
    PROVE  CycleInv'
  <1>1. PICK start : start = Least(Component)
    OBVIOUS
  <1>2. /\ phase = "report" /\ cyclic # {} /\ deps' = deps /\ components' = components
        /\ IF start \in deps[start] THEN Report(<<start, start>>)
           ELSE /\ path' = <<start>> /\ choices' = <<deps[start]>> /\ phase' = "search"
                /\ cyclic' = cyclic /\ reported' = reported
    BY <1>1 DEF BeginCycle, tarjanVars
  <1>3. ReportInv
    BY <1>2 DEF CycleInv
  <1>4. /\ Component \in SUBSET Nodes /\ Component # {} /\ Connected(Component) /\ IsCyclic(Component)
        /\ start \in Component /\ start \in Nodes /\ deps \in [Nodes -> SUBSET Nodes]
    BY <1>1, <1>2, <1>3, ComponentFacts DEF ReportInv
  <1>5. CASE start \in deps[start]
    <2>1. PICK r : r = <<start, start>>
      OBVIOUS
    <2>2. r \in Seq(Nodes) /\ Len(r) = 2 /\ r[1] = start /\ r[2] = start
      BY <1>4, <2>1
    <2>3. Elements(r) = {start}
      <3>1. 1..2 = {1, 2}
        OBVIOUS
      <3> QED
        BY <2>2, <3>1 DEF Elements
    <2>4. Cardinality(Elements(r)) = 1
      BY <2>3, FS_Singleton
    <2>5. IsCycle(r)
      <3>1. start <= start
        BY <1>4 DEF Nodes
      <3>2. \A i \in 1..(Len(r) - 1) : i = 1
        BY <2>2
      <3> QED
        BY <1>5, <2>2, <2>4, <3>1, <3>2 DEF IsCycle
    <2>6. ReportInv' /\ phase' = "report"
      BY <1>2, <1>3, <1>4, <1>5, <2>1, <2>2, <2>3, <2>5, ReportMore DEF Report
    <2> QED
      BY <2>6 DEF CycleInv
  <1>6. CASE start \notin deps[start]
    <2>1. /\ path' = <<start>> /\ choices' = <<deps[start]>> /\ phase' = "search"
          /\ cyclic' = cyclic /\ reported' = reported
      BY <1>2, <1>6
    <2>2. ReportInv'
      BY <1>2, <1>3, <2>1, ReportStays
    <2>3. Component' = Component /\ \A P : Back(P)' = Back(P)
      BY <1>2, <2>1, BackStays
    <2>4. Cardinality(Component) > 1
      BY <1>1, <1>4, <1>6 DEF IsCyclic
    <2>5. deps[start] \cap Back({start}) # {}
      BY <1>1, <1>4, <2>4, BackExists
    <2>6. /\ path' \in Seq(Component) /\ choices' \in Seq(SUBSET Nodes) /\ Len(path') = 1 /\ Len(choices') = 1
          /\ path'[1] = start /\ choices'[1] = deps[start] /\ path' # <<>>
      BY <1>4, <2>1
    <2>7. Used(1)' = {start}
      <3>1. 1..1 = {1}
        OBVIOUS
      <3> QED
        BY <2>6, <3>1 DEF Used
    <2>8. \E k \in 1..Len(path'), P \in SUBSET Nodes : P = Used(k)' /\ choices'[k] \cap Back(P)' # {}
      <3>1. 1 \in 1..Len(path') /\ {start} \in SUBSET Nodes
        BY <1>4, <2>6
      <3> QED
        BY <2>3, <2>5, <2>6, <2>7, <3>1
    <2>9. /\ \A i \in 1..(Len(path') - 1) : FALSE
          /\ \A i \in 1..Len(path') : i = 1
      BY <2>6
    <2>10. PathInv'
      BY <1>1, <1>2, <2>3, <2>6, <2>8, <2>9 DEF PathInv
    <2> QED
      BY <1>2, <2>1, <2>2, <2>10 DEF CycleInv
  <1> QED
    BY <1>5, <1>6

\* The search tries the next provider.
LEMMA SearchNextKeeps ==
    ASSUME CycleInv, SearchNext
    PROVE  CycleInv'
  <1>1. PICK n : n = Least(Top(choices))
    OBVIOUS
  <1>2. PICK start : start = Least(Component)
    OBVIOUS
  <1>3. PICK rest : rest = [choices EXCEPT ![Len(choices)] = @ \ {n}]
    OBVIOUS
  <1>4. /\ phase = "search" /\ choices # <<>> /\ Top(choices) # {} /\ deps' = deps /\ components' = components
        /\ IF n = start THEN Report(Append(path, n))
           ELSE /\ IF n \in Component /\ n \notin Elements(path)
                   THEN path' = Append(path, n) /\ choices' = Append(rest, deps[n])
                   ELSE path' = path /\ choices' = rest
                /\ phase' = phase /\ cyclic' = cyclic /\ reported' = reported
    BY <1>1, <1>2, <1>3 DEF SearchNext, tarjanVars
  <1>5. ReportInv /\ cyclic # {} /\ PathInv
    BY <1>4 DEF CycleInv
  <1>6. /\ Component \in SUBSET Nodes /\ Component # {} /\ deps \in [Nodes -> SUBSET Nodes]
        /\ start \in Component /\ start \in Nodes
    BY <1>2, <1>5, ComponentFacts DEF ReportInv
  <1>7. PICK len \in Nat : len = Len(path)
    BY <1>5 DEF PathInv
  <1>8. /\ path \in Seq(Component) /\ choices \in Seq(SUBSET Nodes) /\ Len(choices) = len /\ len # 0 /\ len \in 1..len
        /\ path[1] = start
        /\ \A i \in 1..(len - 1) : path[i + 1] \in deps[path[i]]
        /\ \A i, j \in 1..len : path[i] = path[j] => i = j
        /\ \A k \in 1..len : choices[k] \subseteq deps[path[k]] /\ path[k] \in Component
    BY <1>2, <1>5, <1>7 DEF PathInv
  <1>9. n \in choices[len] /\ n \in Nodes /\ n \in deps[path[len]]
    <2>1. Top(choices) = choices[len] /\ choices[len] \in SUBSET Nodes /\ choices[len] # {}
      BY <1>4, <1>8 DEF Top
    <2> QED
      BY <1>1, <1>8, <2>1, LeastProvider
  <1>10. /\ rest \in Seq(SUBSET Nodes) /\ Len(rest) = len
         /\ \A k \in 1..len : rest[k] = IF k = len THEN choices[k] \ {n} ELSE choices[k]
    <2>1. choices \in Seq(SUBSET Nodes) /\ len \in Nat /\ len = Len(choices) /\ len # 0
      BY <1>8
    <2>2. PICK v \in SUBSET Nodes : v = choices[len] \ {n}
      <3>1. len \in 1..len
        BY <1>8
      <3>2. choices[len] \in SUBSET Nodes
        BY <2>1, <3>1, SeqFacts
      <3> QED
        BY <3>2
    <2>3. rest = [choices EXCEPT ![len] = v]
      BY <1>3, <1>8, <2>2
    <2>4. /\ rest \in Seq(SUBSET Nodes) /\ Len(rest) = len
          /\ \A k \in 1..len : rest[k] = IF k = len THEN v ELSE choices[k]
      BY ONLY <2>1, <2>2, <2>3
    <2> QED
      BY <2>2, <2>4
  <1>11. PICK k \in 1..len, P \in SUBSET Nodes : P = Used(k) /\ choices[k] \cap Back(P) # {}
    BY <1>5, <1>7 DEF PathInv
  <1>12. CASE n = start
    <2>1. PICK r : r = Append(path, n)
      OBVIOUS
    <2>2. IsCycle(r) /\ r \in Seq(Nodes) /\ Elements(r) \subseteq Component
      BY <1>2, <1>5, <1>6, <1>7, <1>9, <1>12, <2>1, PathCloses
    <2>3. Report(r)
      BY <1>4, <1>12, <2>1
    <2>4. ReportInv' /\ phase' = "report"
      BY <1>4, <1>5, <2>2, <2>3, ReportMore DEF Report
    <2> QED
      BY <2>4 DEF CycleInv
  <1>13. ASSUME n # start
         PROVE  /\ phase' = "search" /\ cyclic' = cyclic /\ reported' = reported /\ ReportInv'
                /\ Component' = Component /\ \A Q : Back(Q)' = Back(Q)
    <2>1. phase' = "search" /\ cyclic' = cyclic /\ reported' = reported
      BY <1>4, <1>13
    <2> QED
      BY <1>4, <1>5, <2>1, ReportStays, BackStays
  <1>14. CASE n # start /\ n \in Component /\ n \notin Elements(path)
    <2>1. path' = Append(path, n) /\ choices' = Append(rest, deps[n])
      BY <1>4, <1>14
    <2>2. /\ path' \in Seq(Component) /\ Len(path') = len + 1 /\ path'[len + 1] = n
          /\ \A i \in 1..len : path'[i] = path[i]
      BY <1>7, <1>8, <1>14, <2>1
    <2>3. deps[n] \in SUBSET Nodes
      BY <1>6, <1>9
    <2>4. /\ choices' \in Seq(SUBSET Nodes) /\ Len(choices') = len + 1 /\ choices'[len + 1] = deps[n]
          /\ \A i \in 1..len : choices'[i] = rest[i]
      BY <1>10, <2>1, <2>3
    <2>5. \A i \in 1..(len + 1) : i \in 1..len \/ i = len + 1
      OBVIOUS
    <2>6. \A i \in 1..(Len(path') - 1) : path'[i + 1] \in deps'[path'[i]]
      <3> SUFFICES ASSUME NEW i \in 1..len PROVE path'[i + 1] \in deps[path'[i]]
        BY <1>4, <2>2
      <3>1. CASE i = len
        BY <1>9, <2>2, <3>1
      <3>2. CASE i # len
        <4>1. i \in 1..(len - 1) /\ i + 1 \in 1..len
          BY <3>2
        <4> QED
          BY <1>8, <2>2, <4>1
      <3> QED
        BY <3>1, <3>2
    <2>7. \A i \in 1..len : path[i] # n
      BY <1>7, <1>14 DEF Elements
    <2>8. ASSUME NEW i \in 1..Len(path'), NEW j \in 1..Len(path'), path'[i] = path'[j] PROVE i = j
      <3>1. i \in 1..(len + 1) /\ j \in 1..(len + 1)
        BY <2>2
      <3>2. CASE i = len + 1
        BY <2>2, <2>5, <2>7, <2>8, <3>1, <3>2
      <3>3. CASE j = len + 1
        BY <2>2, <2>5, <2>7, <2>8, <3>1, <3>3
      <3>4. CASE i \in 1..len /\ j \in 1..len
        BY <1>8, <2>2, <2>8, <3>4
      <3> QED
        BY <2>5, <3>1, <3>2, <3>3, <3>4
    <2>9. \A i \in 1..Len(path') : choices'[i] \subseteq deps'[path'[i]]
      <3> SUFFICES ASSUME NEW i \in 1..(len + 1) PROVE choices'[i] \subseteq deps[path'[i]]
        BY <1>4, <2>2
      <3>1. CASE i = len + 1
        BY <2>2, <2>4, <3>1
      <3>2. CASE i \in 1..len
        <4>1. rest[i] \subseteq choices[i] /\ choices[i] \subseteq deps[path[i]]
          BY <1>8, <1>10, <3>2
        <4> QED
          BY <2>2, <2>4, <3>2, <4>1
      <3> QED
        BY <2>5, <3>1, <3>2
    <2>10. ASSUME NEW j \in 1..len PROVE j \in 1..(len + 1) /\ Used(j)' = Used(j)
      <3>1. \A i \in 1..j : i \in 1..len
        OBVIOUS
      <3> QED
        BY <2>2, <3>1 DEF Used
    <2>11. \E i \in 1..Len(path'), Q \in SUBSET Nodes : Q = Used(i)' /\ choices'[i] \cap Back(Q)' # {}
      <3>1. CASE rest[k] \cap Back(P) # {}
        BY <1>11, <1>13, <1>14, <2>2, <2>4, <2>10, <3>1
      <3>2. CASE rest[k] \cap Back(P) = {}
        <4>1. k = len /\ n \in Back(P)
          BY <1>10, <1>11, <3>2
        <4>2. deps[n] \cap Back(P \cup {n}) # {}
          BY <1>2, <1>6, <1>14, <4>1, BackOn
        <4>3. Used(len + 1)' = P \cup {n}
          <5>1. \A i \in 1..len : i \in 1..(len + 1)
            OBVIOUS
          <5>2. ASSUME NEW x PROVE x \in Used(len + 1)' <=> x \in Used(len) \cup {n}
            <6>1. x \in Used(len + 1)' <=> \E i \in 1..(len + 1) : x = path'[i]
              BY DEF Used
            <6>2. x \in Used(len) <=> \E i \in 1..len : x = path[i]
              BY DEF Used
            <6>3. len + 1 \in 1..(len + 1)
              OBVIOUS
            <6> QED
              BY <2>2, <2>5, <5>1, <6>1, <6>2, <6>3
          <5> QED
            BY <1>11, <4>1, <5>2
        <4>4. len + 1 \in 1..Len(path') /\ P \cup {n} \in SUBSET Nodes
          BY <1>9, <2>2
        <4> QED
          BY <1>13, <1>14, <2>4, <4>2, <4>3, <4>4
      <3> QED
        BY <3>1, <3>2
    <2>12. path' # <<>> /\ path'[1] = start /\ Len(choices') = Len(path')
      BY <1>8, <2>2, <2>4
    <2>13. PathInv'
      BY <1>2, <1>13, <1>14, <2>2, <2>4, <2>6, <2>8, <2>9, <2>11, <2>12 DEF PathInv
    <2> QED
      BY <1>5, <1>13, <1>14, <2>13 DEF CycleInv
  <1>15. CASE n # start /\ ~(n \in Component /\ n \notin Elements(path))
    <2>1. path' = path /\ choices' = rest
      BY <1>4, <1>15
    <2>2. rest[k] \cap Back(P) # {}
      <3>1. ASSUME k = len PROVE n \notin Back(P)
        <4>1. P = Elements(path)
          BY <1>7, <1>11, <3>1 DEF Used, Elements
        <4> QED
          BY <1>2, <1>6, <1>15, <4>1, BackIn
      <3> QED
        BY <1>10, <1>11, <3>1
    <2>3. P = Used(k)' /\ Back(P)' = Back(P)
      BY <1>11, <1>13, <1>15, <2>1 DEF Used
    <2>4. \E i \in 1..Len(path'), Q \in SUBSET Nodes : Q = Used(i)' /\ choices'[i] \cap Back(Q)' # {}
      BY <1>7, <2>1, <2>2, <2>3
    <2>5. \A i \in 1..len : choices'[i] \subseteq deps[path[i]]
      BY <1>8, <1>10, <2>1
    <2>6. path # <<>>
      BY <1>7, <1>8
    <2>7. Component' = Component /\ Least(Component) = start
      BY <1>2, <1>13, <1>15
    <2>8. PathInv'
      BY <1>4, <1>7, <1>8, <1>10, <2>1, <2>4, <2>5, <2>6, <2>7 DEF PathInv
    <2> QED
      BY <1>5, <1>13, <1>15, <2>8 DEF CycleInv
  <1> QED
    BY <1>12, <1>14, <1>15

\* The search goes back: the way that is left to try is further up the path.
LEMMA SearchReturns ==
    ASSUME CycleInv, SearchBack
    PROVE  CycleInv'
  <1>1. /\ phase = "search" /\ choices # <<>> /\ Top(choices) = {} /\ path' = Front(path) /\ choices' = Front(choices)
        /\ phase' = phase /\ deps' = deps /\ components' = components /\ cyclic' = cyclic /\ reported' = reported
    BY DEF SearchBack, tarjanVars
  <1>2. ReportInv /\ cyclic # {} /\ PathInv
    BY <1>1 DEF CycleInv
  <1>3. PICK len \in Nat : len = Len(path)
    BY <1>2 DEF PathInv
  <1>4. /\ path \in Seq(Component) /\ choices \in Seq(SUBSET Nodes) /\ Len(choices) = len /\ len # 0 /\ path # <<>>
        /\ path[1] = Least(Component)
        /\ \A i \in 1..(len - 1) : path[i + 1] \in deps[path[i]]
        /\ \A i, j \in 1..len : path[i] = path[j] => i = j
        /\ \A k \in 1..len : choices[k] \subseteq deps[path[k]]
    BY <1>2, <1>3 DEF PathInv
  <1>5. PICK k \in 1..len, P \in SUBSET Nodes : P = Used(k) /\ choices[k] \cap Back(P) # {}
    BY <1>2, <1>3 DEF PathInv
  <1>6. k \in 1..(len - 1)
    BY <1>1, <1>4, <1>5 DEF Top
  <1>7. path' \in Seq(Component) /\ Len(path') = len - 1 /\ \A i \in 1..(len - 1) : path'[i] = path[i]
    BY <1>1, <1>3, <1>4, FrontOf
  <1>8. choices' \in Seq(SUBSET Nodes) /\ Len(choices') = len - 1 /\ \A i \in 1..(len - 1) : choices'[i] = choices[i]
    BY <1>1, <1>4, FrontOf
  <1>9. Component' = Component /\ \A Q : Back(Q)' = Back(Q)
    BY <1>1, BackStays
  <1>10. Used(k)' = Used(k)
    <2>1. \A i \in 1..k : i \in 1..(len - 1)
      BY <1>6
    <2> QED
      BY <1>7, <2>1 DEF Used
  <1>11. \E i \in 1..Len(path'), Q \in SUBSET Nodes : Q = Used(i)' /\ choices'[i] \cap Back(Q)' # {}
    BY <1>5, <1>6, <1>7, <1>8, <1>9, <1>10
  <1>12. path' # <<>> /\ path'[1] = path[1]
    BY <1>6, <1>7
  <1>13. \A i \in 1..(Len(path') - 1) : path'[i + 1] \in deps'[path'[i]]
    <2> SUFFICES ASSUME NEW i \in 1..((len - 1) - 1) PROVE path'[i + 1] \in deps[path'[i]]
      BY <1>1, <1>7
    <2>1. i \in 1..(len - 1) /\ i + 1 \in 1..(len - 1)
      OBVIOUS
    <2> QED
      BY <1>4, <1>7, <2>1
  <1>14. \A i \in 1..(len - 1) : i \in 1..len
    OBVIOUS
  <1>15. /\ \A i, j \in 1..Len(path') : path'[i] = path'[j] => i = j
         /\ \A i \in 1..Len(path') : choices'[i] \subseteq deps'[path'[i]]
    BY <1>1, <1>4, <1>7, <1>8, <1>14
  <1>16. PathInv'
    BY <1>4, <1>7, <1>8, <1>9, <1>11, <1>12, <1>13, <1>15 DEF PathInv
  <1> QED
    BY <1>1, <1>2, <1>16, ReportStays DEF CycleInv

\* A step that does not concern the search.
LEMMA ConnectStutters ==
    ASSUME ConnectInv, deps' = deps, index' = index, lowlink' = lowlink, stack' = stack, frames' = frames,
           components' = components
    PROVE  ConnectInv'
  <1>1. /\ Open' = Open /\ Finished' = Finished /\ \A k : Frame(k)' = Frame(k)
        /\ \A m : Returned(m)' <=> Returned(m)
    BY DEF Open, Elements, Finished, Frame, Returned
  <1>2. \A k, m : Owner(k, m)' <=> Owner(k, m)
    BY <1>1 DEF Owner
  <1>3. \A m : Lowered(m)' <=> Lowered(m)
    BY <1>1 DEF Lowered
  <1>4. TreeInv'
    BY <1>1 DEF ConnectInv, TreeInv
  <1>5. LowlinkInv'
    BY <1>1, <1>2, <1>3 DEF ConnectInv, LowlinkInv
  <1> QED
    BY <1>1, <1>4, <1>5, ComponentStays DEF ConnectInv

\* A step that does not concern the search for a cycle.
LEMMA PathStutters ==
    ASSUME PathInv, deps' = deps, cyclic' = cyclic, path' = path, choices' = choices
    PROVE  PathInv'
  <1>1. Component' = Component /\ \A P : Back(P)' = Back(P)
    BY BackStays
  <1>2. \A k : Used(k)' = Used(k)
    BY DEF Used
  <1> QED
    BY <1>1, <1>2 DEF PathInv

\* Every provider is visited: the components are known.
LEMMA ReportBegins ==
    ASSUME CycleInv, EndVisit
    PROVE  CycleInv'
  <1>1. /\ phase = "visit" /\ frames = <<>> /\ (\A n \in Nodes : index[n] # -1)
        /\ cyclic' = {c \in components : IsCyclic(c)} /\ phase' = "report" /\ deps' = deps
        /\ components' = components /\ reported' = reported
    BY DEF EndVisit, tarjanVars
  <1>2. VisitInv /\ ConnectInv /\ reported = {}
    BY <1>1 DEF CycleInv
  <1>3. components \in SUBSET (SUBSET Nodes) /\ deps \in [Nodes -> SUBSET Nodes] /\ ComponentInv
    BY <1>2 DEF VisitInv, VisitTypes, ConnectInv
  <1>4. Open = {}
    BY <1>1, <1>2 DEF VisitInv, FrameInv
  <1>5. UNION components = Nodes
    <2>1. Nodes \subseteq Finished
      BY <1>1, <1>2, <1>4 DEF VisitInv, IndexInv
    <2> QED
      BY <1>3, <2>1 DEF Finished
  <1>6. ComponentInv'
    BY <1>1, <1>3, ComponentStays
  <1>7. \A c : IsCyclic(c)' <=> IsCyclic(c)
    BY <1>1 DEF IsCyclic
  <1>8. ReportInv'
    BY <1>1, <1>2, <1>3, <1>5, <1>6, <1>7 DEF ReportInv
  <1> QED
    BY <1>1, <1>8 DEF CycleInv

\* Every step keeps CycleInv.
LEMMA CycleStep == CycleInv /\ [Next]_vars => CycleInv'
  <1> SUFFICES ASSUME CycleInv, [Next]_vars PROVE CycleInv'
    OBVIOUS
  <1>1. CASE VisitRoot \/ VisitEdge \/ VisitReturn
    <2>1. phase = "visit" /\ phase' = "visit" /\ reported' = reported
      BY <1>1 DEF VisitRoot, VisitEdge, VisitReturn, cycleVars
    <2>2. VisitInv /\ ConnectInv
      BY <2>1 DEF CycleInv
    <2>3. VisitInv' /\ ConnectInv'
      BY <1>1, <2>2, VisitRootKeeps, VisitEdgeKeeps, VisitReturnKeeps, ConnectRoot, ConnectEdge, ConnectReturn
    <2> QED
      BY <2>1, <2>3 DEF CycleInv
  <1>2. CASE EndVisit
    BY <1>2, ReportBegins
  <1>3. CASE BeginCycle
    BY <1>3, BeginCycleKeeps
  <1>4. CASE SearchNext
    BY <1>4, SearchNextKeeps
  <1>5. CASE SearchBack
    BY <1>5, SearchReturns
  <1>6. CASE EndReport \/ \E n \in Nodes : Take(n)
    <2>1. /\ phase \in {"report", "order", "policies"} /\ phase' \in {"cycles", "order", "policies"}
          /\ phase' = "policies" <=> phase = "policies"
          /\ phase = "report" => cyclic = {} /\ (phase' = "order" => reported = {})
          /\ deps' = deps /\ components' = components /\ cyclic' = cyclic /\ reported' = reported
      BY <1>6 DEF EndReport, Take, tarjanVars, cycleVars
    <2> QED
      BY <2>1, ReportStays DEF CycleInv
  <1>7. CASE \/ EndOrder \/ EndPolicies \/ PolicyCycle
             \/ \E m \in Nodes, S \in SUBSET Nodes : m \notin S /\ BeginPolicies(ManagersOf(m, S))
    <2>1. /\ phase \in {"order", "ordered", "policies"} /\ phase' \in {"ordered", "policies", "done", "policyCycle"}
          /\ reported' = reported
      BY <1>7 DEF EndOrder, EndPolicies, PolicyCycle, BeginPolicies, cycleVars
    <2> QED
      BY <2>1 DEF CycleInv
  <1>8. CASE UNCHANGED vars
    <2>1. /\ phase' = phase /\ deps' = deps /\ index' = index /\ lowlink' = lowlink /\ nextIndex' = nextIndex
          /\ stack' = stack /\ frames' = frames /\ components' = components /\ cyclic' = cyclic
          /\ path' = path /\ choices' = choices /\ reported' = reported
      BY <1>8 DEF vars, tarjanVars, cycleVars
    <2>2. VisitInv => VisitInv'
      BY <2>1, VisitStutters
    <2>3. ConnectInv => ConnectInv'
      BY <2>1, ConnectStutters
    <2>4. PathInv => PathInv'
      BY <2>1, PathStutters
    <2> QED
      BY <2>1, <2>2, <2>3, <2>4, ReportStays DEF CycleInv
  <1> QED
    BY <1>1, <1>2, <1>3, <1>4, <1>5, <1>6, <1>7, <1>8 DEF Next, Step, Ended

\* For every number of providers and every graph: what a diagnostic shows is a cycle, the search in a component
\* always finds one, and the providers that need themselves are those of the components with a diagnostic.
THEOREM CyclesAreFound == Spec => []CyclesAreExact
  <1>1. Init => CycleInv
    <2> SUFFICES ASSUME Init PROVE CycleInv
      OBVIOUS
    <2>1. phase = "visit" /\ reported = {}
      BY DEF Init
    <2> QED
      BY <2>1, VisitInit, ConnectInit DEF CycleInv
  <1>2. CycleInv => CyclesAreExact
    <2> SUFFICES ASSUME CycleInv PROVE CyclesAreExact
      OBVIOUS
    <2>1. \A c \in reported : IsCycle(c)
      BY DEF CycleInv, ReportInv
    <2>2. phase = "search" => path # <<>>
      BY DEF CycleInv, PathInv
    <2>3. phase \in {"cycles", "order"} => ReportInv /\ cyclic = {}
      BY DEF CycleInv
    <2> QED
      BY <2>1, <2>2, <2>3, ReportExact DEF CyclesAreExact
  <1> QED
    BY <1>1, <1>2, CycleStep, PTL DEF Spec

-----------------------------------------------------------------------------
(* The generated program. *)

\* Induction over the natural numbers, for a set of them.
LEMMA SetInduction ==
    ASSUME NEW S \in SUBSET Nat, 0 \in S, \A n \in S : n + 1 \in S
    PROVE  S = Nat
  <1> SUFFICES ASSUME Nat \ S # {} PROVE FALSE
    OBVIOUS
  <1>1. PICK R : R = {xy \in Nat \X Nat : xy[1] < xy[2]}
    OBVIOUS
  <1>2. IsWellFoundedOn(R, Nat)
    BY <1>1, NatLessThanWellFounded DEF OpToRel
  <1>3. PICK x \in Nat \ S : \A y \in Nat \ S : ~(<<y, x>> \in R)
    BY <1>2, WFMin
  <1>4. x # 0 /\ x - 1 \in Nat /\ x - 1 < x
    BY <1>3
  <1>5. x - 1 \in S
    BY <1>1, <1>3, <1>4
  <1>6. (x - 1) + 1 = x
    BY <1>4
  <1> QED
    BY <1>3, <1>5, <1>6

\* The partial concatenations of a sequence of sequences.
IsFlattening(f, s, n) == f = [i \in 1..n |-> IF i = 1 THEN s[i] ELSE f[i - 1] \o s[i]]

\* Partial concatenations exist, however many sequences there are.
LEMMA FlatteningExists ==
    ASSUME NEW s, NEW n \in Nat
    PROVE  \E f : IsFlattening(f, s, n)
  <1> DEFINE S == {m \in Nat : \E f : IsFlattening(f, s, m)}
  <1>1. 0 \in S
    <2>1. IsFlattening(<<>>, s, 0)
      BY DEF IsFlattening
    <2> QED BY <2>1
  <1>2. ASSUME NEW m \in S PROVE m + 1 \in S
    <2>1. PICK f : IsFlattening(f, s, m)
      BY <1>2
    <2>2. PICK g : g = [i \in 1..(m + 1) |-> IF i = m + 1 THEN (IF i = 1 THEN s[i] ELSE f[i - 1] \o s[i]) ELSE f[i]]
      OBVIOUS
    <2>3. \A i \in 1..(m + 1) : g[i] = IF i = 1 THEN s[i] ELSE g[i - 1] \o s[i]
      <3> SUFFICES ASSUME NEW i \in 1..(m + 1) PROVE g[i] = IF i = 1 THEN s[i] ELSE g[i - 1] \o s[i]
        OBVIOUS
      <3>1. CASE i = m + 1
        BY <2>2, <3>1
      <3>2. CASE i # m + 1
        <4>1. i \in 1..m /\ g[i] = f[i]
          BY <2>2, <3>2
        <4>2. f[i] = IF i = 1 THEN s[i] ELSE f[i - 1] \o s[i]
          BY <2>1, <4>1 DEF IsFlattening
        <4>3. i # 1 => g[i - 1] = f[i - 1]
          BY <2>2, <4>1
        <4> QED BY <4>1, <4>2, <4>3
      <3> QED BY <3>1, <3>2
    <2>4. g = [i \in 1..(m + 1) |-> g[i]]
      BY <2>2
    <2>5. IsFlattening(g, s, m + 1)
      BY <2>3, <2>4 DEF IsFlattening
    <2> QED
      BY <2>5
  <1>3. S = Nat
    <2> HIDE DEF S
    <2>1. S \in SUBSET Nat
      BY DEF S
    <2> QED BY <1>1, <1>2, <2>1, SetInduction
  <1> QED BY <1>3

\* FlattenSeq is the last of them.
LEMMA FlattenIsLast ==
    ASSUME NEW s, Len(s) \in Nat, Len(s) # 0
    PROVE  \E f : IsFlattening(f, s, Len(s)) /\ FlattenSeq(s) = f[Len(s)]
  <1> DEFINE g == CHOOSE f : f = [i \in 1..Len(s) |-> IF i = 1 THEN s[i] ELSE f[i - 1] \o s[i]]
  <1>1. g = [i \in 1..Len(s) |-> IF i = 1 THEN s[i] ELSE g[i - 1] \o s[i]]
    BY FlatteningExists DEF IsFlattening
  <1>2. FlattenSeq(s) = g[Len(s)]
    BY DEF FlattenSeq
  <1> QED
    BY <1>1, <1>2 DEF IsFlattening


\* The concatenation of sequences over S is one.
LEMMA FlattenIsSeq ==
    ASSUME NEW S, NEW s \in Seq(Seq(S))
    PROVE  FlattenSeq(s) \in Seq(S)
  <1> PICK n \in Nat : n = Len(s)
    OBVIOUS
  <1>1. CASE n = 0
    <2>1. s = <<>>
      BY <1>1, EmptySeq
    <2> QED BY <2>1 DEF FlattenSeq
  <1>2. CASE n # 0
    <2>1. PICK f : IsFlattening(f, s, n) /\ FlattenSeq(s) = f[n]
      BY <1>2, FlattenIsLast
    <2> DEFINE T == {m \in Nat : m \in 1..n => f[m] \in Seq(S)}
    <2>2. ASSUME NEW m \in T PROVE m + 1 \in T
      <3> SUFFICES ASSUME m + 1 \in 1..n PROVE f[m + 1] \in Seq(S)
        OBVIOUS
      <3>1. f[m + 1] = IF m + 1 = 1 THEN s[m + 1] ELSE f[(m + 1) - 1] \o s[m + 1]
        BY <2>1 DEF IsFlattening
      <3>2. s[m + 1] \in Seq(S)
        OBVIOUS
      <3>3. CASE m = 0
        BY <3>1, <3>2, <3>3
      <3>4. CASE m # 0
        <4>1. m \in 1..n /\ (m + 1) - 1 = m /\ m + 1 # 1
          BY <3>4
        <4>2. f[m] \in Seq(S)
          BY <2>2, <4>1
        <4> QED BY <3>1, <3>2, <4>1, <4>2
      <3> QED BY <3>3, <3>4
    <2>3. T = Nat
      <3>1. 0 \in T
        OBVIOUS
      <3> HIDE DEF T
      <3>2. T \in SUBSET Nat BY DEF T
      <3> QED BY <2>2, <3>1, <3>2, SetInduction
    <2>4. n \in T /\ n \in 1..n
      BY <1>2, <2>3
    <2> QED BY <2>1, <2>4
  <1> QED BY <1>1, <1>2

-----------------------------------------------------------------------------
(* The program is well built. *)

Operations ==
    {"schema", "resolve", "timeout", "logging", "observation", "authorizer", "observers", "construct", "register", "factory",
     "bind", "topic", "decorate", "logger", "selected", "concurrency", "executor", "closures", "scheduler", "hooks", "cache",
     "guard", "observe", "intercept", "route", "management", "scope"}

StatementsOf(a) ==
    [op : Operations, on : Ids(a) \cup {None, "executor"}, uses : SUBSET Ids(a), fails : {"abort", "return", "never"}]

\* Before statement k the program has a statement that gives the variable of a provider its value.
DefinedBefore(t, id, k) == \E j \in 1..Len(t) : j < k /\ Defines(t[j]) /\ t[j].on = id

\* The cleanup of what is constructed is registered at once.
Paired(t) ==
    \A k \in 1..Len(t) : t[k].op = "construct" => k + 1 <= Len(t) /\ t[k + 1].op = "register" /\ t[k + 1].on = t[k].on

\* Besides the executor only what was just constructed is registered.
RegistersOwn(t) ==
    \A k \in 1..Len(t) : t[k].op = "register" /\ t[k].on # "executor"
                           => k > 1 /\ t[k - 1].op = "construct" /\ t[k - 1].on = t[k].on

DefinedOnce(t) == \A j, k \in 1..Len(t) : Defines(t[j]) /\ Defines(t[k]) /\ t[j].on = t[k].on => j = k

DefinesAll(t, D) ==
    /\ \A k \in 1..Len(t) : Defines(t[k]) => t[k].on \in D
    /\ \A id \in D : DefinedBefore(t, id, Len(t) + 1)

\* An error is returned past the coordinator only before anything is constructed.
ReturnsFirst(t) == \A j, k \in 1..Len(t) : j < k /\ t[k].fails = "return" => t[j].op # "construct"

\* What a statement reads is defined before it, or was by what precedes t.
UsesDefined(t, before) == \A k \in 1..Len(t) : \A id \in t[k].uses : id \in before \/ DefinedBefore(t, id, k)
NeedsDefined(a, t, before) ==
    \A k \in 1..Len(t) : Defines(t[k]) => \A id \in Needed(Provider(a, t[k].on)) : id \in before \/ DefinedBefore(t, id, k)

\* The executor is registered after everything else; "registered" says whether it is.
ExecutorLast(t, registered) ==
    /\ \A j, k \in 1..Len(t) : t[j].op = "register" /\ t[k].op = "register" /\ t[k].on = "executor" => j <= k
    /\ registered <=> \E k \in 1..Len(t) : t[k].op = "register" /\ t[k].on = "executor"

\* t is a program that defines D, or the beginning of one.
WellBuilt(a, t, D, registered) ==
    /\ t \in Seq(StatementsOf(a)) /\ Len(t) > 0
    /\ Paired(t) /\ RegistersOwn(t) /\ DefinedOnce(t) /\ DefinesAll(t, D) /\ ReturnsFirst(t)
    /\ UsesDefined(t, {}) /\ NeedsDefined(a, t, {}) /\ ExecutorLast(t, registered)

\* s may follow a program that defines D, and defines M.
Follows(a, s, D, M, registered, registers) ==
    /\ s \in Seq(StatementsOf(a))
    /\ Paired(s) /\ RegistersOwn(s) /\ DefinedOnce(s) /\ DefinesAll(s, M) /\ M \cap D = {}
    /\ \A k \in 1..Len(s) : s[k].fails # "return"
    /\ UsesDefined(s, D) /\ NeedsDefined(a, s, D) /\ ExecutorLast(s, registers)
    /\ registered => \A k \in 1..Len(s) : s[k].op # "register"

\* The statements of two parts, by their places.
LEMMA Joined ==
    ASSUME NEW S, NEW t \in Seq(S), NEW s \in Seq(S), NEW m \in Nat, m = Len(t), NEW n \in Nat, n = Len(s)
    PROVE  /\ t \o s \in Seq(S) /\ Len(t \o s) = m + n
           /\ \A k \in 1..m : (t \o s)[k] = t[k]
           /\ \A k \in 1..n : m + k \in 1..(m + n) /\ (t \o s)[m + k] = s[k]
           /\ \A k \in 1..(m + n) : k \notin 1..m => k - m \in 1..n /\ m + (k - m) = k
  OBVIOUS

\* A well-built program and what may follow it are a well-built program.
LEMMA Extended ==
    ASSUME NEW a, NEW t, NEW s, NEW D, NEW M, NEW e \in BOOLEAN, NEW f \in BOOLEAN,
           WellBuilt(a, t, D, e), Follows(a, s, D, M, e, f)
    PROVE  WellBuilt(a, t \o s, D \cup M, e \/ f)
  <1>0. t \in Seq(StatementsOf(a)) /\ s \in Seq(StatementsOf(a))
    BY DEF WellBuilt, Follows
  <1>1. PICK m \in Nat : m = Len(t)
    BY <1>0
  <1>2. PICK n \in Nat : n = Len(s)
    BY <1>0
  <1>3. PICK u : u = t \o s
    OBVIOUS
  <1>4. /\ u \in Seq(StatementsOf(a)) /\ Len(u) = m + n
        /\ \A k \in 1..m : u[k] = t[k]
        /\ \A k \in 1..n : m + k \in 1..(m + n) /\ u[m + k] = s[k]
        /\ \A k \in 1..(m + n) : k \notin 1..m => k - m \in 1..n /\ m + (k - m) = k
    BY <1>0, <1>1, <1>2, <1>3, Joined
  <1>5. \A k \in 1..(m + n) : k \notin 1..m => k - m \in 1..n /\ u[k] = s[k - m]
    BY <1>4
  <1>6. ASSUME NEW id, NEW k, DefinedBefore(t, id, k) PROVE DefinedBefore(u, id, k)
    <2>1. PICK j \in 1..m : j < k /\ Defines(t[j]) /\ t[j].on = id
      BY <1>1, <1>6 DEF DefinedBefore
    <2>2. j \in 1..Len(u) /\ u[j] = t[j]
      BY <1>4, <2>1
    <2> QED BY <2>1, <2>2 DEF DefinedBefore
  <1>7. ASSUME NEW id, NEW k \in Int, DefinedBefore(s, id, k) PROVE DefinedBefore(u, id, m + k)
    <2>1. PICK j \in 1..n : j < k /\ Defines(s[j]) /\ s[j].on = id
      BY <1>2, <1>7 DEF DefinedBefore
    <2>2. m + j \in 1..Len(u) /\ u[m + j] = s[j] /\ m + j < m + k
      BY <1>4, <2>1
    <2> QED BY <2>1, <2>2 DEF DefinedBefore
  <1>8. ASSUME NEW id \in D, NEW k \in Int, k > m PROVE DefinedBefore(u, id, k)
    <2>1. PICK j \in 1..m : Defines(t[j]) /\ t[j].on = id
      BY <1>1 DEF WellBuilt, DefinesAll, DefinedBefore
    <2>2. j \in 1..Len(u) /\ u[j] = t[j] /\ j < k
      BY <1>4, <1>8, <2>1
    <2> QED BY <2>1, <2>2 DEF DefinedBefore
  <1>9. Paired(u)
    <2> SUFFICES ASSUME NEW k \in 1..(m + n), u[k].op = "construct"
                 PROVE  k + 1 <= m + n /\ u[k + 1].op = "register" /\ u[k + 1].on = u[k].on
      BY <1>4 DEF Paired
    <2>1. CASE k \in 1..m
      <3>1. k + 1 <= m /\ t[k + 1].op = "register" /\ t[k + 1].on = t[k].on
        BY <1>1, <1>4, <2>1 DEF WellBuilt, Paired
      <3>2. k + 1 \in 1..m
        BY <2>1, <3>1
      <3> QED BY <1>4, <2>1, <3>1, <3>2
    <2>2. CASE k \notin 1..m
      <3>1. k - m \in 1..n /\ u[k] = s[k - m]
        BY <1>5, <2>2
      <3>2. (k - m) + 1 <= n /\ s[(k - m) + 1].op = "register" /\ s[(k - m) + 1].on = s[k - m].on
        BY <1>2, <3>1 DEF Follows, Paired
      <3>3. (k - m) + 1 \in 1..n /\ m + ((k - m) + 1) = k + 1
        BY <3>1, <3>2
      <3>4. u[k + 1] = s[(k - m) + 1]
        BY <1>4, <3>3
      <3> QED BY <3>1, <3>2, <3>3, <3>4
    <2> QED BY <2>1, <2>2
  <1>10. RegistersOwn(u)
    <2> SUFFICES ASSUME NEW k \in 1..(m + n), u[k].op = "register", u[k].on # "executor"
                 PROVE  k > 1 /\ u[k - 1].op = "construct" /\ u[k - 1].on = u[k].on
      BY <1>4 DEF RegistersOwn
    <2>1. CASE k \in 1..m
      <3>1. k > 1 /\ t[k - 1].op = "construct" /\ t[k - 1].on = t[k].on
        BY <1>1, <1>4, <2>1 DEF WellBuilt, RegistersOwn
      <3>2. k - 1 \in 1..m
        BY <2>1, <3>1
      <3> QED BY <1>4, <2>1, <3>1, <3>2
    <2>2. CASE k \notin 1..m
      <3>1. k - m \in 1..n /\ u[k] = s[k - m]
        BY <1>5, <2>2
      <3>2. k - m > 1 /\ s[(k - m) - 1].op = "construct" /\ s[(k - m) - 1].on = s[k - m].on
        BY <1>2, <3>1 DEF Follows, RegistersOwn
      <3>3. (k - m) - 1 \in 1..n /\ m + ((k - m) - 1) = k - 1
        BY <3>1, <3>2
      <3>4. u[k - 1] = s[(k - m) - 1]
        BY <1>4, <3>3
      <3> QED BY <3>1, <3>2, <3>3, <3>4
    <2> QED BY <2>1, <2>2
  <1>11. /\ \A k \in 1..m : Defines(u[k]) => u[k].on \in D
         /\ \A k \in 1..n : Defines(s[k]) => s[k].on \in M
         /\ M \cap D = {}
    BY <1>1, <1>2, <1>4 DEF WellBuilt, Follows, DefinesAll
  <1>12. DefinedOnce(u)
    <2> SUFFICES ASSUME NEW j \in 1..(m + n), NEW k \in 1..(m + n), Defines(u[j]), Defines(u[k]), u[j].on = u[k].on
                 PROVE  j = k
      BY <1>4 DEF DefinedOnce
    <2>1. CASE j \in 1..m /\ k \in 1..m
      BY <1>1, <1>4, <2>1 DEF WellBuilt, DefinedOnce
    <2>2. CASE j \notin 1..m /\ k \notin 1..m
      <3>1. j - m \in 1..n /\ k - m \in 1..n /\ u[j] = s[j - m] /\ u[k] = s[k - m]
        BY <1>5, <2>2
      <3>2. j - m = k - m
        BY <1>2, <3>1 DEF Follows, DefinedOnce
      <3> QED BY <3>2
    <2>3. CASE j \in 1..m /\ k \notin 1..m
      BY <1>5, <1>11, <2>3
    <2>4. CASE j \notin 1..m /\ k \in 1..m
      BY <1>5, <1>11, <2>4
    <2> QED BY <2>1, <2>2, <2>3, <2>4
  <1>13. DefinesAll(u, D \cup M)
    <2>1. ASSUME NEW k \in 1..(m + n), Defines(u[k]) PROVE u[k].on \in D \cup M
      <3>1. CASE k \in 1..m
        BY <1>11, <2>1, <3>1
      <3>2. CASE k \notin 1..m
        <4>1. k - m \in 1..n /\ u[k] = s[k - m]
          BY <1>5, <3>2
        <4> QED BY <1>11, <2>1, <4>1
      <3> QED BY <3>1, <3>2
    <2>2. ASSUME NEW id \in D PROVE DefinedBefore(u, id, Len(u) + 1)
      <3>1. (m + n) + 1 \in Int /\ (m + n) + 1 > m
        OBVIOUS
      <3> QED BY <1>4, <1>8, <3>1
    <2>3. ASSUME NEW id \in M PROVE DefinedBefore(u, id, Len(u) + 1)
      <3>1. DefinedBefore(s, id, n + 1)
        BY <1>2 DEF Follows, DefinesAll
      <3>2. m + (n + 1) = Len(u) + 1 /\ n + 1 \in Int
        BY <1>4
      <3>3. DefinedBefore(u, id, m + (n + 1))
        BY <1>7, <3>1, <3>2
      <3> QED BY <3>2, <3>3
    <2> QED BY <1>4, <2>1, <2>2, <2>3 DEF DefinesAll
  <1>14. ReturnsFirst(u)
    <2> SUFFICES ASSUME NEW j \in 1..(m + n), NEW k \in 1..(m + n), j < k, u[k].fails = "return"
                 PROVE  u[j].op # "construct"
      BY <1>4 DEF ReturnsFirst
    <2>1. k \in 1..m
      <3> SUFFICES ASSUME k \notin 1..m PROVE FALSE
        OBVIOUS
      <3> QED BY <1>2, <1>5 DEF Follows
    <2>2. j \in 1..m
      BY <2>1
    <2> QED BY <1>1, <1>4, <2>1, <2>2 DEF WellBuilt, ReturnsFirst
  <1>15. UsesDefined(u, {})
    <2> SUFFICES ASSUME NEW k \in 1..(m + n), NEW id \in u[k].uses PROVE DefinedBefore(u, id, k)
      BY <1>4 DEF UsesDefined
    <2>1. CASE k \in 1..m
      <3>1. DefinedBefore(t, id, k)
        BY <1>1, <1>4, <2>1 DEF WellBuilt, UsesDefined
      <3> QED BY <1>6, <3>1
    <2>2. CASE k \notin 1..m
      <3>1. k - m \in 1..n /\ u[k] = s[k - m] /\ m + (k - m) = k /\ k - m \in Int /\ k > m /\ k \in Int
        BY <1>5, <2>2
      <3>2. id \in D \/ DefinedBefore(s, id, k - m)
        BY <1>2, <3>1 DEF Follows, UsesDefined
      <3>3. CASE id \in D
        BY <1>8, <3>1, <3>3
      <3>4. CASE DefinedBefore(s, id, k - m)
        <4>1. DefinedBefore(u, id, m + (k - m))
          BY <1>7, <3>1, <3>4
        <4> QED BY <3>1, <4>1
      <3> QED BY <3>2, <3>3, <3>4
    <2> QED BY <2>1, <2>2
  <1>16. NeedsDefined(a, u, {})
    <2> SUFFICES ASSUME NEW k \in 1..(m + n), Defines(u[k]), NEW id \in Needed(Provider(a, u[k].on)) PROVE DefinedBefore(u, id, k)
      BY <1>4 DEF NeedsDefined
    <2>1. CASE k \in 1..m
      <3>1. DefinedBefore(t, id, k)
        BY <1>1, <1>4, <2>1 DEF WellBuilt, NeedsDefined
      <3> QED BY <1>6, <3>1
    <2>2. CASE k \notin 1..m
      <3>1. k - m \in 1..n /\ u[k] = s[k - m] /\ m + (k - m) = k /\ k - m \in Int /\ k > m /\ k \in Int
        BY <1>5, <2>2
      <3>2. id \in D \/ DefinedBefore(s, id, k - m)
        BY <1>2, <3>1 DEF Follows, NeedsDefined
      <3>3. CASE id \in D
        BY <1>8, <3>1, <3>3
      <3>4. CASE DefinedBefore(s, id, k - m)
        <4>1. DefinedBefore(u, id, m + (k - m))
          BY <1>7, <3>1, <3>4
        <4> QED BY <3>1, <4>1
      <3> QED BY <3>2, <3>3, <3>4
    <2> QED BY <2>1, <2>2
  <1>17. ExecutorLast(u, e \/ f)
    <2>0. /\ \A j, k \in 1..m : t[j].op = "register" /\ t[k].op = "register" /\ t[k].on = "executor" => j <= k
          /\ e <=> \E k \in 1..m : t[k].op = "register" /\ t[k].on = "executor"
          /\ \A j, k \in 1..n : s[j].op = "register" /\ s[k].op = "register" /\ s[k].on = "executor" => j <= k
          /\ f <=> \E k \in 1..n : s[k].op = "register" /\ s[k].on = "executor"
          /\ e => \A k \in 1..n : s[k].op # "register"
      BY <1>1, <1>2 DEF WellBuilt, Follows, ExecutorLast
    <2>1. ASSUME NEW j \in 1..(m + n), NEW k \in 1..(m + n), u[j].op = "register", u[k].op = "register", u[k].on = "executor"
          PROVE  j <= k
      <3>1. CASE k \in 1..m
        <4>1. e
          BY <1>4, <2>0, <2>1, <3>1
        <4>2. j \in 1..m
          BY <1>5, <2>0, <2>1, <4>1
        <4> QED BY <1>4, <2>0, <2>1, <3>1, <4>2
      <3>2. CASE k \notin 1..m /\ j \in 1..m
        BY <3>2
      <3>3. CASE k \notin 1..m /\ j \notin 1..m
        <4>1. j - m \in 1..n /\ k - m \in 1..n /\ u[j] = s[j - m] /\ u[k] = s[k - m]
          BY <1>5, <3>3
        <4>2. j - m <= k - m
          BY <2>0, <2>1, <4>1
        <4> QED BY <4>1, <4>2
      <3> QED BY <3>1, <3>2, <3>3
    <2>2. ASSUME e \/ f PROVE \E k \in 1..(m + n) : u[k].op = "register" /\ u[k].on = "executor"
      <3>1. CASE e
        <4>1. PICK k \in 1..m : t[k].op = "register" /\ t[k].on = "executor"
          BY <2>0, <3>1
        <4>2. k \in 1..(m + n) /\ u[k] = t[k]
          BY <1>4, <4>1
        <4> QED BY <4>1, <4>2
      <3>2. CASE f
        <4>1. PICK k \in 1..n : s[k].op = "register" /\ s[k].on = "executor"
          BY <2>0, <3>2
        <4>2. m + k \in 1..(m + n) /\ u[m + k] = s[k]
          BY <1>4, <4>1
        <4> QED BY <4>1, <4>2
      <3> QED BY <2>2, <3>1, <3>2
    <2>3. ASSUME NEW k \in 1..(m + n), u[k].op = "register", u[k].on = "executor" PROVE e \/ f
      <3>1. CASE k \in 1..m
        BY <1>4, <2>0, <2>3, <3>1
      <3>2. CASE k \notin 1..m
        <4>1. k - m \in 1..n /\ u[k] = s[k - m]
          BY <1>5, <3>2
        <4> QED BY <2>0, <2>3, <4>1
      <3> QED BY <3>1, <3>2
    <2> QED BY <1>4, <2>1, <2>2, <2>3 DEF ExecutorLast
  <1>18. Len(u) > 0
    <2>1. m > 0
      BY <1>1 DEF WellBuilt
    <2> QED BY <1>4, <2>1
  <1> QED
    BY <1>3, <1>4, <1>9, <1>10, <1>12, <1>13, <1>14, <1>15, <1>16, <1>17, <1>18 DEF WellBuilt

-----------------------------------------------------------------------------
(* The parts of the program. *)

\* Statements that construct and register nothing.
PlainStatements(a, D) ==
    {s \in StatementsOf(a) : s.op \notin {"construct", "register"} /\ ~Defines(s) /\ s.fails # "return" /\ s.uses \subseteq D}

\* Statements that construct, register and define nothing may follow any program that defines what they read.
LEMMA PlainFollows ==
    ASSUME NEW a, NEW D, NEW s \in Seq(PlainStatements(a, D)), NEW e \in BOOLEAN
    PROVE  Follows(a, s, D, {}, e, FALSE)
  <1>1. PICK n \in Nat : n = Len(s)
    OBVIOUS
  <1>2. \A k \in 1..n : s[k] \in PlainStatements(a, D)
    BY <1>1
  <1>3. \A k \in 1..n : /\ s[k] \in StatementsOf(a) /\ s[k].op # "construct" /\ s[k].op # "register" /\ ~Defines(s[k])
                        /\ s[k].fails # "return" /\ s[k].uses \subseteq D
    BY <1>2 DEF PlainStatements
  <1>4. s \in Seq(StatementsOf(a))
    <2>1. PlainStatements(a, D) \subseteq StatementsOf(a)
      BY DEF PlainStatements
    <2> QED BY <2>1, SeqMonotonic
  <1>5. Paired(s) /\ RegistersOwn(s) /\ DefinedOnce(s) /\ DefinesAll(s, {})
    BY <1>1, <1>3 DEF Paired, RegistersOwn, DefinedOnce, DefinesAll
  <1>6. UsesDefined(s, D) /\ NeedsDefined(a, s, D) /\ ExecutorLast(s, FALSE)
    BY <1>1, <1>3 DEF UsesDefined, NeedsDefined, ExecutorLast
  <1> QED BY <1>1, <1>3, <1>4, <1>5, <1>6 DEF Follows

\* They leave a well-built program well built.
LEMMA PlainExtends ==
    ASSUME NEW a, NEW t, NEW D, NEW e \in BOOLEAN, WellBuilt(a, t, D, e), NEW s \in Seq(PlainStatements(a, D))
    PROVE  WellBuilt(a, t \o s, D, e)
  <1>1. WellBuilt(a, t \o s, D \cup {}, e \/ FALSE)
    <2>1. Follows(a, s, D, {}, e, FALSE)
      BY PlainFollows
    <2> QED BY <2>1, Extended
  <1>2. D \cup {} = D /\ (e \/ FALSE) = e
    OBVIOUS
  <1> QED BY <1>1, <1>2

\* A statement that defines one variable more.
LEMMA OneExtends ==
    ASSUME NEW a, NEW t, NEW D, NEW e \in BOOLEAN, WellBuilt(a, t, D, e),
           NEW s \in StatementsOf(a), Defines(s), s.op # "construct", s.op # "register", s.fails # "return", s.on \notin D,
           s.uses \subseteq D, Needed(Provider(a, s.on)) \subseteq D
    PROVE  WellBuilt(a, t \o <<s>>, D \cup {s.on}, e)
  <1>1. PICK q : q = <<s>>
    OBVIOUS
  <1>2. q \in Seq(StatementsOf(a)) /\ Len(q) = 1 /\ q[1] = s /\ \A k \in 1..Len(q) : k = 1
    BY <1>1
  <1>3. Paired(q) /\ RegistersOwn(q)
    BY <1>2 DEF Paired, RegistersOwn
  <1>4. DefinedOnce(q)
    BY <1>2 DEF DefinedOnce
  <1>5. DefinesAll(q, {s.on})
    <2>1. DefinedBefore(q, s.on, Len(q) + 1)
      BY <1>2 DEF DefinedBefore
    <2> QED BY <1>2, <2>1 DEF DefinesAll
  <1>6. UsesDefined(q, D) /\ NeedsDefined(a, q, D)
    BY <1>2 DEF UsesDefined, NeedsDefined
  <1>7. ExecutorLast(q, FALSE)
    BY <1>2 DEF ExecutorLast
  <1>8. Follows(a, q, D, {s.on}, e, FALSE)
    BY <1>2, <1>3, <1>4, <1>5, <1>6, <1>7 DEF Follows
  <1>9. WellBuilt(a, t \o q, D \cup {s.on}, e \/ FALSE)
    BY <1>8, Extended
  <1> QED BY <1>1, <1>9

\* A construction and the registration of its cleanup.
LEMMA PairExtends ==
    ASSUME NEW a, NEW t, NEW D, WellBuilt(a, t, D, FALSE),
           NEW s \in StatementsOf(a), NEW r \in StatementsOf(a), s.op = "construct", r.op = "register", r.on = s.on,
           s.on # "executor", s.fails # "return", r.fails # "return", s.on \notin D,
           s.uses \subseteq D, r.uses = {}, Needed(Provider(a, s.on)) \subseteq D
    PROVE  WellBuilt(a, t \o <<s, r>>, D \cup {s.on}, FALSE)
  <1>1. PICK q : q = <<s, r>>
    OBVIOUS
  <1>2. q \in Seq(StatementsOf(a)) /\ Len(q) = 2 /\ q[1] = s /\ q[2] = r /\ \A k \in 1..Len(q) : k = 1 \/ k = 2
    BY <1>1
  <1>3. Defines(s) /\ ~Defines(r)
    BY DEF Defines
  <1>4. Paired(q) /\ RegistersOwn(q)
    BY <1>2 DEF Paired, RegistersOwn
  <1>5. DefinedOnce(q)
    BY <1>2, <1>3 DEF DefinedOnce
  <1>6. DefinesAll(q, {s.on})
    <2>1. DefinedBefore(q, s.on, Len(q) + 1)
      BY <1>2, <1>3 DEF DefinedBefore
    <2> QED BY <1>2, <1>3, <2>1 DEF DefinesAll
  <1>7. UsesDefined(q, D)
    BY <1>2 DEF UsesDefined
  <1>8. NeedsDefined(a, q, D)
    BY <1>2, <1>3 DEF NeedsDefined
  <1>9. ExecutorLast(q, FALSE)
    BY <1>2 DEF ExecutorLast
  <1>10. \A k \in 1..Len(q) : q[k].fails # "return"
    BY <1>2
  <1>11. Follows(a, q, D, {s.on}, FALSE, FALSE)
    BY <1>2, <1>4, <1>5, <1>6, <1>7, <1>8, <1>9, <1>10 DEF Follows
  <1>12. WellBuilt(a, t \o q, D \cup {s.on}, FALSE \/ FALSE)
    BY <1>11, Extended
  <1> QED BY <1>1, <1>12

\* What precedes the first provider: it may return without the coordinator.
EarlyStatements(a) ==
    {s \in StatementsOf(a) : s.op \notin {"construct", "register"} /\ ~Defines(s) /\ s.uses = {}}

\* Statements that read nothing are a well-built program that defines nothing.
LEMMA EarlyIsWellBuilt ==
    ASSUME NEW a, NEW t \in Seq(EarlyStatements(a)), Len(t) > 0
    PROVE  WellBuilt(a, t, {}, FALSE)
  <1>1. PICK n \in Nat : n = Len(t)
    OBVIOUS
  <1>2. \A k \in 1..n : t[k] \in EarlyStatements(a)
    BY <1>1
  <1>3. \A k \in 1..n : /\ t[k] \in StatementsOf(a) /\ t[k].op # "construct" /\ t[k].op # "register" /\ ~Defines(t[k])
                        /\ t[k].uses = {}
    BY <1>2 DEF EarlyStatements
  <1>4. t \in Seq(StatementsOf(a))
    <2>1. EarlyStatements(a) \subseteq StatementsOf(a)
      BY DEF EarlyStatements
    <2> QED BY <2>1, SeqMonotonic
  <1>5. Paired(t) /\ RegistersOwn(t) /\ DefinedOnce(t) /\ DefinesAll(t, {}) /\ ReturnsFirst(t)
    BY <1>1, <1>3 DEF Paired, RegistersOwn, DefinedOnce, DefinesAll, ReturnsFirst
  <1>6. UsesDefined(t, {}) /\ NeedsDefined(a, t, {}) /\ ExecutorLast(t, FALSE)
    BY <1>1, <1>3 DEF UsesDefined, NeedsDefined, ExecutorLast
  <1> QED BY <1>4, <1>5, <1>6 DEF WellBuilt

\* A part that is rendered under a condition.
LEMMA WhenInSeq == ASSUME NEW S, NEW c, NEW s \in Seq(S) PROVE When(c, s) \in Seq(S)
  BY DEF When

\* The statements of the preparation are such statements.
LEMMA EarlyStatement ==
    ASSUME NEW a, NEW op \in {"schema", "resolve", "timeout", "logging", "observation", "authorizer", "observers"},
           NEW fails \in {"abort", "return", "never"}
    PROVE  Statement(op, None, {}, fails) \in EarlyStatements(a)
  <1>1. PICK s : s = Statement(op, None, {}, fails)
    OBVIOUS
  <1>2. s \in StatementsOf(a) /\ s.op = op /\ s.uses = {}
    <2>1. op \in Operations
      BY DEF Operations
    <2>2. {} \in SUBSET Ids(a) /\ None \in Ids(a) \cup {None, "executor"}
      OBVIOUS
    <2> QED BY <1>1, <2>1, <2>2 DEF Statement, StatementsOf
  <1> QED BY <1>1, <1>2 DEF EarlyStatements, Defines

\* What precedes the first provider (Preparation) is well built.
LEMMA PreparationIsWellBuilt == ASSUME NEW a PROVE WellBuilt(a, Preparation(a), {}, FALSE)
  <1> DEFINE E == Seq(EarlyStatements(a))
  <1>1. ConfigurationSetup \in E
    <2>1. /\ Statement("schema", None, {}, "return") \in EarlyStatements(a)
          /\ Statement("resolve", None, {}, "return") \in EarlyStatements(a)
          /\ Statement("timeout", None, {}, "abort") \in EarlyStatements(a)
      BY EarlyStatement
    <2> QED BY <2>1 DEF ConfigurationSetup
  <1>2. LoggingSetup(a) \in E
    <2>1. <<Statement("logging", None, {}, "abort")>> \in E
      BY EarlyStatement
    <2> QED BY <2>1, WhenInSeq DEF LoggingSetup
  <1>3. BootstrapObservers(a) \in E
    <2>1. <<Statement("observation", None, {}, "abort")>> \in E
      BY EarlyStatement
    <2> QED BY <2>1, WhenInSeq DEF BootstrapObservers
  <1>4. AuthorizationSetup(a) \in E
    <2>1. <<Statement("authorizer", None, {}, "abort")>> \in E
      BY EarlyStatement
    <2> QED BY <2>1, WhenInSeq DEF AuthorizationSetup
  <1>5. <<Statement("observers", None, {}, "return")>> \in E
    BY EarlyStatement
  <1>6. Preparation(a) \in E /\ Len(Preparation(a)) > 0
    <2>1. PICK x : x = ConfigurationSetup \o LoggingSetup(a) \o BootstrapObservers(a) \o AuthorizationSetup(a)
      OBVIOUS
    <2>2. x \in E
      BY <1>1, <1>2, <1>3, <1>4, <2>1
    <2>3. PICK y : y = <<Statement("observers", None, {}, "return")>>
      OBVIOUS
    <2>4. y \in E /\ Len(y) = 1
      BY <1>5, <2>3
    <2>5. PICK S : S = EarlyStatements(a)
      OBVIOUS
    <2>6. x \in Seq(S) /\ y \in Seq(S)
      BY <2>2, <2>4, <2>5
    <2>7. x \o y \in Seq(S) /\ Len(x \o y) = Len(x) + Len(y) /\ Len(x) \in Nat
      BY <2>6, ConcatProperties, LenProperties
    <2> QED BY <2>1, <2>3, <2>4, <2>5, <2>7 DEF Preparation
  <1> QED BY <1>6, EarlyIsWellBuilt

\* The statements after the providers construct, register and define nothing.
LEMMA PlainStatement ==
    ASSUME NEW a, NEW D, D = Ids(a),
           NEW op \in {"selected", "concurrency", "executor", "closures", "scheduler", "hooks", "cache", "guard", "observe",
                       "intercept", "route", "management", "scope"},
           NEW on \in Ids(a) \cup {None, "executor"}, NEW uses \in SUBSET Ids(a), NEW fails \in {"abort", "never"}
    PROVE  Statement(op, on, uses, fails) \in PlainStatements(a, D)
  <1>1. PICK s : s = Statement(op, on, uses, fails)
    OBVIOUS
  <1>2. s \in StatementsOf(a) /\ s.op = op /\ s.uses = uses /\ s.fails = fails
    <2>1. op \in Operations
      BY DEF Operations
    <2> QED BY <1>1, <2>1 DEF Statement, StatementsOf
  <1> QED BY <1>1, <1>2 DEF PlainStatements, Defines

-----------------------------------------------------------------------------
(* One provider. *)

\* The position of a provider decides what is there for its construction.
Earlier(a, i) == {a.providers[j].id : j \in 1..(i - 1)}

\* The identity of a provider names it alone.
LEMMA ProviderOf ==
    ASSUME NEW a, Ordered(a), NEW i \in DOMAIN a.providers
    PROVE  Provider(a, a.providers[i].id) = a.providers[i]
  BY DEF Ordered, Provider

\* The decorator of a service reads the service and its manager.
LEMMA DecoratorExtends ==
    ASSUME NEW a, NEW t, NEW p, NEW D, D \subseteq Ids(a), WellBuilt(a, t, D, FALSE), p.id \in D, Managers(a, p.id) \subseteq D
    PROVE  WellBuilt(a, t \o When(IsService(a, p.id), PolicyConstruction(a, p)), D, FALSE)
  <1>1. PICK s : s = Statement("decorate", p.id, {p.id} \cup Managers(a, p.id), "abort")
    OBVIOUS
  <1>2. s \in StatementsOf(a) /\ s.op = "decorate" /\ s.fails = "abort" /\ s.uses = {p.id} \cup Managers(a, p.id)
    BY <1>1 DEF Statement, StatementsOf, Operations
  <1>3. s \in PlainStatements(a, D)
    BY <1>2 DEF PlainStatements, Defines
  <1>4. <<s>> \in Seq(PlainStatements(a, D))
    BY <1>3
  <1>5. When(IsService(a, p.id), PolicyConstruction(a, p)) \in Seq(PlainStatements(a, D))
    BY <1>1, <1>4, WhenInSeq DEF PolicyConstruction
  <1> QED BY <1>5, PlainExtends

\* A statement of one of the forms that define a variable without constructing a bean.
LEMMA DefiningStatement ==
    ASSUME NEW a, NEW t, NEW p, NEW D, D \subseteq Ids(a), WellBuilt(a, t, D, FALSE),
           p.id \in Ids(a), p.id \notin D, Provider(a, p.id) = p, Needed(p) \subseteq D,
           NEW op \in {"factory", "bind", "topic", "logger"}, NEW uses \in SUBSET D, NEW fails \in {"abort", "never"}
    PROVE  WellBuilt(a, t \o <<Statement(op, p.id, uses, fails)>>, D \cup {p.id}, FALSE)
  <1>1. PICK s : s = Statement(op, p.id, uses, fails)
    OBVIOUS
  <1>2. s \in StatementsOf(a) /\ s.op = op /\ s.on = p.id /\ s.fails = fails /\ s.uses = uses
    <2>1. op \in Operations /\ fails \in {"abort", "return", "never"} /\ uses \in SUBSET Ids(a) /\ p.id \in Ids(a) \cup {None, "executor"}
      BY DEF Operations
    <2> QED BY <1>1, <2>1 DEF Statement, StatementsOf
  <1>3. Defines(s) /\ s.op # "construct" /\ s.op # "register" /\ s.fails # "return"
    BY <1>2 DEF Defines
  <1>4. Needed(Provider(a, s.on)) \subseteq D
    BY <1>2
  <1>5. WellBuilt(a, t \o <<s>>, D \cup {s.on}, FALSE)
    BY <1>2, <1>3, <1>4, OneExtends
  <1> QED BY <1>1, <1>2, <1>5

\* A bean that user code makes: its construction and its registration.
LEMMA AdapterExtends ==
    ASSUME NEW a, NEW t, NEW p, NEW D, D \subseteq Ids(a), WellBuilt(a, t, D, FALSE),
           p.id \in Ids(a), p.id \notin D, p.id # "executor", Provider(a, p.id) = p, Needed(p) \subseteq D
    PROVE  WellBuilt(a, t \o AdapterCall(p), D \cup {p.id}, FALSE)
  <1>1. PICK s : s = Statement("construct", p.id, Needed(p), "abort")
    OBVIOUS
  <1>2. PICK r : r = Statement("register", p.id, {}, "abort")
    OBVIOUS
  <1>3. s \in StatementsOf(a) /\ s.op = "construct" /\ s.on = p.id /\ s.fails = "abort" /\ s.uses = Needed(p)
    BY <1>1 DEF Statement, StatementsOf, Operations
  <1>4. r \in StatementsOf(a) /\ r.op = "register" /\ r.on = p.id /\ r.fails = "abort" /\ r.uses = {}
    BY <1>2 DEF Statement, StatementsOf, Operations
  <1>5. Needed(Provider(a, s.on)) \subseteq D
    BY <1>3
  <1>6. WellBuilt(a, t \o <<s, r>>, D \cup {s.on}, FALSE)
    BY <1>3, <1>4, <1>5, PairExtends
  <1> QED BY <1>1, <1>2, <1>3, <1>6 DEF AdapterCall

\* The statements of one provider, of any source and scope, follow the ones of what it needs.
LEMMA ConstructionExtends ==
    ASSUME NEW a, NEW t, NEW p, NEW D, D \subseteq Ids(a), WellBuilt(a, t, D, FALSE),
           p.id \in Ids(a), p.id \notin D, p.id # "executor", Provider(a, p.id) = p, p.source \in Sources,
           Needed(p) \cup Listeners(a, p.id) \cup Managers(a, p.id) \subseteq D
    PROVE  /\ WellBuilt(a, t \o Construction(a, p), D \cup {p.id}, FALSE)
           /\ Construction(a, p) \in Seq(StatementsOf(a))
  <1>0. t \in Seq(StatementsOf(a))
    BY DEF WellBuilt
  <1> DEFINE dec == When(IsService(a, p.id), PolicyConstruction(a, p))
  <1>1. CASE p.scope # "singleton"
    <2>1. WellBuilt(a, t \o ScopedAdapter(p), D \cup {p.id}, FALSE)
      BY DefiningStatement DEF ScopedAdapter
    <2>2. ScopedAdapter(p) \in Seq(StatementsOf(a))
      BY DEF ScopedAdapter, Statement, StatementsOf, Operations
    <2>3. Construction(a, p) = ScopedAdapter(p)
      BY <1>1 DEF Construction
    <2> QED BY <2>1, <2>2, <2>3
  <1>2. CASE p.scope = "singleton"
    <2>1. ASSUME NEW main, Construction(a, p) = main \o dec, main \in Seq(StatementsOf(a)),
                 WellBuilt(a, t \o main, D \cup {p.id}, FALSE)
          PROVE  /\ WellBuilt(a, t \o Construction(a, p), D \cup {p.id}, FALSE)
                 /\ Construction(a, p) \in Seq(StatementsOf(a))
      <3>1. dec \in Seq(StatementsOf(a))
        <4>1. Statement("decorate", p.id, {p.id} \cup Managers(a, p.id), "abort") \in StatementsOf(a)
          BY DEF Statement, StatementsOf, Operations
        <4>2. PolicyConstruction(a, p) \in Seq(StatementsOf(a))
          BY <4>1 DEF PolicyConstruction
        <4> QED BY <4>2, WhenInSeq
      <3>2. WellBuilt(a, (t \o main) \o dec, D \cup {p.id}, FALSE)
        <4>1. D \cup {p.id} \subseteq Ids(a) /\ p.id \in D \cup {p.id} /\ Managers(a, p.id) \subseteq D \cup {p.id}
          OBVIOUS
        <4> QED BY <2>1, <4>1, DecoratorExtends
      <3> HIDE DEF dec
      <3>3. (t \o main) \o dec = t \o (main \o dec)
        BY <1>0, <2>1, <3>1, ConcatAssociative
      <3>4. main \o dec \in Seq(StatementsOf(a))
        BY <2>1, <3>1
      <3> QED BY <2>1, <3>2, <3>3, <3>4
    <2>2. CASE Constructed(p)
      <3>1. Construction(a, p) = AdapterCall(p) \o dec
        BY <1>2, <2>2 DEF Construction, Constructed
      <3>2. WellBuilt(a, t \o AdapterCall(p), D \cup {p.id}, FALSE)
        BY AdapterExtends
      <3>3. AdapterCall(p) \in Seq(StatementsOf(a))
        <4>1. Statement("construct", p.id, Needed(p), "abort") \in StatementsOf(a) /\ Statement("register", p.id, {}, "abort") \in StatementsOf(a)
          BY DEF Statement, StatementsOf, Operations
        <4> QED BY <4>1 DEF AdapterCall
      <3> QED BY <2>1, <3>1, <3>2, <3>3
    <2>3. CASE p.source = "configuration"
      <3>1. Construction(a, p) = ConfigurationCall(p) \o dec
        BY <1>2, <2>3 DEF Construction, Constructed
      <3>2. WellBuilt(a, t \o ConfigurationCall(p), D \cup {p.id}, FALSE)
        BY DefiningStatement DEF ConfigurationCall
      <3>3. ConfigurationCall(p) \in Seq(StatementsOf(a))
        BY DEF ConfigurationCall, Statement, StatementsOf, Operations
      <3> QED BY <2>1, <3>1, <3>2, <3>3
    <2>4. CASE p.source = "event"
      <3>1. Construction(a, p) = EventTopic(a, p) \o dec
        BY <1>2, <2>4 DEF Construction, Constructed
      <3>2. WellBuilt(a, t \o EventTopic(a, p), D \cup {p.id}, FALSE)
        BY DefiningStatement DEF EventTopic
      <3>3. EventTopic(a, p) \in Seq(StatementsOf(a))
        BY DEF EventTopic, Statement, StatementsOf, Operations
      <3> QED BY <2>1, <3>1, <3>2, <3>3
    <2>5. CASE p.source = "logging"
      <3>1. Construction(a, p) = <<Statement("logger", p.id, {}, "never")>> \o dec
        BY <1>2, <2>5 DEF Construction, Constructed
      <3>2. WellBuilt(a, t \o <<Statement("logger", p.id, {}, "never")>>, D \cup {p.id}, FALSE)
        BY DefiningStatement
      <3>3. <<Statement("logger", p.id, {}, "never")>> \in Seq(StatementsOf(a))
        BY DEF Statement, StatementsOf, Operations
      <3> QED BY <2>1, <3>1, <3>2, <3>3
    <2> QED BY <2>2, <2>3, <2>4, <2>5 DEF Sources, Constructed
  <1> QED BY <1>1, <1>2

-----------------------------------------------------------------------------
(* All providers, and what follows them. *)

\* The providers of a compiled application, by their places.
LEMMA ProviderPlaces ==
    ASSUME NEW a, Listed(a), Ordered(a), NEW n \in Nat, n = Len(a.providers), NEW i \in 1..n
    PROVE  /\ a.providers[i].id \in Ids(a) /\ a.providers[i].id \notin Earlier(a, i) /\ a.providers[i].id # "executor"
           /\ Earlier(a, i) \subseteq Ids(a) /\ Earlier(a, i + 1) = Earlier(a, i) \cup {a.providers[i].id}
           /\ Provider(a, a.providers[i].id) = a.providers[i] /\ a.providers[i].source \in Sources
           /\ Needed(a.providers[i]) \cup Listeners(a, a.providers[i].id) \cup Managers(a, a.providers[i].id) \subseteq Earlier(a, i)
  <1>1. a.providers \in Seq(Range(a.providers))
    BY DEF Listed
  <1>2. DOMAIN a.providers = 1..n
    BY <1>1
  <1>3. \A j \in 1..n : a.providers[j].id \in Ids(a)
    BY <1>2 DEF Ids, Range
  <1>4. a.providers[i].id \notin Earlier(a, i)
    <2> SUFFICES ASSUME NEW j \in 1..(i - 1), a.providers[j].id = a.providers[i].id PROVE FALSE
      BY DEF Earlier
    <2>1. j \in 1..n /\ j # i
      OBVIOUS
    <2> QED BY <1>2, <2>1 DEF Ordered
  <1>5. Earlier(a, i) \subseteq Ids(a)
    BY <1>3 DEF Earlier
  <1>6. Earlier(a, i + 1) = Earlier(a, i) \cup {a.providers[i].id}
    <2>1. (i + 1) - 1 = i /\ \A j \in 1..i : j = i \/ j \in 1..(i - 1)
      OBVIOUS
    <2>2. \A j \in 1..(i - 1) : j \in 1..i
      OBVIOUS
    <2>3. i \in 1..i
      OBVIOUS
    <2> QED BY <2>1, <2>2, <2>3 DEF Earlier
  <1>7. Provider(a, a.providers[i].id) = a.providers[i]
    BY <1>2, ProviderOf
  <1>8. /\ a.providers[i].source \in Sources /\ a.providers[i].id # "executor"
        /\ Needed(a.providers[i]) \cup Listeners(a, a.providers[i].id) \cup Managers(a, a.providers[i].id) \subseteq Earlier(a, i)
    BY <1>2 DEF Ordered, Earlier
  <1> QED BY <1>3, <1>4, <1>5, <1>6, <1>7, <1>8

\* The program up to provider m.
BuiltTo(a, P, f, m) == f[m] \in Seq(StatementsOf(a)) /\ WellBuilt(a, P \o f[m], Earlier(a, m + 1), FALSE)

\* The statements of all providers, in their order, are well built: induction over the providers.
LEMMA ProvidersAreWellBuilt ==
    ASSUME NEW a, Listed(a), Ordered(a), NEW flat,
           flat = FlattenSeq([i \in DOMAIN a.providers |-> Construction(a, a.providers[i])])
    PROVE  WellBuilt(a, Preparation(a) \o flat, Ids(a), FALSE)
  <1>0. a.providers \in Seq(Range(a.providers))
    BY DEF Listed
  <1>1. PICK n \in Nat : n = Len(a.providers)
    BY <1>0
  <1>2. DOMAIN a.providers = 1..n
    BY <1>0, <1>1
  <1>3. PICK P : P = Preparation(a)
    OBVIOUS
  <1>4. WellBuilt(a, P, {}, FALSE) /\ P \in Seq(StatementsOf(a))
    BY <1>3, PreparationIsWellBuilt DEF WellBuilt
  <1>5. Earlier(a, n + 1) = Ids(a) /\ Earlier(a, 1) = {}
    <2>1. (n + 1) - 1 = n /\ 1 - 1 = 0 /\ 1..0 = {}
      OBVIOUS
    <2>2. Earlier(a, n + 1) = {a.providers[j].id : j \in 1..n}
      BY <2>1 DEF Earlier
    <2>3. Ids(a) = {a.providers[j].id : j \in 1..n}
      BY <1>2 DEF Ids, Range
    <2>4. Earlier(a, 1) = {}
      BY <2>1 DEF Earlier
    <2> QED BY <2>2, <2>3, <2>4
  <1>6. PICK s : s = [i \in DOMAIN a.providers |-> Construction(a, a.providers[i])]
    OBVIOUS
  <1>7. CASE n = 0
    <2>1. s = <<>>
      BY <1>2, <1>6, <1>7
    <2>2. flat = <<>>
      BY <1>6, <2>1 DEF FlattenSeq
    <2>3. P \o <<>> = P
      BY <1>4
    <2>4. Ids(a) = {}
      <3>1. n + 1 = 1
        BY <1>7
      <3> QED BY <1>5, <3>1
    <2> QED BY <1>3, <1>4, <2>2, <2>3, <2>4
  <1>8. CASE n # 0
    <2>1. Len(s) = n /\ \A i \in 1..n : s[i] = Construction(a, a.providers[i])
      BY <1>1, <1>2, <1>6
    <2>2. PICK f : IsFlattening(f, s, n) /\ flat = f[n]
      BY <1>6, <1>8, <2>1, FlattenIsLast
    <2>3. \A m \in 1..n : f[m] = IF m = 1 THEN s[m] ELSE f[m - 1] \o s[m]
      BY <2>2 DEF IsFlattening
    <2> DEFINE T == {m \in Nat : m \in 1..n => BuiltTo(a, P, f, m)}
    <2>4. ASSUME NEW m \in T PROVE m + 1 \in T
      <3> SUFFICES ASSUME m + 1 \in 1..n
                   PROVE  BuiltTo(a, P, f, m + 1)
        OBVIOUS
      <3>1. PICK i \in 1..n : i = m + 1
        OBVIOUS
      <3>2. PICK p : p = a.providers[i]
        OBVIOUS
      <3>3. /\ p.id \in Ids(a) /\ p.id \notin Earlier(a, i) /\ p.id # "executor"
            /\ Earlier(a, i) \subseteq Ids(a) /\ Earlier(a, i + 1) = Earlier(a, i) \cup {p.id}
            /\ Provider(a, p.id) = p /\ p.source \in Sources
            /\ Needed(p) \cup Listeners(a, p.id) \cup Managers(a, p.id) \subseteq Earlier(a, i)
        BY <1>1, <3>2, ProviderPlaces
      <3>4. s[i] = Construction(a, p) /\ f[i] = IF i = 1 THEN s[i] ELSE f[i - 1] \o s[i]
        BY <2>1, <2>3, <3>2
      <3>5. CASE m = 0
        <4>1. i = 1
          BY <3>1, <3>5
        <4>2. WellBuilt(a, P, Earlier(a, i), FALSE)
          BY <1>4, <1>5, <4>1
        <4>3. WellBuilt(a, P \o Construction(a, p), Earlier(a, i) \cup {p.id}, FALSE) /\ Construction(a, p) \in Seq(StatementsOf(a))
          BY <3>3, <4>2, ConstructionExtends
        <4>4. f[i] = Construction(a, p)
          BY <3>4, <4>1
        <4> QED BY <3>1, <3>3, <4>3, <4>4 DEF BuiltTo
      <3>6. CASE m # 0
        <4>1. m \in 1..n /\ i - 1 = m /\ i # 1
          BY <3>1, <3>6
        <4>2. f[m] \in Seq(StatementsOf(a)) /\ WellBuilt(a, P \o f[m], Earlier(a, m + 1), FALSE)
          BY <2>4, <4>1 DEF BuiltTo
        <4>3. WellBuilt(a, P \o f[m], Earlier(a, i), FALSE)
          BY <3>1, <4>2
        <4>4. /\ WellBuilt(a, (P \o f[m]) \o Construction(a, p), Earlier(a, i) \cup {p.id}, FALSE)
              /\ Construction(a, p) \in Seq(StatementsOf(a))
          BY <3>3, <4>3, ConstructionExtends
        <4>5. f[i] = f[m] \o Construction(a, p)
          BY <3>4, <4>1
        <4>6. (P \o f[m]) \o Construction(a, p) = P \o f[i]
          <5>1. (P \o f[m]) \o Construction(a, p) = P \o (f[m] \o Construction(a, p))
            <6>1. PICK g : g = f[m]
              OBVIOUS
            <6>2. PICK C : C = Construction(a, p)
              OBVIOUS
            <6>3. P \in Seq(StatementsOf(a)) /\ g \in Seq(StatementsOf(a)) /\ C \in Seq(StatementsOf(a))
              BY <1>4, <4>2, <4>4, <6>1, <6>2
            <6>4. (P \o g) \o C = P \o (g \o C)
              BY <6>3, ConcatAssociative
            <6> QED BY <6>1, <6>2, <6>4
          <5> QED BY <4>5, <5>1
        <4>7. f[i] \in Seq(StatementsOf(a))
          BY <4>2, <4>4, <4>5
        <4> QED BY <3>1, <3>3, <4>4, <4>6, <4>7 DEF BuiltTo
      <3> QED BY <3>5, <3>6
    <2>5. T = Nat
      <3>1. 0 \in T
        OBVIOUS
      <3> HIDE DEF T
      <3>2. T \in SUBSET Nat BY DEF T
      <3> QED BY <2>4, <3>1, <3>2, SetInduction
    <2>6. WellBuilt(a, P \o f[n], Earlier(a, n + 1), FALSE)
      <3>1. n \in 1..n
        BY <1>8
      <3>2. n \in T
        <4> HIDE DEF T
        <4> QED BY <2>5
      <3> QED BY <3>1, <3>2 DEF BuiltTo
    <2> QED BY <1>3, <1>5, <2>2, <2>6
  <1> QED BY <1>7, <1>8

\* A route: nothing that it sets up is constructed.
LEMMA RouteIsPlain ==
    ASSUME NEW a, NEW r, r.provider \in Ids(a), r.manager \in Ids(a) \cup {None}
    PROVE  RouteSetup(r) \in Seq(PlainStatements(a, Ids(a)))
  <1> DEFINE S == PlainStatements(a, Ids(a))
  <1>0. r.provider \in Ids(a) \cup {None, "executor"} /\ {r.provider, r.manager} \ {None} \in SUBSET Ids(a) /\ {} \in SUBSET Ids(a)
    OBVIOUS
  <1>1. /\ Statement("cache", r.provider, {}, "abort") \in S /\ Statement("guard", r.provider, {}, "abort") \in S
        /\ Statement("observe", r.provider, {}, "abort") \in S /\ Statement("intercept", r.provider, {}, "abort") \in S
        /\ Statement("route", r.provider, {r.provider, r.manager} \ {None}, "abort") \in S
    BY <1>0, PlainStatement
  <1> HIDE DEF S
  <1>2. CacheSetup(r) \in Seq(S)
    <2>1. <<Statement("cache", r.provider, {}, "abort")>> \in Seq(S)
      BY <1>1
    <2> QED BY <2>1, WhenInSeq DEF CacheSetup
  <1>3. RouteAuthorization(r) \in Seq(S)
    <2>1. <<Statement("guard", r.provider, {}, "abort")>> \in Seq(S)
      BY <1>1
    <2> QED BY <2>1, WhenInSeq DEF RouteAuthorization
  <1>4. RouteObservation(r) \in Seq(S)
    BY <1>1 DEF RouteObservation
  <1>5. RouteInterceptors(r) \in Seq(S)
    <2>1. <<Statement("intercept", r.provider, {}, "abort")>> \in Seq(S)
      BY <1>1
    <2> QED BY <2>1, WhenInSeq DEF RouteInterceptors
  <1>6. <<Statement("route", r.provider, {r.provider, r.manager} \ {None}, "abort")>> \in Seq(S)
    BY <1>1
  <1>7. RouteSetup(r) \in Seq(S)
    BY <1>2, <1>3, <1>4, <1>5, <1>6 DEF RouteSetup
  <1> QED BY <1>7 DEF S

\* The logger, the scheduler, the hooks and the routes construct and register nothing.
LEMMA RestIsPlain ==
    ASSUME NEW a, Listed(a)
    PROVE  /\ LoggerSelection(a) \in Seq(PlainStatements(a, Ids(a))) /\ ScheduleSetup(a) \in Seq(PlainStatements(a, Ids(a)))
           /\ HookSetup(a) \in Seq(PlainStatements(a, Ids(a))) /\ HttpSetup(a) \in Seq(PlainStatements(a, Ids(a)))
  <1> DEFINE S == PlainStatements(a, Ids(a))
  <1>0. {} \in SUBSET Ids(a) /\ None \in Ids(a) \cup {None, "executor"}
    OBVIOUS
  <1>1. /\ {a.jobs[i].provider : i \in DOMAIN a.jobs} \in SUBSET Ids(a)
        /\ {a.components[i].provider : i \in DOMAIN a.components} \in SUBSET Ids(a)
        /\ \A i \in DOMAIN a.routes : a.routes[i].provider \in Ids(a) /\ a.routes[i].manager \in Ids(a) \cup {None}
        /\ a.routes \in Seq(Range(a.routes))
    BY DEF Listed
  <1>2. /\ Statement("selected", None, {}, "abort") \in S
        /\ Statement("scheduler", None, {a.jobs[i].provider : i \in DOMAIN a.jobs}, "abort") \in S
        /\ Statement("hooks", None, {a.components[i].provider : i \in DOMAIN a.components}, "never") \in S
        /\ Statement("management", None, {}, "abort") \in S /\ Statement("scope", None, {}, "abort") \in S
    BY <1>0, <1>1, PlainStatement
  <1>3. \A i \in DOMAIN a.routes : RouteSetup(a.routes[i]) \in Seq(S)
    BY <1>1, RouteIsPlain
  <1> HIDE DEF S
  <1>10. /\ <<Statement("selected", None, {}, "abort")>> \in Seq(S)
         /\ <<Statement("scheduler", None, {a.jobs[i].provider : i \in DOMAIN a.jobs}, "abort")>> \in Seq(S)
         /\ <<Statement("hooks", None, {a.components[i].provider : i \in DOMAIN a.components}, "never")>> \in Seq(S)
         /\ <<Statement("management", None, {}, "abort")>> \in Seq(S) /\ <<Statement("scope", None, {}, "abort")>> \in Seq(S)
    BY <1>2
  <1>4. LoggerSelection(a) \in Seq(S) /\ ScheduleSetup(a) \in Seq(S) /\ HookSetup(a) \in Seq(S)
    <2>1. LoggerSelection(a) \in Seq(S)
      BY <1>10, WhenInSeq DEF LoggerSelection
    <2>2. ScheduleSetup(a) \in Seq(S)
      BY <1>10, WhenInSeq DEF ScheduleSetup
    <2>3. HookSetup(a) \in Seq(S)
      BY <1>10, WhenInSeq DEF HookSetup
    <2> QED BY <2>1, <2>2, <2>3
  <1>5. ManagementSetup(a) \in Seq(S) /\ RequestScopeSetup(a) \in Seq(S)
    <2>1. ManagementSetup(a) \in Seq(S)
      BY <1>10, WhenInSeq DEF ManagementSetup
    <2>2. RequestScopeSetup(a) \in Seq(S)
      BY <1>10, WhenInSeq DEF RequestScopeSetup
    <2> QED BY <2>1, <2>2
  <1>6. FlatMap(a.routes, RouteSetup) \in Seq(S)
    <2>1. PICK n \in Nat : n = Len(a.routes)
      BY <1>1
    <2>2. DOMAIN a.routes = 1..n
      BY <1>1, <2>1
    <2>3. [i \in DOMAIN a.routes |-> RouteSetup(a.routes[i])] \in Seq(Seq(S))
      BY <1>3, <2>2, IsASeq
    <2> QED BY <2>3, FlattenIsSeq DEF FlatMap
  <1>7. HttpSetup(a) \in Seq(S)
    <2>1. FlatMap(a.routes, RouteSetup) \o ManagementSetup(a) \o RequestScopeSetup(a) \in Seq(S)
      BY <1>5, <1>6
    <2> QED BY <2>1, WhenInSeq DEF HttpSetup
  <1> QED BY <1>4, <1>7 DEF S

\* The executor is registered after every provider.
LEMMA AsyncExtends ==
    ASSUME NEW a, Listed(a), NEW t, WellBuilt(a, t, Ids(a), FALSE)
    PROVE  WellBuilt(a, t \o AsyncSetup(a), Ids(a), a.tasks # <<>>)
  <1> DEFINE S == PlainStatements(a, Ids(a))
  <1>0. {} \in SUBSET Ids(a) /\ None \in Ids(a) \cup {None, "executor"} /\ {a.tasks[i].provider : i \in DOMAIN a.tasks} \in SUBSET Ids(a)
    BY DEF Listed
  <1>1. PICK s1 : s1 = Statement("concurrency", None, {}, "abort")
    OBVIOUS
  <1>2. PICK s2 : s2 = Statement("executor", None, {}, "abort")
    OBVIOUS
  <1>3. PICK s3 : s3 = Statement("register", "executor", {}, "abort")
    OBVIOUS
  <1>4. PICK s4 : s4 = Statement("closures", None, {a.tasks[i].provider : i \in DOMAIN a.tasks}, "never")
    OBVIOUS
  <1>5. s1 \in S /\ s2 \in S /\ s4 \in S
    BY <1>0, <1>1, <1>2, <1>4, PlainStatement
  <1>6. s3 \in StatementsOf(a) /\ s3.op = "register" /\ s3.on = "executor" /\ s3.fails = "abort" /\ s3.uses = {}
    BY <1>3 DEF Statement, StatementsOf, Operations
  <1>7. t \in Seq(StatementsOf(a)) /\ s1 \in StatementsOf(a) /\ s2 \in StatementsOf(a) /\ s4 \in StatementsOf(a)
    BY <1>5 DEF WellBuilt, PlainStatements
  <1>8. CASE a.tasks = <<>>
    <2>1. AsyncSetup(a) = <<>>
      BY <1>8 DEF AsyncSetup, Features, When
    <2>2. t \o <<>> = t
      BY <1>7
    <2> QED BY <1>8, <2>1, <2>2
  <1>9. CASE a.tasks # <<>>
    <2>1. AsyncSetup(a) = <<s1, s2, s3, s4>>
      BY <1>1, <1>2, <1>3, <1>4, <1>9 DEF AsyncSetup, Features, When
    <2>2. PICK q : q = <<s1, s2, s3, s4>>
      OBVIOUS
    <2>3. q \in Seq(StatementsOf(a)) /\ Len(q) = 4 /\ q[1] = s1 /\ q[2] = s2 /\ q[3] = s3 /\ q[4] = s4
      BY <1>6, <1>7, <2>2
    <2>4. \A k \in 1..Len(q) : k = 1 \/ k = 2 \/ k = 3 \/ k = 4
      BY <2>3
    <2>5. \A k \in 1..Len(q) : /\ q[k].op # "construct" /\ ~Defines(q[k]) /\ q[k].fails # "return" /\ q[k].uses \subseteq Ids(a)
                               /\ q[k].op = "register" => k = 3
      BY <1>5, <1>6, <2>3, <2>4 DEF PlainStatements, Defines
    <2>6. Paired(q) /\ RegistersOwn(q) /\ DefinedOnce(q) /\ DefinesAll(q, {})
      BY <1>6, <2>3, <2>5 DEF Paired, RegistersOwn, DefinedOnce, DefinesAll
    <2>7. UsesDefined(q, Ids(a)) /\ NeedsDefined(a, q, Ids(a))
      BY <2>5 DEF UsesDefined, NeedsDefined
    <2>8. ExecutorLast(q, TRUE)
      <3>1. 3 \in 1..Len(q) /\ q[3].op = "register" /\ q[3].on = "executor"
        BY <1>6, <2>3
      <3>2. ASSUME NEW j \in 1..Len(q), NEW k \in 1..Len(q), q[j].op = "register", q[k].op = "register" PROVE j <= k
        <4>1. j = 3 /\ k = 3
          BY <2>5, <3>2
        <4> QED BY <4>1
      <3> QED BY <3>1, <3>2 DEF ExecutorLast
    <2>9. Follows(a, q, Ids(a), {}, FALSE, TRUE)
      BY <2>3, <2>5, <2>6, <2>7, <2>8 DEF Follows
    <2>10. WellBuilt(a, t \o q, Ids(a) \cup {}, FALSE \/ TRUE)
      BY <2>9, Extended
    <2>11. Ids(a) \cup {} = Ids(a)
      OBVIOUS
    <2> QED BY <1>9, <2>1, <2>2, <2>10, <2>11
  <1> QED BY <1>8, <1>9

\* NewApplicationWithOptions (renderAssemblyTargetSource), for every application that the compiler hands over: what is
\* constructed is registered at once, nothing else but the executor is, and the executor last; every variable is defined
\* once, before it is read and before the construction of what needs it; and no error is returned past the coordinator
\* once a bean has been constructed.
THEOREM AssemblyIsWellBuilt ==
    ASSUME NEW a, Listed(a), Ordered(a)
    PROVE  WellBuilt(a, Assembly(a), Ids(a), a.tasks # <<>>)
  <1>1. PICK flat : flat = FlattenSeq([i \in DOMAIN a.providers |-> Construction(a, a.providers[i])])
    OBVIOUS
  <1>2. WellBuilt(a, Preparation(a) \o flat, Ids(a), FALSE)
    BY <1>1, ProvidersAreWellBuilt
  <1>3. WellBuilt(a, Preparation(a) \o flat \o LoggerSelection(a), Ids(a), FALSE)
    BY <1>2, RestIsPlain, PlainExtends
  <1>4. WellBuilt(a, Preparation(a) \o flat \o LoggerSelection(a) \o AsyncSetup(a), Ids(a), a.tasks # <<>>)
    BY <1>3, AsyncExtends
  <1>5. WellBuilt(a, Preparation(a) \o flat \o LoggerSelection(a) \o AsyncSetup(a) \o ScheduleSetup(a), Ids(a), a.tasks # <<>>)
    BY <1>4, RestIsPlain, PlainExtends
  <1>6. WellBuilt(a, Preparation(a) \o flat \o LoggerSelection(a) \o AsyncSetup(a) \o ScheduleSetup(a) \o HookSetup(a),
                  Ids(a), a.tasks # <<>>)
    BY <1>5, RestIsPlain, PlainExtends
  <1>7. WellBuilt(a, Preparation(a) \o flat \o LoggerSelection(a) \o AsyncSetup(a) \o ScheduleSetup(a) \o HookSetup(a)
                       \o HttpSetup(a), Ids(a), a.tasks # <<>>)
    BY <1>6, RestIsPlain, PlainExtends
  <1> QED BY <1>1, <1>7, Zenon DEF Assembly, FlatMap

-----------------------------------------------------------------------------
(* The layers of a call stand in one order. *)

LayerNames == {"observation", "authorization", "negotiation", "binding", "form", "validation", "interceptors",
               "cache", "retry", "transaction", "target"}

\* The place of a layer: the outermost has the least.
Depth(layer) ==
    CASE layer = "observation"   -> 1
      [] layer = "authorization" -> 2
      [] layer = "negotiation"   -> 3
      [] layer = "binding"       -> 4
      [] layer = "form"          -> 4
      [] layer = "validation"    -> 5
      [] layer = "interceptors"  -> 6
      [] layer = "cache"         -> 7
      [] layer = "retry"         -> 8
      [] layer = "transaction"   -> 9
      [] OTHER                   -> 10

\* The layers of s lie between two depths, each one deeper than the one before.
Nested(s, low, high) ==
    /\ s \in Seq(LayerNames)
    /\ \A i \in 1..Len(s) : Depth(s[i]) >= low /\ Depth(s[i]) <= high
    /\ \A i, j \in 1..Len(s) : i < j => Depth(s[i]) < Depth(s[j])

\* Depths are numbers.
LEMMA DepthIsNumber == \A l \in LayerNames : Depth(l) \in 1..10
  BY DEF Depth, LayerNames

\* Layers inside of others.
LEMMA NestedConcat ==
    ASSUME NEW s, NEW t, NEW a \in Nat, NEW b \in Nat, NEW c \in Nat, NEW d \in Nat, a <= c, b < c, b <= d,
           Nested(s, a, b), Nested(t, c, d)
    PROVE  Nested(s \o t, a, d)
  <1> DEFINE u == s \o t
  <1>0. s \in Seq(LayerNames) /\ t \in Seq(LayerNames)
    BY DEF Nested
  <1>1. PICK m \in Nat : m = Len(s)
    BY <1>0
  <1>2. PICK n \in Nat : n = Len(t)
    BY <1>0
  <1>3. u \in Seq(LayerNames) /\ Len(u) = m + n /\ \A i \in 1..(m + n) : u[i] = IF i <= m THEN s[i] ELSE t[i - m]
    BY <1>0, <1>1, <1>2, ConcatProperties
  <1> HIDE DEF u
  <1>4. \A i \in 1..(m + n) : /\ u[i] \in LayerNames /\ Depth(u[i]) \in Nat
                              /\ i <= m => i \in 1..m /\ u[i] = s[i] /\ Depth(u[i]) >= a /\ Depth(u[i]) <= b
                              /\ ~(i <= m) => i - m \in 1..n /\ u[i] = t[i - m] /\ Depth(u[i]) >= c /\ Depth(u[i]) <= d
    <2> SUFFICES ASSUME NEW i \in 1..(m + n)
                 PROVE  /\ u[i] \in LayerNames /\ Depth(u[i]) \in Nat
                        /\ i <= m => i \in 1..m /\ u[i] = s[i] /\ Depth(u[i]) >= a /\ Depth(u[i]) <= b
                        /\ ~(i <= m) => i - m \in 1..n /\ u[i] = t[i - m] /\ Depth(u[i]) >= c /\ Depth(u[i]) <= d
      OBVIOUS
    <2>1. u[i] \in LayerNames
      BY <1>3
    <2>2. Depth(u[i]) \in Nat
      BY <2>1, DepthIsNumber
    <2>3. i <= m => i \in 1..m /\ u[i] = s[i] /\ Depth(u[i]) >= a /\ Depth(u[i]) <= b
      BY <1>1, <1>3 DEF Nested
    <2>4. ~(i <= m) => i - m \in 1..n /\ u[i] = t[i - m] /\ Depth(u[i]) >= c /\ Depth(u[i]) <= d
      <3> SUFFICES ASSUME ~(i <= m)
                   PROVE  i - m \in 1..n /\ u[i] = t[i - m] /\ Depth(u[i]) >= c /\ Depth(u[i]) <= d
        OBVIOUS
      <3>1. i - m \in 1..n
        OBVIOUS
      <3>2. u[i] = t[i - m]
        BY <1>3
      <3>3. Depth(t[i - m]) >= c /\ Depth(t[i - m]) <= d
        BY <1>2, <3>1 DEF Nested
      <3> QED BY <3>1, <3>2, <3>3
    <2> QED BY <2>1, <2>2, <2>3, <2>4
  <1>5. \A i \in 1..Len(u) : Depth(u[i]) >= a /\ Depth(u[i]) <= d
    BY <1>3, <1>4
  <1>6. ASSUME NEW i \in 1..Len(u), NEW j \in 1..Len(u), i < j PROVE Depth(u[i]) < Depth(u[j])
    <2>1. i \in 1..(m + n) /\ j \in 1..(m + n)
      BY <1>3
    <2>2. CASE j <= m
      <3>1. i \in 1..m /\ j \in 1..m /\ u[i] = s[i] /\ u[j] = s[j]
        BY <1>4, <1>6, <2>1, <2>2
      <3> QED BY <1>1, <1>6, <3>1 DEF Nested
    <2>3. CASE ~(i <= m)
      <3>1. i - m \in 1..n /\ j - m \in 1..n /\ u[i] = t[i - m] /\ u[j] = t[j - m] /\ i - m < j - m
        BY <1>4, <1>6, <2>1, <2>3
      <3> QED BY <1>2, <3>1 DEF Nested
    <2>4. CASE i <= m /\ ~(j <= m)
      <3>1. Depth(u[i]) \in Nat /\ Depth(u[i]) <= b
        BY <1>4, <2>1, <2>4
      <3>2. Depth(u[j]) \in Nat /\ Depth(u[j]) >= c
        BY <1>4, <2>1, <2>4
      <3> QED BY <3>1, <3>2
    <2> QED BY <1>6, <2>1, <2>2, <2>3, <2>4
  <1> QED
    BY <1>3, <1>5, <1>6 DEF Nested, u

\* One layer.
LEMMA NestedOne == ASSUME NEW l \in LayerNames PROVE Nested(<<l>>, Depth(l), Depth(l))
  <1>1. Depth(l) \in Nat
    BY DepthIsNumber
  <1>2. <<l>> \in Seq(LayerNames) /\ Len(<<l>>) = 1 /\ <<l>>[1] = l
    OBVIOUS
  <1> QED BY <1>1, <1>2 DEF Nested

\* No layer.
LEMMA NestedNone == ASSUME NEW a, NEW b PROVE Nested(<<>>, a, b)
  BY DEF Nested

\* A layer that the renderer writes under a condition.
LEMMA NestedWhen == ASSUME NEW l \in LayerNames, NEW c PROVE Nested(When(c, <<l>>), Depth(l), Depth(l))
  BY NestedOne, NestedNone DEF When

\* The bounds may be wider.
LEMMA NestedWider ==
    ASSUME NEW s, NEW a \in Nat, NEW b \in Nat, NEW c \in Nat, NEW d \in Nat, c <= a, b <= d, Nested(s, a, b)
    PROVE  Nested(s, c, d)
  <1>1. \A i \in 1..Len(s) : Depth(s[i]) \in Nat
    BY DepthIsNumber DEF Nested
  <1> QED BY <1>1 DEF Nested

\* A call: the layers in their order, the target innermost.
IsCall(s) == Nested(s, 1, 10) /\ Len(s) > 0 /\ s[Len(s)] = "target"

\* The target is the innermost layer of every call.
LEMMA EndsInTarget ==
    ASSUME NEW s, Nested(s, 1, 9)
    PROVE  IsCall(s \o <<"target">>)
  <1>1. Nested(<<"target">>, 10, 10)
    BY NestedOne DEF Depth, LayerNames
  <1>2. Nested(s \o <<"target">>, 1, 10)
    BY <1>1, NestedConcat
  <1>3. s \in Seq(LayerNames) /\ Len(s) \in Nat
    BY DEF Nested
  <1>4. Len(s \o <<"target">>) = Len(s) + 1 /\ (s \o <<"target">>)[Len(s) + 1] = "target"
    BY <1>3
  <1> QED BY <1>2, <1>3, <1>4 DEF IsCall

\* The layers of a decorated method (writeDecoratedMethodBody) are in the order of their depths.
LEMMA MethodLayersNest == ASSUME NEW m PROVE IsCall(MethodLayers(m))
  <1>1. Nested(When("observation" \in m, <<"observation">>), 1, 1)
    BY NestedWhen DEF Depth, LayerNames
  <1>2. Nested(When("authorization" \in m, <<"authorization">>), 2, 2)
    BY NestedWhen DEF Depth, LayerNames
  <1>3. Nested(When("cache" \in m, <<"cache">>), 7, 7)
    BY NestedWhen DEF Depth, LayerNames
  <1>4. Nested(When("retry" \in m, <<"retry">>), 8, 8)
    BY NestedWhen DEF Depth, LayerNames
  <1>5. Nested(When("transaction" \in m, <<"transaction">>), 9, 9)
    BY NestedWhen DEF Depth, LayerNames
  <1> HIDE DEF When
  <1>6. Nested(When("observation" \in m, <<"observation">>) \o When("authorization" \in m, <<"authorization">>), 1, 2)
    BY <1>1, <1>2, NestedConcat
  <1>7. Nested(When("observation" \in m, <<"observation">>) \o When("authorization" \in m, <<"authorization">>)
                 \o When("cache" \in m, <<"cache">>), 1, 7)
    BY <1>6, <1>3, NestedConcat
  <1>8. Nested(When("observation" \in m, <<"observation">>) \o When("authorization" \in m, <<"authorization">>)
                 \o When("cache" \in m, <<"cache">>) \o When("retry" \in m, <<"retry">>), 1, 8)
    BY <1>7, <1>4, NestedConcat
  <1>9. Nested(When("observation" \in m, <<"observation">>) \o When("authorization" \in m, <<"authorization">>)
                 \o When("cache" \in m, <<"cache">>) \o When("retry" \in m, <<"retry">>)
                 \o When("transaction" \in m, <<"transaction">>), 1, 9)
    BY <1>8, <1>5, NestedConcat
  <1> QED BY <1>9, EndsInTarget DEF MethodLayers

\* So are those that decode a request and call the handler.
LEMMA TypedLayersNest == ASSUME NEW r PROVE Nested(TypedLayers(r), 3, 9)
  <1>1. Nested(<<"negotiation", IF "form" \in r THEN "form" ELSE "binding">>, 3, 4)
    <2>1. PICK l : l = (IF "form" \in r THEN "form" ELSE "binding")
      OBVIOUS
    <2>2. l \in LayerNames /\ Depth(l) = 4 /\ Depth("negotiation") = 3 /\ "negotiation" \in LayerNames
      BY <2>1 DEF LayerNames, Depth
    <2>3. Nested(<<"negotiation", l>>, 3, 4)
      BY <2>2 DEF Nested
    <2> QED BY <2>1, <2>3
  <1>2. Nested(When("validation" \in r, <<"validation">>), 5, 5)
    BY NestedWhen DEF Depth, LayerNames
  <1>3. Nested(When(Interceptable(r), <<"interceptors">>), 6, 6)
    BY NestedWhen DEF Depth, LayerNames
  <1>4. Nested(IF "transaction" \in r THEN <<"transaction">> ELSE When("cache" \in r, <<"cache">>), 7, 9)
    <2>1. Nested(<<"transaction">>, 7, 9)
      <3>1. Nested(<<"transaction">>, 9, 9)
        BY NestedOne DEF Depth, LayerNames
      <3> QED BY <3>1, NestedWider
    <2>2. Nested(When("cache" \in r, <<"cache">>), 7, 9)
      <3>1. Nested(When("cache" \in r, <<"cache">>), 7, 7)
        BY NestedWhen DEF Depth, LayerNames
      <3> QED BY <3>1, NestedWider
    <2> QED BY <2>1, <2>2
  <1>5. Nested(InvocationLayers(r), 6, 9)
    BY <1>3, <1>4, NestedConcat DEF InvocationLayers
  <1>6. Nested(<<"negotiation", IF "form" \in r THEN "form" ELSE "binding">> \o When("validation" \in r, <<"validation">>), 3, 5)
    BY <1>1, <1>2, NestedConcat
  <1> QED BY <1>5, <1>6, NestedConcat DEF TypedLayers

\* So are those of a route (writeControllerRoute).
LEMMA RouteLayersNest == ASSUME NEW r PROVE IsCall(RouteLayers(r))
  <1>1. Nested(<<"observation">>, 1, 1)
    BY NestedOne DEF Depth, LayerNames
  <1>2. Nested(When("authorization" \in r, <<"authorization">>), 2, 2)
    BY NestedWhen DEF Depth, LayerNames
  <1>3. Nested(IF "raw" \in r THEN <<>> ELSE TypedLayers(r), 3, 9)
    BY NestedNone, TypedLayersNest
  <1>4. Nested(<<"observation">> \o When("authorization" \in r, <<"authorization">>), 1, 2)
    BY <1>1, <1>2, NestedConcat
  <1>5. Nested(<<"observation">> \o When("authorization" \in r, <<"authorization">>)
                 \o (IF "raw" \in r THEN <<>> ELSE TypedLayers(r)), 1, 9)
    BY <1>3, <1>4, NestedConcat
  <1> QED BY <1>5, EndsInTarget DEF RouteLayers

\* What a decorated method or a route is called through.
LEMMA CallableNests == ASSUME NEW a, NEW m \in Callable(a) PROVE IsCall(m.layers)
  <1>1. \/ \E i \in DOMAIN a.policies : \E x \in Range(a.policies[i].methods) :
             m = [bean |-> a.policies[i].provider, layers |-> MethodLayers(x)]
        \/ \E i \in DOMAIN a.routes : m = [bean |-> a.routes[i].provider, layers |-> RouteLayers(a.routes[i].policies)]
    <2>1. CASE m \in UNION {{[bean |-> a.policies[i].provider, layers |-> MethodLayers(x)] : x \in Range(a.policies[i].methods)}
                              : i \in DOMAIN a.policies}
      <3>1. PICK i \in DOMAIN a.policies :
                m \in {[bean |-> a.policies[i].provider, layers |-> MethodLayers(x)] : x \in Range(a.policies[i].methods)}
        BY <2>1
      <3> QED BY <3>1
    <2>2. CASE m \in {[bean |-> a.routes[i].provider, layers |-> RouteLayers(a.routes[i].policies)] : i \in DOMAIN a.routes}
      BY <2>2
    <2> QED BY <2>1, <2>2 DEF Callable
  <1>2. (\E x : m.layers = MethodLayers(x)) \/ (\E r : m.layers = RouteLayers(r))
    BY <1>1
  <1> QED BY <1>2, MethodLayersNest, RouteLayersNest

\* Only the observation is outside the guard, only the target is inside the transaction, and the cache is outside of it.
LEMMA CallOrder ==
    ASSUME NEW s, IsCall(s)
    PROVE  /\ s \in Seq(LayerNames) /\ Len(s) \in Nat /\ Len(s) > 0 /\ s[Len(s)] = "target"
           /\ \A i \in 1..Len(s) : s[i] = "target" => i = Len(s)
           /\ \A i, j \in 1..Len(s) : s[i] = "authorization" /\ j < i => s[j] = "observation"
           /\ \A i, j \in 1..Len(s) : s[i] = "transaction" /\ i < j => j = Len(s) /\ j = i + 1
           /\ \A i, j \in 1..Len(s) : s[i] = "transaction" /\ s[j] = "cache" => j < i
           /\ \A i, j \in 1..Len(s) : s[i] = s[j] => i = j
  <1>1. s \in Seq(LayerNames) /\ Len(s) \in Nat /\ Len(s) > 0 /\ s[Len(s)] = "target"
    BY DEF IsCall, Nested
  <1>2. PICK n \in Nat : n = Len(s)
    BY <1>1
  <1>3. \A i \in 1..n : s[i] \in LayerNames /\ Depth(s[i]) \in Nat /\ Depth(s[i]) <= 10
    BY <1>1, <1>2, DepthIsNumber
  <1>4. \A i, j \in 1..n : i < j => Depth(s[i]) < Depth(s[j])
    BY <1>2 DEF IsCall, Nested
  <1>5. \A i, j \in 1..n : Depth(s[i]) < Depth(s[j]) => i < j
    <2> SUFFICES ASSUME NEW i \in 1..n, NEW j \in 1..n, Depth(s[i]) < Depth(s[j]), ~(i < j) PROVE FALSE
      OBVIOUS
    <2>1. i = j \/ j < i
      OBVIOUS
    <2>2. CASE i = j BY <1>3, <2>2
    <2>3. CASE j < i
      <3>1. Depth(s[j]) < Depth(s[i]) BY <1>4, <2>3
      <3> QED BY <1>3, <3>1
    <2> QED BY <2>1, <2>2, <2>3
  <1>6. \A i, j \in 1..n : s[i] = s[j] => i = j
    <2> SUFFICES ASSUME NEW i \in 1..n, NEW j \in 1..n, s[i] = s[j], i # j PROVE FALSE
      OBVIOUS
    <2>1. i < j \/ j < i
      OBVIOUS
    <2>2. Depth(s[i]) < Depth(s[j]) \/ Depth(s[j]) < Depth(s[i])
      BY <1>4, <2>1
    <2> QED BY <1>3, <2>2
  <1>7. \A i \in 1..n : s[i] = "target" => i = n
    BY <1>1, <1>2, <1>6
  <1>8. ASSUME NEW i \in 1..n, NEW j \in 1..n, s[i] = "authorization", j < i PROVE s[j] = "observation"
    <2>1. Depth(s[j]) < Depth(s[i]) /\ Depth(s[i]) = 2
      BY <1>4, <1>8 DEF Depth
    <2>2. s[j] \in LayerNames /\ Depth(s[j]) < 2
      BY <1>3, <2>1
    <2> QED BY <2>2 DEF Depth, LayerNames
  <1>9. ASSUME NEW i \in 1..n, NEW j \in 1..n, s[i] = "transaction", i < j PROVE j = n /\ j = i + 1
    <2>1. \A k \in 1..n : i < k => s[k] = "target"
      <3> SUFFICES ASSUME NEW k \in 1..n, i < k PROVE s[k] = "target"
        OBVIOUS
      <3>1. Depth(s[i]) < Depth(s[k]) /\ Depth(s[i]) = 9
        BY <1>4, <1>9 DEF Depth
      <3>2. s[k] \in LayerNames /\ Depth(s[k]) > 9
        BY <1>3, <3>1
      <3> QED BY <3>2 DEF Depth, LayerNames
    <2>2. j = n
      BY <1>7, <1>9, <2>1
    <2>3. i + 1 \in 1..n /\ i < i + 1
      BY <1>9
    <2>4. i + 1 = n
      BY <1>7, <2>1, <2>3
    <2> QED BY <2>2, <2>4
  <1>10. ASSUME NEW i \in 1..n, NEW j \in 1..n, s[i] = "transaction", s[j] = "cache" PROVE j < i
    <2>1. Depth(s[j]) = 7 /\ Depth(s[i]) = 9
      BY <1>10 DEF Depth
    <2> QED BY <1>5, <2>1
  <1> QED
    BY <1>1, <1>2, <1>6, <1>7, <1>8, <1>9, <1>10

-----------------------------------------------------------------------------
(* Calls. *)

Values == [by : Callers \cup {None}, number : Nat, attempt : Nat, ok : BOOLEAN]
Results == {"none", "ok", "error", "panic"}
Calls(a) ==
    [layers : Seq(LayerNames), bean : {m.bean : m \in Callable(a)} \cup {None}, at : Nat, inward : BOOLEAN, result : Results,
     attempt : Nat, value : Values, effects : SUBSET Values, number : Nat]

\* A call goes through the layers of what is called; the target is entered, never left.
OnItsWay(call, a) ==
    /\ call.layers = <<>> => call.at = 0
    /\ call.layers # <<>> => \E m \in Callable(a) : call.layers = m.layers /\ call.bean = m.bean
    /\ call.at <= Len(call.layers)
    /\ call.at = Len(call.layers) /\ call.at > 0 => call.inward

\* A caller that does not satisfy the policy comes no further than the guard.
Guarded(call, c) ==
    c \notin Authorized =>
        \A i \in 1..Len(call.layers) : call.layers[i] = "authorization" => call.at <= i /\ call.value = NoValue

\* A transaction holds the effects of one attempt.
Attempted(call) ==
    \A i \in 1..Len(call.layers) : call.layers[i] = "transaction" =>
        /\ call.at > i => call.effects = {}
        /\ call.at = i /\ ~call.inward /\ call.result = "ok" => call.effects = {call.value}

\* A result that is on its way out is one that succeeded, and outside of the transaction one that was committed.
Succeeded(call, a, committed) ==
    ~call.inward /\ call.result = "ok" =>
        /\ call.value.ok
        /\ \A i \in 1..Len(call.layers) :
             call.layers[i] = "transaction" /\ call.at < i /\ CachedCommit(a) => call.value \in committed

CallOK(call, c, a, committed) ==
    call \in Calls(a) /\ OnItsWay(call, a) /\ Guarded(call, c) /\ Attempted(call) /\ Succeeded(call, a, committed)

CallInv ==
    /\ calls \in [Callers -> Calls(app)] /\ kept \subseteq Values /\ cache \in Values
    /\ \A c \in Callers : CallOK(calls[c], c, app, kept)
    /\ OnlySuccessIsKept

\* A call stays as it should be when more is committed.
LEMMA CommittedGrows ==
    ASSUME NEW call, NEW c, NEW a, NEW k1, NEW k2, k1 \subseteq k2, CallOK(call, c, a, k1)
    PROVE  CallOK(call, c, a, k2)
  BY DEF CallOK, Succeeded

\* What no call is.
LEMMA NoCallType ==
    ASSUME NEW a
    PROVE  /\ NoCall \in Calls(a) /\ NoValue \in Values /\ NoCall.layers = <<>> /\ NoCall.bean = None /\ NoCall.at = 0
           /\ NoCall.inward = FALSE /\ NoCall.result = None /\ NoCall.attempt = 0 /\ NoCall.value = NoValue /\ NoCall.effects = {}
  <1>1. NoValue \in Values
    BY DEF NoValue, Values, None
  <1>2. <<>> \in Seq(LayerNames) /\ {} \in SUBSET Values /\ None \in Results /\ 0 \in Nat /\ FALSE \in BOOLEAN
    BY DEF Results, None
  <1>3. None \in {m.bean : m \in Callable(a)} \cup {None}
    OBVIOUS
  <1> QED BY <1>1, <1>2, <1>3 DEF NoCall, Calls

\* No call is as it should be.
LEMMA NoCallOK == ASSUME NEW c, NEW a, NEW k, NEW n \in Nat PROVE CallOK([NoCall EXCEPT !.number = n], c, a, k)
  <1>1. [NoCall EXCEPT !.number = n] \in Calls(a)
    <2> DEFINE B == {m.bean : m \in Callable(a)} \cup {None}
    <2> HIDE DEF B
    <2>1. PICK base : base = NoCall
      OBVIOUS
    <2>2. base \in [layers : Seq(LayerNames), bean : B, at : Nat, inward : BOOLEAN, result : Results,
                    attempt : Nat, value : Values, effects : SUBSET Values, number : Nat]
      BY <2>1, NoCallType DEF Calls, B
    <2>3. [base EXCEPT !.number = n] \in [layers : Seq(LayerNames), bean : B, at : Nat, inward : BOOLEAN, result : Results,
                    attempt : Nat, value : Values, effects : SUBSET Values, number : Nat]
      BY <2>2
    <2> QED BY <2>1, <2>3 DEF Calls, B
  <1>2. PICK call : call = [NoCall EXCEPT !.number = n]
    OBVIOUS
  <1>3. call.layers = <<>> /\ call.at = 0 /\ call.result = "none" /\ Len(call.layers) = 0
    BY <1>2 DEF NoCall, None
  <1>4. OnItsWay(call, a)
    BY <1>3 DEF OnItsWay
  <1>5. Guarded(call, c) /\ Attempted(call) /\ Succeeded(call, a, k)
    BY <1>3 DEF Guarded, Attempted, Succeeded
  <1> QED BY <1>1, <1>2, <1>4, <1>5 DEF CallOK

\* What is known of a call that is in a layer.
LEMMA InLayer ==
    ASSUME NEW call, NEW c, NEW a, NEW k, CallOK(call, c, a, k), call.at > 0
    PROVE  /\ call.at \in 1..Len(call.layers) /\ Len(call.layers) \in Nat /\ IsCall(call.layers)
           /\ \E m \in Callable(a) : call.layers = m.layers /\ call.bean = m.bean
  <1>1. call.layers \in Seq(LayerNames) /\ call.at \in Nat /\ call.layers # <<>>
    BY DEF CallOK, Calls, OnItsWay
  <1>2. Len(call.layers) \in Nat
    BY <1>1
  <1>3. PICK m \in Callable(a) : call.layers = m.layers /\ call.bean = m.bean
    BY <1>1 DEF CallOK, OnItsWay
  <1>4. IsCall(call.layers)
    BY <1>3, CallableNests
  <1>5. call.at <= Len(call.layers)
    BY DEF CallOK, OnItsWay
  <1> QED BY <1>1, <1>2, <1>3, <1>4, <1>5

\* A call that goes one layer inward stays as it should be.
LEMMA GoesInward ==
    ASSUME NEW call, NEW c, NEW a, NEW k, CallOK(call, c, a, k), call.at > 0,
           call.layers[call.at] # "target", call.layers[call.at] = "authorization" => c \in Authorized,
           NEW new \in Calls(a), new.layers = call.layers, new.bean = call.bean, new.at = call.at + 1, new.inward,
           new.value = call.value, call.layers[call.at] = "transaction" => new.effects = {}
    PROVE  CallOK(new, c, a, k)
  <1>0. PICK n \in Nat : n = Len(call.layers)
    BY InLayer
  <1>1. /\ call.at \in 1..n /\ IsCall(call.layers) /\ new.layers # <<>>
        /\ \E m \in Callable(a) : new.layers = m.layers /\ new.bean = m.bean
    BY <1>0, InLayer DEF CallOK, OnItsWay
  <1>2. call.at < n
    BY <1>0, <1>1, CallOrder
  <1>3. OnItsWay(new, a)
    BY <1>0, <1>1, <1>2 DEF OnItsWay
  <1>4. Guarded(new, c)
    <2> SUFFICES ASSUME c \notin Authorized, NEW i \in 1..n, call.layers[i] = "authorization"
                 PROVE  new.at <= i /\ new.value = NoValue
      BY <1>0 DEF Guarded
    <2>1. call.at <= i /\ call.value = NoValue
      BY <1>0 DEF CallOK, Guarded
    <2>2. call.at # i
      OBVIOUS
    <2> QED BY <1>1, <2>1, <2>2
  <1>5. Attempted(new)
    <2> SUFFICES ASSUME NEW i \in 1..n, call.layers[i] = "transaction", new.at > i
                 PROVE  new.effects = {}
      BY <1>0 DEF Attempted
    <2>1. CASE call.at = i
      BY <2>1
    <2>2. CASE call.at # i
      <3>1. i < call.at
        BY <1>1, <2>2
      <3>2. call.at = n
        BY <1>0, <1>1, <3>1, CallOrder
      <3> QED BY <1>2, <3>2
    <2> QED BY <2>1, <2>2
  <1> QED BY <1>3, <1>4, <1>5 DEF CallOK, Succeeded

\* A call that goes one layer outward with a result stays as it should be.
LEMMA GoesOutward ==
    ASSUME NEW call, NEW c, NEW a, NEW k, CallOK(call, c, a, k), call.at > 0,
           NEW new \in Calls(a), new.layers = call.layers, new.bean = call.bean, new.at = call.at - 1, ~new.inward,
           c \notin Authorized /\ "authorization" \in Range(call.layers) => new.value = NoValue,
           new.result = "ok" => new.value.ok,
           \A i \in 1..Len(call.layers) : call.layers[i] = "transaction" /\ new.result = "ok" =>
               /\ call.at > i => new.effects = {new.value}
               /\ call.at <= i /\ CachedCommit(a) => new.value \in k
    PROVE  CallOK(new, c, a, k)
  <1>0. PICK n \in Nat : n = Len(call.layers)
    BY InLayer
  <1>1. /\ call.at \in 1..n /\ IsCall(call.layers) /\ new.layers # <<>> /\ call.layers \in Seq(LayerNames)
        /\ \E m \in Callable(a) : new.layers = m.layers /\ new.bean = m.bean
    BY <1>0, InLayer DEF CallOK, OnItsWay, Calls
  <1>3. OnItsWay(new, a)
    BY <1>0, <1>1 DEF OnItsWay
  <1>4. Guarded(new, c)
    <2> SUFFICES ASSUME c \notin Authorized, NEW i \in 1..n, call.layers[i] = "authorization"
                 PROVE  new.at <= i /\ new.value = NoValue
      BY <1>0 DEF Guarded
    <2>1. call.at <= i
      BY <1>0 DEF CallOK, Guarded
    <2>2. "authorization" \in Range(call.layers)
      BY <1>0, <1>1 DEF Range
    <2> QED BY <1>1, <2>1, <2>2
  <1>5. Attempted(new)
    <2> SUFFICES ASSUME NEW i \in 1..n, call.layers[i] = "transaction"
                 PROVE  /\ new.at > i => new.effects = {}
                        /\ new.at = i /\ new.result = "ok" => new.effects = {new.value}
      BY <1>0 DEF Attempted
    <2>1. ~(new.at > i)
      <3> SUFFICES ASSUME new.at > i PROVE FALSE
        OBVIOUS
      <3>1. i < call.at /\ call.at # i + 1
        BY <1>1
      <3> QED BY <1>0, <1>1, <3>1, CallOrder
    <2>2. new.at = i => call.at > i
      BY <1>1
    <2> QED BY <1>0, <2>1, <2>2
  <1>6. Succeeded(new, a, k)
    <2> SUFFICES ASSUME new.result = "ok"
                 PROVE  /\ new.value.ok
                        /\ \A i \in 1..n : call.layers[i] = "transaction" /\ new.at < i /\ CachedCommit(a) => new.value \in k
      BY <1>0 DEF Succeeded
    <2>1. \A i \in 1..n : new.at < i => call.at <= i
      BY <1>1
    <2> QED BY <1>0, <2>1
  <1> QED BY <1>3, <1>4, <1>5, <1>6 DEF CallOK

-----------------------------------------------------------------------------
(* Every step keeps it. *)

\* The call of c is replaced; the others may only gain from what is committed.
LEMMA ReplacedCall ==
    ASSUME CallInv, NEW c \in Callers, NEW call, Updated(c, call), CallOK(call, c, app, kept'),
           kept \subseteq kept', kept' \subseteq Values, cache' \in Values, OnlySuccessIsKept'
    PROVE  CallInv'
  <1>1. app' = app /\ calls' = [calls EXCEPT ![c] = call] /\ call \in Calls(app)
    BY DEF Updated, command, CallOK
  <1>2. \A d \in Callers : CallOK(calls'[d], d, app, kept')
    BY <1>1, CommittedGrows DEF CallInv
  <1> QED BY <1>1, <1>2 DEF CallInv

\* The usual case: neither the cache nor what is kept changes.
LEMMA ReplacedOnly ==
    ASSUME CallInv, NEW c \in Callers, NEW call, Updated(c, call), CallOK(call, c, app, kept), UNCHANGED <<cache, kept>>
    PROVE  CallInv'
  <1>1. app' = app
    BY DEF Updated, command
  <1>2. OnlySuccessIsKept'
    BY <1>1 DEF CallInv, OnlySuccessIsKept
  <1> QED BY <1>2, ReplacedCall DEF CallInv

\* The types of a call.
LEMMA LayerTypes ==
    ASSUME CallInv, NEW c \in Callers
    PROVE  /\ CallOK(calls[c], c, app, kept) /\ calls[c] \in Calls(app)
           /\ calls[c].at \in Nat /\ calls[c].layers \in Seq(LayerNames) /\ calls[c].value \in Values /\ calls[c].number \in Nat
           /\ calls[c].attempt \in Nat /\ calls[c].result \in Results /\ calls[c].effects \subseteq Values
  <1>1. CallOK(calls[c], c, app, kept) /\ calls[c] \in Calls(app)
    BY DEF CallInv
  <1> QED BY <1>1 DEF Calls

\* A step inward with the effects and the attempt that it sets.
LEMMA InwardStep ==
    ASSUME CallInv, NEW c \in Callers, calls[c].at > 0, Layer(c) # "target", Layer(c) = "authorization" => c \in Authorized,
           NEW e \in SUBSET Values, Layer(c) = "transaction" => e = {}, NEW n \in Nat
    PROVE  CallOK([Inward(calls[c]) EXCEPT !.effects = e, !.attempt = n, !.inward = TRUE], c, app, kept)
  <1> PICK call : call = calls[c]
    OBVIOUS
  <1>1. PICK new : new = [Inward(call) EXCEPT !.effects = e, !.attempt = n, !.inward = TRUE]
    OBVIOUS
  <1>2. CallOK(call, c, app, kept) /\ call \in Calls(app)
    BY LayerTypes
  <1>3. new \in Calls(app) /\ new.layers = call.layers /\ new.bean = call.bean /\ new.at = call.at + 1 /\ new.inward
          /\ new.value = call.value /\ new.effects = e
    <2> DEFINE B == {m.bean : m \in Callable(app)} \cup {None}
    <2> HIDE DEF B
    <2>1. call \in [layers : Seq(LayerNames), bean : B, at : Nat, inward : BOOLEAN, result : Results,
                    attempt : Nat, value : Values, effects : SUBSET Values, number : Nat]
      BY <1>2 DEF Calls, B
    <2>2. PICK mid : mid = [call EXCEPT !.at = @ + 1]
      OBVIOUS
    <2>3. mid = [layers |-> call.layers, bean |-> call.bean, at |-> call.at + 1, inward |-> call.inward,
                 result |-> call.result, attempt |-> call.attempt, value |-> call.value, effects |-> call.effects,
                 number |-> call.number]
      BY <2>1, <2>2
    <2>4. new = [layers |-> call.layers, bean |-> call.bean, at |-> call.at + 1, inward |-> TRUE,
                 result |-> call.result, attempt |-> n, value |-> call.value, effects |-> e,
                 number |-> call.number]
      BY <1>1, <2>2, <2>3 DEF Inward
    <2>5. call.layers \in Seq(LayerNames) /\ call.bean \in B /\ call.at + 1 \in Nat
      BY <2>1
    <2>6. call.result \in Results /\ call.value \in Values /\ call.number \in Nat
      BY <2>1
    <2>7. new \in Calls(app)
      BY <2>4, <2>5, <2>6 DEF Calls, B
    <2> QED BY <2>4, <2>7
  <1> QED BY <1>1, <1>2, <1>3, GoesInward DEF Layer

\* A step outward with the value and the effects that it sets.
LEMMA OutwardStep ==
    ASSUME CallInv, NEW c \in Callers, calls[c].at > 0, NEW r \in Results, NEW v \in Values, NEW e \in SUBSET Values,
           NEW k,
           CallOK(calls[c], c, app, k),
           c \notin Authorized /\ "authorization" \in Range(calls[c].layers) => v = NoValue,
           r = "ok" => v.ok,
           \A i \in 1..Len(calls[c].layers) : calls[c].layers[i] = "transaction" /\ r = "ok" =>
               /\ calls[c].at > i => e = {v}
               /\ calls[c].at <= i /\ CachedCommit(app) => v \in k
    PROVE  CallOK([Outward(calls[c], r) EXCEPT !.value = v, !.effects = e], c, app, k)
  <1> PICK call : call = calls[c]
    OBVIOUS
  <1>1. PICK new : new = [Outward(call, r) EXCEPT !.value = v, !.effects = e]
    OBVIOUS
  <1>2. call \in Calls(app) /\ call.at \in Nat /\ call.at > 0
    BY LayerTypes
  <1>3. new \in Calls(app) /\ new.layers = call.layers /\ new.bean = call.bean /\ new.at = call.at - 1 /\ ~new.inward
          /\ new.value = v /\ new.effects = e /\ new.result = r
    <2> DEFINE B == {m.bean : m \in Callable(app)} \cup {None}
    <2> HIDE DEF B
    <2>1. call \in [layers : Seq(LayerNames), bean : B, at : Nat, inward : BOOLEAN, result : Results,
                    attempt : Nat, value : Values, effects : SUBSET Values, number : Nat]
      BY <1>2 DEF Calls, B
    <2>2. PICK mid : mid = [call EXCEPT !.at = @ - 1, !.inward = FALSE, !.result = r]
      OBVIOUS
    <2>3. mid = [layers |-> call.layers, bean |-> call.bean, at |-> call.at - 1, inward |-> FALSE,
                 result |-> r, attempt |-> call.attempt, value |-> call.value, effects |-> call.effects,
                 number |-> call.number]
      BY <2>1, <2>2
    <2>4. new = [layers |-> call.layers, bean |-> call.bean, at |-> call.at - 1, inward |-> FALSE,
                 result |-> r, attempt |-> call.attempt, value |-> v, effects |-> e,
                 number |-> call.number]
      BY <1>1, <2>2, <2>3 DEF Outward
    <2>5. call.layers \in Seq(LayerNames) /\ call.bean \in B /\ call.at - 1 \in Nat
      BY <1>2, <2>1
    <2>6. call.attempt \in Nat /\ call.number \in Nat
      BY <2>1
    <2>7. new \in Calls(app)
      BY <2>4, <2>5, <2>6 DEF Calls, B
    <2> QED BY <2>4, <2>7
  <1> QED BY <1>1, <1>2, <1>3, GoesOutward

\* A step that neither calls nor answers.
LEMMA CallsAlone ==
    ASSUME CallInv, UNCHANGED <<app, calls, cache, kept>>
    PROVE  CallInv'
  BY DEF CallInv, OnlySuccessIsKept

\* A call begins in its outermost layer.
LEMMA BeginStep ==
    ASSUME CallInv, NEW c \in Callers, NEW m \in Callable(app), Begin(c, m)
    PROVE  CallInv'
  <1>1. PICK new : new = [NoCall EXCEPT !.layers = m.layers, !.bean = m.bean, !.at = 1, !.inward = TRUE,
                                         !.number = calls[c].number + 1]
    OBVIOUS
  <1>2. IsCall(m.layers) /\ m.layers \in Seq(LayerNames) /\ Len(m.layers) \in Nat /\ Len(m.layers) > 0
    BY CallableNests, CallOrder
  <1>3. calls[c].number + 1 \in Nat
    BY LayerTypes
  <1>4. new.layers = m.layers /\ new.bean = m.bean /\ new.at = 1 /\ new.inward = TRUE /\ new.value = NoValue /\ new.effects = {}
    BY <1>1 DEF NoCall
  <1>5. new \in Calls(app)
    <2> DEFINE B == {x.bean : x \in Callable(app)} \cup {None}
    <2>0. m.bean \in B /\ None \in B
      OBVIOUS
    <2>1. PICK base : base = NoCall
      OBVIOUS
    <2>2. base \in Calls(app)
      BY <2>1, NoCallType
    <2> HIDE DEF B
    <2>3. base \in [layers : Seq(LayerNames), bean : B, at : Nat, inward : BOOLEAN, result : Results,
                    attempt : Nat, value : Values, effects : SUBSET Values, number : Nat]
      BY <2>2 DEF Calls, B
    <2>4. new = [base EXCEPT !.layers = m.layers, !.bean = m.bean, !.at = 1, !.inward = TRUE, !.number = calls[c].number + 1]
      BY <1>1, <2>1
    <2>5. new \in [layers : Seq(LayerNames), bean : B, at : Nat, inward : BOOLEAN, result : Results,
                   attempt : Nat, value : Values, effects : SUBSET Values, number : Nat]
      BY <1>2, <1>3, <2>0, <2>3, <2>4
    <2> QED BY <2>5 DEF Calls, B
  <1>6. new.layers # <<>>
    BY <1>2, <1>4
  <1>7. OnItsWay(new, app)
    BY <1>2, <1>4, <1>6 DEF OnItsWay
  <1>8. Guarded(new, c) /\ Attempted(new) /\ Succeeded(new, app, kept)
    BY <1>2, <1>4 DEF Guarded, Attempted, Succeeded
  <1>9. CallOK(new, c, app, kept)
    BY <1>5, <1>7, <1>8 DEF CallOK
  <1> QED BY <1>1, <1>9, ReplacedOnly DEF Begin

\* What a call is after a step inward that changes nothing else.
LEMMA PlainInward ==
    ASSUME CallInv, NEW c \in Callers, calls[c].at > 0, calls[c].inward, Layer(c) \notin {"target", "transaction"},
           Layer(c) = "authorization" => c \in Authorized
    PROVE  CallOK(Inward(calls[c]), c, app, kept)
  <1>1. CallOK([Inward(calls[c]) EXCEPT !.effects = calls[c].effects, !.attempt = calls[c].attempt, !.inward = TRUE], c, app, kept)
    BY LayerTypes, InwardStep
  <1>2. [Inward(calls[c]) EXCEPT !.effects = calls[c].effects, !.attempt = calls[c].attempt, !.inward = TRUE] = Inward(calls[c])
    <2>1. PICK call : call = calls[c]
      OBVIOUS
    <2>2. call \in Calls(app) /\ call.inward = TRUE
      BY <2>1, LayerTypes DEF Calls
    <2>3. [[call EXCEPT !.at = @ + 1] EXCEPT !.effects = call.effects, !.attempt = call.attempt, !.inward = TRUE]
            = [call EXCEPT !.at = @ + 1]
      BY <2>2 DEF Calls
    <2> QED BY <2>1, <2>3 DEF Inward
  <1> QED BY <1>1, <1>2

\* What a call is when a layer answers with an error or hands on the result that it was given.
LEMMA PlainOutward ==
    ASSUME CallInv, NEW c \in Callers, calls[c].at > 0, NEW r \in Results,
           r = "ok" => ~calls[c].inward /\ calls[c].result = "ok" /\ Layer(c) # "transaction"
    PROVE  CallOK(Outward(calls[c], r), c, app, kept)
  <1>0. CallOK(calls[c], c, app, kept) /\ calls[c] \in Calls(app) /\ calls[c].value \in Values /\ calls[c].effects \subseteq Values
    BY LayerTypes
  <1>1. c \notin Authorized /\ "authorization" \in Range(calls[c].layers) => calls[c].value = NoValue
    <2> SUFFICES ASSUME c \notin Authorized, "authorization" \in Range(calls[c].layers) PROVE calls[c].value = NoValue
      OBVIOUS
    <2>1. calls[c].layers \in Seq(LayerNames)
      BY LayerTypes
    <2>2. PICK i \in 1..Len(calls[c].layers) : calls[c].layers[i] = "authorization"
      BY <2>1 DEF Range
    <2> QED BY <1>0, <2>2 DEF CallOK, Guarded
  <1>2. r = "ok" => calls[c].value.ok
    BY <1>0 DEF CallOK, Succeeded
  <1>3. ASSUME NEW i \in 1..Len(calls[c].layers), calls[c].layers[i] = "transaction", r = "ok"
        PROVE  /\ calls[c].at > i => calls[c].effects = {calls[c].value}
               /\ calls[c].at <= i /\ CachedCommit(app) => calls[c].value \in kept
    <2>1. calls[c].at \in 1..Len(calls[c].layers) /\ Len(calls[c].layers) \in Nat /\ IsCall(calls[c].layers)
      BY <1>0, InLayer
    <2>2. calls[c].at # i
      BY <1>3 DEF Layer
    <2>3. ~(calls[c].at > i)
      <3> SUFFICES ASSUME calls[c].at > i PROVE FALSE
        OBVIOUS
      <3>1. calls[c].at = Len(calls[c].layers)
        BY <1>3, <2>1, CallOrder
      <3> QED BY <1>0, <1>3, <3>1 DEF CallOK, OnItsWay
    <2>4. calls[c].at < i
      BY <2>1, <2>2, <2>3
    <2> QED BY <1>0, <1>3, <2>3, <2>4 DEF CallOK, Succeeded
  <1>4. CallOK([Outward(calls[c], r) EXCEPT !.value = calls[c].value, !.effects = calls[c].effects], c, app, kept)
    BY <1>0, <1>1, <1>2, <1>3, OutwardStep
  <1>5. [Outward(calls[c], r) EXCEPT !.value = calls[c].value, !.effects = calls[c].effects] = Outward(calls[c], r)
    <2>1. PICK call : call = calls[c]
      OBVIOUS
    <2>2. call \in Calls(app)
      BY <2>1, LayerTypes
    <2>3. [[call EXCEPT !.at = @ - 1, !.inward = FALSE, !.result = r] EXCEPT !.value = call.value, !.effects = call.effects]
            = [call EXCEPT !.at = @ - 1, !.inward = FALSE, !.result = r]
      BY <2>2 DEF Calls
    <2> QED BY <2>1, <2>3 DEF Outward
  <1> QED BY <1>4, <1>5

\* A result is an error where a layer refuses the call.
LEMMA RefusedCall ==
    ASSUME CallInv, NEW c \in Callers, calls[c].at > 0
    PROVE  CallOK(Outward(calls[c], "error"), c, app, kept)
  BY PlainOutward DEF Results

\* The observers let every call through, the guard those that satisfy the policy.
LEMMA InwardStep1 ==
    ASSUME CallInv, NEW c \in Callers, Observe(c) \/ Authorize(c)
    PROVE  CallInv'
  <1>1. CASE Observe(c)
    <2>1. CallOK(Inward(calls[c]), c, app, kept)
      BY <1>1, PlainInward DEF Observe, Enters, At
    <2> QED BY <1>1, <2>1, ReplacedOnly DEF Observe
  <1>2. CASE Authorize(c)
    <2>1. CASE c \in Authorized
      <3>1. CallOK(Inward(calls[c]), c, app, kept)
        BY <1>2, <2>1, PlainInward DEF Authorize, Enters, At
      <3> QED BY <1>2, <2>1, <3>1, ReplacedOnly DEF Authorize
    <2>2. CASE c \notin Authorized
      <3>1. CallOK(Outward(calls[c], "error"), c, app, kept)
        BY <1>2, RefusedCall DEF Authorize, Enters, At
      <3> QED BY <1>2, <2>2, <3>1, ReplacedOnly DEF Authorize
    <2> QED BY <2>1, <2>2
  <1> QED BY <1>1, <1>2

\* A request is decoded or refused.
LEMMA DecodeStep ==
    ASSUME CallInv, NEW c \in Callers, NEW layer, NEW accepted \in BOOLEAN, Decode(c, layer, accepted)
    PROVE  CallInv'
  <1>1. calls[c].at > 0 /\ calls[c].inward /\ Layer(c) \in {"negotiation", "binding", "form", "validation"}
    BY DEF Decode, Enters, At
  <1>2. CallOK(Inward(calls[c]), c, app, kept)
    BY <1>1, PlainInward
  <1>3. CallOK(Outward(calls[c], "error"), c, app, kept)
    BY <1>1, RefusedCall
  <1>4. CASE accepted
    BY <1>2, <1>4, ReplacedOnly DEF Decode
  <1>5. CASE ~accepted
    BY <1>3, <1>5, ReplacedOnly DEF Decode
  <1> QED BY <1>4, <1>5

\* An interceptor goes on or answers.
LEMMA InterceptStep ==
    ASSUME CallInv, NEW c \in Callers, NEW answers \in BOOLEAN, Intercept(c, answers)
    PROVE  CallInv'
  <1>1. calls[c].at > 0 /\ calls[c].inward /\ Layer(c) = "interceptors"
    BY DEF Intercept, Enters, At
  <1>2. CallOK(Inward(calls[c]), c, app, kept)
    BY <1>1, PlainInward
  <1>3. CallOK(Outward(calls[c], "error"), c, app, kept)
    BY <1>1, RefusedCall
  <1>4. CASE answers
    BY <1>3, <1>4, ReplacedOnly DEF Intercept
  <1>5. CASE ~answers
    BY <1>2, <1>5, ReplacedOnly DEF Intercept
  <1> QED BY <1>4, <1>5

\* A caller that does not satisfy the policy is not in a layer that gives it a value.
LEMMA GuardHolds ==
    ASSUME CallInv, NEW c \in Callers, c \notin Authorized, "authorization" \in Range(calls[c].layers), calls[c].at > 0
    PROVE  Layer(c) \in {"observation", "authorization"}
  <1>0. CallOK(calls[c], c, app, kept) /\ calls[c].layers \in Seq(LayerNames)
    BY LayerTypes
  <1>1. calls[c].at \in 1..Len(calls[c].layers) /\ Len(calls[c].layers) \in Nat /\ IsCall(calls[c].layers)
    BY <1>0, InLayer
  <1>2. PICK i \in 1..Len(calls[c].layers) : calls[c].layers[i] = "authorization"
    BY <1>0 DEF Range
  <1>3. calls[c].at <= i
    BY <1>0, <1>2 DEF CallOK, Guarded
  <1>4. CASE calls[c].at = i
    BY <1>2, <1>4 DEF Layer
  <1>5. CASE calls[c].at < i
    BY <1>1, <1>2, <1>5, CallOrder DEF Layer
  <1> QED BY <1>1, <1>3, <1>4, <1>5

\* The cache answers, fails or lets the call through; only a caller that passed the guard gets there.
LEMMA LookUpStep ==
    ASSUME CallInv, NEW c \in Callers, NEW fails \in BOOLEAN, LookUp(c, fails)
    PROVE  CallInv'
  <1>1. calls[c].at > 0 /\ calls[c].inward /\ Layer(c) = "cache"
    BY DEF LookUp, Enters, At
  <1>2. CallOK(Inward(calls[c]), c, app, kept)
    BY <1>1, PlainInward
  <1>3. CallOK(Outward(calls[c], "error"), c, app, kept)
    BY <1>1, RefusedCall
  <1>4. CASE fails
    BY <1>3, <1>4, ReplacedOnly DEF LookUp
  <1>5. CASE ~fails /\ cache = NoValue
    BY <1>2, <1>5, ReplacedOnly DEF LookUp
  <1>6. CASE ~fails /\ cache # NoValue
    <2>0. CallOK(calls[c], c, app, kept) /\ calls[c].effects \subseteq Values /\ cache \in Values
      BY LayerTypes DEF CallInv
    <2>1. cache.ok /\ (CachedCommit(app) => cache \in kept)
      BY <1>6 DEF CallInv, OnlySuccessIsKept
    <2>2. c \in Authorized \/ "authorization" \notin Range(calls[c].layers)
      BY <1>1, GuardHolds
    <2>3. ASSUME NEW i \in 1..Len(calls[c].layers), calls[c].layers[i] = "transaction" PROVE ~(calls[c].at > i)
      <3>1. calls[c].at \in 1..Len(calls[c].layers) /\ Len(calls[c].layers) \in Nat /\ IsCall(calls[c].layers)
        BY <1>1, <2>0, InLayer
      <3>2. calls[c].at < i
        BY <1>1, <2>3, <3>1, CallOrder DEF Layer
      <3> QED BY <3>1, <3>2
    <2>4. CallOK([Outward(calls[c], "ok") EXCEPT !.value = cache, !.effects = calls[c].effects], c, app, kept)
      BY <1>1, <2>0, <2>1, <2>2, <2>3, OutwardStep DEF Results
    <2>5. [Outward(calls[c], "ok") EXCEPT !.value = cache, !.effects = calls[c].effects] = [Outward(calls[c], "ok") EXCEPT !.value = cache]
      <3>1. PICK call : call = calls[c]
        OBVIOUS
      <3>2. call \in Calls(app)
        BY <3>1, LayerTypes
      <3>3. [[call EXCEPT !.at = @ - 1, !.inward = FALSE, !.result = "ok"] EXCEPT !.value = cache, !.effects = call.effects]
              = [[call EXCEPT !.at = @ - 1, !.inward = FALSE, !.result = "ok"] EXCEPT !.value = cache]
        BY <3>2 DEF Calls
      <3> QED BY <3>1, <3>3 DEF Outward
    <2>6. CallOK([Outward(calls[c], "ok") EXCEPT !.value = cache], c, app, kept)
      BY <2>4, <2>5
    <2> QED BY <1>6, <2>6, ReplacedOnly DEF LookUp
  <1> QED BY <1>4, <1>5, <1>6

\* Another attempt.
LEMMA AttemptStep ==
    ASSUME CallInv, NEW c \in Callers, BeginAttempts(c) \/ Retry(c)
    PROVE  CallInv'
  <1>1. calls[c].at > 0 /\ Layer(c) = "retry"
    BY DEF BeginAttempts, Retry, Enters, Leaves, At
  <1>2. PICK call : call = calls[c]
    OBVIOUS
  <1>3. call \in Calls(app) /\ call.effects \subseteq Values /\ call.attempt \in Nat /\ call.inward \in BOOLEAN
    BY <1>2, LayerTypes DEF Calls
  <1>4. CASE BeginAttempts(c)
    <2>1. CallOK([Inward(calls[c]) EXCEPT !.effects = calls[c].effects, !.attempt = 1, !.inward = TRUE], c, app, kept)
      BY <1>1, <1>2, <1>3, InwardStep
    <2>2. call.inward = TRUE
      BY <1>2, <1>3, <1>4 DEF BeginAttempts, Enters
    <2>3. [[call EXCEPT !.at = @ + 1] EXCEPT !.effects = call.effects, !.attempt = 1, !.inward = TRUE]
            = [[call EXCEPT !.at = @ + 1] EXCEPT !.attempt = 1]
      BY <1>3, <2>2 DEF Calls
    <2>4. CallOK([Inward(calls[c]) EXCEPT !.attempt = 1], c, app, kept)
      BY <1>2, <2>1, <2>3 DEF Inward
    <2> QED BY <1>4, <2>4, ReplacedOnly DEF BeginAttempts
  <1>5. CASE Retry(c)
    <2>1. CallOK([Inward(calls[c]) EXCEPT !.effects = calls[c].effects, !.attempt = calls[c].attempt + 1, !.inward = TRUE], c, app, kept)
      <3>1. calls[c].attempt + 1 \in Nat /\ calls[c].effects \in SUBSET Values
        BY <1>2, <1>3
      <3>2. Layer(c) # "target" /\ Layer(c) # "authorization" /\ Layer(c) # "transaction"
        BY <1>1
      <3> QED BY <1>1, <3>1, <3>2, InwardStep
    <2>3. [[call EXCEPT !.at = @ + 1] EXCEPT !.effects = call.effects, !.attempt = call.attempt + 1, !.inward = TRUE]
            = [[call EXCEPT !.at = @ + 1] EXCEPT !.attempt = @ + 1, !.inward = TRUE]
      BY <1>3 DEF Calls
    <2>4. CallOK([Inward(calls[c]) EXCEPT !.attempt = @ + 1, !.inward = TRUE], c, app, kept)
      BY <1>2, <2>1, <2>3 DEF Inward
    <2> QED BY <1>5, <2>4, ReplacedOnly DEF Retry
  <1> QED BY <1>4, <1>5

\* A layer hands on what it was given.
LEMMA PassStep ==
    ASSUME CallInv, NEW c \in Callers, Pass(c)
    PROVE  CallInv'
  <1>1. CallOK(Outward(calls[c], calls[c].result), c, app, kept)
    BY LayerTypes, PlainOutward DEF Pass
  <1> QED BY <1>1, ReplacedOnly DEF Pass

\* A transaction is opened, or cannot be.
LEMMA BeginTransactionStep ==
    ASSUME CallInv, NEW c \in Callers, NEW fails \in BOOLEAN, BeginTransaction(c, fails)
    PROVE  CallInv'
  <1>1. calls[c].at > 0 /\ calls[c].inward /\ Layer(c) = "transaction"
    BY DEF BeginTransaction, Enters, At
  <1>2. CASE fails
    BY <1>1, <1>2, RefusedCall, ReplacedOnly DEF BeginTransaction
  <1>3. CASE ~fails
    <2>1. PICK call : call = calls[c]
      OBVIOUS
    <2>2. call \in Calls(app) /\ call.attempt \in Nat /\ call.inward = TRUE
      BY <1>1, <2>1, LayerTypes DEF Calls
    <2>3. CallOK([Inward(calls[c]) EXCEPT !.effects = {}, !.attempt = calls[c].attempt, !.inward = TRUE], c, app, kept)
      BY <1>1, <2>1, <2>2, InwardStep
    <2>4. [[call EXCEPT !.at = @ + 1] EXCEPT !.effects = {}, !.attempt = call.attempt, !.inward = TRUE]
            = [[call EXCEPT !.at = @ + 1] EXCEPT !.effects = {}]
      BY <2>2 DEF Calls
    <2>5. CallOK([Inward(calls[c]) EXCEPT !.effects = {}], c, app, kept)
      BY <2>1, <2>3, <2>4 DEF Inward
    <2> QED BY <1>3, <2>5, ReplacedOnly DEF BeginTransaction
  <1> QED BY <1>2, <1>3

\* The target runs.
LEMMA RunTargetStep ==
    ASSUME CallInv, NEW c \in Callers, NEW result \in {"ok", "error", "panic"}, RunTarget(c, result)
    PROVE  CallInv'
  <1>1. calls[c].at > 0 /\ calls[c].inward /\ Layer(c) = "target"
    BY DEF RunTarget, Enters, At
  <1>2. PICK call : call = calls[c]
    OBVIOUS
  <1>3. call \in Calls(app) /\ call.number \in Nat /\ call.attempt \in Nat /\ call.effects \subseteq Values
          /\ CallOK(call, c, app, kept)
    BY <1>2, LayerTypes
  <1>4. PICK made : made = [by |-> c, number |-> call.number, attempt |-> call.attempt, ok |-> result = "ok"]
    OBVIOUS
  <1>5. made \in Values /\ (result = "ok" => made.ok)
    BY <1>3, <1>4 DEF Values
  <1>6. call.at \in 1..Len(call.layers) /\ Len(call.layers) \in Nat /\ IsCall(call.layers)
    BY <1>1, <1>2, <1>3, InLayer
  <1>7. call.at = Len(call.layers)
    BY <1>1, <1>2, <1>6, CallOrder DEF Layer
  <1>8. c \in Authorized \/ "authorization" \notin Range(call.layers)
    BY <1>1, <1>2, GuardHolds
  <1>9. ASSUME NEW i \in 1..Len(call.layers), call.layers[i] = "transaction"
        PROVE  call.effects \cup {made} = {made} /\ ~(call.at <= i)
    <2>1. i # Len(call.layers)
      BY <1>6, <1>9, CallOrder
    <2>2. call.at > i
      BY <1>6, <1>7, <2>1
    <2>3. call.effects = {}
      BY <1>3, <1>9, <2>2 DEF CallOK, Attempted
    <2> QED BY <1>6, <2>2, <2>3
  <1>10. CallOK([Outward(calls[c], result) EXCEPT !.value = made, !.effects = call.effects \cup {made}], c, app, kept)
    <2>1. result \in Results
      BY DEF Results
    <2>2. call.effects \cup {made} \in SUBSET Values
      BY <1>3, <1>5
    <2> QED BY <1>1, <1>2, <1>3, <1>5, <1>8, <1>9, <2>1, <2>2, OutwardStep
  <1>11. [Outward(calls[c], result) EXCEPT !.value = made, !.effects = call.effects \cup {made}]
           = [Outward(calls[c], result) EXCEPT !.value = made, !.effects = @ \cup {made}]
    <2>1. [[call EXCEPT !.at = @ - 1, !.inward = FALSE, !.result = result] EXCEPT !.value = made, !.effects = call.effects \cup {made}]
            = [[call EXCEPT !.at = @ - 1, !.inward = FALSE, !.result = result] EXCEPT !.value = made, !.effects = @ \cup {made}]
      BY <1>3 DEF Calls
    <2> QED BY <1>2, <2>1 DEF Outward
  <1>12. CallOK([Outward(calls[c], result) EXCEPT !.value = made, !.effects = @ \cup {made}], c, app, kept)
    BY <1>10, <1>11
  <1>13. Updated(c, [Outward(calls[c], result) EXCEPT !.value = made, !.effects = @ \cup {made}]) /\ UNCHANGED <<cache, kept>>
    BY <1>2, <1>4 DEF RunTarget
  <1> QED BY <1>12, <1>13, ReplacedOnly

\* A transaction is committed or rolled back: only effects of one successful attempt are committed.
LEMMA EndTransactionStep ==
    ASSUME CallInv, NEW c \in Callers, NEW commits \in BOOLEAN, EndTransaction(c, commits)
    PROVE  CallInv'
  <1>1. calls[c].at > 0 /\ ~calls[c].inward /\ Layer(c) = "transaction"
    BY DEF EndTransaction, Leaves, At
  <1>2. PICK call : call = calls[c]
    OBVIOUS
  <1>3. call \in Calls(app) /\ call.value \in Values /\ call.result \in Results /\ call.effects \subseteq Values
          /\ CallOK(call, c, app, kept)
    BY <1>2, LayerTypes
  <1>4. call.at \in 1..Len(call.layers) /\ Len(call.layers) \in Nat /\ IsCall(call.layers)
    BY <1>1, <1>2, <1>3, InLayer
  <1>5. PICK r : r = IF call.result = "ok" /\ ~commits THEN "error" ELSE call.result
    OBVIOUS
  <1>6. r \in Results /\ (r = "ok" => commits /\ call.result = "ok")
    BY <1>3, <1>5 DEF Results
  <1>7. call.result = "ok" => call.effects = {call.value} /\ call.value.ok
    BY <1>1, <1>2, <1>3, <1>4 DEF CallOK, Attempted, Succeeded, Layer
  <1>8. kept' = (IF commits THEN kept \cup call.effects ELSE kept) /\ (commits => call.result = "ok") /\ cache' = cache
          /\ Updated(c, [Outward(call, r) EXCEPT !.effects = {}])
    BY <1>2, <1>5 DEF EndTransaction
  <1>9. kept \subseteq kept' /\ kept' \subseteq Values /\ \A e \in kept' : e.ok
    <2>1. kept \subseteq Values /\ \A e \in kept : e.ok
      BY DEF CallInv, OnlySuccessIsKept
    <2> QED BY <1>3, <1>7, <1>8, <2>1
  <1>10. OnlySuccessIsKept'
    <2>1. app' = app
      BY <1>8 DEF Updated, command
    <2> QED BY <1>8, <1>9, <2>1 DEF CallInv, OnlySuccessIsKept
  <1>11. c \notin Authorized /\ "authorization" \in Range(call.layers) => call.value = NoValue
    BY <1>1, <1>2, GuardHolds
  <1>12. ASSUME NEW i \in 1..Len(call.layers), call.layers[i] = "transaction", r = "ok"
         PROVE  ~(call.at > i) /\ call.value \in kept'
    <2>1. i = call.at
      BY <1>1, <1>2, <1>4, <1>12, CallOrder DEF Layer
    <2>2. call.value \in kept'
      BY <1>6, <1>7, <1>8, <1>12
    <2> QED BY <1>4, <2>1, <2>2
  <1>13. CallOK([Outward(calls[c], r) EXCEPT !.value = call.value, !.effects = {}], c, app, kept')
    <2>1. CallOK(call, c, app, kept')
      BY <1>3, <1>9, CommittedGrows
    <2>2. r = "ok" => call.value.ok
      BY <1>6, <1>7
    <2> QED BY <1>1, <1>2, <1>3, <1>6, <1>11, <1>12, <2>1, <2>2, OutwardStep
  <1>14. CallOK([Outward(call, r) EXCEPT !.effects = {}], c, app, kept')
    <2>1. [[call EXCEPT !.at = @ - 1, !.inward = FALSE, !.result = r] EXCEPT !.value = call.value, !.effects = {}]
            = [[call EXCEPT !.at = @ - 1, !.inward = FALSE, !.result = r] EXCEPT !.effects = {}]
      BY <1>3 DEF Calls
    <2> QED BY <1>2, <1>13, <2>1 DEF Outward
  <1>15. cache' \in Values
    BY <1>8 DEF CallInv
  <1> QED BY <1>8, <1>9, <1>10, <1>14, <1>15, ReplacedCall

\* The cache keeps a result that succeeded and was committed.
LEMMA KeepStep ==
    ASSUME CallInv, NEW c \in Callers, NEW fails \in BOOLEAN, Keep(c, fails)
    PROVE  CallInv'
  <1>1. calls[c].at > 0 /\ ~calls[c].inward /\ Layer(c) = "cache"
    BY DEF Keep, Leaves, At
  <1>2. PICK call : call = calls[c]
    OBVIOUS
  <1>3. call \in Calls(app) /\ call.value \in Values /\ call.result \in Results /\ CallOK(call, c, app, kept)
    BY <1>2, LayerTypes
  <1>4. call.at \in 1..Len(call.layers) /\ Len(call.layers) \in Nat /\ IsCall(call.layers)
    BY <1>1, <1>2, <1>3, InLayer
  <1>5. PICK r : r = IF fails THEN "error" ELSE call.result
    OBVIOUS
  <1>6. cache' = (IF call.result = "ok" /\ ~fails THEN call.value ELSE cache) /\ kept' = kept /\ Updated(c, Outward(call, r))
    BY <1>2, <1>5 DEF Keep
  <1>7. CallOK(Outward(call, r), c, app, kept)
    <2>1. r \in Results /\ (r = "ok" => call.result = "ok")
      BY <1>3, <1>5 DEF Results
    <2> QED BY <1>1, <1>2, <2>1, PlainOutward
  <1>8. call.result = "ok" => call.value.ok /\ (CachedCommit(app) => call.value \in kept)
    <2> SUFFICES ASSUME call.result = "ok"
                 PROVE  call.value.ok /\ (CachedCommit(app) => call.value \in kept)
      OBVIOUS
    <2>1. call.value.ok
      BY <1>1, <1>2, <1>3 DEF CallOK, Succeeded
    <2>2. ASSUME CachedCommit(app) PROVE call.value \in kept
      <3>1. call.layers \in Seq(LayerNames)
        BY <1>3 DEF Calls
      <3>2. "cache" \in Range(call.layers)
        BY <1>1, <1>2, <1>4, <3>1 DEF Layer, Range
      <3>3. PICK m \in Callable(app) : call.layers = m.layers
        BY <1>1, <1>2, <1>3, InLayer
      <3>4. "transaction" \in Range(call.layers)
        BY <2>2, <3>2, <3>3 DEF CachedCommit
      <3>5. PICK i \in 1..Len(call.layers) : call.layers[i] = "transaction"
        BY <3>1, <3>4 DEF Range
      <3>6. call.at < i
        BY <1>1, <1>2, <1>4, <3>5, CallOrder DEF Layer
      <3> QED BY <1>1, <1>2, <1>3, <2>2, <3>5, <3>6 DEF CallOK, Succeeded
    <2> QED BY <2>1, <2>2
  <1>9. app' = app
    BY <1>6 DEF Updated, command
  <1>10. cache' \in Values /\ OnlySuccessIsKept'
    <2>1. CachedCommit(app') <=> CachedCommit(app)
      BY <1>9
    <2>2. CASE call.result = "ok" /\ ~fails
      BY <1>3, <1>6, <1>8, <1>9, <2>2 DEF CallInv, OnlySuccessIsKept
    <2>3. CASE ~(call.result = "ok" /\ ~fails)
      BY <1>6, <1>9, <2>3 DEF CallInv, OnlySuccessIsKept
    <2> QED BY <2>2, <2>3
  <1> QED BY <1>6, <1>7, <1>10, ReplacedCall DEF CallInv

\* The caller has its answer.
LEMMA AnswerStep ==
    ASSUME CallInv, NEW c \in Callers, Answer(c)
    PROVE  CallInv'
  BY LayerTypes, NoCallOK, ReplacedOnly DEF Answer

\* No caller has called.
LEMMA CallInit == ASSUME AppInit PROVE CallInv
  <1>1. \A c \in Callers : calls[c] = NoCall
    BY DEF AppInit
  <1>2. NoCall \in Calls(app) /\ NoValue \in Values
    BY NoCallType
  <1>3. ASSUME NEW c \in Callers PROVE CallOK(NoCall, c, app, kept)
    <2>1. PICK call : call = NoCall
      OBVIOUS
    <2>2. call \in Calls(app) /\ call.layers = <<>> /\ call.at = 0 /\ call.result = "none" /\ Len(call.layers) = 0
      BY <2>1, NoCallType DEF None
    <2>3. OnItsWay(call, app) /\ Guarded(call, c) /\ Attempted(call) /\ Succeeded(call, app, kept)
      BY <2>2 DEF OnItsWay, Guarded, Attempted, Succeeded
    <2> QED BY <2>1, <2>2, <2>3 DEF CallOK
  <1>4. OnlySuccessIsKept
    BY DEF AppInit, OnlySuccessIsKept
  <1> QED BY <1>1, <1>2, <1>3, <1>4 DEF AppInit, CallInv

\* Steps that are not of a call.
OwnStep ==
    \/ Render \/ (\E code \in {1, 2} : InvalidCommand(code))
    \/ (\E mode \in {"run", "check"}, factory \in BOOLEAN, overrides \in SUBSET Overridable(app) : Command(mode, factory, overrides))
    \/ (\E withCleanup \in BOOLEAN : Execute(withCleanup))
    \/ StatementFails
    \/ (\E ok \in BOOLEAN : StartHook(ok))
    \/ Interrupt \/ Expire \/ CloseScheduler
    \/ (\E error \in BOOLEAN : StopHook(error))
    \/ CloseExecutor
    \/ (\E error \in BOOLEAN : Release(error))
    \/ (\E t \in DOMAIN app.tasks : Admit(t) \/ Submit(t) \/ RunTask(t) \/ EndTask(t))
    \/ (\E j \in DOMAIN app.jobs : RunJob(j) \/ EndJob(j))

\* The steps of the command, of tasks and of jobs leave the calls alone.
LEMMA OwnStepFrame ==
    ASSUME OwnStep \/ UNCHANGED appVars
    PROVE  UNCHANGED <<app, calls, cache, kept>>
  <1>1. CASE UNCHANGED appVars
    BY <1>1 DEF appVars, command, requests
  <1>2. CASE OwnStep
    BY <1>2 DEF OwnStep, Render, InvalidCommand, Command, Execute, StatementFails, StartHook, Interrupt, Expire, CloseScheduler,
                Close, StopHook, CloseExecutor, Release, Admit, Submit, RunTask, EndTask, SetTask, RunJob, EndJob, SetJob,
                command, requests
  <1> QED BY <1>1, <1>2

CallStep(c) ==
    \/ \E m \in Callable(app) : Begin(c, m)
    \/ Observe(c) \/ Authorize(c) \/ BeginAttempts(c) \/ Retry(c) \/ Pass(c)
    \/ \E layer \in {"negotiation", "binding", "form", "validation"}, accepted \in BOOLEAN : Decode(c, layer, accepted)
    \/ \E b \in BOOLEAN : Intercept(c, b) \/ LookUp(c, b) \/ BeginTransaction(c, b) \/ EndTransaction(c, b) \/ Keep(c, b)
    \/ \E result \in {"ok", "error", "panic"} : RunTarget(c, result)
    \/ Answer(c)

\* Every step is one of the application itself, one of a call, or none.
LEMMA StepKinds == AppNext => OwnStep \/ (\E c \in Callers : CallStep(c)) \/ UNCHANGED appVars
  BY Zenon DEF AppNext, OwnStep, CallStep, Done

\* Every step of a call keeps the invariant of the calls.
LEMMA CallStepInv ==
    ASSUME CallInv, NEW c \in Callers, CallStep(c)
    PROVE  CallInv'
  <1>1. ASSUME NEW m \in Callable(app), Begin(c, m) PROVE CallInv'
    BY <1>1, BeginStep
  <1>2. CASE Observe(c) \/ Authorize(c)
    BY <1>2, InwardStep1
  <1>3. CASE BeginAttempts(c) \/ Retry(c)
    BY <1>3, AttemptStep
  <1>4. CASE Pass(c)
    BY <1>4, PassStep
  <1>5. ASSUME NEW layer, NEW accepted \in BOOLEAN, Decode(c, layer, accepted) PROVE CallInv'
    BY <1>5, DecodeStep
  <1>6. ASSUME NEW b \in BOOLEAN, Intercept(c, b) \/ LookUp(c, b) \/ BeginTransaction(c, b) \/ EndTransaction(c, b) \/ Keep(c, b)
        PROVE  CallInv'
    BY <1>6, InterceptStep, LookUpStep, BeginTransactionStep, EndTransactionStep, KeepStep
  <1>7. ASSUME NEW result \in {"ok", "error", "panic"}, RunTarget(c, result) PROVE CallInv'
    BY <1>7, RunTargetStep
  <1>8. CASE Answer(c)
    BY <1>8, AnswerStep
  <1> QED BY <1>1, <1>2, <1>3, <1>4, <1>5, <1>6, <1>7, <1>8 DEF CallStep

\* Every step keeps the invariant of the calls.
LEMMA CallInvStep == CallInv /\ [AppNext]_appVars => CallInv'
  <1> SUFFICES ASSUME CallInv, [AppNext]_appVars PROVE CallInv'
    OBVIOUS
  <1>1. CASE OwnStep \/ UNCHANGED appVars
    BY <1>1, OwnStepFrame, CallsAlone
  <1>2. CASE \E c \in Callers : CallStep(c)
    BY <1>2, CallStepInv
  <1> QED BY <1>1, <1>2, StepKinds

\* However many callers there are and however their calls interleave: each call is in a layer of what it calls, a caller
\* that does not satisfy the policy is no further than the guard, and what leaves a transaction with success was
\* committed (policy_render.go:502-595, http_render.go:336).
THEOREM CallsGoThroughLayers == AppSpec => []CallInv
  BY CallInit, CallInvStep, PTL DEF AppSpec

\* The invariant of the calls says what the layers mean together.
LEMMA CallInvNests == CallInv => LayersNest
  <1> SUFFICES ASSUME CallInv PROVE LayersNest
    OBVIOUS
  <1>1. ASSUME NEW c \in Callers \ Authorized, "authorization" \in Range(calls[c].layers) PROVE calls[c].value = NoValue
    <2>1. calls[c].layers \in Seq(LayerNames) /\ CallOK(calls[c], c, app, kept)
      BY LayerTypes
    <2>2. PICK i \in 1..Len(calls[c].layers) : calls[c].layers[i] = "authorization"
      BY <1>1, <2>1 DEF Range
    <2> QED BY <1>1, <2>1, <2>2 DEF CallOK, Guarded
  <1> QED BY <1>1 DEF LayersNest, GuardIsFirst, CallInv

\* The decorators of methods and routes nest as they should, for every application, any callers and any number of
\* attempts: only successful and committed results are kept, and the guard is outside of the cache.
THEOREM LayersAlwaysNest == AppSpec => []LayersNest
  BY CallsGoThroughLayers, CallInvNests, PTL

-----------------------------------------------------------------------------
(* Beans and their cleanups. *)

\* What a list of the coordinator may hold.
Kept(a) == Ids(a) \cup {None, "executor"}

\* The place of the program at which a cleanup is registered.
Place(t, x) == CHOOSE k \in 1..Len(t) : t[k].op = "register" /\ t[k].on = x
Registered(t, n, x) ==
    Place(t, x) \in 1..Len(t) /\ Place(t, x) < n /\ t[Place(t, x)].op = "register" /\ t[Place(t, x)].on = x

\* When the program is at statement n, cleanups c are held in the order of the program and the cleanups r, all of later
\* places, were called in the reverse order.
Stacked(a, t, n, c, r) ==
    /\ c \in Seq(Kept(a)) /\ r \in Seq(Kept(a))
    /\ \A i \in 1..Len(c) : Registered(t, n, c[i])
    /\ \A i \in 1..Len(r) : Registered(t, n, r[i])
    /\ \A i, j \in 1..Len(c) : i < j => Place(t, c[i]) < Place(t, c[j])
    /\ \A i, j \in 1..Len(r) : i < j => Place(t, r[j]) < Place(t, r[i])
    /\ \A i \in 1..Len(c), j \in 1..Len(r) : Place(t, c[i]) < Place(t, r[j])

\* A cleanup is registered at one place of the program.
LEMMA PlaceOf ==
    ASSUME NEW a, NEW t, NEW D, NEW e, WellBuilt(a, t, D, e), NEW k \in 1..Len(t), t[k].op = "register"
    PROVE  Place(t, t[k].on) = k /\ (k \in 1..Len(t))
  <1>0. PICK n \in Nat : n = Len(t)
    <2>1. t \in Seq(StatementsOf(a))
      BY DEF WellBuilt
    <2> QED BY <2>1
  <1>1. PICK p : p = Place(t, t[k].on)
    OBVIOUS
  <1>2. p \in 1..n /\ t[p].op = "register" /\ t[p].on = t[k].on
    BY <1>0, <1>1 DEF Place
  <1>3. CASE t[k].on = "executor"
    <2>1. p <= k /\ k <= p
      BY <1>0, <1>2, <1>3 DEF WellBuilt, ExecutorLast
    <2> QED BY <1>0, <1>1, <1>2, <2>1
  <1>4. CASE t[k].on # "executor"
    <2>1. k > 1 /\ t[k - 1].op = "construct" /\ t[k - 1].on = t[k].on
      BY <1>4 DEF WellBuilt, RegistersOwn
    <2>2. p > 1 /\ t[p - 1].op = "construct" /\ t[p - 1].on = t[p].on
      BY <1>0, <1>2, <1>4 DEF WellBuilt, RegistersOwn
    <2>3. k - 1 \in 1..n /\ p - 1 \in 1..n
      BY <1>0, <1>2, <2>1, <2>2
    <2>4. Defines(t[k - 1]) /\ Defines(t[p - 1])
      BY <2>1, <2>2 DEF Defines
    <2>5. k - 1 = p - 1
      BY <1>0, <1>2, <2>1, <2>2, <2>3, <2>4 DEF WellBuilt, DefinedOnce
    <2>6. k \in Nat /\ p \in Nat
      BY <1>0, <1>2
    <2> QED BY <1>1, <2>5, <2>6
  <1> QED BY <1>3, <1>4

\* The program goes on.
LEMMA StackedLater ==
    ASSUME NEW a, NEW t, NEW n \in Nat, NEW c, NEW r, Stacked(a, t, n, c, r)
    PROVE  Stacked(a, t, n + 1, c, r)
  <1>1. ASSUME NEW x, Registered(t, n, x) PROVE Registered(t, n + 1, x)
    <2>1. PICK p : p = Place(t, x)
      OBVIOUS
    <2>2. p \in 1..Len(t) /\ p < n /\ p \in Int
      BY <1>1, <2>1 DEF Registered
    <2>3. p < n + 1
      BY <2>2
    <2> QED BY <1>1, <2>1, <2>3 DEF Registered
  <1> QED BY <1>1 DEF Stacked

\* A cleanup is registered, before any was called.
LEMMA StackedPush ==
    ASSUME NEW a, NEW t, NEW D, NEW e, WellBuilt(a, t, D, e), NEW n \in 1..Len(t), NEW c, Stacked(a, t, n, c, <<>>),
           t[n].op = "register"
    PROVE  Stacked(a, t, n + 1, Append(c, t[n].on), <<>>)
  <1>0. PICK K : K = Kept(a)
    OBVIOUS
  <1>1. t \in Seq(StatementsOf(a)) /\ n \in Nat
    BY DEF WellBuilt
  <1>2. t[n] \in StatementsOf(a)
    BY <1>1
  <1>3. PICK x : x = t[n].on
    OBVIOUS
  <1>4. x \in K
    BY <1>0, <1>2, <1>3 DEF StatementsOf, Kept
  <1>5. PICK m \in Nat : m = Len(c)
    BY DEF Stacked
  <1>6. Stacked(a, t, n + 1, c, <<>>)
    BY <1>1, StackedLater
  <1>7. c \in Seq(K)
    BY <1>0, <1>6 DEF Stacked
  <1>8. PICK d : d = Append(c, x)
    OBVIOUS
  <1>9. d \in Seq(K) /\ Len(d) = m + 1 /\ d[m + 1] = x /\ \A i \in 1..m : d[i] = c[i]
    BY <1>4, <1>5, <1>7, <1>8
  <1>10. Place(t, x) = n
    BY <1>3, PlaceOf
  <1>11. Registered(t, n + 1, x)
    <2>1. n < n + 1
      BY <1>1
    <2> QED BY <1>3, <1>10, <2>1 DEF Registered
  <1>12. \A i \in 1..m : Registered(t, n, c[i]) /\ Registered(t, n + 1, c[i])
    BY <1>5, <1>6 DEF Stacked
  <1>13. \A i \in 1..m : Place(t, d[i]) < n
    BY <1>9, <1>12 DEF Registered
  <1>14. \A i \in 1..(m + 1) : i \in 1..m \/ i = m + 1
    OBVIOUS
  <1>15. \A i \in 1..Len(d) : Registered(t, n + 1, d[i])
    BY <1>9, <1>11, <1>12, <1>14
  <1>16. ASSUME NEW i \in 1..Len(d), NEW j \in 1..Len(d), i < j PROVE Place(t, d[i]) < Place(t, d[j])
    <2>1. i \in 1..m
      BY <1>9, <1>16
    <2>2. CASE j \in 1..m
      BY <1>5, <1>6, <1>9, <1>16, <2>1, <2>2 DEF Stacked
    <2>3. CASE j = m + 1
      BY <1>9, <1>10, <1>13, <2>1, <2>3
    <2> QED BY <1>9, <1>14, <2>2, <2>3
  <1>17. <<>> \in Seq(K) /\ Len(<<>>) = 0
    OBVIOUS
  <1> HIDE DEF Place, Registered
  <1>18. Stacked(a, t, n + 1, d, <<>>)
    BY <1>0, <1>9, <1>15, <1>16, <1>17 DEF Stacked
  <1> QED BY <1>3, <1>8, <1>18

\* The last cleanup is called. Only the one of a bean is recorded.
LEMMA StackedPop ==
    ASSUME NEW a, NEW t, NEW n, NEW c, NEW r, Stacked(a, t, n, c, r), c # <<>>
    PROVE  /\ Stacked(a, t, n, Front(c), r)
           /\ Stacked(a, t, n, Front(c), Append(r, Last(c)))
  <1>0. PICK K : K = Kept(a)
    OBVIOUS
  <1>1. PICK m \in Nat : m = Len(c)
    BY DEF Stacked
  <1>2. c \in Seq(K) /\ r \in Seq(K)
    BY <1>0 DEF Stacked
  <1>3. m > 0
    BY <1>1, <1>2
  <1>4. PICK d : d = Front(c)
    OBVIOUS
  <1>5. PICK x : x = Last(c)
    OBVIOUS
  <1>6. d \in Seq(K) /\ Len(d) = m - 1 /\ \A i \in 1..(m - 1) : d[i] = c[i]
    BY <1>1, <1>2, <1>3, <1>4 DEF Front
  <1>7. x = c[m] /\ x \in K /\ m \in 1..m
    BY <1>1, <1>2, <1>3, <1>5 DEF Last
  <1>8. \A i \in 1..(m - 1) : i \in 1..m /\ i < m
    OBVIOUS
  <1>9. PICK l \in Nat : l = Len(r)
    BY <1>2
  <1>10. PICK s : s = Append(r, x)
    OBVIOUS
  <1>11. s \in Seq(K) /\ Len(s) = l + 1 /\ s[l + 1] = x /\ \A i \in 1..l : s[i] = r[i]
    BY <1>2, <1>7, <1>9, <1>10
  <1>12. \A i \in 1..(l + 1) : i \in 1..l \/ i = l + 1
    OBVIOUS
  <1> HIDE DEF Place, Registered
  <1>13. /\ \A i \in 1..Len(d) : Registered(t, n, d[i])
         /\ \A i, j \in 1..Len(d) : i < j => Place(t, d[i]) < Place(t, d[j])
         /\ \A i \in 1..Len(d), j \in 1..Len(r) : Place(t, d[i]) < Place(t, r[j])
         /\ \A i \in 1..Len(d) : Place(t, d[i]) < Place(t, x)
    BY <1>1, <1>6, <1>7, <1>8 DEF Stacked
  <1>14. Stacked(a, t, n, d, r)
    BY <1>0, <1>2, <1>6, <1>13 DEF Stacked
  <1>15. \A i \in 1..Len(s) : Registered(t, n, s[i])
    BY <1>1, <1>7, <1>9, <1>11, <1>12 DEF Stacked
  <1>16. \A j \in 1..l : Place(t, x) < Place(t, r[j])
    BY <1>1, <1>7, <1>9 DEF Stacked
  <1>17. ASSUME NEW i \in 1..Len(s), NEW j \in 1..Len(s), i < j PROVE Place(t, s[j]) < Place(t, s[i])
    <2>1. i \in 1..l /\ s[i] = r[i]
      BY <1>11, <1>17
    <2>2. CASE j \in 1..l
      BY <1>9, <1>11, <1>17, <2>1, <2>2 DEF Stacked
    <2>3. CASE j = l + 1
      BY <1>11, <1>16, <2>1, <2>3
    <2> QED BY <1>11, <1>12, <2>2, <2>3
  <1>18. \A i \in 1..Len(d), j \in 1..Len(s) : Place(t, d[i]) < Place(t, s[j])
    BY <1>9, <1>11, <1>12, <1>13
  <1>19. Stacked(a, t, n, d, s)
    BY <1>0, <1>6, <1>11, <1>13, <1>15, <1>17, <1>18 DEF Stacked
  <1> QED BY <1>4, <1>5, <1>10, <1>14, <1>19

-----------------------------------------------------------------------------
Phases == {"render", "command", "construct", "start", "ready", "stop", "release", "exit"}
OptionsOf(a) == [mode : {None, "run", "check"}, factory : BOOLEAN, overrides : SUBSET Overridable(a)]

Holds(s, x) == \E i \in 1..Len(s) : s[i] = x

\* Statement at of t is next, and the coordinator holds what the statements before it registered and it did not release.
Progress(t) ==
    /\ at \in 1..(Len(t) + 1)
    /\ pc = "construct" => at <= Len(t)
    /\ pc \in {"start", "ready", "stop"} => at = Len(t) + 1
    /\ Stacked(app, t, at, cleanups, released)
    /\ pc \notin {"release", "exit"} => released = <<>>

\* What was constructed with a cleanup was released, or will be: the coordinator holds it, or refused it, or is given it next.
Accounted(t) ==
    /\ \A x \in owed : \E k \in 1..Len(t) : k < at /\ t[k].op = "construct" /\ t[k].on = x
    /\ \A x \in owed : \/ Holds(released, x) \/ Holds(cleanups, x) \/ x \in lost
                       \/ pc = "construct" /\ t[at].op = "register" /\ t[at].on = x
    /\ pc = "exit" /\ (options.mode = "check" => options.factory) => owed = {} \/ cleanups = <<>>

\* A variable keeps its value until the bean is released.
Present(t) ==
    /\ \A k \in 1..Len(t) : k < at /\ Defines(t[k]) => t[k].on \in defined \/ Holds(released, t[k].on)
    /\ pc \notin {"release", "exit"} =>
         \A k \in 1..Len(t) : k < at /\ t[k].op = "register" /\ t[k].on = "executor" => Holds(cleanups, "executor")

BeanInv ==
    /\ app \in Apps /\ pc \in Phases /\ options \in OptionsOf(app)
    /\ pc = "construct" => options.mode \in {"run", "check"}
    /\ pc \in {"render", "command"} \/ RenderFaults(app) # {} => at = 1 /\ owed = {} /\ cleanups = <<>> /\ released = <<>>
    /\ RenderFaults(app) # {} => pc \in {"render", "exit"}
    /\ RenderFaults(app) = {} => Progress(Assembly(app)) /\ Accounted(Assembly(app)) /\ Present(Assembly(app))

\* The program of an application that is rendered is well built.
LEMMA ProgramOf ==
    ASSUME BeanInv, RenderFaults(app) = {}
    PROVE  WellBuilt(app, Assembly(app), Ids(app), app.tasks # <<>>)
  <1>1. Listed(app) /\ Ordered(app)
    BY AppsAreCompiled DEF BeanInv
  <1> QED BY <1>1, AssemblyIsWellBuilt

\* Nothing is constructed at first.
LEMMA BeanInit == ASSUME AppInit PROVE BeanInv
  <1>1. PICK t : t = Assembly(app)
    OBVIOUS
  <1>2. /\ app \in Apps /\ pc = "render" /\ at = 1 /\ options = NoOptions /\ owed = {} /\ cleanups = <<>> /\ released = <<>>
    BY DEF AppInit
  <1>3. options \in OptionsOf(app)
    BY <1>2 DEF NoOptions, OptionsOf
  <1>4. ASSUME RenderFaults(app) = {} PROVE Progress(t) /\ Accounted(t) /\ Present(t)
    <2>1. WellBuilt(app, t, Ids(app), app.tasks # <<>>)
      BY <1>1, <1>2, <1>4, AssemblyIsWellBuilt, AppsAreCompiled
    <2>2. PICK n \in Nat : n = Len(t)
      BY <2>1 DEF WellBuilt
    <2>3. 1 \in 1..(n + 1) /\ \A k \in 1..n : ~(k < 1)
      OBVIOUS
    <2>4. Stacked(app, t, 1, <<>>, <<>>)
      BY DEF Stacked
    <2>5. Progress(t)
      BY <1>2, <2>2, <2>3, <2>4 DEF Progress
    <2>6. Accounted(t)
      BY <1>2 DEF Accounted
    <2>7. Present(t)
      BY <1>2, <2>2, <2>3 DEF Present
    <2> QED BY <2>5, <2>6, <2>7
  <1> QED BY <1>1, <1>2, <1>3, <1>4 DEF BeanInv, Phases

\* The invariant of the beans is about them and the command.
LEMMA BeanFrame ==
    ASSUME BeanInv, UNCHANGED <<app, pc, at, options, beans>>
    PROVE  BeanInv'
  BY DEF BeanInv, Progress, Accounted, Present, beans

\* The application is rendered or refused.
LEMMA RenderStep == ASSUME BeanInv, Render PROVE BeanInv'
  <1>1. /\ UNCHANGED <<app, at, options, defined, owed, cleanups, released, lost>>
        /\ pc = "render" /\ pc' = (IF RenderFaults(app) = {} THEN "command" ELSE "exit")
    BY DEF Render, beans
  <1>2. CASE RenderFaults(app) # {}
    BY <1>1, <1>2 DEF BeanInv, Phases
  <1>3. CASE RenderFaults(app) = {}
    <2>1. PICK t : t = Assembly(app)
      OBVIOUS
    <2>2. Progress(t) /\ Accounted(t) /\ Present(t)
      BY <1>3, <2>1 DEF BeanInv
    <2>3. Progress(t)' /\ Accounted(t)' /\ Present(t)'
      BY <1>1, <1>3, <2>2 DEF Progress, Accounted, Present
    <2>4. t = Assembly(app)'
      BY <1>1, <2>1
    <2> QED BY <1>1, <1>3, <2>3, <2>4 DEF BeanInv, Phases
  <1> QED BY <1>2, <1>3

\* The command ends before the construction.
LEMMA InvalidCommandStep == ASSUME BeanInv, NEW code, InvalidCommand(code) PROVE BeanInv'
  <1>1. /\ UNCHANGED <<app, at, options, defined, owed, cleanups, released, lost>>
        /\ pc = "command" /\ pc' = "exit"
    BY DEF InvalidCommand, Ends, beans
  <1>2. RenderFaults(app) = {} /\ owed = {}
    BY <1>1 DEF BeanInv
  <1>3. PICK t : t = Assembly(app)
    OBVIOUS
  <1>4. Progress(t) /\ Accounted(t) /\ Present(t)
    BY <1>2, <1>3 DEF BeanInv
  <1>5. Progress(t)' /\ Accounted(t)' /\ Present(t)'
    BY <1>1, <1>2, <1>4 DEF Progress, Accounted, Present
  <1>6. t = Assembly(app)'
    BY <1>1, <1>3
  <1> QED BY <1>1, <1>2, <1>5, <1>6 DEF BeanInv, Phases

\* The construction begins.
LEMMA CommandStep ==
    ASSUME BeanInv, NEW mode \in {"run", "check"}, NEW factory \in BOOLEAN, NEW overrides \in SUBSET Overridable(app),
           Command(mode, factory, overrides)
    PROVE  BeanInv'
  <1>1. /\ UNCHANGED <<app, at, defined, owed, cleanups, released, lost>>
        /\ pc = "command" /\ pc' = "construct"
        /\ options' = [mode |-> mode, factory |-> factory, overrides |-> overrides]
    BY DEF Command, beans
  <1>2. RenderFaults(app) = {} /\ at = 1 /\ owed = {}
    BY <1>1 DEF BeanInv
  <1>3. PICK t : t = Assembly(app)
    OBVIOUS
  <1>4. Progress(t) /\ Accounted(t) /\ Present(t)
    BY <1>2, <1>3 DEF BeanInv
  <1>5. PICK n \in Nat : n = Len(t) /\ n > 0
    BY <1>2, <1>3, ProgramOf DEF WellBuilt
  <1>6. Progress(t)'
    BY <1>1, <1>2, <1>4, <1>5 DEF Progress
  <1>7. Accounted(t)' /\ Present(t)'
    BY <1>1, <1>2, <1>4 DEF Accounted, Present
  <1>8. t = Assembly(app)'
    BY <1>1, <1>3
  <1>9. options' \in OptionsOf(app) /\ options'.mode = mode
    BY <1>1 DEF OptionsOf
  <1> QED BY <1>1, <1>2, <1>6, <1>7, <1>8, <1>9 DEF BeanInv, Phases

\* From the start to the release only the phase changes.
LEMMA PhaseStep ==
    ASSUME BeanInv, UNCHANGED <<app, at, options, beans>>, pc \in {"start", "ready", "stop"},
           pc' \in {"start", "ready", "stop", "release"}
    PROVE  BeanInv'
  <1>1. PICK t : t = Assembly(app)
    OBVIOUS
  <1>2. RenderFaults(app) = {} /\ Progress(t) /\ Accounted(t) /\ Present(t)
    BY <1>1 DEF BeanInv
  <1>3. Progress(t)' /\ Accounted(t)' /\ Present(t)'
    BY <1>2 DEF Progress, Accounted, Present, beans
  <1>4. t = Assembly(app)'
    BY <1>1
  <1> QED BY <1>2, <1>3, <1>4 DEF BeanInv, Phases

\* What a list holds after an element is appended.
LEMMA HoldsAppended ==
    ASSUME NEW S, NEW c \in Seq(S), NEW x \in S
    PROVE  Holds(Append(c, x), x) /\ \A y : Holds(c, y) => Holds(Append(c, x), y)
  <1>1. PICK m \in Nat : m = Len(c)
    OBVIOUS
  <1>2. PICK d : d = Append(c, x)
    OBVIOUS
  <1>3. Len(d) = m + 1 /\ d[m + 1] = x /\ m + 1 \in 1..(m + 1) /\ \A i \in 1..m : i \in 1..(m + 1) /\ d[i] = c[i]
    BY <1>1, <1>2
  <1>4. Holds(d, x)
    BY <1>3 DEF Holds
  <1>5. \A y : Holds(c, y) => Holds(d, y)
    BY <1>1, <1>3 DEF Holds
  <1> QED BY <1>2, <1>4, <1>5

\* What a list holds without its last element.
LEMMA HoldsFront ==
    ASSUME NEW S, NEW c \in Seq(S), c # <<>>
    PROVE  Last(c) \in S /\ Holds(c, Last(c)) /\ \A y : Holds(c, y) <=> Holds(Front(c), y) \/ y = Last(c)
  <1>1. PICK m \in Nat : m = Len(c)
    OBVIOUS
  <1>2. PICK d : d = Front(c)
    OBVIOUS
  <1>3. m > 0 /\ d \in Seq(S) /\ Len(d) = m - 1 /\ \A i \in 1..(m - 1) : d[i] = c[i]
    BY <1>1, <1>2 DEF Front
  <1>4. Last(c) = c[m] /\ Last(c) \in S /\ m \in 1..m /\ \A i \in 1..(m - 1) : i \in 1..m
    BY <1>1, <1>3 DEF Last
  <1>5. \A i \in 1..m : i = m \/ i \in 1..(m - 1)
    OBVIOUS
  <1>6. \A y : Holds(d, y) => Holds(c, y)
    BY <1>1, <1>3, <1>4 DEF Holds
  <1>7. Holds(c, Last(c))
    BY <1>1, <1>4 DEF Holds
  <1>8. \A y : Holds(c, y) => Holds(d, y) \/ y = Last(c)
    BY <1>1, <1>3, <1>4, <1>5 DEF Holds
  <1> QED BY <1>2, <1>4, <1>6, <1>7, <1>8

\* The next statement succeeds.
LEMMA ExecuteStep == ASSUME BeanInv, NEW withCleanup \in BOOLEAN, Execute(withCleanup) PROVE BeanInv'
  <1>1. PICK t : t = Assembly(app)
    OBVIOUS
  <1>2. pc = "construct" /\ RenderFaults(app) = {} /\ Progress(t) /\ Accounted(t) /\ Present(t)
    BY <1>1 DEF BeanInv, Execute
  <1>3. WellBuilt(app, t, Ids(app), app.tasks # <<>>)
    BY <1>1, <1>2, ProgramOf
  <1>4. PICK m \in Nat : m = Len(t)
    BY <1>3 DEF WellBuilt
  <1>5. PICK n : n = at
    OBVIOUS
  <1>6. n \in 1..m /\ n \in Nat /\ released = <<>> /\ Stacked(app, t, n, cleanups, <<>>)
    BY <1>2, <1>4, <1>5 DEF Progress
  <1>7. PICK s : s = t[n]
    OBVIOUS
  <1>8. s.on \in Kept(app)
    <2>1. s \in StatementsOf(app)
      BY <1>3, <1>4, <1>6, <1>7 DEF WellBuilt
    <2> QED BY <2>1 DEF StatementsOf, Kept
  <1>9. cleanups \in Seq(Kept(app))
    BY <1>6 DEF Stacked
  <1>10. /\ withCleanup => s.op = "construct"
         /\ defined' = (IF Defines(s) THEN defined \cup {s.on} ELSE defined)
         /\ owed' = (IF withCleanup THEN owed \cup {s.on} ELSE owed)
         /\ cleanups' = (IF s.op = "register" /\ s.on \in owed \cup {"executor"} THEN Append(cleanups, s.on) ELSE cleanups)
         /\ at' = n + 1 /\ app' = app /\ released' = <<>> /\ lost' = lost
    BY <1>1, <1>5, <1>6, <1>7 DEF Execute, Next_
  <1>11. /\ n < m => pc' = "construct"
         /\ n = m => pc' \in {"start", "stop", "exit"}
         /\ pc' = "exit" => options.mode # "run" /\ ~options.factory
    BY <1>1, <1>4, <1>5, <1>6 DEF Execute, AfterConstruction, Ends
  <1>12. options' \in OptionsOf(app) /\ options'.mode = options.mode /\ options'.factory = options.factory
    <2> DEFINE O == SUBSET Overridable(app)
    <2>1. options \in [mode : {None, "run", "check"}, factory : BOOLEAN, overrides : O]
      BY DEF BeanInv, OptionsOf
    <2>2. {} \in O
      OBVIOUS
    <2>3. options' = options \/ options' = [options EXCEPT !.overrides = {}]
      BY DEF Execute
    <2> HIDE DEF O
    <2>4. /\ options' \in [mode : {None, "run", "check"}, factory : BOOLEAN, overrides : O]
          /\ options'.mode = options.mode /\ options'.factory = options.factory
      BY <2>1, <2>2, <2>3
    <2> QED BY <2>4 DEF OptionsOf, O
  <1>13. options.mode \in {"run", "check"}
    BY <1>2 DEF BeanInv
  <1>14. n < m \/ n = m
    BY <1>6
  <1>15. Progress(t)'
    <2>1. Stacked(app, t, n + 1, cleanups', <<>>)
      <3>1. CASE s.op = "register" /\ s.on \in owed \cup {"executor"}
        BY <1>3, <1>4, <1>6, <1>7, <1>10, <3>1, StackedPush
      <3>2. CASE ~(s.op = "register" /\ s.on \in owed \cup {"executor"})
        BY <1>6, <1>10, <3>2, StackedLater
      <3> QED BY <3>1, <3>2
    <2>2. n + 1 \in 1..(m + 1) /\ (n < m => n + 1 <= m) /\ (n = m => n + 1 = m + 1)
      BY <1>6
    <2>3. pc' = "construct" => n < m
      BY <1>11, <1>14
    <2>4. pc' \in {"start", "ready", "stop"} => n = m
      BY <1>11, <1>14
    <2> QED BY <1>4, <1>10, <2>1, <2>2, <2>3, <2>4 DEF Progress
  <1>16. Accounted(t)'
    <2>1. ASSUME NEW x \in owed' PROVE \E k \in 1..m : k < n + 1 /\ t[k].op = "construct" /\ t[k].on = x
      <3>1. CASE x \in owed
        <4>1. PICK k \in 1..m : k < n /\ t[k].op = "construct" /\ t[k].on = x
          BY <1>2, <1>4, <1>5, <3>1 DEF Accounted
        <4>2. k < n + 1
          BY <1>6, <4>1
        <4> QED BY <4>1, <4>2
      <3>2. CASE x \notin owed
        <4>1. x = s.on /\ s.op = "construct" /\ n < n + 1
          BY <1>6, <1>10, <3>2
        <4> QED BY <1>6, <1>7, <4>1
      <3> QED BY <3>1, <3>2
    <2>2. ASSUME NEW x \in owed'
          PROVE  \/ Holds(cleanups', x) \/ x \in lost
                 \/ pc' = "construct" /\ t[n + 1].op = "register" /\ t[n + 1].on = x
      <3>1. CASE x \in owed
        <4>1. Holds(released, x) \/ Holds(cleanups, x) \/ x \in lost \/ (s.op = "register" /\ s.on = x)
          BY <1>2, <1>5, <1>7, <3>1 DEF Accounted
        <4>2. ~Holds(released, x)
          BY <1>6 DEF Holds
        <4>3. CASE Holds(cleanups, x)
          BY <1>8, <1>9, <1>10, <4>3, HoldsAppended
        <4>4. CASE s.op = "register" /\ s.on = x
          BY <1>8, <1>9, <1>10, <3>1, <4>4, HoldsAppended
        <4> QED BY <4>1, <4>2, <4>3, <4>4
      <3>2. CASE x \notin owed
        <4>1. x = s.on /\ s.op = "construct"
          BY <1>10, <3>2
        <4>2. n + 1 <= m /\ t[n + 1].op = "register" /\ t[n + 1].on = x
          BY <1>3, <1>4, <1>6, <1>7, <4>1 DEF WellBuilt, Paired
        <4>3. n < m
          BY <1>6, <4>2
        <4> QED BY <1>11, <4>2, <4>3
      <3> QED BY <3>1, <3>2
    <2>3. ~(pc' = "exit" /\ (options'.mode = "check" => options'.factory))
      BY <1>11, <1>12, <1>13
    <2> QED BY <1>4, <1>10, <2>1, <2>2, <2>3 DEF Accounted
  <1>17. Present(t)'
    <2>1. ASSUME NEW k \in 1..m, k < n + 1, Defines(t[k]) PROVE t[k].on \in defined'
      <3>1. CASE k < n
        <4>1. t[k].on \in defined \/ Holds(released, t[k].on)
          BY <1>2, <1>4, <1>5, <2>1, <3>1 DEF Present
        <4>2. ~Holds(released, t[k].on)
          BY <1>6 DEF Holds
        <4> QED BY <1>10, <4>1, <4>2
      <3>2. CASE ~(k < n)
        <4>1. k = n
          BY <1>6, <2>1, <3>2
        <4> QED BY <1>7, <1>10, <2>1, <4>1
      <3> QED BY <3>1, <3>2
    <2>2. ASSUME NEW k \in 1..m, k < n + 1, t[k].op = "register", t[k].on = "executor" PROVE Holds(cleanups', "executor")
      <3>1. CASE k < n
        <4>1. Holds(cleanups, "executor")
          BY <1>2, <1>4, <1>5, <2>2, <3>1 DEF Present
        <4> QED BY <1>8, <1>9, <1>10, <4>1, HoldsAppended
      <3>2. CASE ~(k < n)
        <4>1. k = n
          BY <1>6, <2>2, <3>2
        <4> QED BY <1>7, <1>8, <1>9, <1>10, <2>2, <4>1, HoldsAppended
      <3> QED BY <3>1, <3>2
    <2> QED BY <1>4, <1>10, <2>1, <2>2 DEF Present
  <1>18. t = Assembly(app)'
    BY <1>1, <1>10
  <1>19. pc' \in Phases \ {"render", "command"}
    BY <1>11, <1>14 DEF Phases
  <1> QED BY <1>2, <1>10, <1>12, <1>13, <1>15, <1>16, <1>17, <1>18, <1>19 DEF BeanInv

\* The next statement fails. Before the first bean the error is returned past the coordinator.
LEMMA StatementFailsStep == ASSUME BeanInv, StatementFails PROVE BeanInv'
  <1>1. PICK t : t = Assembly(app)
    OBVIOUS
  <1>2. pc = "construct" /\ RenderFaults(app) = {} /\ Progress(t) /\ Accounted(t) /\ Present(t)
    BY <1>1 DEF BeanInv, StatementFails
  <1>3. WellBuilt(app, t, Ids(app), app.tasks # <<>>)
    BY <1>1, <1>2, ProgramOf
  <1>4. PICK m \in Nat : m = Len(t)
    BY <1>3 DEF WellBuilt
  <1>5. at \in 1..m /\ at \in Nat
    BY <1>2, <1>4 DEF Progress
  <1>6. PICK s : s = t[at]
    OBVIOUS
  <1>7. s \in StatementsOf(app)
    BY <1>3, <1>4, <1>5, <1>6 DEF WellBuilt
  <1>8. /\ UNCHANGED <<app, at, options, defined, owed, cleanups, released>>
        /\ lost' = (IF s.op = "register" THEN lost \cup {s.on} ELSE lost)
        /\ s.fails # "never"
        /\ pc' = (IF s.fails = "abort" THEN "release" ELSE "exit")
    BY <1>1, <1>6, Zenon DEF StatementFails, Next_, CanFail, OnError, Ends
  <1>9. pc' = "exit" => owed = {}
    <2> SUFFICES ASSUME pc' = "exit", NEW x \in owed PROVE FALSE
      OBVIOUS
    <2>1. s.fails = "return"
      BY <1>7, <1>8 DEF StatementsOf
    <2>2. PICK k \in 1..m : k < at /\ t[k].op = "construct"
      BY <1>2, <1>4 DEF Accounted
    <2> QED BY <1>3, <1>4, <1>5, <1>6, <2>1, <2>2 DEF WellBuilt, ReturnsFirst
  <1>10. pc' \in {"release", "exit"}
    BY <1>8
  <1>11. Progress(t)'
    BY <1>2, <1>8, <1>10 DEF Progress
  <1>12. Accounted(t)'
    <2>1. \A x \in owed : Holds(released, x) \/ Holds(cleanups, x) \/ x \in lost'
      BY <1>2, <1>6, <1>8 DEF Accounted
    <2> QED BY <1>2, <1>8, <1>9, <2>1 DEF Accounted
  <1>13. Present(t)'
    BY <1>2, <1>8, <1>10 DEF Present
  <1>14. t = Assembly(app)'
    BY <1>1, <1>8
  <1> QED BY <1>2, <1>8, <1>10, <1>11, <1>12, <1>13, <1>14 DEF BeanInv, Phases

\* The coordinator calls the last cleanup, or has called them all.
LEMMA ReleaseStep == ASSUME BeanInv, NEW error, Release(error) PROVE BeanInv'
  <1>1. PICK t : t = Assembly(app)
    OBVIOUS
  <1>2. pc = "release" /\ RenderFaults(app) = {} /\ Progress(t) /\ Accounted(t) /\ Present(t)
    BY <1>1 DEF BeanInv, Release
  <1>3. WellBuilt(app, t, Ids(app), app.tasks # <<>>)
    BY <1>1, <1>2, ProgramOf
  <1>4. UNCHANGED <<app, at, options, owed, lost>>
    BY DEF Release
  <1>5. t = Assembly(app)'
    BY <1>1, <1>4
  <1>6. CASE cleanups = <<>>
    <2>1. pc' = "exit" /\ UNCHANGED <<defined, cleanups, released>>
      BY <1>6 DEF Release, Ends
    <2>2. Progress(t)' /\ Accounted(t)' /\ Present(t)'
      BY <1>2, <1>4, <1>6, <2>1 DEF Progress, Accounted, Present
    <2> QED BY <1>2, <1>4, <1>5, <2>1, <2>2 DEF BeanInv, Phases
  <1>7. CASE cleanups # <<>>
    <2>1. PICK x : x = Last(cleanups)
      OBVIOUS
    <2>2. /\ cleanups' = Front(cleanups) /\ defined' = defined \ {x} /\ pc' = pc
          /\ released' = (IF x = "executor" THEN released ELSE Append(released, x))
      BY <1>7, <2>1 DEF Release
    <2>3. Stacked(app, t, at, cleanups, released)
      BY <1>2 DEF Progress
    <2>4. Stacked(app, t, at, cleanups', released')
      <3>1. Stacked(app, t, at, Front(cleanups), released) /\ Stacked(app, t, at, Front(cleanups), Append(released, x))
        BY <1>7, <2>1, <2>3, StackedPop
      <3>2. cleanups' = Front(cleanups) /\ (released' = released \/ released' = Append(released, x))
        BY <2>2
      <3> QED BY <3>1, <3>2
    <2>5. /\ released \in Seq(Kept(app)) /\ x \in Kept(app)
          /\ \A y : Holds(cleanups, y) <=> Holds(cleanups', y) \/ y = x
      BY <1>7, <2>1, <2>2, <2>3, HoldsFront DEF Stacked
    <2>6. \A y : Holds(released, y) => Holds(released', y)
      BY <2>2, <2>5, HoldsAppended
    <2>7. x # "executor" => Holds(released', x)
      BY <2>2, <2>5, HoldsAppended
    <2>8. \A y : Holds(cleanups, y) => Holds(cleanups', y) \/ y = x
      BY <2>5
    <2>9. Progress(t)'
      BY <1>2, <1>4, <2>2, <2>4 DEF Progress
    <2>10. \A k \in 1..Len(t) : Defines(t[k]) => t[k].on # "executor"
      <3>1. \A k \in 1..Len(t) : Defines(t[k]) => t[k].on \in Ids(app)
        BY <1>3 DEF WellBuilt, DefinesAll
      <3>2. "executor" \notin Ids(app)
        BY <1>2, AppsAreCompiled DEF BeanInv, Ordered, Ids, Range
      <3> QED BY <3>1, <3>2
    <2>11. \A y \in owed : y # "executor"
      <3> SUFFICES ASSUME NEW y \in owed PROVE y # "executor"
        OBVIOUS
      <3>1. PICK k \in 1..Len(t) : t[k].op = "construct" /\ t[k].on = y
        BY <1>2 DEF Accounted
      <3> QED BY <2>10, <3>1 DEF Defines
    <2>12. Accounted(t)'
      <3>1. \A y \in owed : Holds(released', y) \/ Holds(cleanups', y) \/ y \in lost
        BY <1>2, <2>6, <2>7, <2>8, <2>11 DEF Accounted
      <3>2. \A y \in owed : \E k \in 1..Len(t) : k < at /\ t[k].op = "construct" /\ t[k].on = y
        BY <1>2 DEF Accounted
      <3> QED BY <1>2, <1>4, <2>2, <3>1, <3>2 DEF Accounted
    <2>13. Present(t)'
      <3>1. ASSUME NEW k \in 1..Len(t), k < at, Defines(t[k]) PROVE t[k].on \in defined' \/ Holds(released', t[k].on)
        <4>1. t[k].on \in defined \/ Holds(released, t[k].on)
          BY <1>2, <3>1 DEF Present
        <4>2. t[k].on # "executor"
          BY <2>10, <3>1
        <4> QED BY <2>2, <2>6, <2>7, <4>1, <4>2
      <3> QED BY <1>2, <1>4, <2>2, <3>1 DEF Present
    <2> QED BY <1>2, <1>4, <1>5, <2>2, <2>9, <2>12, <2>13 DEF BeanInv, Phases
  <1> QED BY <1>6, <1>7

\* Every step keeps the invariant of the beans.
LEMMA BeanInvStep == BeanInv /\ [AppNext]_appVars => BeanInv'
  <1> SUFFICES ASSUME BeanInv, [AppNext]_appVars PROVE BeanInv'
    OBVIOUS
  <1>1. CASE UNCHANGED appVars
    BY <1>1, BeanFrame DEF appVars, command
  <1>2. ASSUME NEW c \in Callers, CallStep(c) PROVE BeanInv'
    <2>1. UNCHANGED <<command, beans>>
      BY <1>2 DEF CallStep, Begin, Observe, Authorize, BeginAttempts, Retry, Pass, Decode, Intercept, LookUp, BeginTransaction,
                  EndTransaction, Keep, RunTarget, Answer, Updated
    <2> QED BY <2>1, BeanFrame DEF command
  <1>3. CASE OwnStep
    <2>1. CASE Render
      BY <2>1, RenderStep
    <2>2. CASE \E code \in {1, 2} : InvalidCommand(code)
      BY <2>2, InvalidCommandStep
    <2>3. CASE \E mode \in {"run", "check"}, factory \in BOOLEAN, overrides \in SUBSET Overridable(app) :
                 Command(mode, factory, overrides)
      BY <2>3, CommandStep
    <2>4. CASE \E withCleanup \in BOOLEAN : Execute(withCleanup)
      BY <2>4, ExecuteStep
    <2>5. CASE StatementFails
      BY <2>5, StatementFailsStep
    <2>6. CASE (\E ok \in BOOLEAN : StartHook(ok)) \/ Interrupt \/ (\E error \in BOOLEAN : StopHook(error))
      <3>1. /\ UNCHANGED <<app, at, options, beans>> /\ pc \in {"start", "ready", "stop"}
            /\ pc' \in {"start", "ready", "stop", "release"}
        BY <2>6 DEF StartHook, Interrupt, StopHook
      <3> QED BY <3>1, PhaseStep
    <2>7. CASE \E error \in BOOLEAN : Release(error)
      BY <2>7, ReleaseStep
    <2>8. CASE Expire \/ CloseScheduler \/ CloseExecutor
      <3>1. UNCHANGED <<command, beans>>
        BY <2>8 DEF Expire, CloseScheduler, CloseExecutor, Close
      <3> QED BY <3>1, BeanFrame DEF command
    <2>9. CASE \/ \E t \in DOMAIN app.tasks : Admit(t) \/ Submit(t) \/ RunTask(t) \/ EndTask(t)
               \/ \E j \in DOMAIN app.jobs : RunJob(j) \/ EndJob(j)
      <3>1. UNCHANGED <<command, beans>>
        BY <2>9 DEF Admit, Submit, RunTask, EndTask, SetTask, RunJob, EndJob, SetJob
      <3> QED BY <3>1, BeanFrame DEF command
    <2> QED BY <1>3, <2>1, <2>2, <2>3, <2>4, <2>5, <2>6, <2>7, <2>8, <2>9, Zenon DEF OwnStep
  <1> QED BY <1>1, <1>2, <1>3, StepKinds

\* Every bean that was constructed with a cleanup was released, is held by the coordinator, was refused by it or is about
\* to be registered; the coordinator holds its cleanups in the order of the program (provider_render.go:279-296).
THEOREM BeansAreAccounted == AppSpec => []BeanInv
  BY BeanInit, BeanInvStep, PTL DEF AppSpec

\* The invariant of the beans says that nothing leaks.
LEMMA BeanInvLeaksNothing == BeanInv => NothingLeaks
  <1> SUFFICES ASSUME BeanInv PROVE NothingLeaks
    OBVIOUS
  <1>1. CASE RenderFaults(app) # {}
    <2>1. owed = {} /\ released = <<>>
      BY <1>1 DEF BeanInv
    <2> QED BY <2>1 DEF NothingLeaks
  <1>2. CASE RenderFaults(app) = {}
    <2>1. PICK t : t = Assembly(app)
      OBVIOUS
    <2>2. Stacked(app, t, at, cleanups, released) /\ Accounted(t)
      BY <1>2, <2>1 DEF BeanInv, Progress
    <2>3. PICK r : r = released
      OBVIOUS
    <2>4. PICK l \in Nat : l = Len(r) /\ DOMAIN r = 1..l
      BY <2>2, <2>3 DEF Stacked
    <2>5. ASSUME NEW i \in DOMAIN r, NEW j \in DOMAIN r, r[i] = r[j] PROVE i = j
      <3>1. i \in 1..l /\ j \in 1..l /\ i \in Int /\ j \in Int
        BY <2>4
      <3>2. PICK p : p = Place(t, r[i])
        OBVIOUS
      <3>3. p \in Int /\ p = Place(t, r[j])
        BY <2>2, <2>3, <2>4, <2>5, <3>1, <3>2 DEF Stacked, Registered
      <3>4. (i < j => p < p) /\ (j < i => p < p)
        <4>1. \A k, h \in 1..l : k < h => Place(t, r[h]) < Place(t, r[k])
          BY <2>2, <2>3, <2>4 DEF Stacked
        <4> QED BY <3>1, <3>2, <3>3, <4>1
      <3> QED BY <3>1, <3>3, <3>4
    <2>6. ASSUME pc = "exit", options.mode = "check" => options.factory PROVE owed \ Range(released) \subseteq lost
      <3>1. owed = {} \/ cleanups = <<>>
        BY <2>2, <2>6 DEF Accounted
      <3>2. \A x \in owed : Holds(released, x) \/ x \in lost
        <4>1. \A x : cleanups = <<>> => ~Holds(cleanups, x)
          BY DEF Holds
        <4> QED BY <2>2, <2>6, <3>1, <4>1 DEF Accounted
      <3>3. \A x : Holds(released, x) => x \in Range(released)
        BY <2>3, <2>4 DEF Holds, Range
      <3> QED BY <3>2, <3>3
    <2> QED BY <2>3, <2>5, <2>6 DEF NothingLeaks
  <1> QED BY <1>1, <1>2

\* For every application that the compiler hands over, wherever the construction, the start or the stop fails: when the
\* command is over, every bean with a cleanup was released, and none twice, except one whose cleanup was refused and a
\* --check whose factory gave no context.
THEOREM NothingEverLeaks == AppSpec => []NothingLeaks
  BY BeansAreAccounted, BeanInvLeaksNothing, PTL

-----------------------------------------------------------------------------
TaskStates == {"idle", "admitted", "queued", "running"}

\* A task that was admitted has an executor to submit to, or one that refuses it; a task of the executor ends before the
\* executor is released, unless the shutdown context ends.
TasksHeld(t) ==
    \A i \in DOMAIN app.tasks : tasks[i] # "idle" =>
        /\ at = Len(t) + 1
        /\ Holds(cleanups, "executor") \/ "executor" \in closed
        /\ ~expired /\ tasks[i] # "admitted" => Holds(cleanups, "executor")

WorkInv ==
    /\ tasks \in [DOMAIN app.tasks -> TaskStates] /\ jobs \in [DOMAIN app.jobs -> {"idle", "running"}]
    /\ started \in 0..Len(Hooks(app))
    /\ started > 0 => pc \in {"start", "ready", "stop"}
    /\ pc = "ready" => started = Len(Hooks(app))
    /\ TasksHeld(Assembly(app))
    /\ ~expired => \A j \in DOMAIN app.jobs : jobs[j] = "running" => started = Len(Hooks(app))
    /\ ~expired => \A c \in Callers : calls[c].layers # <<>> => pc \in {"ready", "stop"} /\ Serving

\* The hooks of an application: its components, then the scheduler.
LEMMA HooksOf ==
    ASSUME NEW a, Listed(a)
    PROVE  /\ Len(Hooks(a)) \in Nat
           /\ a.jobs # <<>> => Len(Hooks(a)) > 0 /\ Hooks(a)[Len(Hooks(a))].bean = "scheduler"
           /\ \A i \in DOMAIN a.components : i \in 1..Len(Hooks(a)) /\ Hooks(a)[i].bean = a.components[i].provider
                                               /\ Hooks(a)[i].stop = a.components[i].stop
           /\ \A i \in 1..Len(Hooks(a)) : Hooks(a)[i].bean \in Ids(a) \cup {"scheduler"}
  <1> DEFINE B == Ids(a) \cup {"scheduler"}
             T == {a.components[i].stop : i \in DOMAIN a.components} \cup {TRUE}
             H == [bean : B, stop : T]
             first == [i \in DOMAIN a.components |-> [bean |-> a.components[i].provider, stop |-> a.components[i].stop]]
             last == When(a.jobs # <<>>, <<[bean |-> "scheduler", stop |-> TRUE]>>)
  <1>1. PICK m \in Nat : DOMAIN a.components = 1..m
    <2>1. a.components \in Seq(Range(a.components))
      BY DEF Listed
    <2> QED BY <2>1
  <1>2. PICK f : f = first
    OBVIOUS
  <1>3. PICK l : l = last
    OBVIOUS
  <1>4. /\ f \in Seq(H) /\ Len(f) = m
        /\ \A i \in 1..m : f[i].bean = a.components[i].provider /\ f[i].stop = a.components[i].stop
    <2>1. \A i \in 1..m : a.components[i].provider \in B /\ a.components[i].stop \in T
      BY <1>1 DEF Listed
    <2> HIDE DEF B, T
    <2>2. \A i \in 1..m : [bean |-> a.components[i].provider, stop |-> a.components[i].stop] \in H
      BY <2>1
    <2>3. f = [i \in 1..m |-> [bean |-> a.components[i].provider, stop |-> a.components[i].stop]]
      BY <1>1, <1>2
    <2> HIDE DEF H
    <2>4. f \in [1..m -> H]
      BY <2>2, <2>3
    <2>5. f \in Seq(H) /\ Len(f) = m
      BY <2>4
    <2> QED BY <2>3, <2>5
  <1>5. l \in Seq(H) /\ (a.jobs # <<>> => Len(l) = 1 /\ l[1].bean = "scheduler")
    <2>1. PICK g : g = [bean |-> "scheduler", stop |-> TRUE]
      OBVIOUS
    <2>2. g \in H /\ g.bean = "scheduler"
      BY <2>1
    <2>3. a.jobs # <<>> => l = <<g>>
      BY <1>3, <2>1 DEF When
    <2>4. a.jobs = <<>> => l = <<>>
      BY <1>3 DEF When
    <2>5. PICK S : S = H
      OBVIOUS
    <2>6. g \in S
      BY <2>2, <2>5
    <2>7. <<g>> \in Seq(S) /\ <<>> \in Seq(S) /\ Len(<<g>>) = 1 /\ <<g>>[1] = g
      BY <2>6
    <2> QED BY <2>2, <2>3, <2>4, <2>5, <2>7
  <1>6. PICK h : h = f \o l
    OBVIOUS
  <1>7. h = Hooks(a)
    BY <1>2, <1>3, <1>6 DEF Hooks
  <1> HIDE DEF first, last
  <1>8. PICK n \in Nat : n = Len(l)
    BY <1>5
  <1>9. h \in Seq(H) /\ Len(h) = m + n /\ (\A i \in 1..m : h[i] = f[i]) /\ (n > 0 => h[m + n] = l[n])
    <2>1. PICK S : S = H
      OBVIOUS
    <2>2. f \in Seq(S) /\ l \in Seq(S)
      BY <1>4, <1>5, <2>1
    <2>3. Len(f) = m
      BY <1>4
    <2> HIDE DEF H
    <2>4. h \in Seq(S) /\ Len(h) = m + n
      <3>1. f \o l \in Seq(S) /\ Len(f \o l) = Len(f) + Len(l)
        BY <2>2, ConcatProperties
      <3> QED BY <1>6, <1>8, <2>3, <3>1
    <2>5. /\ \A i \in 1..m : h[i] = f[i]
          /\ n > 0 => h[m + n] = l[n]
      BY <1>6, <1>8, <2>2, <2>3
    <2> QED BY <2>1, <2>4, <2>5
  <1>10. \A i \in 1..Len(h) : h[i].bean \in B
    <2>0. PICK S : S = H
      OBVIOUS
    <2>1. \A i \in 1..Len(h) : h[i] \in S
      <3>1. h \in Seq(S)
        BY <1>9, <2>0
      <3> QED BY <3>1
    <2> HIDE DEF B, T
    <2> QED BY <2>0, <2>1
  <1>11. a.jobs # <<>> => m + n > 0 /\ h[m + n].bean = "scheduler"
    BY <1>5, <1>8, <1>9
  <1>12. \A i \in 1..m : i \in 1..(m + n)
    OBVIOUS
  <1> QED BY <1>1, <1>4, <1>7, <1>9, <1>10, <1>11, <1>12

\* There is no work at first.
LEMMA WorkInit == ASSUME AppInit PROVE WorkInv
  <1>1. Listed(app)
    BY AppsAreCompiled DEF AppInit
  <1>2. Len(Hooks(app)) \in Nat
    BY <1>1, HooksOf
  <1>3. \A c \in Callers : calls[c].layers = <<>>
    BY DEF AppInit, NoCall
  <1>4. tasks \in [DOMAIN app.tasks -> TaskStates] /\ \A i \in DOMAIN app.tasks : tasks[i] = "idle"
    BY DEF AppInit, TaskStates
  <1>5. jobs \in [DOMAIN app.jobs -> {"idle", "running"}] /\ \A i \in DOMAIN app.jobs : jobs[i] = "idle"
    BY DEF AppInit
  <1>6. started = 0 /\ pc = "render"
    BY DEF AppInit
  <1>7. TasksHeld(Assembly(app))
    BY <1>4 DEF TasksHeld
  <1> QED BY <1>2, <1>3, <1>4, <1>5, <1>6, <1>7 DEF WorkInv, Serving

\* A call in progress.
Active(c) == calls[c].layers # <<>>

\* The invariant of the work does not depend on the cache.
LEMMA WorkFrame ==
    ASSUME WorkInv, UNCHANGED <<command, beans, work, calls>>
    PROVE  WorkInv'
  BY DEF WorkInv, TasksHeld, command, beans, work, Serving

\* Every step of a call but its first is the step of a call in progress.
LEMMA CallInProgress ==
    ASSUME CallInv, NEW c \in Callers, CallStep(c)
    PROVE  /\ UNCHANGED <<command, beans, work>>
           /\ \A d \in Callers : d # c => calls'[d] = calls[d]
           /\ Active(c) \/ (pc = "ready" /\ Serving)
  <1>1. calls \in [Callers -> Calls(app)] /\ \A d \in Callers : calls[d].at > 0 => Active(d)
    <2>1. \A d \in Callers : calls[d] \in Calls(app) /\ OnItsWay(calls[d], app)
      BY DEF CallInv, CallOK
    <2>2. \A d \in Callers : calls[d].layers = <<>> => calls[d].at = 0
      BY <2>1 DEF OnItsWay
    <2> QED BY <2>2 DEF CallInv, Active
  <1>2. \E call : Updated(c, call)
    BY Zenon DEF CallStep, Begin, Observe, Authorize, BeginAttempts, Retry, Pass, Decode, Intercept, LookUp, BeginTransaction,
                  EndTransaction, Keep, RunTarget, Answer
  <1>3. Active(c) \/ (pc = "ready" /\ Serving)
    <2>1. CASE \E m \in Callable(app) : Begin(c, m)
      BY <2>1 DEF Begin
    <2>2. CASE Answer(c)
      BY <2>2 DEF Answer, Active
    <2>3. CASE ~(\E m \in Callable(app) : Begin(c, m)) /\ ~Answer(c)
      <3>1. calls[c].at > 0
        BY <2>3 DEF CallStep, Observe, Authorize, BeginAttempts, Retry, Pass, Decode, Intercept, LookUp, BeginTransaction,
                    EndTransaction, Keep, RunTarget, Enters, Leaves, At
      <3> QED BY <1>1, <3>1
    <2> QED BY <2>1, <2>2, <2>3
  <1> QED BY <1>1, <1>2, <1>3 DEF Updated

\* A call in progress keeps a server running, and a call only begins when one is.
LEMMA WorkCallStep ==
    ASSUME BeanInv, CallInv, WorkInv, NEW c \in Callers, CallStep(c)
    PROVE  WorkInv'
  <1>1. /\ UNCHANGED <<command, beans, work>> /\ \A d \in Callers : d # c => calls'[d] = calls[d]
        /\ Active(c) \/ (pc = "ready" /\ Serving)
    BY CallInProgress
  <1>2. ASSUME ~expired PROVE Active(c) => pc \in {"ready", "stop"} /\ Serving
    BY <1>2 DEF WorkInv, Active, Serving
  <1>3. ~expired => \A d \in Callers : calls'[d].layers # <<>> => pc \in {"ready", "stop"} /\ Serving
    <2> SUFFICES ASSUME ~expired, NEW d \in Callers, calls'[d].layers # <<>> PROVE pc \in {"ready", "stop"} /\ Serving
      OBVIOUS
    <2>1. CASE d # c
      BY <1>1, <2>1 DEF WorkInv, Serving
    <2>2. CASE d = c
      BY <1>1, <1>2, <2>2
    <2> QED BY <2>1, <2>2
  <1>4. UNCHANGED <<app, pc, at, cleanups, started, closed, tasks, jobs, expired>>
    BY <1>1 DEF command, beans, work
  <1>5. TasksHeld(Assembly(app))'
    BY <1>4 DEF WorkInv, TasksHeld, Serving
  <1> QED BY <1>3, <1>4, <1>5 DEF WorkInv, Serving

\* Before the start there is neither a hook nor a call.
LEMMA BeforeStart ==
    ASSUME WorkInv, pc \notin {"start", "ready", "stop"}
    PROVE  started = 0 /\ (~expired => \A c \in Callers : ~Active(c))
  <1>1. started \in Nat /\ ~(started > 0)
    <2>1. started \in 0..Len(Hooks(app))
      BY DEF WorkInv, Serving
    <2> QED BY <2>1 DEF WorkInv, Serving
  <1>2. started = 0
    BY <1>1
  <1> QED BY <1>2 DEF WorkInv, Active, Serving

\* Tasks depend on the executor, the context and the place in the program.
LEMMA TasksFrame ==
    ASSUME WorkInv, UNCHANGED <<app, tasks, at, cleanups, closed, expired>>
    PROVE  TasksHeld(Assembly(app))'
  BY DEF WorkInv, TasksHeld, Serving

\* Render, the command and the construction.
LEMMA WorkBeforeStart ==
    ASSUME BeanInv, WorkInv, pc \in {"render", "command", "construct"}, UNCHANGED <<app, work, calls>>,
           pc = "construct" \/ UNCHANGED <<at, cleanups>>, pc' # "ready"
    PROVE  WorkInv'
  <1>1. started = 0 /\ (~expired => \A c \in Callers : ~Active(c))
    BY BeforeStart
  <1>2. TasksHeld(Assembly(app))'
    <2>1. CASE pc = "construct"
      <3>1. PICK t : t = Assembly(app)
        OBVIOUS
      <3>2. RenderFaults(app) = {} /\ Progress(t)
        BY <2>1, <3>1 DEF BeanInv
      <3>3. PICK n \in Nat : n = Len(t)
        BY <3>1, <3>2, ProgramOf DEF WellBuilt
      <3>4. at # n + 1
        BY <2>1, <3>2, <3>3 DEF Progress
      <3>5. \A i \in DOMAIN app.tasks : tasks[i] = "idle"
        BY <3>1, <3>3, <3>4 DEF WorkInv, TasksHeld, Serving
      <3> QED BY <3>5 DEF TasksHeld, work
    <2>2. CASE UNCHANGED <<at, cleanups>>
      BY <2>2, TasksFrame DEF work
    <2> QED BY <2>1, <2>2
  <1>3. UNCHANGED <<started, tasks, jobs, expired, app, calls>>
    BY DEF work
  <1>4. /\ tasks' \in [DOMAIN app.tasks -> TaskStates] /\ jobs' \in [DOMAIN app.jobs -> {"idle", "running"}]
        /\ started' \in 0..Len(Hooks(app)) /\ ~(started' > 0)
        /\ ~expired' => \A j \in DOMAIN app.jobs : jobs'[j] = "running" => started' = Len(Hooks(app))
    BY <1>1, <1>3 DEF WorkInv, Serving
  <1> QED BY <1>1, <1>2, <1>3, <1>4 DEF WorkInv, Active, Serving

\* A hook starts, or fails to.
LEMMA WorkStartHook == ASSUME WorkInv, app \in Apps, NEW ok \in BOOLEAN, StartHook(ok) PROVE WorkInv'
  <1>1. /\ pc = "start" /\ UNCHANGED <<app, at, beans, closed, tasks, jobs, expired, calls>>
        /\ \/ started = Len(Hooks(app)) /\ started' = started /\ pc' = "ready"
           \/ started # Len(Hooks(app)) /\ started' = started + 1 /\ pc' = pc
           \/ started # Len(Hooks(app)) /\ started' = started /\ pc' = "stop"
    BY DEF StartHook, requests
  <1>2. PICK n : n = Len(Hooks(app))
    OBVIOUS
  <1>3. n \in Nat /\ started \in 0..n
    <2>1. started \in 0..n
      BY <1>2 DEF WorkInv, Serving
    <2>2. Listed(app)
      BY AppsAreCompiled
    <2> QED BY <1>2, <2>1, <2>2, HooksOf
  <1>4. started' \in 0..n /\ (pc' = "ready" => started' = n) /\ pc' \in {"start", "ready", "stop"}
    BY <1>1, <1>2, <1>3
  <1>5. TasksHeld(Assembly(app))'
    BY <1>1, TasksFrame DEF beans
  <1>6. ~expired => \A c \in Callers : ~Active(c)
    BY <1>1 DEF WorkInv, Active, Serving
  <1>7. ~expired' => \A j \in DOMAIN app.jobs : jobs'[j] = "running" => started' = n
    BY <1>1, <1>2 DEF WorkInv, Serving
  <1> QED BY <1>1, <1>2, <1>4, <1>5, <1>6, <1>7 DEF WorkInv, Active, Serving

\* A hook stops when what depends on it has ended: the scheduler after its jobs, a server after its calls.
LEMMA WorkStopHook == ASSUME WorkInv, app \in Apps, NEW error \in BOOLEAN, StopHook(error) PROVE WorkInv'
  <1>1. /\ pc = "stop" /\ UNCHANGED <<app, at, beans, closed, tasks, jobs, expired, calls>>
        /\ \/ started = 0 /\ started' = started /\ pc' = "release"
           \/ started # 0 /\ started' = started - 1 /\ pc' = pc /\ Stoppable(Hooks(app)[started])
    BY DEF StopHook, requests
  <1>2. PICK h : h = Hooks(app)
    OBVIOUS
  <1>3. PICK n : n = Len(h)
    OBVIOUS
  <1>4. Listed(app)
    BY AppsAreCompiled
  <1>5. n \in Nat /\ started \in 0..n
    <2>1. started \in 0..n
      BY <1>2, <1>3 DEF WorkInv, Serving
    <2> QED BY <1>2, <1>3, <1>4, <2>1, HooksOf
  <1>6. started' \in 0..n /\ (started' > 0 => pc' = "stop")
    BY <1>1, <1>5
  <1>7. TasksHeld(Assembly(app))'
    BY <1>1, TasksFrame DEF beans
  <1>8. ASSUME ~expired, NEW j \in DOMAIN app.jobs, jobs[j] = "running" PROVE started' = n
    <2>1. started = n
      BY <1>2, <1>3, <1>8 DEF WorkInv, Serving
    <2>2. app.jobs # <<>>
      BY <1>8
    <2>3. n > 0 /\ h[n].bean = "scheduler"
      BY <1>2, <1>3, <1>4, <2>2, HooksOf
    <2>4. Stoppable(h[n])
      BY <1>1, <1>2, <1>5, <2>1, <2>3
    <2>5. Settled(jobs)
      BY <1>8, <2>3, <2>4 DEF Stoppable
    <2>6. j \in DOMAIN jobs
      BY DEF WorkInv, Serving
    <2> QED BY <1>8, <2>5, <2>6 DEF Settled
  <1>9. ASSUME ~expired, NEW c \in Callers, Active(c) PROVE pc' = "stop" /\ Serving'
    <2>1. PICK i \in 1..started : h[i].stop /\ h[i].bean # "scheduler"
      BY <1>2, <1>9 DEF WorkInv, Active, Serving
    <2>2. started # 0 /\ started' = started - 1 /\ pc' = "stop" /\ Stoppable(h[started])
      BY <1>1, <1>2, <1>5, <2>1
    <2>3. i # started
      <3> SUFFICES ASSUME i = started PROVE FALSE
        OBVIOUS
      <3>1. Quiet
        BY <1>9, <2>1, <2>2 DEF Stoppable
      <3> QED BY <1>9, <3>1 DEF Quiet, Active
    <2>4. i \in 1..started'
      BY <1>5, <2>1, <2>2, <2>3
    <2> QED BY <1>1, <1>2, <2>1, <2>2, <2>4 DEF Serving
  <1>10. \A c \in Callers : Active(c)' <=> Active(c)
    BY <1>1 DEF Active
  <1> QED BY <1>1, <1>2, <1>3, <1>6, <1>7, <1>8, <1>9, <1>10 DEF WorkInv, Active, Serving

\* The executor is released when its tasks have ended, or the context has.
LEMMA WorkRelease == ASSUME BeanInv, WorkInv, NEW error, Release(error) PROVE WorkInv'
  <1>1. pc = "release" /\ pc' \in {"release", "exit"} /\ UNCHANGED <<app, at, work, calls>>
    BY DEF Release, requests, Ends
  <1>2. started = 0 /\ (~expired => \A c \in Callers : ~Active(c))
    BY <1>1, BeforeStart
  <1>3. TasksHeld(Assembly(app))'
    <2>1. CASE cleanups = <<>>
      <3>1. cleanups' = cleanups
        BY <2>1 DEF Release
      <3> QED BY <1>1, <3>1, TasksFrame DEF work
    <2>2. CASE cleanups # <<>>
      <3>1. PICK x : x = Last(cleanups)
        OBVIOUS
      <3>2. /\ cleanups' = Front(cleanups)
            /\ x = "executor" => "executor" \in closed /\ (expired \/ Settled(tasks))
        BY <2>2, <3>1 DEF Release
      <3>3. cleanups \in Seq(Kept(app))
        <4>1. RenderFaults(app) = {}
          BY <1>1 DEF BeanInv
        <4> QED BY <4>1 DEF BeanInv, Progress, Stacked
      <3>4. \A y : Holds(cleanups, y) => Holds(cleanups', y) \/ y = x
        BY <2>2, <3>1, <3>2, <3>3, HoldsFront
      <3>5. PICK n : n = Len(Assembly(app)) + 1
        OBVIOUS
      <3>6. ASSUME NEW i \in DOMAIN app.tasks, tasks[i] # "idle"
            PROVE  /\ at = n /\ (Holds(cleanups', "executor") \/ "executor" \in closed)
                   /\ ~expired /\ tasks[i] # "admitted" => Holds(cleanups', "executor")
        <4>1. /\ at = n /\ (Holds(cleanups, "executor") \/ "executor" \in closed)
              /\ ~expired /\ tasks[i] # "admitted" => Holds(cleanups, "executor")
          BY <3>5, <3>6 DEF WorkInv, TasksHeld, Serving
        <4>2. CASE x = "executor"
          <5>1. i \in DOMAIN tasks
            BY DEF WorkInv, Serving
          <5>2. "executor" \in closed /\ expired
            BY <3>2, <3>6, <4>2, <5>1 DEF Settled
          <5> QED BY <4>1, <5>2
        <4>3. CASE x # "executor"
          BY <3>4, <4>1, <4>3
        <4> QED BY <4>2, <4>3
      <3> QED BY <1>1, <3>5, <3>6 DEF TasksHeld, work
    <2> QED BY <2>1, <2>2
  <1>4. UNCHANGED <<started, tasks, jobs, expired>>
    BY <1>1 DEF work
  <1>5. /\ tasks' \in [DOMAIN app.tasks -> TaskStates] /\ jobs' \in [DOMAIN app.jobs -> {"idle", "running"}]
        /\ started' \in 0..Len(Hooks(app)) /\ ~(started' > 0)
        /\ ~expired' => \A j \in DOMAIN app.jobs : jobs'[j] = "running" => started' = Len(Hooks(app))
    BY <1>2, <1>4 DEF WorkInv, Serving
  <1> QED BY <1>1, <1>2, <1>3, <1>4, <1>5 DEF WorkInv, Active, Serving

\* A signal ends the wait.
LEMMA WorkInterrupt == ASSUME WorkInv, Interrupt PROVE WorkInv'
  <1>1. pc = "ready" /\ pc' = "stop" /\ UNCHANGED <<app, at, cleanups, started, closed, tasks, jobs, expired, calls>>
    BY DEF Interrupt, beans, work, requests
  <1>2. TasksHeld(Assembly(app))'
    BY <1>1, TasksFrame
  <1> QED BY <1>1, <1>2 DEF WorkInv, Serving

\* The context ends, or a service takes no more work.
LEMMA WorkCloses == ASSUME WorkInv, Expire \/ CloseScheduler \/ CloseExecutor PROVE WorkInv'
  <1>1. /\ UNCHANGED <<app, pc, at, cleanups, started, tasks, jobs, calls>>
        /\ closed \subseteq closed' /\ (~expired' => ~expired)
    BY DEF Expire, CloseScheduler, CloseExecutor, Close, command, beans, requests
  <1>2. TasksHeld(Assembly(app))'
    BY <1>1 DEF WorkInv, TasksHeld, Serving
  <1> QED BY <1>1, <1>2 DEF WorkInv, Serving

\* When the application is ready its executor is there for tasks.
LEMMA ReadyForTasks ==
    ASSUME BeanInv, pc = "ready", app.tasks # <<>>
    PROVE  at = Len(Assembly(app)) + 1 /\ Holds(cleanups, "executor")
  <1>1. PICK t : t = Assembly(app)
    OBVIOUS
  <1>2. RenderFaults(app) = {} /\ Progress(t) /\ Present(t)
    BY <1>1 DEF BeanInv
  <1>3. WellBuilt(app, t, Ids(app), app.tasks # <<>>)
    BY <1>1, <1>2, ProgramOf
  <1>4. PICK n \in Nat : n = Len(t)
    BY <1>3 DEF WellBuilt
  <1>5. PICK k \in 1..n : t[k].op = "register" /\ t[k].on = "executor"
    BY <1>3, <1>4 DEF WellBuilt, ExecutorLast
  <1>6. at = n + 1 /\ k < n + 1
    BY <1>2, <1>4, <1>5 DEF Progress
  <1> QED BY <1>1, <1>2, <1>4, <1>5, <1>6 DEF Present

\* A task is admitted while the application is ready, and submitted to an executor that may have been closed since.
LEMMA WorkTask ==
    ASSUME BeanInv, WorkInv, NEW i \in DOMAIN app.tasks, Admit(i) \/ Submit(i) \/ RunTask(i) \/ EndTask(i)
    PROVE  WorkInv'
  <1>1. UNCHANGED <<app, pc, at, cleanups, started, closed, jobs, expired, calls>>
    BY DEF Admit, Submit, RunTask, EndTask, SetTask, command, beans, requests
  <1>2. tasks \in [DOMAIN app.tasks -> TaskStates]
    BY DEF WorkInv, Serving
  <1>3. PICK to \in TaskStates : tasks' = [tasks EXCEPT ![i] = to]
    BY DEF Admit, Submit, RunTask, EndTask, SetTask, TaskStates
  <1>4. /\ tasks' \in [DOMAIN app.tasks -> TaskStates] /\ tasks'[i] = to
        /\ \A k \in DOMAIN app.tasks : k # i => tasks'[k] = tasks[k]
    BY <1>2, <1>3
  <1>5. PICK n : n = Len(Assembly(app)) + 1
    OBVIOUS
  <1>6. to # "idle" => /\ at = n /\ (Holds(cleanups, "executor") \/ "executor" \in closed)
                       /\ ~expired /\ to # "admitted" => Holds(cleanups, "executor")
    <2>0. /\ \A k \in DOMAIN app.tasks : tasks[k] # "idle" =>
               /\ at = n /\ (Holds(cleanups, "executor") \/ "executor" \in closed)
               /\ ~expired /\ tasks[k] # "admitted" => Holds(cleanups, "executor")
      BY <1>5 DEF WorkInv, TasksHeld, Serving
    <2>1. CASE Admit(i)
      <3>1. pc = "ready" /\ app.tasks # <<>> /\ to = "admitted"
        BY <1>2, <1>4, <2>1 DEF Admit, SetTask
      <3> QED BY <1>5, <3>1, ReadyForTasks
    <2>2. CASE Submit(i)
      <3>1. tasks[i] = "admitted" /\ (to = "idle" \/ "executor" \notin closed)
        BY <1>2, <1>4, <2>2 DEF Submit, SetTask
      <3> QED BY <2>0, <3>1
    <2>3. CASE RunTask(i)
      <3>1. tasks[i] = "queued"
        BY <2>3 DEF RunTask
      <3> QED BY <2>0, <3>1
    <2>4. CASE EndTask(i)
      <3>1. to = "idle"
        BY <1>2, <1>4, <2>4 DEF EndTask, SetTask
      <3> QED BY <3>1
    <2> QED BY <2>1, <2>2, <2>3, <2>4
  <1>7. TasksHeld(Assembly(app))'
    <2>1. ASSUME NEW k \in DOMAIN app.tasks, tasks'[k] # "idle"
          PROVE  /\ at = n /\ (Holds(cleanups, "executor") \/ "executor" \in closed)
                 /\ ~expired /\ tasks'[k] # "admitted" => Holds(cleanups, "executor")
      <3>1. CASE k = i
        BY <1>4, <1>6, <2>1, <3>1
      <3>2. CASE k # i
        BY <1>4, <1>5, <2>1, <3>2 DEF WorkInv, TasksHeld, Serving
      <3> QED BY <3>1, <3>2
    <2> QED BY <1>1, <1>5, <2>1 DEF TasksHeld
  <1> QED BY <1>1, <1>4, <1>7 DEF WorkInv, Serving

\* Jobs run while every hook is started.
LEMMA WorkJob == ASSUME WorkInv, NEW j \in DOMAIN app.jobs, RunJob(j) \/ EndJob(j) PROVE WorkInv'
  <1>1. UNCHANGED <<app, pc, at, cleanups, started, closed, tasks, expired, calls>>
    BY DEF RunJob, EndJob, SetJob, command, beans, requests
  <1>2. jobs \in [DOMAIN app.jobs -> {"idle", "running"}]
    BY DEF WorkInv, Serving
  <1>3. /\ jobs' \in [DOMAIN app.jobs -> {"idle", "running"}]
        /\ \A k \in DOMAIN app.jobs : k # j => jobs'[k] = jobs[k]
        /\ jobs'[j] = "idle" \/ started = Len(Hooks(app))
    BY <1>2 DEF RunJob, EndJob, SetJob, SchedulerRuns
  <1>4. TasksHeld(Assembly(app))'
    BY <1>1, TasksFrame
  <1>5. ~expired => \A k \in DOMAIN app.jobs : jobs'[k] = "running" => started = Len(Hooks(app))
    <2> SUFFICES ASSUME ~expired, NEW k \in DOMAIN app.jobs, jobs'[k] = "running" PROVE started = Len(Hooks(app))
      OBVIOUS
    <2>1. CASE k = j
      BY <1>3, <2>1
    <2>2. CASE k # j
      BY <1>3, <2>2 DEF WorkInv, Serving
    <2> QED BY <2>1, <2>2
  <1> QED BY <1>1, <1>3, <1>4, <1>5 DEF WorkInv, Serving

\* Every step keeps the invariant of the work.
LEMMA WorkInvStep == BeanInv /\ CallInv /\ WorkInv /\ [AppNext]_appVars => WorkInv'
  <1> SUFFICES ASSUME BeanInv, CallInv, WorkInv, [AppNext]_appVars PROVE WorkInv'
    OBVIOUS
  <1>0. app \in Apps
    BY DEF BeanInv
  <1>1. CASE UNCHANGED appVars
    BY <1>1, WorkFrame DEF appVars, requests
  <1>2. ASSUME NEW c \in Callers, CallStep(c) PROVE WorkInv'
    BY <1>2, WorkCallStep
  <1>3. CASE OwnStep
    <2>1. CASE \/ Render \/ (\E code \in {1, 2} : InvalidCommand(code))
               \/ \E mode \in {"run", "check"}, factory \in BOOLEAN, overrides \in SUBSET Overridable(app) :
                    Command(mode, factory, overrides)
      <3>1. pc \in {"render", "command"} /\ UNCHANGED <<app, at, cleanups, work, calls>> /\ pc' # "ready"
        BY <2>1 DEF Render, InvalidCommand, Command, Ends, beans, requests
      <3> QED BY <3>1, WorkBeforeStart
    <2>2. CASE (\E withCleanup \in BOOLEAN : Execute(withCleanup)) \/ StatementFails
      <3>1. pc = "construct" /\ UNCHANGED <<app, work, calls>> /\ pc' # "ready"
        BY <2>2 DEF Execute, AfterConstruction, StatementFails, OnError, Ends, requests
      <3> QED BY <3>1, WorkBeforeStart
    <2>3. CASE \E ok \in BOOLEAN : StartHook(ok)
      BY <1>0, <2>3, WorkStartHook
    <2>4. CASE Interrupt
      BY <2>4, WorkInterrupt
    <2>5. CASE Expire \/ CloseScheduler \/ CloseExecutor
      BY <2>5, WorkCloses
    <2>6. CASE \E error \in BOOLEAN : StopHook(error)
      BY <1>0, <2>6, WorkStopHook
    <2>7. CASE \E error \in BOOLEAN : Release(error)
      BY <2>7, WorkRelease
    <2>8. CASE \E i \in DOMAIN app.tasks : Admit(i) \/ Submit(i) \/ RunTask(i) \/ EndTask(i)
      BY <2>8, WorkTask
    <2>9. CASE \E j \in DOMAIN app.jobs : RunJob(j) \/ EndJob(j)
      BY <2>9, WorkJob
    <2> QED BY <1>3, <2>1, <2>2, <2>3, <2>4, <2>5, <2>6, <2>7, <2>8, <2>9, Zenon DEF OwnStep
  <1> QED BY <1>1, <1>2, <1>3, StepKinds

\* Work ends before what it needs is stopped or released, unless the shutdown context ends: a task before the executor is
\* released, a job before the scheduler stops, a call before the server stops (runtime_render.go:62 and :262).
THEOREM WorkEndsFirst == AppSpec => []WorkInv
  <1>1. AppInit => WorkInv
    BY WorkInit
  <1> QED BY <1>1, WorkInvStep, BeansAreAccounted, CallsGoThroughLayers, PTL DEF AppSpec

-----------------------------------------------------------------------------
(* What is in use is live. *)

Live(x) == x \in defined /\ Needed(Bean(x)) \subseteq defined

\* As long as nothing is released, what the program has defined is live.
LEMMA DefinedIsLive ==
    ASSUME BeanInv, RenderFaults(app) = {}, released = <<>>, NEW x, DefinedBefore(Assembly(app), x, at)
    PROVE  Live(x)
  <1>1. PICK t : t = Assembly(app)
    OBVIOUS
  <1>2. Progress(t) /\ Present(t) /\ WellBuilt(app, t, Ids(app), app.tasks # <<>>)
    BY <1>1, ProgramOf DEF BeanInv
  <1>3. PICK n \in Nat : n = Len(t)
    BY <1>2 DEF WellBuilt
  <1>4. at \in Int
    BY <1>2, <1>3 DEF Progress
  <1>5. \A y : ~Holds(released, y)
    BY DEF Holds
  <1>6. PICK j \in 1..n : j < at /\ Defines(t[j]) /\ t[j].on = x
    BY <1>1, <1>3 DEF DefinedBefore
  <1>7. x \in defined
    BY <1>2, <1>3, <1>5, <1>6 DEF Present
  <1>8. ASSUME NEW y \in Needed(Provider(app, x)) PROVE y \in defined
    <2>1. DefinedBefore(t, y, j)
      BY <1>2, <1>3, <1>6, <1>8 DEF WellBuilt, NeedsDefined
    <2>2. PICK k \in 1..n : k < j /\ Defines(t[k]) /\ t[k].on = y
      BY <1>3, <2>1 DEF DefinedBefore
    <2>3. k < at
      BY <1>4, <1>6, <2>2
    <2> QED BY <1>2, <1>3, <1>5, <2>2, <2>3 DEF Present
  <1> QED BY <1>7, <1>8 DEF Live, Bean

\* After the construction, and before the release, every provider is live.
LEMMA CompleteIsLive ==
    ASSUME BeanInv, RenderFaults(app) = {}, released = <<>>, at = Len(Assembly(app)) + 1, NEW x \in Ids(app)
    PROVE  Live(x)
  <1>1. WellBuilt(app, Assembly(app), Ids(app), app.tasks # <<>>)
    BY ProgramOf
  <1>2. DefinedBefore(Assembly(app), x, at)
    BY <1>1 DEF WellBuilt, DefinesAll
  <1> QED BY <1>2, DefinedIsLive

\* The executor is released before everything else.
LEMMA ExecutorIsFirst ==
    ASSUME BeanInv, Holds(cleanups, "executor")
    PROVE  RenderFaults(app) = {} /\ released = <<>>
  <1>1. RenderFaults(app) = {}
    <2>1. cleanups # <<>>
      BY DEF Holds
    <2> QED BY <2>1 DEF BeanInv
  <1>2. PICK t : t = Assembly(app)
    OBVIOUS
  <1>3. Stacked(app, t, at, cleanups, released) /\ WellBuilt(app, t, Ids(app), app.tasks # <<>>)
    BY <1>1, <1>2, ProgramOf DEF BeanInv, Progress
  <1>4. PICK l \in Nat : l = Len(released)
    BY <1>3 DEF Stacked
  <1>5. ASSUME l > 0 PROVE FALSE
    <2>1. PICK i \in 1..Len(cleanups) : cleanups[i] = "executor"
      BY DEF Holds
    <2>2. 1 \in 1..l
      BY <1>5
    <2>3. PICK p : p = Place(t, cleanups[i])
      OBVIOUS
    <2>4. PICK q : q = Place(t, released[1])
      OBVIOUS
    <2>5. p < q
      BY <1>3, <1>4, <2>2, <2>3, <2>4 DEF Stacked
    <2>6. p \in 1..Len(t) /\ t[p].op = "register" /\ t[p].on = "executor"
      BY <1>3, <2>1, <2>3 DEF Stacked, Registered
    <2>7. q \in 1..Len(t) /\ t[q].op = "register"
      BY <1>3, <1>4, <2>2, <2>4 DEF Stacked, Registered
    <2>8. q <= p
      BY <1>3, <2>6, <2>7 DEF WellBuilt, ExecutorLast
    <2> QED BY <2>5, <2>6, <2>7, <2>8
  <1>6. released = <<>>
    BY <1>3, <1>4, <1>5 DEF Stacked
  <1> QED BY <1>1, <1>6

\* A bean that waits for its cleanup is live: what it was constructed from is released after it.
LEMMA HeldIsLive ==
    ASSUME BeanInv, NEW x, Holds(cleanups, x), x # "executor"
    PROVE  Live(x)
  <1>1. RenderFaults(app) = {}
    <2>1. cleanups # <<>>
      BY DEF Holds
    <2> QED BY <2>1 DEF BeanInv
  <1>2. PICK t : t = Assembly(app)
    OBVIOUS
  <1>3. Progress(t) /\ Present(t) /\ WellBuilt(app, t, Ids(app), app.tasks # <<>>)
    BY <1>1, <1>2, ProgramOf DEF BeanInv
  <1>4. PICK n \in Nat : n = Len(t)
    BY <1>3 DEF WellBuilt
  <1>5. at \in Int /\ Stacked(app, t, at, cleanups, released)
    BY <1>3, <1>4 DEF Progress
  <1>6. PICK i \in 1..Len(cleanups) : cleanups[i] = x
    BY DEF Holds
  <1>7. PICK p : p = Place(t, x)
    OBVIOUS
  <1>8. p \in 1..n /\ p < at /\ t[p].op = "register" /\ t[p].on = x
    BY <1>4, <1>5, <1>6, <1>7 DEF Stacked, Registered
  <1>9. p > 1 /\ t[p - 1].op = "construct" /\ t[p - 1].on = x
    BY <1>3, <1>4, <1>8 DEF WellBuilt, RegistersOwn
  <1>10. p - 1 \in 1..n /\ p - 1 < at
    BY <1>5, <1>8, <1>9
  <1>11. Defines(t[p - 1])
    BY <1>9 DEF Defines
  \* A bean that the program defines before place p is not released yet.
  <1>12. ASSUME NEW y, NEW k \in 1..n, k < p, Defines(t[k]), t[k].on = y PROVE y \in defined
    <2>1. k < at /\ k \in Int
      BY <1>5, <1>8, <1>12
    <2>2. y \in defined \/ Holds(released, y)
      BY <1>3, <1>4, <1>12, <2>1 DEF Present
    <2>3. ASSUME Holds(released, y) PROVE FALSE
      <3>1. PICK j \in 1..Len(released) : released[j] = y
        BY <2>3 DEF Holds
      <3>2. PICK q : q = Place(t, y)
        OBVIOUS
      <3>3. q \in 1..n /\ t[q].op = "register" /\ t[q].on = y
        BY <1>4, <1>5, <3>1, <3>2 DEF Stacked, Registered
      <3>4. p < q
        BY <1>5, <1>6, <1>7, <3>1, <3>2 DEF Stacked
      <3>5. y # "executor"
        <4>1. y \in Ids(app)
          BY <1>3, <1>4, <1>12 DEF WellBuilt, DefinesAll
        <4>2. "executor" \notin Ids(app)
          BY <1>1, AppsAreCompiled DEF BeanInv, Ordered, Ids, Range
        <4> QED BY <4>1, <4>2
      <3>6. q > 1 /\ t[q - 1].op = "construct" /\ t[q - 1].on = y
        BY <1>3, <1>4, <3>3, <3>5 DEF WellBuilt, RegistersOwn
      <3>7. q - 1 \in 1..n /\ Defines(t[q - 1])
        BY <3>3, <3>6 DEF Defines
      <3>8. k = q - 1
        BY <1>3, <1>4, <1>12, <3>6, <3>7 DEF WellBuilt, DefinedOnce
      <3> QED BY <1>8, <1>12, <3>3, <3>4, <3>8
    <2> QED BY <2>2, <2>3
  <1>13. x \in defined
    <2>1. p - 1 < p
      BY <1>8
    <2> QED BY <1>9, <1>10, <1>11, <1>12, <2>1
  <1>14. ASSUME NEW y \in Needed(Provider(app, x)) PROVE y \in defined
    <2>1. DefinedBefore(t, y, p - 1)
      BY <1>3, <1>4, <1>9, <1>10, <1>11, <1>14 DEF WellBuilt, NeedsDefined
    <2>2. PICK k \in 1..n : k < p - 1 /\ Defines(t[k]) /\ t[k].on = y
      BY <1>4, <2>1 DEF DefinedBefore
    <2>3. k < p
      BY <1>8, <2>2
    <2> QED BY <1>12, <2>2, <2>3
  <1> QED BY <1>13, <1>14 DEF Live, Bean

\* In these phases the program is complete and nothing is released.
LEMMA RunningIsComplete ==
    ASSUME BeanInv, pc \in {"start", "ready", "stop"}
    PROVE  RenderFaults(app) = {} /\ at = Len(Assembly(app)) + 1 /\ released = <<>>
  BY DEF BeanInv, Progress

\* What can be called is a method of a provider.
LEMMA CallableIsProvided == ASSUME NEW a, Listed(a), NEW m \in Callable(a) PROVE m.bean \in Ids(a)
  <1>1. CASE \E i \in DOMAIN a.routes : m = [bean |-> a.routes[i].provider, layers |-> RouteLayers(a.routes[i].policies)]
    BY <1>1 DEF Listed
  <1>2. CASE \E i \in DOMAIN a.policies : \E k : m = [bean |-> a.policies[i].provider, layers |-> MethodLayers(k)]
    BY <1>2 DEF Listed
  <1> QED BY <1>1, <1>2 DEF Callable

\* The code that may run is the code of live beans.
LEMMA UsedIsLive ==
    ASSUME BeanInv, CallInv, WorkInv, ~expired, NEW x \in InUse
    PROVE  Live(x)
  <1>1. app \in Apps /\ Listed(app)
    BY AppsAreCompiled DEF BeanInv
  <1>2. CASE pc = "construct" /\ x \in Next_.uses
    <2>1. PICK t : t = Assembly(app)
      OBVIOUS
    <2>2. RenderFaults(app) = {} /\ Progress(t) /\ WellBuilt(app, t, Ids(app), app.tasks # <<>>)
      BY <1>2, <2>1, ProgramOf DEF BeanInv
    <2>3. PICK n \in Nat : n = Len(t)
      BY <2>2 DEF WellBuilt
    <2>4. at \in 1..n /\ released = <<>>
      BY <1>2, <2>2, <2>3 DEF Progress
    <2>5. DefinedBefore(t, x, at)
      BY <1>2, <2>1, <2>2, <2>3, <2>4 DEF WellBuilt, UsesDefined, Next_
    <2> QED BY <2>1, <2>2, <2>4, <2>5, DefinedIsLive
  <1>3. PICK n \in Nat : n = Len(Hooks(app)) /\ started \in 0..n
    BY <1>1, HooksOf DEF WorkInv, Serving
  <1>4. ASSUME started > 0, NEW y \in Ids(app) PROVE Live(y)
    <2>1. pc \in {"start", "ready", "stop"}
      BY <1>4 DEF WorkInv, Serving
    <2> QED BY <1>4, <2>1, RunningIsComplete, CompleteIsLive
  <1>5. CASE x # "scheduler" /\ \E i \in 1..started : x = Hooks(app)[i].bean
    <2>1. PICK i \in 1..started : x = Hooks(app)[i].bean
      BY <1>5
    <2>2. i \in 1..n /\ started > 0
      BY <1>3
    <2>3. x \in Ids(app)
      BY <1>1, <1>3, <1>5, <2>1, <2>2, HooksOf
    <2> QED BY <1>4, <2>2, <2>3
  <1>6. CASE \E i \in DOMAIN tasks : tasks[i] \in {"queued", "running"} /\ x = app.tasks[i].provider
    <2>1. PICK i \in DOMAIN app.tasks : tasks[i] \in {"queued", "running"} /\ x = app.tasks[i].provider
      BY <1>6 DEF WorkInv, Serving
    <2>2. at = Len(Assembly(app)) + 1 /\ Holds(cleanups, "executor")
      BY <2>1 DEF WorkInv, TasksHeld, Serving
    <2>3. x \in Ids(app)
      BY <1>1, <2>1 DEF Listed
    <2> QED BY <2>2, <2>3, ExecutorIsFirst, CompleteIsLive
  <1>7. CASE \E j \in DOMAIN jobs : jobs[j] = "running" /\ x = app.jobs[j].provider
    <2>1. PICK j \in DOMAIN app.jobs : jobs[j] = "running" /\ x = app.jobs[j].provider
      BY <1>7 DEF WorkInv, Serving
    <2>2. started = n
      BY <1>3, <2>1 DEF WorkInv, Serving
    <2>3. app.jobs # <<>>
      BY <2>1
    <2>4. n > 0
      BY <1>1, <1>3, <2>3, HooksOf
    <2>5. x \in Ids(app)
      BY <1>1, <2>1 DEF Listed
    <2> QED BY <1>4, <2>2, <2>4, <2>5
  <1>8. CASE \E c \in Callers : calls[c].at > 0 /\ x = calls[c].bean
    <2>1. PICK c \in Callers : calls[c].at > 0 /\ x = calls[c].bean
      BY <1>8
    <2>2. OnItsWay(calls[c], app)
      BY DEF CallInv, CallOK
    <2>3. Active(c)
      BY <2>1, <2>2 DEF OnItsWay, Active
    <2>4. PICK m \in Callable(app) : x = m.bean
      BY <2>1, <2>2, <2>3 DEF OnItsWay, Active
    <2>5. x \in Ids(app)
      BY <1>1, <2>4, CallableIsProvided
    <2>6. pc \in {"ready", "stop"}
      BY <2>3 DEF WorkInv, Active, Serving
    <2> QED BY <2>5, <2>6, RunningIsComplete, CompleteIsLive
  <1> QED BY <1>2, <1>5, <1>6, <1>7, <1>8 DEF InUse

\* The three invariants say that what is in use is live.
LEMMA InvIsLive == BeanInv /\ CallInv /\ WorkInv => InUseIsLive
  <1> SUFFICES ASSUME BeanInv, CallInv, WorkInv, ~expired
               PROVE  Reachable(InUse \cup (Range(cleanups) \ {"executor"})) \subseteq defined
    BY DEF InUseIsLive
  <1> DEFINE U == InUse \cup (Range(cleanups) \ {"executor"})
  <1>1. \A x \in U : Live(x)
    <2>1. ASSUME NEW x \in Range(cleanups) \ {"executor"} PROVE Live(x)
      <3>1. cleanups = <<>> \/ cleanups \in Seq(Kept(app))
        BY DEF BeanInv, Progress, Stacked
      <3>2. Holds(cleanups, x)
        BY <2>1, <3>1 DEF Range, Holds
      <3> QED BY <2>1, <3>2, HeldIsLive
    <2> QED BY <2>1, UsedIsLive
  <1> HIDE DEF U
  <1>2. Reachable(U) \subseteq defined
    BY <1>1 DEF Live, Reachable
  <1> QED BY <1>2 DEF U

\* For every application that the compiler hands over, in every interleaving of construction, start, calls, tasks, jobs and
\* stop: while the shutdown context lasts, a bean whose code may run, and everything it was constructed from, has been
\* constructed and not yet released.
THEOREM WhatRunsIsLive == AppSpec => []InUseIsLive
  BY InvIsLive, BeansAreAccounted, CallsGoThroughLayers, WorkEndsFirst, PTL
================================================================================

---------------------------- MODULE EventTopics ----------------------------
(***************************************************************************)
(* compiler/event: topics, their listeners and the publishers that the     *)
(* compiler adds to the catalog.  event.Publisher[E] is <<"publisher", E>>.*)
(***************************************************************************)
EXTENDS ManagedMethods

Publisher(payload) == <<"publisher", payload[2]>>

ListenerProblem(items, o, sym) ==
    FirstProblem(<<
        <<"invalid-listener-target", ~OnMethod(o, sym)>>,
        <<"invalid-listener-method", ~sym.exported \/ sym.variadic \/ sym.generic>>,
        <<"listener-signature", \/ Len(sym.params) # 2 \/ ParamType(sym, 1) # ContextType
                                \/ sym.results # <<ErrorType>> >>,
        <<"listener-provider", Cardinality(Owners(items, sym)) # 1>> >>)

\* The valid listeners, by method.
Listeners(p, items) ==
    LET Of(id) == LET occurrences == OccurrencesOf(p, "listener", id)
                  IN  IF Len(occurrences) # 1 THEN "duplicate-listener"
                      ELSE IF id \notin DOMAIN p.syms THEN "missing-listener-symbol"
                      ELSE ListenerProblem(items, occurrences[1], p.syms[id])
        good == {id \in Annotated(p, "listener") : Of(id) = ""}
    IN  [list |-> [k \in 1..Cardinality(good) |->
                      LET id == InOrder(good)[k]
                      IN  [method |-> id, owner |-> OwnerOfMethod(items, p.syms[id]), receiver |-> ReceiverOf(p.syms[id]),
                           payload |-> ParamType(p.syms[id], 2), order |-> OccurrencesOf(p, "listener", id)[1].order]],
         diagnostics |-> {<<Of(id), id>> : id \in Annotated(p, "listener") \ good}]

\* A topic is declared on its payload type or on a marker function that returns the publisher.
TopicProblem(p, o, sym) ==
    LET payload == ResultType(sym, 1)
    IN  IF o.target = "type"
        THEN FirstProblem(<<
               <<"invalid-topic-type", sym.kind # "type" \/ sym.alias \/ ~sym.exported \/ sym.generic>>,
               <<"topic-arguments", o.args>>,
               <<"publisher-type", ~p.events>> >>)
        ELSE FirstProblem(<<
               <<"invalid-topic-target", o.target # "function" \/ sym.kind # "function" \/ sym.recv # {}>>,
               <<"invalid-topic-marker", ~sym.exported \/ sym.variadic \/ sym.generic>>,
               <<"topic-arguments", o.args>>,
               <<"topic-result", Len(sym.results) # 1>>,
               <<"topic-result", payload[1] # "publisher" \/ Plain(payload[2]) \in p.unnameable>> >>)

TopicPayload(o, sym) == IF o.target = "type" THEN Plain(sym.name) ELSE Plain(ResultType(sym, 1)[2])

\* A payload type takes every listener of the payload; a marker names one provider for each listener.
Selection(o, sym, listeners) ==
    LET payload == TopicPayload(o, sym)
        all == SelectSeq(listeners, LAMBDA l : l.payload = payload)
        At(i) == SelectSeq(all, LAMBDA l : l.receiver = sym.params[i].type)
        ambiguous == \E i \in DOMAIN sym.params : Len(At(i)) # 1
        twice == \E i, j \in DOMAIN sym.params : i < j /\ At(i) = At(j)
    IN  IF o.target = "type" THEN [problem |-> "", listeners |-> all]
        ELSE IF ambiguous THEN [problem |-> "topic-listener", listeners |-> <<>>]
        ELSE IF twice THEN [problem |-> "duplicate-topic-listener", listeners |-> <<>>]
        ELSE [problem |-> "", listeners |-> [i \in DOMAIN sym.params |-> At(i)[1]]]

\* The publisher depends on the listeners' providers: each once for a payload type, one for each
\* parameter of a marker.
TopicDependencies(o, sym, selected) ==
    LET First(i) == \A j \in 1..(i - 1) : selected[j].owner # selected[i].owner
        once == SelectSeq([i \in DOMAIN selected |-> i], First)
        types == IF o.target = "type" THEN [k \in DOMAIN once |-> selected[once[k]].receiver]
                 ELSE [i \in DOMAIN sym.params |-> sym.params[i].type]
    IN  [i \in DOMAIN types |-> ClassifyDependency(i - 1, IF o.target = "type" THEN "" ELSE sym.params[i].name, types[i])]

\* Delivery order: @Listener(order), then the method; the comparison of modules in between is left out.
DeliveryOrder(p, listeners) ==
    SortSeq(listeners, LAMBDA a, b : a.order < b.order \/ (a.order = b.order /\ a.method < b.method))

NewTopic(p, o, selected) ==
    LET sym == p.syms[o.sym]
    IN  [id |-> o.sym, payload |-> TopicPayload(o, sym), listeners |-> DeliveryOrder(p, selected),
         provider |-> [NewProvider("event", o.sym, sym.name, Publisher(TopicPayload(o, sym))) EXCEPT
                          !.pkg = sym.pkg, !.deps = TopicDependencies(o, sym, selected), !.err = TRUE]]

\* Build: every listener belongs to exactly one topic.
EventBuild(p, items) ==
    LET heard == Listeners(p, items)
        Problem(id) ==
            LET occurrences == OccurrencesOf(p, "topic", id)
            IN  IF Len(occurrences) # 1 THEN "duplicate-topic"
                ELSE IF id \notin DOMAIN p.syms THEN "missing-topic-symbol"
                ELSE LET early == TopicProblem(p, occurrences[1], p.syms[id])
                     IN  IF early # "" THEN early ELSE Selection(occurrences[1], p.syms[id], heard.list).problem
        declared == Annotated(p, "topic")
        good == {id \in declared : Problem(id) = ""}
        Of(id) == OccurrencesOf(p, "topic", id)[1]
        Selected(id) == Selection(Of(id), p.syms[id], heard.list).listeners
        topics == {NewTopic(p, Of(id), Selected(id)) : id \in good}
        Takes(id, l) == l \in ToSet(Selected(id))
    IN  [topics |-> topics,
         diagnostics |-> heard.diagnostics
            \cup {<<Problem(id), id>> : id \in declared \ good}
            \cup {<<"duplicate-listener-selection", id>> : id \in {x \in good :
                     \E l \in ToSet(heard.list) : Takes(x, l) /\ \E y \in good : y < x /\ Takes(y, l)}}
            \cup {<<"unassigned-listener", l.method>> :
                     l \in {x \in ToSet(heard.list) : ~\E id \in good : Takes(id, x)}}]
=============================================================================

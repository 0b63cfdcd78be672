--------------------------- MODULE ManagedMethods ---------------------------
(***************************************************************************)
(* compiler/lifecycle, compiler/schedule and compiler/async: methods that  *)
(* the framework calls.  Each pass takes a program p and the providers     *)
(* items of the catalog and yields its plan and its diagnostics.           *)
(***************************************************************************)
EXTENDS ProviderCatalog

ContextType == Plain("context.Context")
Nothing == Plain("")

\* The type of a parameter or a result, if there is one.
ParamType(sym, i) == IF i \in DOMAIN sym.params THEN sym.params[i].type ELSE Nothing
ResultType(sym, i) == IF i \in DOMAIN sym.results THEN sym.results[i] ELSE Nothing
ReceiverOf(sym) == IF sym.recv = {} THEN Nothing ELSE CHOOSE t \in sym.recv : TRUE

OnMethod(o, sym) == o.target = "method" /\ sym.kind = "method" /\ sym.recv # {}

\* The providers whose output is exactly the receiver: no conversion between T and *T, no interfaces.
Owners(items, sym) == {i \in DOMAIN items : items[i].output = ReceiverOf(sym)}
OwnerOfMethod(items, sym) == items[CHOOSE i \in Owners(items, sym) : TRUE].id

\* The annotated symbols, and the annotations of one of them in source order.
Annotated(p, kind) == {o.sym : o \in ToSet(Contributions(p, kind))}
OccurrencesOf(p, kind, id) == SelectSeq(Contributions(p, kind), LAMBDA o : o.sym = id)

\* The rows that lifecycle and schedule share: a method of a context that returns an error.
ContextMethodRows(sym) ==
    << <<"generic-receiver", sym.generic>>,
       <<"variadic", sym.variadic>>,
       <<"parameter-count", Len(sym.params) # 1>>,
       <<"context-type", ParamType(sym, 1) # ContextType>>,
       <<"result-count", Len(sym.results) # 1>>,
       <<"result-type", ResultType(sym, 1) # ErrorType>> >>

OwnerRows(items, sym) ==
    << <<"receiver-provider", Owners(items, sym) = {}>>,
       <<"ambiguous-provider", Cardinality(Owners(items, sym)) # 1>> >>

\* An annotation that may appear once, on a symbol of the program; problem is what is wrong with it otherwise.
SingleProblem(p, occurrences, problem) ==
    IF Len(occurrences) # 1 THEN "duplicate-annotation"
    ELSE IF occurrences[1].sym \notin DOMAIN p.syms THEN "missing-symbol"
    ELSE problem

-----------------------------------------------------------------------------
(* @OnStart and @OnStop.                                                   *)

HookProblem(items, o, sym) ==
    FirstProblem(<< <<"invalid-target", ~OnMethod(o, sym)>>, <<"arguments", o.args>> >>
                 \o ContextMethodRows(sym) \o OwnerRows(items, sym))

\* A method carries one of the two annotations.
LifecycleProblem(p, items, id) ==
    LET occurrences == OccurrencesOf(p, "lifecycle", id)
    IN  IF Cardinality({o.phase : o \in ToSet(occurrences)}) > 1 THEN "conflicting-annotations"
        ELSE SingleProblem(p, occurrences, HookProblem(items, occurrences[1], p.syms[id]))

\* Build: the hooks of each provider; the first method of a phase counts, and a stop needs a start.
LifecycleBuild(p, items) ==
    LET failed == {id \in Annotated(p, "lifecycle") : LifecycleProblem(p, items, id) # ""}
        claims == {[owner |-> OwnerOfMethod(items, p.syms[id]), method |-> id,
                    phase |-> OccurrencesOf(p, "lifecycle", id)[1].phase] : id \in Annotated(p, "lifecycle") \ failed}
        Late(h) == \E g \in claims : g.owner = h.owner /\ g.phase = h.phase /\ g.method < h.method
        hooks == {h \in claims : ~Late(h)}
        orphans == {h \in hooks : h.phase = "stop" /\ ~\E g \in hooks : g.owner = h.owner /\ g.phase = "start"}
    IN  [hooks |-> hooks,
         diagnostics |-> {<<LifecycleProblem(p, items, id), id>> : id \in failed}
                         \cup {<<IF h.phase = "start" THEN "duplicate-start" ELSE "duplicate-stop", h.method>> :
                                  h \in claims \ hooks}
                         \cup {<<"stop-without-start", h.method>> : h \in orphans}]

-----------------------------------------------------------------------------
(* @FixedDelay.  A duration is [text, value]: text is "" (absent),         *)
(* "malformed" (padded or not a Go duration) or "duration".                *)

DurationProblem(d, positive) ==
    CASE d.text = "" -> positive
      [] d.text = "malformed" -> TRUE
      [] d.text = "duration" -> IF positive THEN d.value <= 0 ELSE d.value < 0

JobProblem(items, o, sym) ==
    FirstProblem(<< <<"invalid-target", ~OnMethod(o, sym)>> >> \o ContextMethodRows(sym) \o OwnerRows(items, sym)
                 \o << <<"duration", DurationProblem(o.delay, TRUE) \/ DurationProblem(o.initial, FALSE)>> >>)

\* Build: the jobs of the program.
ScheduleBuild(p, items) ==
    LET Option(id) == OccurrencesOf(p, "schedule", id)[1]
        Of(id) == SingleProblem(p, OccurrencesOf(p, "schedule", id), JobProblem(items, Option(id), p.syms[id]))
        failed == {id \in Annotated(p, "schedule") : Of(id) # ""}
    IN  [jobs |-> {[method |-> id, owner |-> OwnerOfMethod(items, p.syms[id]), delay |-> Option(id).delay.value,
                    initial |-> Option(id).initial.value, continue |-> Option(id).continue]
                      : id \in Annotated(p, "schedule") \ failed},
         diagnostics |-> {<<Of(id), id>> : id \in failed}]

-----------------------------------------------------------------------------
(* @Async.                                                                 *)

\* p.unnameable are the types that generated code cannot name: unexported ones and what is built of them.
TaskProblem(p, items, o, sym) ==
    FirstProblem(<<
        <<"invalid-target", ~OnMethod(o, sym)>>,
        <<"arguments", o.args>>,
        <<"unexported-method", ~sym.exported>>,
        <<"generic-receiver", sym.generic>>,
        <<"variadic", sym.variadic>>,
        <<"parameter-count", sym.params = <<>> >>,
        <<"context-type", ParamType(sym, 1) # ContextType>>,
        <<"result-type", sym.results # <<ErrorType>> >>,
        <<"parameter-type", \E i \in 2..Len(sym.params) : sym.params[i].type \in p.unnameable>> >>
      \o OwnerRows(items, sym)
      \o << <<"receiver-type", ReceiverOf(sym) \in p.unnameable>> >>)

\* The method of the application that submits a task.
SubmitMethod(sym) == "Submit" \o ReceiverOf(sym)[2] \o sym.name

\* Build: the tasks; two of them may not generate the same method.
AsyncBuild(p, items) ==
    LET Of(id) == LET all == OccurrencesOf(p, "async", id) IN SingleProblem(p, all, TaskProblem(p, items, all[1], p.syms[id]))
        failed == {id \in Annotated(p, "async") : Of(id) # ""}
        good == Annotated(p, "async") \ failed
        Collides(id) == \E other \in good \ {id} : SubmitMethod(p.syms[other]) = SubmitMethod(p.syms[id])
    IN  [tasks |-> {[method |-> id, owner |-> OwnerOfMethod(items, p.syms[id]), submit |-> SubmitMethod(p.syms[id])]
                       : id \in good},
         diagnostics |-> {<<Of(id), id>> : id \in failed}
                         \cup {<<"submit-method-collision", id>> : id \in {x \in good : Collides(x)}}]
=============================================================================

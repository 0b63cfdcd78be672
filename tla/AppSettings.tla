---------------------------- MODULE AppSettings ----------------------------
(***************************************************************************)
(* compiler/enum, compiler/configuration and compiler/bootstrap: closed    *)
(* enums, configuration types and the features that an application turns   *)
(* on.                                                                     *)
(*                                                                         *)
(* p.files maps a symbol to its file, p.scalars are the types that are     *)
(* strings or integers underneath, p.constants the constants of the        *)
(* program [pkg, file, type, name, value], p.fields the fields of a struct *)
(* [exported, embedded, tag, key, environment, scalar, accessible, fits].  *)
(* tag is "none", "ignored", "malformed" or "options"; a key is a sequence *)
(* of segments; fits says that the schema accepts the property and that    *)
(* its default is in the range of the field's type.                        *)
(***************************************************************************)
EXTENDS ManagedMethods

-----------------------------------------------------------------------------
(* Enums.                                                                  *)

EnumProblem(p, o, sym) ==
    FirstProblem(<<
        <<"invalid-target", o.target # "type" \/ sym.kind # "type">>,
        <<"alias", sym.alias>>,
        <<"unexported-type", ~sym.exported>>,
        <<"generic-type", sym.generic>>,
        <<"unsupported-underlying-type", o.sym \notin p.scalars>>,
        <<"arguments", o.args>> >>)

\* The constants of an enum's file have its type, its members are nowhere else, and no two are equal.
ConstantProblem(p, id, k) ==
    LET c == p.constants[k]
        sym == p.syms[id]
        Same(x) == x.pkg = sym.pkg /\ x.file = p.files[id] /\ x.type = Plain(sym.name)
        earlier == {j \in 1..(k - 1) : Same(p.constants[j]) /\ p.constants[j].name # "_"}
    IN  IF c.pkg # sym.pkg THEN ""
        ELSE FirstProblem(<<
            <<"non-enum-constant", c.file = p.files[id] /\ ~Same(c)>>,
            <<"member-outside-enum-file", c.file # p.files[id] /\ c.type = Plain(sym.name)>>,
            <<"blank-member", Same(c) /\ c.name = "_">>,
            <<"duplicate-value", Same(c) /\ \E j \in earlier : p.constants[j].value = c.value>> >>)

Members(p, id) ==
    {k \in DOMAIN p.constants : /\ ConstantProblem(p, id, k) = ""
                                /\ p.constants[k].pkg = p.syms[id].pkg /\ p.constants[k].file = p.files[id]}

EnumDiagnostics(p, o) ==
    LET id == o.sym
        shape == EnumProblem(p, o, p.syms[id])
    IN  IF shape # "" THEN {<<shape, id>>}
        ELSE {<<ConstantProblem(p, id, k), id>> : k \in {j \in DOMAIN p.constants : ConstantProblem(p, id, j) # ""}}
             \cup (IF Members(p, id) = {} THEN {<<"missing-members", id>>} ELSE {})

\* Build: an enum is declared once and alone in its file.
EnumBuild(p) ==
    LET all == Contributions(p, "enum")
        Repeated(k) == \E j \in 1..(k - 1) : all[j].sym = all[k].sym
        Placed(k) == ~Repeated(k) /\ all[k].sym \in DOMAIN p.syms
        Shares(k) == \E j \in 1..(k - 1) : Placed(j) /\ p.files[all[j].sym] = p.files[all[k].sym]
        At(k) == IF Repeated(k) THEN {<<"duplicate-annotation", all[k].sym>>}
                 ELSE IF all[k].sym \notin DOMAIN p.syms THEN {<<"missing-symbol", all[k].sym>>}
                 ELSE IF Shares(k) THEN {<<"multiple-enums-in-file", all[k].sym>>} ELSE EnumDiagnostics(p, all[k])
    IN  [types |-> {all[k].sym : k \in {j \in DOMAIN all : At(j) = {}}}, diagnostics |-> UNION {At(k) : k \in DOMAIN all}]

-----------------------------------------------------------------------------
(* Configuration types.                                                    *)

ConfigurationProblem(o, sym) ==
    FirstProblem(<<
        <<"invalid-target", o.target # "type" \/ sym.kind # "type">>,
        <<"unexported-type", ~sym.exported>>,
        <<"invalid-type", sym.alias>>,
        <<"generic", sym.generic>>,
        <<"invalid-type", ~sym.struct>> >>)

PropertyProblem(f) ==
    FirstProblem(
        IF ~f.exported THEN << <<"unexported", f.tag \notin {"none", "ignored"}>> >>
        ELSE << <<"embedded", f.embedded>>,
                <<"missing-tag", f.tag = "none">>,
                <<"invalid-tag", f.tag = "malformed">>,
                <<"unsupported-type", f.tag = "options" /\ ~f.scalar>>,
                <<"unexported-type", f.tag = "options" /\ ~f.accessible>>,
                <<"invalid-property", f.tag = "options" /\ ~f.fits>> >>)

\* The fields of a type that are bound to a property.
Properties(p, id) == SelectSeq(p.fields[id], LAMBDA f : f.exported /\ f.tag = "options")
PropertyKey(o, f) == o.prefix \o f.key

\* duplicatePropertyDiagnostics: a key, and a variable that is given, belongs to one property.
PropertyClashes(p, types) ==
    LET ordered == SortSeq(types, LAMBDA a, b : a.sym < b.sym)
        all == FlattenSeq([k \in DOMAIN ordered |->
                  LET fields == Properties(p, ordered[k].sym)
                  IN  [i \in DOMAIN fields |-> [owner |-> ordered[k].sym, key |-> PropertyKey(ordered[k], fields[i]),
                                                environment |-> fields[i].environment]]])
    IN  {<<"duplicate-key", all[i].owner>> : i \in {x \in DOMAIN all : \E j \in 1..(x - 1) : all[j].key = all[x].key}}
        \cup {<<"duplicate-environment", all[i].owner>> : i \in {x \in DOMAIN all :
                 all[x].environment # "" /\ \E j \in 1..(x - 1) : all[j].environment = all[x].environment}}

\* Build: the configuration types, each with valid fields only.
ConfigurationBuild(p) ==
    LET all == Contributions(p, "configuration")
        Shape(k) == IF \E j \in 1..(k - 1) : all[j].sym = all[k].sym THEN "duplicate-annotation"
                    ELSE IF all[k].sym \notin DOMAIN p.syms THEN "missing-symbol"
                    ELSE ConfigurationProblem(all[k], p.syms[all[k].sym])
        At(k) == IF Shape(k) # "" THEN {<<Shape(k), all[k].sym>>}
                 ELSE {<<PropertyProblem(f), all[k].sym>> : f \in {x \in ToSet(p.fields[all[k].sym]) : PropertyProblem(x) # ""}}
        good == SelectSeq([k \in DOMAIN all |-> k], LAMBDA k : At(k) = {})
        types == [i \in DOMAIN good |-> all[good[i]]]
    IN  [types |-> types, diagnostics |-> (UNION {At(k) : k \in DOMAIN all}) \cup PropertyClashes(p, types)]

\* A configuration type is a provider of its value.
ConfigurationProviders(p, types) ==
    [i \in DOMAIN types |->
        [NewProvider("configuration", types[i].sym, p.syms[types[i].sym].name, Plain(p.syms[types[i].sym].name)) EXCEPT
            !.pkg = p.syms[types[i].sym].pkg]]

-----------------------------------------------------------------------------
(* Features of an application.  A definition is [annotation, capability,   *)
(* malformed, options, requirements, entrypoints]; an option of it is      *)
(* [name, kind, allowed, required, unique, minimum], allowed = {} for any  *)
(* text.  An assigned option is [name, kind, items], one value one item.   *)

Builtins ==
    << [annotation |-> "Management", capability |-> "management", malformed |-> FALSE,
        requirements |-> {"http-serve-mux"}, entrypoints |-> {},
        options |-> << [name |-> "expose", kind |-> "list", allowed |-> {"health", "loggers"}, required |-> TRUE,
                        unique |-> TRUE, minimum |-> 1],
                       [name |-> "access", kind |-> "string", allowed |-> {"public", "loopback"}, required |-> FALSE,
                        unique |-> FALSE, minimum |-> 0] >>],
       [annotation |-> "Logging", capability |-> "logging", malformed |-> FALSE, requirements |-> {},
        entrypoints |-> {}, options |-> <<>>] >>

\* indexDefinitions: an annotation and a capability are defined once.
DefinitionDiagnostics(definitions) ==
    LET Valid(k) == ~definitions[k].malformed
        Problem(k) == FirstProblem(<<
            <<"invalid-definition", ~Valid(k)>>,
            <<"duplicate-definition", \E j \in 1..(k - 1) : Valid(j) /\ definitions[j].annotation = definitions[k].annotation>>,
            <<"duplicate-capability", \E j \in 1..(k - 1) : Valid(j) /\ definitions[j].capability = definitions[k].capability>> >>)
    IN  {<<Problem(k), k>> : k \in {j \in DOMAIN definitions : Problem(j) # ""}}

\* compileOption and validateListOption.
OptionProblems(option, a) ==
    LET items == a.items
    IN  IF a.kind # option.kind THEN {"invalid-option-kind"}
        ELSE IF a.kind # "list"
        THEN IF option.allowed # {} /\ ~ToSet(items) \subseteq option.allowed THEN {"unsupported-value"} ELSE {}
        ELSE (IF Len(items) < option.minimum THEN {"too-few-items"} ELSE {})
             \cup (IF option.allowed # {} /\ ~ToSet(items) \subseteq option.allowed THEN {"unsupported-item"} ELSE {})
             \cup (IF option.unique /\ Repeats(items) THEN {"duplicate-item"} ELSE {})

\* compileOptions.
FeatureProblems(definition, assigned) ==
    LET Known(name) == {option \in ToSet(definition.options) : option.name = name}
        First(k) == \A j \in 1..(k - 1) : assigned[j].name # assigned[k].name
        At(k) == IF Known(assigned[k].name) = {} THEN {"unknown-option"}
                 ELSE IF ~First(k) THEN {"duplicate-option"}
                 ELSE UNION {OptionProblems(option, assigned[k]) : option \in Known(assigned[k].name)}
        missing == {option \in ToSet(definition.options) :
                       option.required /\ \A k \in DOMAIN assigned : assigned[k].name # option.name}
    IN  (UNION {At(k) : k \in DOMAIN assigned}) \cup {"missing-option" : option \in missing}

\* The items given to an option.
OptionItems(feature, name) == UNION {ToSet(a.items) : a \in {x \in ToSet(feature.assigned) : x.name = name}}

\* The loggers endpoint needs the logging capability and is never public; loopback is the default.
LoggingProblem(features) ==
    LET management == {f \in features : f.capability = "management"}
        loggers == \E f \in management : "loggers" \in OptionItems(f, "expose")
    IN  IF ~loggers THEN ""
        ELSE FirstProblem(<<
            <<"missing-logging-capability", \A f \in features : f.capability # "logging">>,
            <<"unsafe-logger-management-access", \E f \in management : "public" \in OptionItems(f, "access")>> >>)

\* Compile: the features of every application; applications are the symbols with @Application.
BootstrapCompile(p, definitions) ==
    LET all == Contributions(p, "bootstrap")
        applications == Annotated(p, "application")
        DefinitionOf(k) == {d \in ToSet(definitions) : d.capability = all[k].capability}
        Recognized(k) == DefinitionOf(k) # {} /\ all[k].target = "function" /\ all[k].sym \in applications
        Again(k) == \E j \in 1..(k - 1) : Recognized(j) /\ all[j].sym = all[k].sym /\ all[j].capability = all[k].capability
        At(k) == LET problem == FirstProblem(<<
                        <<"unsupported-capability", DefinitionOf(k) = {}>>,
                        <<"invalid-target", all[k].target # "function">>,
                        <<"missing-application", all[k].sym \notin applications>>,
                        <<"duplicate-annotation", Again(k)>> >>)
                 IN  IF problem # "" THEN {problem}
                     ELSE UNION {FeatureProblems(d, all[k].options) : d \in DefinitionOf(k)}
        FeaturesOf(app) == {[capability |-> all[k].capability, assigned |-> all[k].options,
                             requirements |-> UNION {d.requirements : d \in DefinitionOf(k)},
                             entrypoints |-> UNION {d.entrypoints : d \in DefinitionOf(k)}] :
                               k \in {j \in DOMAIN all : all[j].sym = app /\ At(j) = {}}}
        ambiguous == DefinitionDiagnostics(definitions)
    IN  IF ambiguous # {} THEN [features |-> [app \in {} |-> {}], diagnostics |-> ambiguous]
        ELSE [features |-> [app \in applications |-> FeaturesOf(app)],
              diagnostics |-> (UNION {{<<x, all[k].sym>> : x \in At(k)} : k \in DOMAIN all})
                              \cup {<<LoggingProblem(FeaturesOf(app)), app>> :
                                       app \in {x \in applications : LoggingProblem(FeaturesOf(x)) # ""}}]
=============================================================================

----------------------------- MODULE Annotations -----------------------------
(***************************************************************************)
(* From comments to annotations: compiler/parser, compiler/annotationimport,*)
(* compiler/descriptor, compiler/resolve and compiler/validate, and the    *)
(* part of compiler/load that says which packages and symbols are looked   *)
(* at.  Everything here is a function of the source.                       *)
(*                                                                         *)
(* A source is a record of                                                 *)
(*   files        in the order of packages and names; at (below) grows     *)
(*   declared     the functions that look like descriptors, by reference   *)
(*   requested    the packages that the patterns select                    *)
(*   handlers     what the tool answers for an annotation, by its name     *)
(* A comment is [line, form, at, name, tokens]: a line or a block comment; *)
(* "text", "import", "legacy" (the old import) or "annotation"; its place; *)
(* the parts of the annotation's dotted name; and what follows, in tokens. *)
(* A declared name is [text, sym].  References are <<package, symbol>>.    *)
(***************************************************************************)
EXTENDS ProviderCatalog

CONSTANTS
    Quoted,         \* string token -> the import path it holds, "" when no import may have it
    Exported        \* the identifiers that begin with a capital

Punctuation == {"(", ")", ",", "=", "[", "]", "{", "}", "*"}
IsWord(t) == t \notin Punctuation \cup {"str", "int", "huge"} \cup DOMAIN Quoted
Peek(t) == IF t = <<>> THEN "" ELSE t[1]
After(t, n) == SubSeq(t, n + 1, Len(t))

-----------------------------------------------------------------------------
(* compiler/parser: annotations.                                           *)

BadValue == [ok |-> FALSE, value |-> [kind |-> "", items |-> <<>>], rest |-> <<>>]
GoodValue(kind, items, rest) == [ok |-> TRUE, value |-> [kind |-> kind, items |-> items], rest |-> rest]

\* parseValueIdentifier: type arguments run to the bracket that closes them, and hold no parenthesis.
BracketEnd(t) ==
    LET Depth(i) == Cardinality({j \in 2..i : t[j] = "["}) - Cardinality({j \in 2..i : t[j] = "]"})
        ends == {i \in 2..Len(t) : Depth(i) = 0 /\ \A j \in 2..(i - 1) : Depth(j) > 0 /\ t[j] # ")"}
    IN  IF ends = {} THEN 0 ELSE CHOOSE i \in ends : TRUE
ParseIdentifierValue(t) ==
    IF Len(t) < 2 \/ t[2] # "["
    THEN GoodValue(IF t[1] \in {"true", "false"} THEN "boolean" ELSE "identifier", <<>>, Tail(t))
    ELSE IF BracketEnd(t) = 0 THEN BadValue ELSE GoodValue("identifier", <<>>, After(t, BracketEnd(t)))

RECURSIVE ParseValue(_), ParseItems(_, _)
ParseValue(t) ==
    IF t = <<>> THEN BadValue
    ELSE CASE t[1] = "str" \/ t[1] \in DOMAIN Quoted -> GoodValue("string", <<>>, Tail(t))
           [] t[1] = "[" -> IF Peek(Tail(t)) = "]" THEN GoodValue("list", <<>>, After(t, 2)) ELSE ParseItems(Tail(t), <<>>)
           [] t[1] = "int" -> GoodValue("integer", <<>>, Tail(t))
           [] IsWord(t[1]) -> ParseIdentifierValue(t)
           [] OTHER -> BadValue

\* parseList, after its bracket or a comma.
ParseItems(t, items) ==
    LET item == ParseValue(t)
        all == Append(items, item.value.kind)
    IN  IF ~item.ok THEN BadValue
        ELSE CASE Peek(item.rest) = "]" -> GoodValue("list", all, Tail(item.rest))
               [] Peek(item.rest) = "," -> IF Peek(Tail(item.rest)) = "]" THEN BadValue ELSE ParseItems(Tail(item.rest), all)
               [] OTHER -> BadValue

BadArguments == [ok |-> FALSE, args |-> <<>>, rest |-> <<>>]

\* parseArguments and parseArgument: a positional argument does not follow a named one, a name is used once.
RECURSIVE ParseArguments(_, _)
ParseArguments(t, args) ==
    LET named == t # <<>> /\ IsWord(t[1]) /\ Peek(Tail(t)) = "="
        value == ParseValue(IF named THEN After(t, 2) ELSE t)
        all == Append(args, [name |-> IF named THEN t[1] ELSE "", value |-> value.value])
    IN  IF ~value.ok \/ (\E i \in DOMAIN args : args[i].name # "" /\ (~named \/ args[i].name = t[1])) THEN BadArguments
        ELSE CASE Peek(value.rest) = ")" -> [ok |-> TRUE, args |-> all, rest |-> Tail(value.rest)]
               [] Peek(value.rest) = "," ->
                      IF Peek(Tail(value.rest)) = ")" THEN BadArguments ELSE ParseArguments(Tail(value.rest), all)
               [] OTHER -> BadArguments

\* parseAnnotation, after the name.
ParseBrackets(t) ==
    CASE t = <<>> -> [ok |-> TRUE, args |-> <<>>, rest |-> <<>>]
      [] Peek(t) = "(" /\ Peek(Tail(t)) = ")" -> [ok |-> TRUE, args |-> <<>>, rest |-> After(t, 2)]
      [] Peek(t) = "(" /\ Peek(Tail(t)) # ")" -> ParseArguments(Tail(t), <<>>)
      [] OTHER -> BadArguments

\* ParseComment, after the @: nothing follows the annotation.
Complete(c, parsed) == [at |-> c.at, name |-> c.name, ok |-> c.name # <<>> /\ parsed.ok /\ parsed.rest = <<>>, args |-> parsed.args]
ParseAnnotation(c) == Complete(c, ParseBrackets(c.tokens))

-----------------------------------------------------------------------------
(* compiler/parser: imports.                                               *)

BadImport == [ok |-> FALSE, pkg |-> "", namespace |-> "", bindings |-> <<>>]
Usable(t) == IsWord(t) /\ t \notin {"", "_"}

\* parseFromPackage.
ParseFrom(t, namespace, bindings) ==
    IF Len(t) = 2 /\ t[1] = "from" /\ t[2] \in DOMAIN Quoted /\ Quoted[t[2]] # ""
    THEN [ok |-> TRUE, pkg |-> Quoted[t[2]], namespace |-> namespace, bindings |-> bindings] ELSE BadImport

\* parseNamed, after its brace or a comma.
RECURSIVE ParseNamed(_, _)
ParseNamed(t, bindings) ==
    LET aliased == Peek(Tail(t)) = "as"
        local == IF aliased THEN Peek(After(t, 2)) ELSE t[1]
        rest == After(t, IF aliased THEN 3 ELSE 1)
        all == Append(bindings, [imported |-> t[1], local |-> local])
    IN  IF t = <<>> \/ t[1] \notin Exported \/ (\E i \in DOMAIN bindings : bindings[i].imported = t[1]) \/ ~Usable(local)
        THEN BadImport
        ELSE CASE Peek(rest) = "}" -> ParseFrom(Tail(rest), "", all)
               [] Peek(rest) = "," -> ParseNamed(Tail(rest), all)
               [] OTHER -> BadImport

ParseImport(c) ==
    CASE c.form = "legacy" -> BadImport
      [] Peek(c.tokens) = "*" -> IF Len(c.tokens) > 2 /\ c.tokens[2] = "as" /\ Usable(c.tokens[3])
                                  THEN ParseFrom(After(c.tokens, 3), c.tokens[3], <<>>) ELSE BadImport
      [] Peek(c.tokens) = "{" -> ParseNamed(Tail(c.tokens), <<>>)
      [] OTHER -> BadImport

-----------------------------------------------------------------------------
(* Files, packages and symbols.                                            *)

\* A file is [pkg, name, excluded, nested, overlay, built, doc, decls, loose]: what its name says
\* ("source", "test" or "generated"), whether its directory is left out or lies in a nested module, whether an
\* editor holds its text, whether the build takes it, and what it contains.
\* A declaration is [tok, receiver, doc, names, specs, params]; a specification is [doc, names]; a
\* parameter is [names, before], the groups before it with their distance in lines.
GroupsOf(d) ==
    <<d.doc>> \o [i \in DOMAIN d.specs |-> d.specs[i].doc]
    \o FlattenSeq([i \in DOMAIN d.params |-> [j \in DOMAIN d.params[i].before |-> d.params[i].before[j].group]])
CommentsOf(file) ==
    file.doc \o file.loose \o FlattenSeq([i \in DOMAIN file.decls |-> FlattenSeq(GroupsOf(file.decls[i]))])

\* discoveryFiles: names first; a file that an editor holds is found in left-out directories too.
Discovered(file) == file.name = "source" /\ ~file.nested /\ (file.overlay \/ ~file.excluded)

\* importsInSource: the imports of a file that parse.
Directives(file) ==
    LET of == SelectSeq(CommentsOf(file), LAMBDA c : c.line /\ c.form = "import")
    IN  SelectSeq([i \in DOMAIN of |-> ParseImport(of[i])], LAMBDA d : d.ok)

\* Discover: every import of every file, whatever the build takes.
DiscoveredImports(src) == UNION {ToSet(Directives(f)) : f \in {x \in ToSet(src.files) : Discovered(x)}}
DiscoveredPackages(src) == {d.pkg : d \in DiscoveredImports(src)}
NamedReferences(src) == UNION {{<<d.pkg, b.imported>> : b \in ToSet(d.bindings)} : d \in DiscoveredImports(src)}

\* Packages that annotations are imported from are auxiliary, also when they are requested.
Primary(src, pkg) == pkg \in src.requested /\ pkg \notin DiscoveredPackages(src)
Loaded(src) == src.requested \cup DiscoveredPackages(src)

\* functionSymbol, typeSymbol and valueSymbols: blank names and init functions have no symbol.
HasSymbol(name, tok, receiver) == name.text # "_" /\ ~(tok = "func" /\ ~receiver /\ name.text = "init")

-----------------------------------------------------------------------------
(* compiler/descriptor.                                                    *)

\* A descriptor is [form, returns, plain, documented, body, literals, file, handler, handlerFile, suffix,
\* valid, name, targets, args]: a function or something else, that returns a definition, without
\* parameters, receiver or type parameters; whether its body returns a literal; the fields of its
\* literals; the files and packages of descriptor and handler; and what the literal says.

\* The fields that decodeDefinition, decodeArgument, exampleValues, compatibilityValue and
\* implementationValue know.
DefinitionFields == {"Name", "Summary", "Targets", "Repeatable", "Arguments", "Examples", "Compatibility", "Implementation"}
ArgumentFields == {"Name", "Kinds", "ListElementKinds", "ValueDomain", "AllowedValues", "Description", "Default", "Required",
                   "Positional", "Variadic"}
ExampleFields == {"Title", "Code"}
CompatibilityFields == {"Since", "MinimumSpice"}
ImplementationFields == {"Tool", "Handler", "Protocol"}
KnownFields == [definition |-> DefinitionFields, argument |-> ArgumentFields, example |-> ExampleFields,
                compatibility |-> CompatibilityFields, implementation |-> ImplementationFields]

\* keyedFields and stringValue: each known field once, by name, with a value that needs no execution.
StaticLiteral(literal) ==
    /\ \A i \in DOMAIN literal.fields : literal.fields[i].key \in KnownFields[literal.of] /\ literal.fields[i].static
    /\ \A i, j \in DOMAIN literal.fields : literal.fields[i].key = literal.fields[j].key => i = j

\* validateSignature.
DescriptorSignature(d) == d.returns /\ d.plain

\* validateOneDescriptorPerFile: exported functions of the file that return a definition.
OneDescriptorPerFile(src, ref) ==
    {ref} = {r \in DOMAIN src.declared : /\ r[1] = ref[1] /\ r[2] \in Exported
                                         /\ src.declared[r].file = src.declared[ref].file
                                         /\ src.declared[r].form = "function" /\ src.declared[r].returns}

\* descriptorFunction: "" when there is one that may be read.
FunctionProblem(src, ref) ==
    IF ref[1] \notin Loaded(src) THEN "package-not-loaded"
    ELSE IF ref \notin DOMAIN src.declared THEN "no-function"
    ELSE FirstProblem(<<
            <<"not-a-function", src.declared[ref].form # "function">>,
            <<"not-exported", ref[2] \notin Exported>>,
            <<"signature", ~DescriptorSignature(src.declared[ref])>>,
            <<"undocumented", ~src.declared[ref].documented>>,
            <<"several-in-file", ~OneDescriptorPerFile(src, ref)>> >>)

\* validateHandlerInDescriptorFile.
HandlerIsNear(d) == d.handlerFile = d.file

\* Decode.
DescriptorProblem(src, ref) ==
    IF FunctionProblem(src, ref) # "" THEN FunctionProblem(src, ref)
    ELSE LET d == src.declared[ref]
         IN  FirstProblem(<<
                <<"not-a-literal", d.body # "literal">>,
                <<"not-static", \E i \in DOMAIN d.literals : ~StaticLiteral(d.literals[i])>>,
                <<"name-suffix", d.suffix # ref[2]>>,
                <<"invalid-definition", ~d.valid>>,
                <<"foreign-handler", d.handler # ref[1]>>,
                <<"distant-handler", ~HandlerIsNear(d)>> >>)

\* NamespaceReferences: what a package offers under a namespace.
Offers(src, pkg) ==
    {ref \in DOMAIN src.declared : ref[1] = pkg /\ ref[2] \in Exported /\ src.declared[ref].form = "function"
                                   /\ DescriptorSignature(src.declared[ref])}

\* usedAnnotationNamespacePackages: namespaces that some annotation of the file's text uses.
UsedNamespaces(src) ==
    UNION {{d.pkg : d \in {x \in ToSet(Directives(f)) : x.namespace # "" /\
                \E c \in ToSet(CommentsOf(f)) : c.line /\ c.form = "annotation" /\ ParseAnnotation(c).ok
                                                /\ Len(c.name) > 1 /\ c.name[1] = x.namespace}}
           : f \in {x \in ToSet(src.files) : Discovered(x) /\ x.built /\ x.pkg \in Loaded(src)}}

\* selectedDescriptorReferences and DecodeAll: one descriptor that cannot be read fails all of them,
\* and so does a name that two define.
References(src) == NamedReferences(src) \cup UNION {Offers(src, pkg) : pkg \in UsedNamespaces(src)}
DescriptorDiagnostics(src) ==
    LET bad == {ref \in References(src) : DescriptorProblem(src, ref) # ""}
    IN  CASE \E pkg \in UsedNamespaces(src) : Offers(src, pkg) = {} -> {<<"empty-namespace", 0>>}
          [] bad # {} -> {<<"descriptor", 0>>}
          [] \E a, b \in References(src) \ bad : a # b /\ src.declared[a].name = src.declared[b].name -> {<<"duplicate-name", 0>>}
          [] OTHER -> {}

-----------------------------------------------------------------------------
(* compiler/resolve.                                                       *)

\* What a step finds: occurrences and diagnostics, in source order.
Found(occs, diagnostics) == [occs |-> occs, diagnostics |-> diagnostics]
Both(a, b) == Found(a.occs \o b.occs, a.diagnostics \cup b.diagnostics)
All(results) == FoldLeft(Both, Found(<<>>, {}), results)
Reported(kind, directives) == Found(<<>>, {<<kind, directives[i].at>> : i \in DOMAIN directives})

\* annotationimport.Resolve: the names that the imports of a file bind, in order.
Bindings(file) ==
    LET of == Directives(file)
        Bound(d) == IF d.namespace # "" THEN <<[local |-> d.namespace, ref |-> <<d.pkg>>]>>
                    ELSE [i \in DOMAIN d.bindings |-> [local |-> d.bindings[i].local, ref |-> <<d.pkg, d.bindings[i].imported>>]]
    IN  FlattenSeq([i \in DOMAIN of |-> Bound(of[i])])

\* resolveFileImports: any import that does not parse or collides makes all of them invalid.
ImportDiagnostics(file, bound) ==
    {<<IF c.form = "legacy" THEN "annotation-import-legacy" ELSE "annotation-import-parse", c.at>> :
        c \in {x \in ToSet(CommentsOf(file)) : x.line /\ x.form \in {"import", "legacy"} /\ ~ParseImport(x).ok}}
    \cup {<<"annotation-import-binding", 0>> : i \in {j \in DOMAIN bound : \E k \in 1..(j - 1) : bound[k].local = bound[j].local}}

FileImports(file, bound) ==
    LET found == ImportDiagnostics(file, bound)
    IN  [bound |-> bound, diagnostics |-> found, valid |-> found = {}]

\* Table.Lookup: what the name of an annotation refers to, if anything.
LookupAnnotation(bindings, name) ==
    LET bound == ToSet(bindings)
    IN  CASE Len(name) = 1 -> {b.ref : b \in {x \in bound : x.local = name[1] /\ Len(x.ref) = 2}}
          [] Len(name) = 2 /\ "" \notin ToSet(name) -> {<<b.ref[1], name[2]>> : b \in {x \in bound : x.local = name[1] /\ Len(x.ref) = 1}}
          [] OTHER -> {}

\* parseGroup: line comments that are annotations; the others are left alone.
ParseGroup(group) ==
    LET of == SelectSeq(group, LAMBDA c : c.line /\ c.form = "annotation")
    IN  [i \in DOMAIN of |-> ParseAnnotation(of[i])]

\* bindImports for one annotation: "" when it is bound.
BindProblem(definitions, found) ==
    CASE found = {} -> "annotation-import"
      [] \E ref \in found : ref[2] \notin Exported -> "annotation-import"
      [] \E ref \in found : ref \notin DOMAIN definitions -> "annotation-descriptor"
      [] OTHER -> ""

\* What the documentation of a declaration says, with the annotations that are bound.  Invalid
\* imports have been reported; nothing else is said of the file's annotations.
BoundBy(definitions, imports, parsed) ==
    LET Problem(d) == BindProblem(definitions, LookupAnnotation(imports.bound, d.name))
        good == SelectSeq(parsed, LAMBDA d : d.ok)
    IN  [diagnostics |-> {<<"parse", d.at>> : d \in {x \in ToSet(parsed) : ~x.ok}}
                         \cup IF imports.valid THEN {<<Problem(d), d.at>> : d \in {x \in ToSet(good) : Problem(x) # ""}} ELSE {},
         bound |-> IF imports.valid THEN SelectSeq(good, LAMBDA d : Problem(d) = "") ELSE <<>>]
Documentation(definitions, imports, group) == BoundBy(definitions, imports, ParseGroup(group))

\* An annotation on a symbol (its package's name stands for a package).
Occurrence(definitions, imports, directive, sym, target, param) ==
    LET ref == CHOOSE r \in LookupAnnotation(imports.bound, directive.name) : TRUE
    IN  [at |-> directive.at, def |-> ref, name |-> definitions[ref].name, args |-> directive.args,
         target |-> target, sym |-> sym, param |-> param]
OnSymbol(definitions, imports, directives, sym, target, param) ==
    Found([i \in DOMAIN directives |-> Occurrence(definitions, imports, directives[i], sym, target, param)], {})

\* resolveIdentifierDirectives.
OnName(definitions, imports, directives, name, target, tok, receiver) ==
    CASE name.text = "_" -> Reported("ambiguity", directives)
      [] name.text # "_" /\ ~HasSymbol(name, tok, receiver) -> Reported("resolution", directives)
      [] OTHER -> OnSymbol(definitions, imports, directives, name.sym, target, 0)

\* resolveSpecDirectives.
OnSpec(definitions, imports, directives, spec, tok) ==
    IF tok # "type" /\ Len(spec.names) # 1 THEN Reported("ambiguity", directives)
    ELSE OnName(definitions, imports, directives, spec.names[1], [type |-> "type", var |-> "variable", const |-> "constant"][tok], tok, FALSE)

\* resolveGeneralDeclaration: the documentation of a group of several is for none of them.
ResolveGeneral(definitions, imports, d) ==
    LET whole == Documentation(definitions, imports, d.doc)
        Of(spec) == LET own == Documentation(definitions, imports, spec.doc)
                    IN  Both(Found(<<>>, own.diagnostics), OnSpec(definitions, imports, own.bound, spec, d.tok))
        Grouped == IF whole.bound = <<>> THEN Found(<<>>, {})
                   ELSE IF Len(d.specs) # 1 THEN Reported("ambiguity", whole.bound)
                   ELSE OnSpec(definitions, imports, whole.bound, d.specs[1], d.tok)
    IN  IF d.tok = "import" THEN Found(<<>>, {})
        ELSE All(<<Found(<<>>, whole.diagnostics), Grouped>> \o [i \in DOMAIN d.specs |-> Of(d.specs[i])])

\* precedingParameterDocumentation: the group that ends on the line before.
ParameterGroup(param) ==
    LET near == {i \in DOMAIN param.before : param.before[i].lines = 1}
    IN  IF near = {} THEN <<>> ELSE param.before[CHOOSE i \in near : \A j \in near : j <= i].group

\* resolveParameterDirectives.
ResolveParameter(definitions, imports, d, param, index) ==
    LET own == Documentation(definitions, imports, ParameterGroup(param))
    IN  Both(Found(<<>>, own.diagnostics),
             IF param.names > 1 THEN Reported("ambiguity", own.bound)
             ELSE OnSymbol(definitions, imports, own.bound, d.names[1].sym, "parameter", index))

\* resolveParameters: a function without a symbol is passed over.
ResolveParameters(definitions, imports, d) ==
    LET Width(k) == IF d.params[k].names = 0 THEN 1 ELSE d.params[k].names
        Index(k) == FoldLeft(LAMBDA n, j : n + Width(j), 0, [j \in 1..(k - 1) |-> j])
    IN  IF HasSymbol(d.names[1], "func", d.receiver) THEN All([k \in DOMAIN d.params |-> ResolveParameter(definitions, imports, d, d.params[k], Index(k))]) ELSE Found(<<>>, {})

ResolveFunctionDecl(definitions, imports, d) ==
    LET own == Documentation(definitions, imports, d.doc)
    IN  All(<<Found(<<>>, own.diagnostics),
              OnName(definitions, imports, own.bound, d.names[1], IF d.receiver THEN "method" ELSE "function", "func", d.receiver),
              ResolveParameters(definitions, imports, d)>>)

\* Seeded fault: a file whose imports are wrong is passed over.
ResolveFileOpen(definitions, imports, file) ==
    LET own == Documentation(definitions, imports, file.doc)
    IN  All(<<Found(<<>>, own.diagnostics), OnSymbol(definitions, imports, own.bound, 0, "package", 0)>>
            \o [i \in DOMAIN file.decls |-> IF file.decls[i].tok = "func" THEN ResolveFunctionDecl(definitions, imports, file.decls[i])
                                            ELSE ResolveGeneral(definitions, imports, file.decls[i])])

\* resolveFile.
ResolveFile(definitions, imports, file) ==
    LET own == Documentation(definitions, imports, file.doc)
    IN  All(<<Found(<<>>, imports.diagnostics \cup own.diagnostics),
              OnSymbol(definitions, imports, own.bound, 0, "package", 0)>>
            \o [i \in DOMAIN file.decls |-> IF file.decls[i].tok = "func" THEN ResolveFunctionDecl(definitions, imports, file.decls[i])
                                            ELSE ResolveGeneral(definitions, imports, file.decls[i])])

\* resolvePackage: files that the build takes, of packages that are analysed.
Selected(src) == SelectSeq(src.files, LAMBDA f : f.built /\ Primary(src, f.pkg))
ResolveFiles(definitions, files) ==
    All([i \in DOMAIN files |-> ResolveFile(definitions, FileImports(files[i], Bindings(files[i])), files[i])])
ResolveAnnotations(src) == ResolveFiles([ref \in References(src) |-> src.declared[ref]], Selected(src))

-----------------------------------------------------------------------------
(* compiler/validate.  A definition's argument is [name, kinds, elements,  *)
(* required, positional, variadic].                                        *)

\* listElementDiagnostics and missingRequired.
ElementsAccepted(a, value) == value.kind = "list" /\ a.elements # {} => ToSet(value.items) \subseteq a.elements
MissingRequired(def, assigned) == {"missing-required" : a \in {x \in ToSet(def.args) : x.required /\ assigned[x.name] = 0}}

\* Seeded fault: an argument that was given by its place may be given again by its name.
CheckArgumentTwice(def, done, supplied) ==
    LET positional == {a \in ToSet(def.args) : a.positional}
        chosen == IF supplied.name = "" THEN positional ELSE {a \in ToSet(def.args) : a.name = supplied.name}
        count == done.positional + IF supplied.name = "" THEN 1 ELSE 0
        Refuse(kind) == [done EXCEPT !.positional = count, !.problems = @ \cup {kind}]
        Take(a) ==
            LET kind == supplied.value.kind \notin a.kinds
            IN  [positional |-> count, assigned |-> [done.assigned EXCEPT ![a.name] = @ + 1],
                 problems |-> done.problems \cup (IF kind THEN {"wrong-kind"} ELSE IF ~ElementsAccepted(a, supplied.value) THEN {"wrong-list-element-kind"} ELSE {})]
    IN  CASE supplied.name = "" /\ count > 1 /\ (\A a \in positional : ~a.variadic) -> Refuse("too-many-positional")
          [] supplied.name = "" /\ count <= 1 /\ positional = {} -> Refuse("positional-not-accepted")
          [] supplied.name # "" /\ chosen = {} -> Refuse("unknown-argument")
          [] OTHER -> Take(CHOOSE a \in chosen : TRUE)

\* annotationArguments for one supplied argument: done is what the earlier ones came to.
CheckArgument(def, done, supplied) ==
    LET positional == {a \in ToSet(def.args) : a.positional}
        chosen == IF supplied.name = "" THEN positional ELSE {a \in ToSet(def.args) : a.name = supplied.name}
        count == done.positional + IF supplied.name = "" THEN 1 ELSE 0
        Refuse(kind) == [done EXCEPT !.positional = count, !.problems = @ \cup {kind}]
        Take(a) ==
            LET again == done.assigned[a.name] > 0 /\ ~a.variadic
                kind == supplied.value.kind \notin a.kinds
            IN  [positional |-> count, assigned |-> [done.assigned EXCEPT ![a.name] = @ + 1],
                 problems |-> done.problems \cup (IF again THEN {"duplicate-assignment"} ELSE {})
                              \cup (IF kind THEN {"wrong-kind"} ELSE IF ~ElementsAccepted(a, supplied.value) THEN {"wrong-list-element-kind"} ELSE {})]
    IN  CASE supplied.name = "" /\ count > 1 /\ (\A a \in positional : ~a.variadic) -> Refuse("too-many-positional")
          [] supplied.name = "" /\ count <= 1 /\ positional = {} -> Refuse("positional-not-accepted")
          [] supplied.name # "" /\ chosen = {} -> Refuse("unknown-argument")
          [] OTHER -> Take(CHOOSE a \in chosen : TRUE)

\* Occurrences of compiler/validate.
ValidateOccurrence(def, occurrence) ==
    LET names == {a.name : a \in ToSet(def.args)}
        checked == FoldLeft(LAMBDA done, s : CheckArgument(def, done, s),
                            [positional |-> 0, assigned |-> [n \in names |-> 0], problems |-> {}], occurrence.args)
        arguments == IF occurrence.args # <<>> /\ def.args = <<>> THEN {"arguments-not-accepted"}
                     ELSE checked.problems \cup MissingRequired(def, checked.assigned)
    IN  arguments \cup IF occurrence.target \in def.targets THEN {} ELSE {"invalid-target"}
=============================================================================

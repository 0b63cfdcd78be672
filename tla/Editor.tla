-------------------------------- MODULE Editor --------------------------------
(***************************************************************************)
(* What the language server offers for one Go file: completion of          *)
(* annotations and of interfaces (internal/lsp/features.go), the helpers   *)
(* of an enum (enum_actions.go), quick fixes, and the way from a name to   *)
(* its definition (navigation.go).  An answer is made from the text of the *)
(* open document and from the results of the last analysis, which may be   *)
(* those of an older text; the user accepts it and so changes the text.    *)
(*                                                                         *)
(* A text is [go, directives, uses, raw, helpers, plain]: its Go imports   *)
(* [pkg, alias], its annotation imports [pkg, namespace, bindings], the    *)
(* names that were accepted, whether a line begins with an annotation that *)
(* is not a comment, how often each helper is declared, and whether the    *)
(* enum is a string.  Names are sequences: <<Local>>, <<qualifier, Name>>. *)
(* A reference is <<package, symbol>>.                                     *)
(***************************************************************************)
EXTENDS Integers, Sequences, SequencesExt, FiniteSets

CONSTANTS
  Catalog,         \* descriptors of the annotations that can be imported, in the order of the catalog
  TakesInterface,  \* those whose argument is an interface
  Contracts,       \* interfaces of the program, in the order of their packages: [pkg, name, exported]
  Home,            \* the package of the file
  Base,            \* package -> the last element of its path
  PackageName,     \* package -> the name it declares
  Suffixed,        \* name -> the name with 2, 3, ...
  FileTexts,       \* texts of the file on the disk
  MaxChanges       \* bound: changes of the text

ASSUME EditorBound == MaxChanges \in Nat

VARIABLES
  document,   \* of the server: [open, text, version, opened], the last one counts how often it was opened
  saved,      \* the text on the disk
  latest,     \* the last result that was accepted
  lastGood,   \* the last one with a plan
  changes     \* changes so far

editorVars == <<document, saved, latest, lastGood, changes>>

NoResult == [has |-> FALSE, text |-> {}, version |-> 0, opened |-> 0, definitions |-> <<>>, annotations |-> {},
             contracts |-> <<>>, enums |-> FALSE, raw |-> FALSE]

EditorInit ==
  /\ saved \in FileTexts
  /\ document = [open |-> TRUE, text |-> saved, version |-> 1, opened |-> 1]
  /\ latest = NoResult /\ lastGood = NoResult /\ changes = 0

-------------------------------------------------------------------------------
(* Names in a file, as the compiler has them.                              *)

LocalsOf(d) == IF d.namespace # "" THEN <<[name |-> d.namespace, ref |-> <<d.pkg>>]>>
               ELSE [i \in DOMAIN d.bindings |-> [name |-> d.bindings[i].local, ref |-> <<d.pkg, d.bindings[i].imported>>]]
Locals(text) == FlattenSeq([i \in DOMAIN text.directives |-> LocalsOf(text.directives[i])])
Bound(text, name) == SelectSeq(Locals(text), LAMBDA l : l.name = name)
Collide(text) == \E i, j \in DOMAIN Locals(text) : i < j /\ Locals(text)[i].name = Locals(text)[j].name

\* Table.Lookup: the first import of a name counts. <<>> when there is none.
Lookup(text, name) ==
  LET found == Bound(text, name[1])
      plain == Len(name) = 1
  IN  IF found = <<>> \/ (Len(Head(found).ref) = 1) = plain THEN <<>>
      ELSE IF plain THEN Head(found).ref ELSE Append(Head(found).ref, name[2])

\* importedPackage: a Go import by the name that it has in the file, or the first namespace. "" when there is none.
GoName(i) == IF i.alias = "" THEN PackageName[i.pkg] ELSE i.alias
Imported(text, qualifier) ==
  LET go == SelectSeq(text.go, LAMBDA i : GoName(i) = qualifier)
      spaces == SelectSeq(text.directives, LAMBDA d : d.namespace = qualifier)
  IN  IF go # <<>> THEN Head(go).pkg ELSE IF spaces # <<>> THEN Head(spaces).pkg ELSE ""

\* selectedDescriptorReferences: what is imported by name, and the packages of the namespaces that are used; of two
\* namespaces with one name the last.
References(text) ==
  LET used == {text.uses[i].name[1] : i \in {j \in DOMAIN text.uses : text.uses[j].kind = "annotation" /\ Len(text.uses[j].name) = 2}}
      Of(n) == SelectSeq(text.directives, LAMBDA d : d.namespace = n)
      spaces == {Last(Of(n)).pkg : n \in {m \in used : Of(m) # <<>>}}
  IN  {l.ref : l \in {x \in ToSet(Locals(text)) : Len(x.ref) = 2}} \cup {r \in ToSet(Catalog) : r[1] \in spaces}

\* registryWithDescriptors: one definition of a name, the last one.
DefinitionsOf(references) ==
  SelectSeq(Catalog, LAMBDA r : r \in references
                                /\ \A i \in DOMAIN Catalog : Catalog[i] \in references /\ Catalog[i][2] = r[2] => i <= SelectLastInSeq(Catalog, LAMBDA x : x = r))

\* The line of a use: below the imports.
Line(text, i) == Len(text.go) + Len(text.directives) + i
Annotated(text) == {i \in DOMAIN text.uses : text.uses[i].kind = "annotation"}
Occurrences(text) ==
  {[line |-> Line(text, i), name |-> text.uses[i].name, ref |-> Lookup(text, text.uses[i].name)]
   : i \in {j \in Annotated(text) : Lookup(text, text.uses[j].name) # <<>>}}

\* analyze, as far as the editor sees it: an annotation that is no comment ends it before anything is loaded, an
\* import without a descriptor before definitions are known, and a result that has a plan becomes the good one.
\* It is accepted only for the current text (LspServer).
Analyse(good) ==
  LET text == document.text
      decodes == ~text.raw /\ References(text) \subseteq ToSet(Catalog)
      result == [has |-> TRUE, text |-> text, version |-> document.version, opened |-> document.opened,
                 definitions |-> IF decodes THEN DefinitionsOf(References(text)) ELSE <<>>,
                 annotations |-> IF decodes /\ ~Collide(text) THEN Occurrences(text) ELSE {},
                 contracts |-> IF text.raw THEN <<>> ELSE Contracts, enums |-> good, raw |-> text.raw]
  IN  /\ document.open
      /\ good => decodes /\ ~Collide(text)
      /\ latest' = result
      /\ lastGood' = IF good THEN result ELSE lastGood
      /\ UNCHANGED <<document, saved, changes>>

-------------------------------------------------------------------------------
(* featureSnapshot and fileScopedDefinitions.                              *)

\* What the last result lacks is taken from the last good one.
View ==
  [definitions |-> IF latest.definitions = <<>> THEN lastGood.definitions ELSE latest.definitions,
   annotations |-> IF latest.annotations = {} THEN lastGood.annotations ELSE latest.annotations,
   contracts   |-> IF latest.contracts = <<>> THEN lastGood.contracts ELSE latest.contracts,
   enums       |-> latest.enums \/ lastGood.enums]

\* mergeAnnotationDefinitions.
Merged(definitions) == definitions \o SelectSeq(Catalog, LAMBDA r : r \notin ToSet(definitions))

Entry(name, ref) == [name |-> name, ref |-> ref]
Scope(directive, definitions) ==
  IF directive.namespace # ""
  THEN LET of == SelectSeq(definitions, LAMBDA r : r[1] = directive.pkg)
       IN  [i \in DOMAIN of |-> Entry(<<directive.namespace, of[i][2]>>, of[i])]
  ELSE LET of == SelectSeq(directive.bindings, LAMBDA b : <<directive.pkg, b.imported>> \in ToSet(definitions))
       IN  [i \in DOMAIN of |-> Entry(<<of[i].local>>, <<directive.pkg, of[i].imported>>)]

\* The first of a name counts; without an import every definition has its own name.
FirstOfEach(entries) ==
  FoldLeft(LAMBDA seen, e : IF \E i \in DOMAIN seen : seen[i].name = e.name THEN seen ELSE Append(seen, e), <<>>, entries)
FileScopedDefinitions(text, definitions) ==
  IF text.directives = <<>> THEN [i \in DOMAIN definitions |-> Entry(<<definitions[i][2]>>, definitions[i])]
  ELSE FirstOfEach(FlattenSeq([i \in DOMAIN text.directives |-> Scope(text.directives[i], definitions)]))

\* annotationDefinition: the set of the definition with a name.
DefinitionNamed(entries, name) ==
  LET found == SelectSeq(entries, LAMBDA e : e.name = name) IN IF found = <<>> THEN {} ELSE {Head(found).ref}

-------------------------------------------------------------------------------
(* Completion of annotations.                                              *)

NoImport == [pkg |-> "", namespace |-> "", bindings |-> <<>>]

\* A definition that is not imported, under its symbol; under the name of its package if that is taken.
OfferAlways(offers, ref) ==
  Append(offers, [name |-> <<ref[2]>>, ref |-> ref, import |-> [NoImport EXCEPT !.pkg = ref[1], !.bindings = <<[imported |-> ref[2], local |-> ref[2]]>>]])
Offer(offers, ref) ==
  LET taken == \E i \in DOMAIN offers : offers[i].name = <<ref[2]>>
      import == IF taken THEN [NoImport EXCEPT !.pkg = ref[1], !.namespace = Base[ref[1]]]
                ELSE [NoImport EXCEPT !.pkg = ref[1], !.bindings = <<[imported |-> ref[2], local |-> ref[2]]>>]
  IN  Append(offers, [name |-> IF taken THEN <<Base[ref[1]], ref[2]>> ELSE <<ref[2]>>, ref |-> ref, import |-> import])

\* annotationCompletionCandidates.
Candidates(text, definitions) ==
  LET scoped == IF text.directives = <<>> THEN <<>> ELSE FileScopedDefinitions(text, definitions)
      offers == [i \in DOMAIN scoped |-> [name |-> scoped[i].name, ref |-> scoped[i].ref, import |-> NoImport]]
      others == SelectSeq(definitions, LAMBDA r : \A i \in DOMAIN scoped : scoped[i].ref # r)
  IN  FoldLeft(Offer, offers, others)

Rewrite(text) ==
  /\ document.open /\ changes < MaxChanges
  /\ document' = [document EXCEPT !.text = text, !.version = @ + 1]
  /\ changes' = changes + 1
  /\ UNCHANGED <<saved, latest, lastGood>>

\* annotationImportEdit: below the last annotation import.
WithImport(text, import) == IF import = NoImport THEN text ELSE [text EXCEPT !.directives = Append(@, import)]
WithUse(text, kind, name, ref, doubt) ==
  [text EXCEPT !.uses = Append(@, [kind |-> kind, name |-> name, means |-> ref, doubt |-> doubt])]

\* What a completion does not take into account: an import that none of its definitions stands for, and a name of
\* the file that is the name of the package.
Unforeseen(text, definitions, offer) ==
  \/ \E l \in ToSet(Locals(text)) : Len(l.ref) = 2 /\ l.ref \notin ToSet(definitions)
  \/ Collide(text)
  \/ offer.import.namespace # "" /\ Bound(text, offer.import.namespace) # <<>>

\* The user accepts one; the line that it completes may be one without a comment, which then is one.
CompleteAnnotation(discovered, onRaw) ==
  LET text == document.text
      definitions == IF discovered THEN Merged(View.definitions) ELSE View.definitions
  IN  /\ onRaw => text.raw
      /\ \E offer \in ToSet(Candidates(text, definitions)) :
           Rewrite([WithUse(WithImport(text, offer.import), "annotation", offer.name, offer.ref, Unforeseen(text, definitions, offer))
                      EXCEPT !.raw = @ /\ ~onRaw])

-------------------------------------------------------------------------------
(* Completion of interfaces.                                               *)

\* inspectGoImports and inspectSpiceNamespaces: by package the last one counts.
Unusable(text, pkg) == \E i \in ToSet(text.go) : i.pkg = pkg /\ i.alias \in {"_", "."}
GoImportsOf(text, pkg) == SelectSeq(text.go, LAMBDA i : i.pkg = pkg /\ i.alias \notin {"_", "."})
SpacesOf(text, pkg) == SelectSeq(text.directives, LAMBDA d : d.namespace # "" /\ d.pkg = pkg)
GoOccupied(text) == {IF i.alias = "" THEN Base[i.pkg] ELSE i.alias : i \in {x \in ToSet(text.go) : x.alias \notin {"_", "."}}}
Occupied(text) == GoOccupied(text) \cup ({d.namespace : d \in ToSet(text.directives)} \ {""})

AvailableQualifier(name, occupied) == Head(SelectSeq(<<name>> \o Suffixed[name], LAMBDA n : n \notin occupied))

\* interfaceQualifier: [ok, name, add]; name is "" in the package of the file.
Qualifier(text, pkg) ==
  LET go == GoImportsOf(text, pkg)
      spaces == SpacesOf(text, pkg)
      Is(name, add) == [ok |-> TRUE, name |-> name, add |-> add]
  IN  CASE pkg = Home -> Is("", FALSE)
        [] pkg # Home /\ Unusable(text, pkg) -> [Is("", FALSE) EXCEPT !.ok = FALSE]
        [] pkg # Home /\ ~Unusable(text, pkg) /\ go # <<>> -> Is(GoName(Last(go)), FALSE)
        [] pkg # Home /\ ~Unusable(text, pkg) /\ go = <<>> /\ spaces # <<>> -> Is(Last(spaces).namespace, FALSE)
        [] OTHER -> Is(AvailableQualifier(PackageName[pkg], Occupied(text)), TRUE)

Qualified(qualifier, name) == IF qualifier = "" THEN <<name>> ELSE <<qualifier, name>>

\* What it relies on: a name stands for one import, and a package has the name that its path ends with.
Tidy(text) ==
  LET go == [i \in DOMAIN text.go |-> GoName(text.go[i])]
      spaces == [i \in DOMAIN Locals(text) |-> Locals(text)[i].name]
      names == SelectSeq(go \o spaces, LAMBDA n : n \notin {"_", "."})
  IN  /\ \A i, j \in DOMAIN names : i # j => names[i] # names[j]
      /\ \A i \in ToSet(text.go) : i.alias = "" => PackageName[i.pkg] = Base[i.pkg]

\* In the argument of an annotation that takes one (the definitions are those of the analysis).
InterfaceExpected(text) ==
  \E i \in Annotated(text) :
    DefinitionNamed(FileScopedDefinitions(text, View.definitions), text.uses[i].name) \cap TakesInterface # {}

CompleteInterface(contract) ==
  LET text == document.text
      qualifier == Qualifier(text, contract.pkg)
      import == IF qualifier.add THEN [NoImport EXCEPT !.pkg = contract.pkg, !.namespace = qualifier.name] ELSE NoImport
  IN  /\ InterfaceExpected(text)
      /\ contract \in ToSet(View.contracts)
      /\ contract.pkg = Home \/ contract.exported
      /\ qualifier.ok
      /\ Rewrite(WithUse(WithImport(text, import), "interface", Qualified(qualifier.name, contract.name),
                         <<contract.pkg, contract.name>>, ~Tidy(text)))

-------------------------------------------------------------------------------
(* Code actions.                                                           *)

Helpers == {"Parse", "String", "Valid"}

\* existingFormatImport: a blank import of fmt is in the way.
FormatImports(text) == SelectSeq(text.go, LAMBDA i : i.pkg = "fmt")
FormatFails(text) == FormatImports(text) # <<>> /\ Head(FormatImports(text)).alias = "_"
FormatUsable(text) == FormatImports(text) # <<>> /\ ~FormatFails(text)

\* enumHelperCodeAction: for an enum of the analysis, what the text, which must parse, does not have.
MissingHelpers(text) == {h \in Helpers : text.helpers[h] = 0}
NeedsFormat(text, missing) == "Parse" \in missing \/ ("String" \in missing /\ ~text.plain)
GenerateHelpers ==
  LET text == document.text
      missing == MissingHelpers(text)
      needs == NeedsFormat(text, missing)
      import == IF needs /\ FormatImports(text) = <<>> THEN <<[pkg |-> "fmt", alias |-> ""]>> ELSE <<>>
  IN  /\ View.enums /\ ~text.raw /\ missing # {}
      /\ needs => ~FormatFails(text)
      /\ Rewrite([text EXCEPT !.go = import \o @, !.helpers = [h \in Helpers |-> IF h \in missing THEN @[h] + 1 ELSE @[h]]])

\* protocolCodeAction: a fix is for one version of the document.
FixOffered == document.open /\ latest.raw /\ latest.version = document.version
ApplyFix == FixOffered /\ Rewrite([document.text EXCEPT !.raw = FALSE])

-------------------------------------------------------------------------------
(* From a name to its definition.                                          *)

\* definitionForOccurrence: by the line and the spelling in the last analysis, else by the imports of the text.
DefinitionForOccurrence(text, i) ==
  LET use == text.uses[i]
      summaries == {a \in View.annotations : a.name = use.name /\ a.line = Line(text, i) /\ a.ref \in ToSet(View.definitions)}
  IN  IF summaries # {} THEN {a.ref : a \in summaries}
      ELSE DefinitionNamed(FileScopedDefinitions(text, View.definitions), use.name)

\* interfacePackageMatches and goInterfaceReferenceAt.
PackageMatches(text, pkg, name) ==
  CASE Len(name) = 1 -> pkg = Home
    [] Len(name) = 2 /\ SpacesOf(text, pkg) # <<>> -> Last(SpacesOf(text, pkg)).namespace = name[1]
    [] OTHER -> GoImportsOf(text, pkg) # <<>> /\ GoName(Last(GoImportsOf(text, pkg))) = name[1]
InterfaceReference(text, i) ==
  LET name == text.uses[i].name
      found == SelectSeq(View.contracts, LAMBDA c : PackageMatches(text, c.pkg, name) /\ c.name = Last(name))
  IN  IF found = <<>> \/ ~InterfaceExpected(text) THEN {} ELSE {<<Head(found).pkg, Head(found).name>>}

-------------------------------------------------------------------------------
(* The user.                                                               *)

TypeRaw == ~document.text.raw /\ Rewrite([document.text EXCEPT !.raw = TRUE])

\* A document that is opened again begins with what is on the disk, and with version 1.
Close == /\ document.open /\ document.opened < 2
         /\ document' = [document EXCEPT !.open = FALSE]
         /\ UNCHANGED <<saved, latest, lastGood, changes>>
Open == /\ ~document.open
        /\ document' = [open |-> TRUE, text |-> saved, version |-> 1, opened |-> document.opened + 1]
        /\ UNCHANGED <<saved, latest, lastGood, changes>>

EditorNext ==
  \/ \E good \in BOOLEAN : Analyse(good)
  \/ \E discovered, onRaw \in BOOLEAN : CompleteAnnotation(discovered, onRaw)
  \/ \E contract \in ToSet(Contracts) : CompleteInterface(contract)
  \/ GenerateHelpers \/ ApplyFix \/ TypeRaw \/ Close \/ Open

-------------------------------------------------------------------------------
(* Properties.                                                             *)

\* What the compiler makes of a name in the text.
Meaning(text, use) ==
  IF use.kind = "annotation" THEN Lookup(text, use.name)
  ELSE IF Len(use.name) = 1 THEN <<Home, use.name[1]>> ELSE <<Imported(text, use.name[1]), use.name[2]>>

\* The results were made since the document was opened.
SinceOpened == {latest.opened, lastGood.opened} \subseteq {0, document.opened}

\* A completion that was accepted keeps meaning what was offered, whatever is accepted after it: the compiler resolves
\* the name to the definition or interface of the offer (features.go:526-589, 1058-1118), and going to the definition
\* leads there or nowhere, also from results of an older text of the open document (navigation.go:131-216, 373-404).
AcceptedKeepsMeaning ==
  LET text == document.text IN
  \A i \in DOMAIN text.uses :
    LET use == text.uses[i] IN
    ~use.doubt => /\ Meaning(text, use) = use.means
                  /\ use.kind = "annotation" /\ ~Collide(text) /\ SinceOpened => DefinitionForOccurrence(text, i) \subseteq {use.means}
                  /\ use.kind = "interface" /\ Tidy(text) => InterfaceReference(text, i) \subseteq {use.means}

\* A quick fix is offered only for the text it was made for (features.go:1629-1633), unless the document was opened
\* again; and a helper is generated once, with what it calls imported (enum_actions.go:53-99).
ActionsFitText ==
  /\ FixOffered /\ latest.opened = document.opened => latest.text = document.text
  /\ \A h \in Helpers : document.text.helpers[h] <= 1
  /\ \A h \in Helpers : document.text.helpers[h] = 1 /\ saved.helpers[h] = 0 /\ NeedsFormat(document.text, {h}) => FormatUsable(document.text)

\* What the server offers for a text is right for that text.
OffersHold == AcceptedKeepsMeaning /\ ActionsFitText
===============================================================================

------------------------------ MODULE MCProject ------------------------------
(* Two workers, one tool and one dependency; the user creates two files where *)
(* the commands want to write; command lines of up to three words.          *)
EXTENDS Project

CONSTANTS w1, w2

MCWorkers == {w1, w2}
MCConfigs ==
  LET good == [module |-> TRUE, versions |-> TRUE, profile |-> TRUE, replacements |-> TRUE]
  IN {good, [good EXCEPT !.replacements = FALSE]}
MCDeclarations ==
  LET good == [kind |-> TRUE, package |-> TRUE, name |-> TRUE] IN {good, [good EXCEPT !.name = FALSE]}
MCUserPaths ==
  {<<"app", "notes">>, <<"app", "go.mod">>, <<"app", "cmd">>, <<"app", "cmd", "app", "main.go">>, <<"app", "internal">>,
   <<"app", "internal", "orders", "doc.go">>, <<"app", "orders.go">>}
MCJobs == (w1 :> 2) @@ (w2 :> 1)

\* Words: x, --opt, --opt=x, -x, and the two dashes.
Word(v) == [opt |-> "", inline |-> FALSE, val |-> v, dash |-> 0]
Opt(o) == [opt |-> o, inline |-> FALSE, val |-> "", dash |-> 2]
OptIs(o, v) == [opt |-> o, inline |-> TRUE, val |-> v, dash |-> 2]
Dashed == [opt |-> "?", inline |-> FALSE, val |-> "", dash |-> 1]
Separator == [opt |-> "--", inline |-> FALSE, val |-> "", dash |-> 2]

\* Every command with no word, and with up to three of the words that its parser tells apart.
Texts == {Word(""), Word("good"), Word("bad")}
WordsOf(c) ==
  CASE c = "generate" -> {Word("good"), Word(""), Dashed, Opt("check"), OptIs("diff", ""), Opt("target"), OptIs("relocate", "good")}
    [] c = "run" -> {Word("good"), Separator, Opt("target"), OptIs("target", "good"), Opt("check")}
    [] c = "build" -> {Word("good"), Opt("target"), Opt("check")}
    [] c = "verify" -> Texts \cup {Opt("format"), OptIs("profile", "good"), OptIs("profile", "bad"), Opt("style")}
    [] c = "modules" -> Texts \cup {Opt("format"), OptIs("focus", "good"), OptIs("focus", "")}
    [] c = "test" -> Texts \cup {OptIs("module", "good"), Opt("module"), Opt("count"), Opt("race")}
    [] c = "beans" -> Texts \cup {Opt("explain"), OptIs("format", ""), OptIs("format", "good"), Opt("format")}
    [] c = "generated" -> Texts \cup {Opt("source"), Opt("generated"), Opt("line"), Opt("target")}
    [] c = "annotations" -> {Word("list"), Word("doctor"), Dashed}
    [] OTHER -> {Word("good")}
MostWords(c) == IF c \in {"generate", "generated", "beans", "run", "test"} THEN 3 ELSE IF c \in {"verify", "modules"} THEN 2 ELSE 1
MCCommandLines ==
  UNION {[command : {c}, words : UNION {[1..n -> WordsOf(c)] : n \in 0..MostWords(c)}]
         : c \in {"", "--help", "version", "generate", "build", "run", "verify", "modules", "test", "beans", "annotations", "lsp", "none"}}
  \cup [command : {"generated"}, words : {first \o rest : first \in {<<Opt("source"), Word("good")>>, <<Opt("generated"), Opt("line")>>, <<OptIs("source", "good")>>, <<Word("good")>>},
                                                     rest \in {<<>>, <<Opt("line"), Word("good")>>, <<Opt("line"), Word("bad")>>, <<Opt("target"), Word("good")>>, <<Opt("target"), Word("")>>}}]

\* Two sources a and b, two generated files g and h, and the manifest of a second target.
MCStores ==
  LET mapping(p, n, first, last) == [path |-> p, line |-> n, first |-> first, last |-> last]
      g(mappings, primary) == [path |-> "g", mappings |-> mappings, primary |-> primary]
      h(primary) == [path |-> "h", mappings |-> {}, primary |-> primary]
      all == {mapping("a", 1, 1, 2), mapping("a", 2, 2, 2), mapping("b", 1, 1, 1)}
      origin == {[path |-> "a", line |-> 1]}
      t == {[id |-> "t", schema |-> "own", files |-> {g(ms, p), h(q)}] : ms \in SUBSET all, p \in {{}, origin}, q \in {{}, origin}}
      u(schema) == [id |-> "u", schema |-> schema, files |-> {h({[path |-> "b", line |-> 2]})}]
  IN {{m} : m \in t} \cup {{m, u(s)} : m \in t, s \in {"own", "other"}}

\* Two packages web, of which each has an annotation Route, and an interface I, as has the package of the file; the
\* annotation Bind takes an interface.
MCCatalog == <<<<"x/web", "Route">>, <<"y/web", "Route">>, <<"z/log", "Bind">>>>
MCTakesInterface == {<<"z/log", "Bind">>}
MCContracts ==
  LET contract(p, n, e) == [pkg |-> p, name |-> n, exported |-> e]
  IN <<contract("home", "I", FALSE), contract("x/web", "I", TRUE), contract("y/web", "I", TRUE), contract("y/web", "i", FALSE)>>
MCBase == ("home" :> "home") @@ ("x/web" :> "web") @@ ("y/web" :> "web") @@ ("z/log" :> "log") @@ ("a/v2" :> "v2") @@ ("fmt" :> "fmt")
MCPackageName == [MCBase EXCEPT !["a/v2"] = "web"]
MCSuffixed == "web" :> <<"web2", "web3", "web4">>

\* Files with Go imports (plain, blank, with an alias, of a package whose name is not the end of its path) and
\* annotation imports (renamed, unknown, of a namespace); and files that lack helpers of their enum.
MCFileTexts ==
  LET go(p, a) == <<[pkg |-> p, alias |-> a]>>
      name(p, s, l) == [pkg |-> p, namespace |-> "", bindings |-> <<[imported |-> s, local |-> l]>>]
      space(p, n) == [pkg |-> p, namespace |-> n, bindings |-> <<>>]
      bind == name("z/log", "Bind", "Bind")
      text(g, d, p, n) == [go |-> g, directives |-> d, uses |-> <<>>, raw |-> FALSE, plain |-> p,
                           helpers |-> [h \in Helpers |-> IF h = "Parse" THEN n ELSE 0]]
  IN {text(g, <<bind>>, FALSE, 0) : g \in {<<>>, go("y/web", "_"), go("a/v2", "")}}
     \cup {text(<<>>, d, FALSE, 0) : d \in {<<>>, <<name("z/log", "Bind", "Route")>>, <<name("z/log", "None", "Route")>>, <<space("z/log", "web")>>}}
     \cup {text(go("y/web", ""), <<>>, FALSE, 0), text(go("x/web", "w"), <<bind, space("x/web", "web")>>, FALSE, 0)}
     \cup {text(go("fmt", "_"), <<>>, TRUE, 1), text(go("fmt", "_"), <<>>, FALSE, 1), text(go("fmt", "f"), <<>>, FALSE, 0)}
==============================================================================

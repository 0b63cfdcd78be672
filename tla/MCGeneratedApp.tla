--------------------------- MODULE MCGeneratedApp ----------------------------
(* Small applications: each has the parts of the program that one question  *)
(* is about.                                                                *)
EXTENDS GeneratedApp

CONSTANTS c1, c2

Local(directory) == [local |-> TRUE, directory |-> directory, base |-> "beans"]
P(id) == [id |-> id, package |-> "a", name |-> <<id>>, source |-> "bean", scope |-> "singleton", file |-> Local("internal"),
          public |-> TRUE, exported |-> TRUE, main |-> FALSE, cleanup |-> FALSE, error |-> FALSE, logger |-> FALSE,
          interfaces |-> FALSE, needs |-> <<>>]
Single(id) == [kind |-> "single", of |-> <<id>>]
Target == [valid |-> TRUE, known |-> TRUE, layout |-> "application", bridge |-> TRUE, entrypoint |-> TRUE,
           imports |-> FALSE, unit |-> <<"_root", "main">>]
Bare == [target |-> Target, bootstrap |-> [logging |-> FALSE, management |-> FALSE, httpObservation |-> FALSE],
         providers |-> <<>>, policies |-> <<>>, topics |-> <<>>, tasks |-> <<>>, jobs |-> <<>>, components |-> <<>>,
         routes |-> <<>>, reserved |-> FALSE]

Db     == [P("db") EXCEPT !.cleanup = TRUE, !.error = TRUE, !.file.directory = "."]
Store  == [P("store") EXCEPT !.cleanup = TRUE, !.needs = <<Single("db")>>, !.public = FALSE]
Worker == [P("worker") EXCEPT !.source = "stereotype", !.error = TRUE, !.public = FALSE,
                              !.needs = <<Single("store"), [kind |-> "optional", of |-> <<>>]>>]
Server == [P("server") EXCEPT !.source = "stereotype", !.package = "b", !.public = FALSE, !.file.local = FALSE]
Method(provider) == [provider |-> provider, exported |-> TRUE]

\* Background work: an asynchronous task, a scheduled job and two components.
Background ==
  [Bare EXCEPT !.providers = <<Db, Store, Worker, Server>>, !.tasks = <<Method("worker")>>, !.jobs = <<Method("store")>>,
               !.components = <<[provider |-> "worker", stop |-> FALSE, exported |-> TRUE],
                                [provider |-> "server", stop |-> TRUE, exported |-> TRUE]>>]

\* A service with every policy and its transaction manager, and names that are used twice.
Manager == [P("db") EXCEPT !.id = "manager", !.cleanup = TRUE, !.public = FALSE]
Service == [P("db") EXCEPT !.id = "service", !.package = "b", !.needs = <<Single("manager")>>]
Decorated ==
  [Bare EXCEPT !.providers = <<Manager, Service, Server>>,
               !.components = <<[provider |-> "server", stop |-> TRUE, exported |-> TRUE]>>,
               !.policies = <<[provider |-> "service", manager |-> "manager",
                               methods |-> <<{"observation", "authorization", "cache", "retry", "transaction"}>>]>>]

\* Configuration, an event topic, logging, management, a scoped bean and three routes.
Settings == [P("settings") EXCEPT !.public = FALSE, !.source = "configuration"]
Publisher == [P("publisher") EXCEPT !.public = FALSE, !.source = "event", !.interfaces = TRUE]
Session == [P("session") EXCEPT !.scope = "request", !.needs = <<Single("settings")>>]
Logger == [P("logger") EXCEPT !.source = "logging", !.exported = FALSE]
OwnLogger == [P("own") EXCEPT !.logger = TRUE]
Api == [P("api") EXCEPT !.public = FALSE, !.source = "stereotype", !.needs = <<Single("publisher"), Single("session")>>]
Route(name, policies) == [provider |-> "api", package |-> "a", name |-> <<name>>, policies |-> policies, manager |-> None]
Web ==
  [Bare EXCEPT !.bootstrap = [logging |-> TRUE, management |-> TRUE, httpObservation |-> FALSE],
               !.providers = <<Settings, Logger, OwnLogger, [Store EXCEPT !.needs = <<>>], Publisher, Session, Api, Server>>,
               !.components = <<[provider |-> "server", stop |-> TRUE, exported |-> TRUE]>>,
               !.topics = <<[provider |-> "publisher", listeners |-> <<"store">>]>>,
               !.routes = <<Route("Get", {"authorization", "cache", "validation"}), Route("Post", {"form", "validation"}),
                            Route("Get", {"raw"})>>]

\* Applications that are not rendered.
Refused ==
  {[Bare EXCEPT !.target.valid = FALSE], [Bare EXCEPT !.target.known = FALSE], [Bare EXCEPT !.target.layout = "other"],
   [Bare EXCEPT !.target.layout = "generated"],
   [Bare EXCEPT !.target.layout = "generated", !.target.bridge = FALSE, !.target.entrypoint = FALSE,
                !.target.imports = TRUE],
   [Bare EXCEPT !.target.bridge = FALSE, !.target.entrypoint = FALSE],
   [Bare EXCEPT !.providers = <<[Db EXCEPT !.exported = FALSE], [Db EXCEPT !.main = TRUE],
                                [Db EXCEPT !.package = "generated"]>>],
   [Background EXCEPT !.jobs[1].exported = FALSE, !.components[1].exported = FALSE, !.reserved = TRUE],
   [Bare EXCEPT !.providers = <<[Store EXCEPT !.needs[1].of = <<>>]>>],
   [Bare EXCEPT !.providers = <<Api, [Publisher EXCEPT !.scope = "prototype"]>>],
   [Web EXCEPT !.routes[3].policies = {"raw", "transaction"}], [Web EXCEPT !.routes[2].policies = {"form", "cache"}]}

MCApps == {Background, Decorated, Web} \cup Refused

\* Names that are used twice, in one package and in two, one that another gets when its package is put in front of it, and
\* names that others get when they are numbered or when a variable is derived from theirs.
MCNames ==
  LET named == {[P(n) EXCEPT !.package = k, !.name = <<n>>] : n \in {"store", "bean"}, k \in {"a", "b"}}
                 \cup {[P("x") EXCEPT !.name = n] : n \in {<<"a", "store">>, <<"a", "store", "2">>, <<"store", "Cleanup">>}}
                 \cup {[Session EXCEPT !.name = <<"store">>], [Publisher EXCEPT !.name = <<"store">>],
                       [P("x") EXCEPT !.scope = "prototype", !.name = <<"store", "Scope">>]}
  IN UNION {[1..n -> named] : n \in 1..3}

MCCallers == {c1, c2}
MCAuthorized == {c1}
==============================================================================

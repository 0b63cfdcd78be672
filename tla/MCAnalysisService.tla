------------------------- MODULE MCAnalysisService -------------------------
(***************************************************************************)
(* Requests for one workspace with an application (1) whose modules orders *)
(* (2, with the interface package 3) and billing (4, with 5) name each     *)
(* other's interfaces.                                                     *)
(***************************************************************************)
EXTENDS AnalysisService, TLC

Package(path, imports) == [path |-> path, gomod |-> 1, imports |-> imports]
Module(pkg, allowed) == [kind |-> "module", pkg |-> pkg, target |-> "package", allowed |-> allowed]
Interface(pkg, name) == [kind |-> "named-interface", pkg |-> pkg, target |-> "package", name |-> name]
On(module, interface) == [module |-> module, interface |-> interface, malformed |-> FALSE]

AllPackages == (1 :> Package(<<1>>, {6})) @@ (2 :> Package(<<2>>, {})) @@ (3 :> Package(<<2, 3>>, {}))
               @@ (4 :> Package(<<4>>, {})) @@ (5 :> Package(<<4, 5>>, {})) @@ (6 :> Package(<<1, 6>>, {}))
AllOccs == << Module(1, <<On(2, "api")>>), Module(2, <<On(4, "port")>>), Interface(3, "api"), Module(4, <<On(2, "api")>>),
              Interface(5, "port"), [kind |-> "provider", pkg |-> 6] >>

Complete == [packages |-> AllPackages, occs |-> AllOccs, outside |-> {}, hidden |-> {}, faults |-> <<>>,
             apps |-> {[pkg |-> 1, name |-> "app"]}, mains |-> {}, badMains |-> {}]

MCContents == <<
    Complete,
    \* billing is no module, and a provider is in no application
    [Complete EXCEPT !.occs = << AllOccs[1], AllOccs[2], AllOccs[3], [kind |-> "provider", pkg |-> 4] >>, !.mains = {1}],
    \* another interface is named, and a stage reports something
    [Complete EXCEPT !.occs[5] = Interface(5, "other"), !.faults = (6 :> "typed-style")] >>

Request(seq, mode, patterns, content) ==
    [root |-> "w", seq |-> seq, mode |-> mode, target |-> "", patterns |-> patterns, style |-> <<>>, profile |-> "none",
     content |-> content, rootIsDirectory |-> TRUE, overlay |-> {}]

Styled == [Request(2, "validate", {}, "s") EXCEPT !.style = <<[packages |-> {1, 2, 3, 6}], [packages |-> {4, 5}]>>]

MCRequests == [first |-> Request(1, "generate", {1}, ""), second |-> Styled, third |-> Request(3, "validate", {6}, "k"),
               unnumbered |-> Request(0, "validate", {6}, "k")]

MCInside == (1..6) \X {1}
=============================================================================

------------------------------- MODULE MCGenFS -------------------------------
(* Model checking of GenFS: two generators, three paths, three plans.      *)
(* Path a is in two plans with different content, b (a JSON document) in   *)
(* two with the same, c (a source shard in a package of its own) in one.   *)
(* The fourth plan renders something without the generated header.         *)
EXTENDS GenFS

MCPlanOf ==
    [p1  |-> [a |-> "a1", b |-> "b1", c |-> "absent"],
     p2  |-> [a |-> "a2", b |-> "absent", c |-> "c2"],
     p3  |-> [a |-> "absent", b |-> "b1", c |-> "absent"],
     bad |-> [a |-> "handwritten", b |-> "absent", c |-> "absent"]]

\* The shard's directory is scanned only by the plan that has a shard in it.
MCScanned == [p1 |-> {"a", "b"}, p2 |-> {"a", "b", "c"}, p3 |-> {"a", "b"}, bad |-> {"a", "b"}]
=============================================================================

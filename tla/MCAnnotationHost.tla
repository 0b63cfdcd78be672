--------------------------- MODULE MCAnnotationHost ---------------------------
(* AnnotationHost for TLC: analyses a1 and a2 share one tool that k closes. *)
EXTENDS AnnotationHost, TLC

CONSTANTS a1, a2, k

MCAnalyses == {a1, a2}
MCSymmetry == Permutations(MCAnalyses)
===============================================================================

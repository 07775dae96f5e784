--------------------------- MODULE MCNamespaceWatch ---------------------------
(* Model-checking instance of NamespaceWatch for the safety runs, with the   *)
(* inductive invariant of the proofs.  Namespaces are interchangeable, since *)
(* no operator of the modules tells them apart.                              *)
EXTENDS EngineRefinement, TLC

Symmetry == Permutations(Namespace)

===============================================================================

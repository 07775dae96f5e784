----------------------------- MODULE MCSupervised -----------------------------
(* Model-checking instance of Supervised, with the promise about the engine. *)
EXTENDS SupervisedProofs
===============================================================================

--------------------------- MODULE MCKubeTypeSource ---------------------------
(* Model-checking instance of KubeTypeSource: a cluster whose name has two   *)
(* sections; workers and names are interchangeable.                          *)
EXTENDS KubeTypeSource, TLC

MCCluster == <<"c", "io">>
Symmetry == Permutations(Worker) \cup Permutations(Name)

===============================================================================

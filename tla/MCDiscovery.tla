------------------------------ MODULE MCDiscovery ------------------------------
(* Model-checking instance of Discovery: a cluster name of two sections, and *)
(* requests with every text of up to four sections.                          *)
EXTENDS Discovery

MCCluster == <<"c", "io">>
MCSection == {"", "c", "io", "a"}
MCTexts   == UNION {[1 .. n -> MCSection] : n \in 1 .. 4}

===============================================================================

--------------------------- MODULE EngineLifecycle ---------------------------
(***************************************************************************)
(* What the restart loop of cmd/root.go promises about the discovery       *)
(* engine, without its goroutines, channels and errors.  The engine is     *)
(* filled with the sources of the cluster's namespaces as they are at that *)
(* moment, started, halted, emptied, and filled anew; it never runs with   *)
(* no sources or with those of two moments, and it is never filled while   *)
(* it runs.  The process may end at any point.                             *)
(*                                                                         *)
(* A goroutine that reads an error which the other one wrote has read a    *)
(* variable without synchronisation: from then on nothing is promised of    *)
(* the process.                                                            *)
(***************************************************************************)
EXTENDS Naturals

CONSTANT Namespace

VARIABLES
  live,     \* the namespaces of the cluster
  version,  \* the version of the cluster's namespaces
  status,   \* of the engine: "empty", "filled", "running", "halted", "ended"
            \* or "undefined"
  serves,   \* the namespaces whose sources it has
  view      \* the version at which these were listed

engineVars == <<status, serves, view>>
vars == <<live, version, engineVars>>

Init ==
  /\ live \in SUBSET Namespace /\ version = 0
  /\ status = "empty" /\ serves = {} /\ view = 0

\* A namespace is created, modified or deleted.
Change ==
  /\ live' \in SUBSET Namespace
  /\ version' = version + 1
  /\ UNCHANGED engineVars

Becomes(from, to) ==
  /\ status \in from /\ status' = to
  /\ UNCHANGED <<live, version>>

Fill  == Becomes({"empty"}, "filled") /\ serves' = live /\ view' = version
Run   == Becomes({"filled"}, "running") /\ UNCHANGED <<serves, view>>
Halt  == Becomes({"running", "filled"}, "halted") /\ UNCHANGED <<serves, view>>
Empty == Becomes({"halted"}, "empty") /\ serves' = {} /\ view' = 0
End   == Becomes({"empty", "filled", "running", "halted"}, "ended") /\ serves' = {} /\ view' = 0

Race == Becomes({"empty", "filled", "running", "halted", "ended"}, "undefined")
          /\ serves' = {} /\ view' = 0

Next == Change \/ Fill \/ Run \/ Halt \/ Empty \/ End \/ Race

Spec == Init /\ [][Next]_vars

\* A process that ended, or of which nothing is known, is followed by a new one
\* with an engine of its own.
Again == Becomes({"ended", "undefined"}, "empty") /\ serves' = {} /\ view' = 0

RestartedSpec == Init /\ [][Next \/ Again]_vars

===============================================================================

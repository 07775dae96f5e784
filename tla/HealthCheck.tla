----------------------------- MODULE HealthCheck -----------------------------
(***************************************************************************)
(* The check that the engine runs for each heartbeat (cmd/root.go).  It    *)
(* lists a node and then asks for the NATS connection, and both can come   *)
(* and go in between.  It lists with run's context, whose deadline is set  *)
(* before the engine exists.                                               *)
(*                                                                         *)
(* External parts: the engine runs the check every Frequency ticks, with   *)
(* an unknown phase; the API server and NATS come and go.                  *)
(***************************************************************************)
EXTENDS Integers

CONSTANTS
  Timeout,    \* ticks until the deadline of the context (10 s in the code)
  Frequency   \* ticks between heartbeats (30 s in the code)

ASSUME HealthAssumption == Timeout \in Nat \ {0} /\ Frequency \in Nat \ {0}

VARIABLES
  left,       \* ticks until the deadline
  timer,      \* ticks until the next heartbeat
  api, nats,  \* whether the API server answers and NATS is connected
  check,      \* the check: "none", "listing", "connection", "ok" or "failed"
  healthy,    \* history: both were up ever since the check began
  apiSeen,    \* history: the API server has been up since the check began
  natsSeen    \* history: NATS has been connected since the nodes were listed

worldVars == <<api, nats>>
timeVars  == <<left, timer>>
histVars  == <<healthy, apiSeen, natsSeen>>
vars == <<worldVars, timeVars, check, histVars>>

\* Faulty variants for the mutants.
Later(n) == n - 1
NatsNotAsked == TRUE

Sooner(n) == IF n = 0 THEN 0 ELSE n - 1
ListSucceeds == api /\ left > 0
IsNATSConnected == nats

Init ==
  /\ left = Timeout /\ timer \in 0 .. Frequency
  /\ api \in BOOLEAN /\ nats \in BOOLEAN
  /\ check = "none"
  /\ healthy = FALSE /\ apiSeen = FALSE /\ natsSeen = FALSE

\* Time passes for a running check too; the next one waits for its end.
Tick ==
  /\ timer > 0
  /\ left' = Sooner(left)
  /\ timer' = timer - 1
  /\ UNCHANGED <<worldVars, check, histVars>>

Turn(a, n) ==
  /\ api' = a /\ nats' = n
  /\ healthy' = (healthy /\ a /\ n)
  /\ apiSeen' = (apiSeen \/ a) /\ natsSeen' = (natsSeen \/ n)
  /\ UNCHANGED <<timeVars, check>>

Beat ==
  /\ timer = 0 /\ check \in {"none", "ok", "failed"}
  /\ timer' = Frequency
  /\ check' = "listing"
  /\ healthy' = (api /\ nats) /\ apiSeen' = api /\ natsSeen' = FALSE
  /\ UNCHANGED <<left, worldVars>>

ListNodes ==
  /\ check = "listing"
  /\ check' = IF ListSucceeds THEN "connection" ELSE "failed"
  /\ natsSeen' = nats
  /\ UNCHANGED <<timeVars, worldVars, healthy, apiSeen>>

AskConnection ==
  /\ check = "connection"
  /\ check' = IF IsNATSConnected THEN "ok" ELSE "failed"
  /\ UNCHANGED <<timeVars, worldVars, histVars>>

Next ==
  \/ Tick \/ Beat \/ ListNodes \/ AskConnection
  \/ \E a \in BOOLEAN, n \in BOOLEAN : Turn(a, n)

Spec == Init /\ [][Next]_vars

-------------------------------------------------------------------------------
(* Properties. *)

TypeOK ==
  /\ left \in 0 .. Timeout /\ timer \in 0 .. Frequency
  /\ api \in BOOLEAN /\ nats \in BOOLEAN
  /\ healthy \in BOOLEAN /\ apiSeen \in BOOLEAN /\ natsSeen \in BOOLEAN
  /\ check \in {"none", "listing", "connection", "ok", "failed"}

\* A check reports health only if the API server was there since it began, and
\* after that the connection to NATS.
HealthWasSeen == check = "ok" => apiSeen /\ natsSeen

\* "Make sure we can list nodes in the cluster": a check during which the API
\* server and NATS are up all the time reports health.  The deadline of the
\* context breaks it for every check but those of the first seconds.
HealthyReportsOk == check = "failed" => ~healthy

===============================================================================

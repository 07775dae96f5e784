--------------------------- MODULE HealthCheckProofs ---------------------------
(***************************************************************************)
(* Proofs about HealthCheck, for every deadline and every frequency.       *)
(***************************************************************************)
EXTENDS HealthCheck, TLAPS

USE DEF vars, worldVars, timeVars, histVars

\* What a check has found out, at the points between its two questions.
Seen ==
  /\ check \in {"connection", "ok"} => apiSeen
  /\ check = "listing" /\ api => apiSeen
  /\ check = "connection" /\ nats => natsSeen
  /\ check = "ok" => natsSeen

\* Time does not run below zero, and nothing else changes the kinds of values.
THEOREM TypeCorrect == Spec => []TypeOK
<1> USE HealthAssumption DEF TypeOK
<1>1. Init => TypeOK
  <2>1. Init => left \in 0 .. Timeout /\ timer \in 0 .. Frequency
    BY DEF Init
  <2> QED
    BY <2>1 DEF Init
<1>2. TypeOK /\ [Next]_vars => TypeOK'
  <2> SUFFICES ASSUME TypeOK, [Next]_vars
               PROVE  TypeOK'
    OBVIOUS
  <2>1. CASE Tick
    BY <2>1 DEF Tick, Sooner
  <2>2. CASE Beat
    <3>1. healthy' \in BOOLEAN
      BY <2>2 DEF Beat
    <3>2. /\ left' \in 0 .. Timeout /\ timer' \in 0 .. Frequency
          /\ UNCHANGED worldVars /\ apiSeen' = api /\ natsSeen' = FALSE
          /\ check' = "listing"
      BY <2>2 DEF Beat
    <3> QED
      BY <3>1, <3>2
  <2>3. CASE ListNodes
    BY <2>3 DEF ListNodes
  <2>4. CASE AskConnection
    BY <2>4 DEF AskConnection
  <2>5. ASSUME NEW a \in BOOLEAN, NEW n \in BOOLEAN, Turn(a, n)
        PROVE  TypeOK'
    BY <2>5 DEF Turn
  <2>6. CASE UNCHANGED vars
    BY <2>6
  <2> QED
    BY <2>1, <2>2, <2>3, <2>4, <2>5, <2>6 DEF Next
<1> QED
  BY <1>1, <1>2, PTL DEF Spec

\* A check says that all is well only if the API server was there since it began
\* and NATS since it listed the nodes, however both come and go.
THEOREM ReportsWhatWasSeen == Spec => []HealthWasSeen
<1>1. Init => Seen
  BY DEF Init, Seen
<1>2. TypeOK /\ Seen /\ [Next]_vars => Seen'
  <2> SUFFICES ASSUME TypeOK, Seen, [Next]_vars
               PROVE  Seen'
    OBVIOUS
  <2> USE DEF Seen
  <2>1. CASE Tick
    BY <2>1 DEF Tick
  <2>2. CASE Beat
    BY <2>2 DEF Beat
  <2>3. CASE ListNodes
    BY <2>3 DEF ListNodes, ListSucceeds
  <2>4. CASE AskConnection
    BY <2>4 DEF AskConnection, IsNATSConnected
  <2>5. ASSUME NEW a \in BOOLEAN, NEW n \in BOOLEAN, Turn(a, n)
        PROVE  Seen'
    BY <2>5 DEF Turn
  <2>6. CASE UNCHANGED vars
    BY <2>6
  <2> QED
    BY <2>1, <2>2, <2>3, <2>4, <2>5, <2>6 DEF Next
<1>3. Seen => HealthWasSeen
  BY DEF Seen, HealthWasSeen
<1> QED
  BY <1>1, <1>2, <1>3, TypeCorrect, PTL DEF Spec

===============================================================================

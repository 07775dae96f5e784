--------------------------- MODULE EngineRefinement ---------------------------
(***************************************************************************)
(* NamespaceWatch implements EngineLifecycle: the two goroutines, their    *)
(* channel, the failures and the deferred calls keep the promise about the *)
(* engine for as long as the goroutines do not race for err.               *)
(***************************************************************************)
EXTENDS NamespaceWatchProofs

\* The status of the engine, as the abstract specification knows it.
Status ==
  IF crossed THEN "undefined"
  ELSE IF ~Alive THEN "ended"
  ELSE IF engine = "running" THEN "running"
  ELSE IF batches = 0 THEN "empty"
  ELSE IF mpc \in {"startEngine", "startCheck"} THEN "filled"
  ELSE "halted"

Filled == Status \in {"filled", "running", "halted"}
Serves == IF Filled THEN loaded ELSE {}
View   == IF Filled THEN loadedRV ELSE 0

Lifecycle ==
  INSTANCE EngineLifecycle
    WITH version <- Len(log), status <- Status, serves <- Serves, view <- View

\* The engine is filled with the namespaces of one moment, only when it is halted
\* and empty, and runs with nothing else: whatever fails or is restarted, in
\* whatever order the goroutines run.
ImplementsLifecycle == Lifecycle!Spec

-------------------------------------------------------------------------------
(* The proof: each step of the goroutines is one of the engine's or a stutter. *)

USE DEF vars, clusterVars, watchVars, envVars, goVars, mainVars, chanVars,
        errVars, engineVars

\* An engine that runs has sources.  Together with IInv this is inductive.
RunsWithSources == ~crossed /\ engine = "running" => batches # 0

Promised == Lifecycle!Next \/ UNCHANGED Lifecycle!vars

\* A race for err, and every step after it, is allowed.
LEMMA RaceStep ==
  ASSUME crossed', UNCHANGED <<live, log>>
  PROVE  Promised
<1>1. Status' = "undefined" /\ Serves' = {} /\ View' = 0
  BY DEF Status, Filled, Serves, View
<1>2. CASE crossed
  <2>1. Status = "undefined" /\ Serves = {} /\ View = 0
    BY <1>2 DEF Status, Filled, Serves, View
  <2> QED
    BY <1>1, <2>1 DEF Promised, Lifecycle!vars, Lifecycle!engineVars
<1>3. CASE ~crossed
  <2>1. Status \in {"empty", "filled", "running", "halted", "ended"}
    BY <1>3 DEF Status
  <2> QED
    BY <1>1, <2>1 DEF Promised, Lifecycle!Next, Lifecycle!Race, Lifecycle!Becomes
<1> QED
  BY <1>2, <1>3

\* So is a step that leaves the engine and the main goroutine where they are.
LEMMA QuietStep ==
  ASSUME TypeOK, [Next]_vars, UNCHANGED <<live, log, mpc, engineVars>>
  PROVE  Promised
<1>1. CASE crossed'
  BY <1>1, RaceStep
<1>2. CASE ~crossed'
  <2>1. ~crossed
    BY <1>2, CrossedStays
  <2>2. Status' = Status /\ Filled' = Filled
    BY <1>2, <2>1 DEF Status, Filled, Alive
  <2> QED
    BY <2>2 DEF Promised, Lifecycle!vars, Lifecycle!engineVars, Serves, View
<1> QED
  BY <1>1, <1>2

\* The end of the process is that of the engine.
LEMMA EndStep ==
  ASSUME TypeOK, Alive, ~Alive', UNCHANGED <<live, log, crossed>>
  PROVE  Promised
<1>1. CASE crossed
  <2>1. Status = "undefined" /\ Status' = "undefined" /\ ~Filled /\ ~Filled'
    BY <1>1 DEF Status, Filled
  <2>2. UNCHANGED <<Status, Serves, View>>
    BY <2>1 DEF Serves, View
  <2> QED
    BY <2>2 DEF Promised, Lifecycle!vars, Lifecycle!engineVars
<1>2. CASE ~crossed
  <2>1. Status' = "ended" /\ Serves' = {} /\ View' = 0
    BY <1>2 DEF Status, Filled, Serves, View
  <2>2. Status \in {"empty", "filled", "running", "halted"}
    BY <1>2 DEF Status
  <2> QED
    BY <2>1, <2>2 DEF Promised, Lifecycle!Next, Lifecycle!End, Lifecycle!Becomes
<1> QED
  BY <1>1, <1>2

\* The watch goroutine does not touch the engine, and ends the process at most.
LEMMA WatcherLeavesEngine ==
  ASSUME Watcher
  PROVE  /\ UNCHANGED <<live, log, engineVars>>
         /\ \/ mpc' = mpc
            \/ Alive /\ ~Alive' /\ UNCHANGED crossed
<1> USE DEF Alive
<1>1. CASE Receive
  BY <1>1 DEF Receive, GoStep
<1>2. CASE Send
  BY <1>2 DEF Send, GoStep
<1>3. CASE Closed
  BY <1>3 DEF Closed, GoStep
<1>4. CASE Panic
  BY <1>4 DEF Panic
<1>5. CASE Relist
  BY <1>5 DEF Relist, GoStep
<1>6. CASE Rewatch
  BY <1>6 DEF Rewatch, GoStep
<1>7. CASE ResubscribeFails
  BY <1>7 DEF ResubscribeFails, GoStep
<1>8. CASE Resubscribed
  BY <1>8 DEF Resubscribed, CheckErr, GoStep
<1>9. CASE FindsError
  BY <1>9 DEF FindsError, CheckErr, GoStep
<1>10. CASE Retry
  BY <1>10 DEF Retry, Classify, GoStep
<1>11. CASE GiveUp
  BY <1>11 DEF GiveUp, Classify, GoStep
<1>12. CASE Wake
  BY <1>12 DEF Wake, GoStep
<1>13. CASE SendFatal
  BY <1>13 DEF SendFatal, GoStep
<1>14. CASE WatcherDone
  BY <1>14 DEF WatcherDone, GoStep
<1> QED
  BY <1>1, <1>2, <1>3, <1>4, <1>5, <1>6, <1>7, <1>8, <1>9, <1>10, <1>11, <1>12,
     <1>13, <1>14 DEF Watcher

\* Neither does the environment touch it.
LEMMA EnvironmentLeavesEngine ==
  ASSUME Environment
  PROVE  UNCHANGED <<mpc, crossed, engineVars>>
<1>1. CASE CloseWatch \/ Signal
  BY <1>1 DEF CloseWatch, Signal
<1>2. CASE ReceiveNoise
  BY <1>2 DEF ReceiveNoise, GoStep
<1>3. CASE \E n \in Namespace :
             CreateNamespace(n) \/ ModifyNamespace(n) \/ DeleteNamespace(n)
  BY <1>3 DEF CreateNamespace, ModifyNamespace, DeleteNamespace, Changed
<1> QED
  BY <1>1, <1>2, <1>3 DEF Environment

\* Every step keeps sources in an engine that runs.
LEMMA RunsStep ==
  ASSUME IInv, RunsWithSources, [Next]_vars
  PROVE  RunsWithSources'
<1> SUFFICES ASSUME ~crossed', engine' = "running"
             PROVE  batches' # 0
  BY DEF RunsWithSources
<1>1. TypeOK /\ ~crossed
  BY CrossedStays DEF IInv
<1>2. EngineFacts /\ batches \in Nat
  BY <1>1 DEF IInv, TypeOK
<1>3. CASE UNCHANGED <<engine, batches>>
  BY <1>1, <1>3 DEF RunsWithSources
<1>4. CASE StartList
  BY <1>2, <1>4 DEF StartList
<1>5. CASE StartEngine
  BY <1>2, <1>5 DEF StartEngine, Engine, MainStep, EngineFacts
<1>6. CASE StopEngine
  BY <1>1, <1>6 DEF StopEngine, Engine, RunsWithSources
<1>7. CASE StopClear
  BY <1>2, <1>7 DEF StopClear, MainStep, EngineFacts
<1>8. CASE Watcher
  BY <1>3, <1>8, WatcherLeavesEngine
<1>9. CASE Environment
  BY <1>3, <1>9, EnvironmentLeavesEngine
<1>10. CASE BootFails \/ BootList \/ BootWatch
  BY <1>3, <1>10 DEF BootFails, BootList, BootWatch
<1>11. CASE StartListFails
  BY <1>3, <1>11 DEF StartListFails
<1>12. CASE Started \/ StartFailed \/ StopSucceeded \/ StopFailed \/ Stopped \/ StoppedFailed
  BY <1>3, <1>12 DEF Started, StartFailed, StopSucceeded, StopFailed, Stopped,
                     StoppedFailed, MainReads
<1>13. CASE TakeQuit \/ TakeIgnored \/ TakeFatal \/ TakeChange
  BY <1>3, <1>13 DEF TakeQuit, TakeIgnored, TakeFatal, TakeChange, Take
<1>14. CASE StopReturn \/ Cancel \/ Exit
  BY <1>3, <1>14 DEF StopReturn, Cancel, Exit
<1>15. CASE UNCHANGED vars
  BY <1>3, <1>15
<1> QED
  BY <1>4, <1>5, <1>6, <1>7, <1>8, <1>9, <1>10, <1>11, <1>12, <1>13, <1>14, <1>15
     DEF Next, Main

\* A step of the main goroutine that changes neither the engine nor the status:
\* one that loads nothing and does not leave a start behind.
LEMMA MainStutters ==
  ASSUME ~crossed, ~crossed', Alive, Alive',
         UNCHANGED <<live, log, engineVars>>,
         \/ batches = 0 \/ engine = "running"
         \/ mpc \in {"startEngine", "startCheck"} <=> mpc' \in {"startEngine", "startCheck"}
  PROVE  Promised
<1>1. UNCHANGED <<Status, Filled>>
  BY DEF Status, Filled
<1> QED
  BY <1>1 DEF Promised, Lifecycle!vars, Lifecycle!engineVars, Serves, View

\* The main goroutine does not touch the cluster.
LEMMA MainLeavesCluster ==
  ASSUME Main
  PROVE  UNCHANGED <<live, log>>
<1>1. CASE BootFails \/ StartList \/ StartListFails \/ StopClear \/ StopReturn \/ Cancel \/ Exit
  BY <1>1 DEF BootFails, StartList, StartListFails, StopClear, StopReturn, Cancel, Exit, MainStep
<1>2. CASE BootList \/ BootWatch
  BY <1>2 DEF BootList, BootWatch
<1>3. CASE StartEngine \/ StopEngine
  BY <1>3 DEF StartEngine, StopEngine, Engine, MainStep
<1>4. CASE Started \/ StartFailed \/ StopSucceeded \/ StopFailed \/ Stopped \/ StoppedFailed
  BY <1>4 DEF Started, StartFailed, StopSucceeded, StopFailed, Stopped, StoppedFailed,
              MainReads, MainStep
<1>5. CASE TakeQuit \/ TakeIgnored \/ TakeFatal \/ TakeChange
  BY <1>5 DEF TakeQuit, TakeIgnored, TakeFatal, TakeChange, Take, MainStep
<1> QED
  BY <1>1, <1>2, <1>3, <1>4, <1>5 DEF Main

\* The steps of the main goroutine: which of the engine's each one is.
LEMMA MainKeepsPromise ==
  ASSUME IInv, RunsWithSources, Main
  PROVE  Promised
<1>1. TypeOK /\ UNCHANGED <<live, log>>
  BY MainLeavesCluster DEF IInv
<1>2. CASE crossed'
  BY <1>1, <1>2, RaceStep
<1> SUFFICES ASSUME ~crossed' PROVE Promised
  BY <1>2
<1>3. ~crossed
  BY <1>1, CrossedStays DEF Next
<1>4. EngineFacts /\ batches \in Nat /\ (engine = "running" => batches # 0)
  BY <1>1, <1>3 DEF IInv, TypeOK, RunsWithSources
<1>5. CASE BootFails \/ Exit
  <2>1. Alive /\ ~Alive' /\ UNCHANGED crossed
    BY <1>5 DEF BootFails, Exit, MainStep, Alive
  <2> QED
    BY <1>1, <2>1, EndStep
<1>6. CASE BootList \/ BootWatch
  <2>1. Alive /\ Alive' /\ UNCHANGED engineVars /\ batches = 0
    BY <1>4, <1>6 DEF BootList, BootWatch, Alive, EngineFacts
  <2> QED
    BY <1>1, <1>3, <2>1, MainStutters
<1>7. CASE StartList
  <2>1. engine = "stopped" /\ batches = 0 /\ Alive
    BY <1>4, <1>7 DEF StartList, MainStep, EngineFacts
  <2>2. engine' = "stopped" /\ batches' # 0 /\ Alive' /\ mpc' = "startEngine"
    BY <1>4, <1>7, <2>1 DEF StartList, MainStep, Alive
  <2>3. Status = "empty" /\ Status' = "filled"
    BY <1>3, <2>1, <2>2 DEF Status
  <2>4. Serves' = live /\ View' = Len(log)
    BY <1>7, <2>3 DEF StartList, Serves, View, Filled
  <2> QED
    BY <1>1, <2>3, <2>4 DEF Promised, Lifecycle!Next, Lifecycle!Fill, Lifecycle!Becomes
<1>8. CASE StartListFails
  <2>1. Alive /\ Alive' /\ UNCHANGED engineVars /\ batches = 0
    BY <1>4, <1>8 DEF StartListFails, MainStep, Alive, EngineFacts
  <2> QED
    BY <1>1, <1>3, <2>1, MainStutters
<1>9. CASE StartEngine
  <2>1. /\ engine = "stopped" /\ batches # 0 /\ Alive /\ mpc = "startEngine"
        /\ Alive' /\ mpc' = "startCheck" /\ UNCHANGED <<loaded, loadedRV, batches>>
    BY <1>4, <1>9 DEF StartEngine, Engine, MainStep, EngineFacts, Alive
  <2>2. CASE engine' = engine
    BY <1>1, <1>3, <2>1, <2>2, MainStutters
  <2>3. CASE engine' = "running"
    <3>1. Status = "filled" /\ Status' = "running"
      BY <1>3, <2>1, <2>3 DEF Status
    <3>2. UNCHANGED <<Serves, View>>
      BY <2>1, <3>1 DEF Serves, View, Filled
    <3> QED
      BY <1>1, <3>1, <3>2 DEF Promised, Lifecycle!Next, Lifecycle!Run, Lifecycle!Becomes
  <2> QED
    BY <1>9, <2>2, <2>3 DEF StartEngine, Engine
<1>10. CASE Started
  <2>1. /\ Alive /\ Alive' /\ UNCHANGED engineVars /\ mpc = "startCheck" /\ err.val = "nil"
        /\ err.by = "main"
    BY <1>10 DEF Started, MainReads, MainStep, ReadErr, Alive
  <2>2. engine = "running"
    BY <1>4, <2>1 DEF EngineFacts, Own
  <2> QED
    BY <1>1, <1>3, <2>1, <2>2, MainStutters
<1>11. CASE StartFailed
  <2>1. /\ Alive /\ Alive' /\ UNCHANGED engineVars
        /\ mpc = "startCheck" /\ mpc' \in {"stopEngine", "cancelled"}
    BY <1>11 DEF StartFailed, MainReads, MainStep, Alive
  <2>2. CASE batches = 0 \/ engine = "running"
    BY <1>1, <1>3, <2>1, <2>2, MainStutters
  <2>3. CASE batches # 0 /\ engine # "running"
    <3>1. Status = "filled" /\ Status' = "halted"
      BY <1>3, <2>1, <2>3 DEF Status
    <3>2. UNCHANGED <<Serves, View>>
      BY <2>1, <3>1 DEF Serves, View, Filled
    <3> QED
      BY <1>1, <3>1, <3>2 DEF Promised, Lifecycle!Next, Lifecycle!Halt, Lifecycle!Becomes
  <2> QED
    BY <2>2, <2>3
<1>12. CASE TakeQuit \/ TakeIgnored \/ TakeFatal \/ TakeChange
  <2>1. Alive /\ Alive' /\ UNCHANGED engineVars /\ mpc = "select"
    BY <1>12 DEF TakeQuit, TakeIgnored, TakeFatal, TakeChange, Take, MainStep, Alive, OnQuit
  <2>2. engine = "running"
    BY <1>4, <2>1 DEF EngineFacts
  <2> QED
    BY <1>1, <1>3, <2>1, <2>2, MainStutters
<1>13. CASE StopEngine
  <2>1. /\ Alive /\ Alive' /\ mpc = "stopEngine" /\ mpc' = "stopCheck"
        /\ UNCHANGED <<loaded, loadedRV, batches>>
    BY <1>13 DEF StopEngine, Engine, MainStep, Alive
  <2>2. CASE engine' = engine
    BY <1>1, <1>3, <2>1, <2>2, MainStutters
  <2>3. CASE engine' = "stopped" /\ engine = "running"
    <3>1. Status = "running" /\ Status' = "halted"
      BY <1>3, <1>4, <2>1, <2>3 DEF Status
    <3>2. UNCHANGED <<Serves, View>>
      BY <2>1, <3>1 DEF Serves, View, Filled
    <3> QED
      BY <1>1, <3>1, <3>2 DEF Promised, Lifecycle!Next, Lifecycle!Halt, Lifecycle!Becomes
  <2> QED
    BY <1>1, <1>13, <2>2, <2>3 DEF StopEngine, Engine, TypeOK
<1>14. CASE StopSucceeded \/ StopFailed \/ StopReturn \/ Stopped \/ StoppedFailed \/ Cancel
  <2>1. /\ Alive /\ Alive' /\ UNCHANGED engineVars
        /\ mpc \notin {"startEngine", "startCheck"} /\ mpc' \notin {"startEngine", "startCheck"}
    BY <1>14 DEF StopSucceeded, StopFailed, StopReturn, Stopped, StoppedFailed, Cancel,
                 MainReads, MainStep, Alive
  <2> QED
    BY <1>1, <1>3, <2>1, MainStutters
<1>15. CASE StopClear
  <2>1. /\ Alive /\ Alive' /\ mpc = "stopClear" /\ mpc' = "stopped"
        /\ engine = "stopped" /\ engine' = "stopped" /\ batches' = 0
    BY <1>4, <1>15 DEF StopClear, MainStep, Alive, EngineFacts, Cleared
  <2>2. Status' = "empty" /\ Serves' = {} /\ View' = 0
    BY <2>1 DEF Status, Serves, View, Filled
  <2>3. CASE batches = 0
    <3>1. Status = "empty" /\ Serves = {} /\ View = 0
      BY <1>3, <2>1, <2>3 DEF Status, Serves, View, Filled
    <3> QED
      BY <1>1, <2>2, <3>1 DEF Promised, Lifecycle!vars, Lifecycle!engineVars
  <2>4. CASE batches # 0
    <3>1. Status = "halted"
      BY <1>3, <2>1, <2>4 DEF Status
    <3> QED
      BY <1>1, <2>2, <3>1 DEF Promised, Lifecycle!Next, Lifecycle!Empty, Lifecycle!Becomes
  <2> QED
    BY <2>3, <2>4
<1> QED
  BY <1>5, <1>6, <1>7, <1>8, <1>9, <1>10, <1>11, <1>12, <1>13, <1>14, <1>15 DEF Main

\* Every step of the restart loop is one that the engine's lifecycle allows.
LEMMA StepKeepsPromise ==
  ASSUME IInv, RunsWithSources, [Next]_vars
  PROVE  Promised
<1>1. TypeOK
  BY DEF IInv
<1>2. CASE Watcher
  <2>1. CASE mpc' = mpc
    BY <1>1, <1>2, <2>1, WatcherLeavesEngine, QuietStep
  <2>2. CASE mpc' # mpc
    BY <1>1, <1>2, <2>2, WatcherLeavesEngine, EndStep
  <2> QED
    BY <2>1, <2>2
<1>3. CASE UNCHANGED vars
  BY <1>1, <1>3, QuietStep
<1>4. CASE CloseWatch \/ Signal \/ ReceiveNoise
  <2>1. UNCHANGED <<live, log, mpc, engineVars>>
    BY <1>4 DEF CloseWatch, Signal, ReceiveNoise, GoStep
  <2> QED
    BY <1>1, <2>1, QuietStep
<1>5. CASE \E n \in Namespace :
             CreateNamespace(n) \/ ModifyNamespace(n) \/ DeleteNamespace(n)
  <2>1. UNCHANGED <<mpc, crossed, engineVars>>
    BY <1>5 DEF CreateNamespace, ModifyNamespace, DeleteNamespace, Changed
  <2>2. UNCHANGED <<Status, Filled>>
    BY <2>1 DEF Status, Filled, Alive
  <2>3. UNCHANGED <<Status, Serves, View>>
    BY <2>1, <2>2 DEF Serves, View
  <2>4. live' \in SUBSET Namespace
    BY TypeStep, <1>1 DEF TypeOK
  <2>5. Len(log') = Len(log) + 1
    BY <1>1, <1>5 DEF TypeOK, CreateNamespace, ModifyNamespace, DeleteNamespace, Changed,
                      ChangeType
  <2> QED
    BY <2>3, <2>4, <2>5 DEF Promised, Lifecycle!Next, Lifecycle!Change, Lifecycle!engineVars
<1>6. CASE Main
  BY <1>6, MainKeepsPromise
<1> QED
  BY <1>2, <1>3, <1>4, <1>5, <1>6 DEF Next, Environment

\* NamespaceWatch implements EngineLifecycle.
THEOREM Refinement == Spec => ImplementsLifecycle
<1>1. Init => IInv /\ RunsWithSources /\ Lifecycle!Init
  <2> SUFFICES ASSUME Init PROVE IInv /\ RunsWithSources /\ Lifecycle!Init
    OBVIOUS
  <2>1. Status = "empty" /\ Serves = {} /\ View = 0
    BY DEF Init, Status, Serves, View, Filled, Alive
  <2>2. RunsWithSources /\ live \in SUBSET Namespace /\ Len(log) = 0
    BY DEF Init, RunsWithSources
  <2> QED
    BY InitIInv, <2>1, <2>2 DEF Lifecycle!Init
<1>2. IInv /\ RunsWithSources /\ [Next]_vars => IInv' /\ RunsWithSources'
  BY Inductive, RunsStep
<1>3. IInv /\ RunsWithSources /\ [Next]_vars => [Lifecycle!Next]_(Lifecycle!vars)
  BY StepKeepsPromise DEF Promised
<1> QED
  BY <1>1, <1>2, <1>3, PTL DEF Spec, ImplementsLifecycle, Lifecycle!Spec

===============================================================================

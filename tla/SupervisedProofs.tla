--------------------------- MODULE SupervisedProofs ---------------------------
(***************************************************************************)
(* Proofs about Supervised, for every value of its constants: what is      *)
(* proved of the restart loop holds of a process that is killed and        *)
(* started again at any point, any number of times.                        *)
(***************************************************************************)
EXTENDS Supervised, EngineRefinement

USE DEF vars, clusterVars, watchVars, envVars, goVars, mainVars, chanVars,
        errVars, engineVars, processVars, kubeletVars, allVars

\* A process that dies leaves nothing that breaks the invariant.
LEMMA DeathKeepsIInv ==
  ASSUME IInv, NEW how \in {"1", "signal"}, mpc' = "exited", code' = how,
         UNCHANGED <<clusterVars, watchVars, envVars, goVars, deferred, chanVars,
                     errVars, engineVars>>
  PROVE  IInv'
<1>1. TypeOK' /\ Bounds'
  BY DEF IInv, TypeOK, Bounds
<1>2. EventsFaithful'
  BY DEF IInv, EventsFaithful, Faithful
<1>3. SourcesFacts' /\ EngineFacts'
  BY DEF SourcesFacts, Loaded, EngineFacts
<1>4. ~crossed' => WatchFacts'
  BY DEF IInv, WatchFacts
<1> QED
  BY <1>1, <1>2, <1>3, <1>4 DEF IInv

\* Nor does one more signal.
LEMMA SignalKeepsIInv ==
  ASSUME IInv, quit' = TRUE,
         UNCHANGED <<clusterVars, watchVars, envVars, goVars, mainVars, restart,
                     errVars, engineVars>>
  PROVE  IInv'
<1>1. TypeOK' /\ Bounds'
  BY DEF IInv, TypeOK, Bounds
<1>2. EventsFaithful'
  BY DEF IInv, EventsFaithful, Faithful
<1>3. ~crossed' => SourcesFacts'
  BY DEF IInv, SourcesFacts, Loaded, Covered, Current, InFlight
<1>4. ~crossed' => EngineFacts'
  BY DEF IInv, EngineFacts, Own
<1>5. ~crossed' => WatchFacts'
  BY DEF IInv, WatchFacts
<1> QED
  BY <1>1, <1>2, <1>3, <1>4, <1>5 DEF IInv

\* A new process begins where the invariant holds, whatever the cluster is then.
LEMMA RestartKeepsIInv ==
  ASSUME IInv, Restart
  PROVE  IInv'
<1>1. /\ UNCHANGED <<clusterVars, envVars>>
      /\ wi' = "nil" /\ seenRV' = 0 /\ missed' = {}
      /\ wpc' = "unborn" /\ listRV' = 0 /\ attempts' = 0
      /\ mpc' = "bootList" /\ deferred' = FALSE /\ code' = "none"
      /\ quit' = FALSE /\ restart' = <<>> /\ crossed' = FALSE
      /\ err' = [val |-> "nil", by |-> "main"]
      /\ engine' = "stopped" /\ loaded' = {} /\ loadedRV' = 0 /\ batches' = 0
  BY DEF Restart
<1>2. wevent' \in Event /\ wevent'.rv = 0
  <2>1. wevent' = [type |-> "", rv |-> 0]
    BY DEF Restart, NoChange
  <2>2. wevent' \in Event
    BY NoChangeTyped DEF Restart, NoiseType
  <2> QED
    BY <2>1, <2>2
<1>3. restart' \in Seq(Event) /\ Len(restart') = 0
  BY <1>1
<1>4. TypeOK'
  BY <1>1, <1>2, <1>3 DEF IInv, TypeOK
<1>5. Bounds'
  BY <1>1 DEF IInv, TypeOK, Bounds
<1>6. EventsFaithful'
  BY <1>2, <1>3 DEF EventsFaithful, Faithful
<1>7. SourcesFacts' /\ EngineFacts'
  BY <1>1 DEF SourcesFacts, Loaded, EngineFacts
<1>8. WatchFacts'
  BY <1>1 DEF WatchFacts
<1> QED
  BY <1>4, <1>5, <1>6, <1>7, <1>8 DEF IInv

\* Every step of the supervised process preserves the invariant of the loop.
THEOREM SupervisedInductive == IInv /\ [SNext]_allVars => IInv'
<1> SUFFICES ASSUME IInv, [SNext]_allVars
             PROVE  IInv'
  OBVIOUS
<1>1. CASE UNCHANGED vars
  BY <1>1, Inductive
<1>2. ASSUME NEW how \in {"1", "signal"}, Dies(how)
      PROVE  IInv'
  BY <1>2, DeathKeepsIInv DEF Dies
<1>3. CASE Boot
  BY <1>1, <1>2, <1>3 DEF Boot, ReadConfig, NewInstance, NewEngine, StartServer, NotifySignal,
                          BootStepFails, BootStep
<1>4. CASE Listen \/ ProbeOk \/ ProbeFailed
  BY <1>1, <1>4 DEF Listen, ProbeOk, ProbeFailed, Probe
<1>5. CASE Kill \/ Crash
  BY <1>2, <1>5 DEF Kill, Crash
<1>6. CASE Terminate
  <2>1. CASE boot = "booted"
    BY <1>6, <2>1, SignalKeepsIInv DEF Terminate
  <2>2. CASE boot # "booted"
    BY <1>6, <2>2, DeathKeepsIInv DEF Terminate
  <2> QED
    BY <2>1, <2>2
<1>7. CASE Restart
  BY <1>7, RestartKeepsIInv
<1>8. CASE Loop
  BY <1>8, Inductive DEF Loop, Next, Environment
<1>9. CASE UNCHANGED allVars
  BY <1>1, <1>9
<1> QED
  BY <1>3, <1>4, <1>5, <1>6, <1>7, <1>8, <1>9 DEF SNext, Kubelet

\* The invariant holds in every life of the process.
THEOREM SupervisedInvariance == SSpec => []IInv
<1>1. SInit => IInv
  BY InitIInv DEF SInit
<1> QED
  BY <1>1, SupervisedInductive, PTL DEF SSpec

\* In every life of the process the engine serves the namespaces of the cluster
\* once everything has settled, whatever happened to them while it was down.
THEOREM SupervisedIsCurrent == SSpec => []NeverSilentlyStale
  BY Settled, SupervisedInvariance, PTL

\* In every life of the process the loop waits for events with a running engine
\* and one batch of sources, loads sources into an empty engine, polls a watch that
\* exists, and gives up for a cause.
THEOREM SupervisedServes ==
  SSpec => [](ServesUnlessRaced /\ StartsFromClean /\ PollsUnlessRaced /\ GivesUpForCause)
<1>1. IInv => ServesUnlessRaced /\ StartsFromClean
  BY DEF IInv, EngineFacts, ServesUnlessRaced, StartsFromClean
<1>2. IInv => PollsUnlessRaced /\ GivesUpForCause
  BY DEF IInv, WatchFacts, PollsUnlessRaced, GivesUpForCause
<1> QED
  BY <1>1, <1>2, SupervisedInvariance, PTL

\* What a process knows of its watch dies with it, and with it every event.
LEMMA SupervisedTold ==
  ASSUME IInv, GoneFacts, OrderFacts, [SNext]_allVars
  PROVE  GoneFacts' /\ OrderFacts'
<1>1. TypeOK /\ TypeOK'
  BY SupervisedInductive DEF IInv
<1>2. CASE Next \/ UNCHANGED vars
  BY <1>1, <1>2, GoneStep, OrderStep DEF IInv
<1>3. ASSUME NEW how \in {"1", "signal"}, Dies(how)
      PROVE  GoneFacts' /\ OrderFacts'
  <2>1. /\ mpc' = "exited" /\ code' = how
        /\ UNCHANGED <<seenRV, listRV, wpc, wevent, restart>>
    BY <1>3 DEF Dies
  <2> QED
    BY <2>1 DEF GoneFacts, GoneIsAnnounced, OrderFacts, Ordered
<1>4. CASE Terminate
  <2>1. UNCHANGED <<seenRV, listRV, wpc, wevent, restart>>
    BY <1>4 DEF Terminate
  <2>2. \/ UNCHANGED <<mpc, code>>
        \/ mpc' = "exited" /\ code' = "signal"
    BY <1>4 DEF Terminate
  <2>3. GoneFacts'
    <3>1. code' = "none" => code = "none" /\ UNCHANGED mpc
      BY <2>2
    <3> QED
      BY <2>1, <3>1 DEF GoneFacts, GoneIsAnnounced
  <2>4. OrderFacts'
    <3>1. mpc' \in {"bootList", "bootWatch"} => mpc \in {"bootList", "bootWatch"}
      BY <2>2
    <3>2. Ordered(restart')
      BY <2>1 DEF OrderFacts
    <3> QED
      BY <2>1, <3>1, <3>2 DEF OrderFacts
  <2> QED
    BY <2>3, <2>4
<1>5. CASE Restart
  <2>1. /\ seenRV' = 0 /\ listRV' = 0 /\ wpc' = "unborn" /\ restart' = <<>>
        /\ mpc' = "bootList"
    BY <1>5 DEF Restart
  <2>2. wevent'.rv = 0
    BY <1>5 DEF Restart, NoChange
  <2>3. Len(restart') = 0
    BY <2>1
  <2> QED
    BY <2>1, <2>2, <2>3 DEF GoneFacts, GoneIsAnnounced, OrderFacts, Ordered
<1>6. CASE Boot
  BY <1>2, <1>3, <1>6 DEF Boot, ReadConfig, NewInstance, NewEngine, StartServer,
                          NotifySignal, BootStepFails, BootStep
<1>7. CASE Listen \/ ProbeOk \/ ProbeFailed
  BY <1>2, <1>7 DEF Listen, ProbeOk, ProbeFailed, Probe
<1>8. CASE Kill \/ Crash
  BY <1>3, <1>8 DEF Kill, Crash
<1>9. CASE Loop
  BY <1>2, <1>9 DEF Loop, Next, Environment
<1>10. CASE UNCHANGED allVars
  BY <1>2, <1>10
<1> QED
  BY <1>4, <1>5, <1>6, <1>7, <1>8, <1>9, <1>10 DEF SNext, Kubelet

\* In no life of the process does the loop wait on a channel to which nobody sends
\* any more, and in none does an event reach it twice or too late: what a process
\* that was killed had received or sent is not there for the next one.
THEOREM SupervisedIsTold == SSpec => [](GoneIsAnnounced /\ EventsOnceInOrder)
<1>1. SInit => GoneFacts /\ OrderFacts
  <2> SUFFICES ASSUME Init
               PROVE  GoneFacts /\ OrderFacts
    BY DEF SInit
  <2>1. /\ seenRV = 0 /\ wevent.rv = 0 /\ restart = <<>> /\ wpc = "unborn"
        /\ mpc = "bootList"
    BY DEF Init
  <2> QED
    BY <2>1 DEF GoneFacts, GoneIsAnnounced, OrderFacts, Ordered
<1>2. GoneFacts /\ OrderFacts => GoneIsAnnounced /\ EventsOnceInOrder
  BY DEF GoneFacts, OrderFacts, Ordered, EventsOnceInOrder
<1> QED
  BY <1>1, <1>2, SupervisedTold, SupervisedInvariance, PTL DEF SSpec

\* The engine in all lives of the process: it is filled with the namespaces of one
\* moment, when it is halted and empty, and runs with nothing else, also when the
\* process is killed at any point and another begins.
ImplementsLifecycles == Lifecycle!RestartedSpec

Kept == Lifecycle!Next \/ Lifecycle!Again \/ UNCHANGED Lifecycle!vars

\* A new process has a new engine.
LEMMA RestartAgain ==
  ASSUME Restart
  PROVE  Kept
<1>1. /\ ~Alive /\ Alive' /\ crossed' = FALSE /\ batches' = 0 /\ engine' = "stopped"
      /\ UNCHANGED <<live, log>>
  BY DEF Restart, Alive
<1>2. Status \in {"ended", "undefined"}
  BY <1>1 DEF Status
<1>3. Status' = "empty" /\ Serves' = {} /\ View' = 0
  BY <1>1 DEF Status, Filled, Serves, View
<1> QED
  BY <1>1, <1>2, <1>3 DEF Kept, Lifecycle!Again, Lifecycle!Becomes

\* Every step of the supervised process is one of the engine's, a stutter or a
\* new beginning.
LEMMA SupervisedPromise ==
  ASSUME IInv, RunsWithSources, [SNext]_allVars
  PROVE  Kept /\ RunsWithSources'
<1>1. TypeOK
  BY DEF IInv
<1>2. CASE Next \/ UNCHANGED vars
  <2>1. Promised
    BY <1>2, StepKeepsPromise
  <2>2. RunsWithSources'
    BY <1>2, RunsStep
  <2> QED
    BY <2>1, <2>2 DEF Promised, Kept
<1>3. ASSUME Alive, ~Alive', UNCHANGED <<live, log, crossed, engineVars>>
      PROVE  Kept /\ RunsWithSources'
  <2>1. Promised
    BY <1>1, <1>3, EndStep
  <2> QED
    BY <1>3, <2>1 DEF Promised, Kept, RunsWithSources
<1>4. ASSUME NEW how \in {"1", "signal"}, Dies(how)
      PROVE  Kept /\ RunsWithSources'
  BY <1>3, <1>4 DEF Dies, Alive
<1>5. CASE Terminate
  <2>1. CASE boot = "booted"
    <3>1. UNCHANGED <<live, log, mpc, crossed, engineVars>>
      BY <1>5, <2>1 DEF Terminate
    <3>2. UNCHANGED <<Status, Filled>>
      BY <3>1 DEF Status, Filled, Alive
    <3> QED
      BY <3>1, <3>2 DEF Kept, Lifecycle!vars, Lifecycle!engineVars, Serves, View,
                        RunsWithSources
  <2>2. CASE boot # "booted"
    BY <1>3, <1>5, <2>2 DEF Terminate, Alive
  <2> QED
    BY <2>1, <2>2
<1>6. CASE Restart
  BY <1>6, RestartAgain DEF RunsWithSources, Restart
<1>7. CASE Boot
  BY <1>2, <1>4, <1>7 DEF Boot, ReadConfig, NewInstance, NewEngine, StartServer,
                          NotifySignal, BootStepFails, BootStep
<1>8. CASE Listen \/ ProbeOk \/ ProbeFailed
  BY <1>2, <1>8 DEF Listen, ProbeOk, ProbeFailed, Probe
<1>9. CASE Kill \/ Crash
  BY <1>4, <1>9 DEF Kill, Crash
<1>10. CASE Loop
  BY <1>2, <1>10 DEF Loop, Next, Environment
<1>11. CASE UNCHANGED allVars
  BY <1>2, <1>11
<1> QED
  BY <1>5, <1>6, <1>7, <1>8, <1>9, <1>10, <1>11 DEF SNext, Kubelet

\* The supervised process implements EngineLifecycle with restarts: whenever it is
\* killed, whatever was unfinished, the next one fills and starts an engine of its
\* own in the promised order.
THEOREM SupervisedRefinement == SSpec => ImplementsLifecycles
<1>1. SInit => RunsWithSources /\ Lifecycle!Init
  <2> SUFFICES ASSUME Init
               PROVE  RunsWithSources /\ Lifecycle!Init
    BY DEF SInit
  <2>1. Status = "empty" /\ Serves = {} /\ View = 0
    BY DEF Init, Status, Serves, View, Filled, Alive
  <2>2. RunsWithSources /\ live \in SUBSET Namespace /\ Len(log) = 0
    BY DEF Init, RunsWithSources
  <2> QED
    BY <2>1, <2>2 DEF Lifecycle!Init
<1>2. IInv /\ RunsWithSources /\ [SNext]_allVars =>
        RunsWithSources' /\ [Lifecycle!Next \/ Lifecycle!Again]_(Lifecycle!vars)
  BY SupervisedPromise DEF Kept
<1> QED
  BY <1>1, <1>2, SupervisedInvariance, PTL
     DEF SSpec, ImplementsLifecycles, Lifecycle!RestartedSpec

\* The loop forgets a signal only when run has decided to return, and it never
\* takes that decision back.
LEMMA SignalKept ==
  ASSUME Next, Alive', Alive => quit \/ code # "none"
  PROVE  (quit \/ code # "none")'
<1> USE DEF Alive
<1>1. CASE Watcher
  BY <1>1 DEF Watcher, Receive, Send, Closed, Panic, Relist, Rewatch, ResubscribeFails,
              Resubscribed, FindsError, CheckErr, Retry, GiveUp, Classify, Wake,
              SendFatal, WatcherDone, GoStep
<1>2. CASE BootFails \/ BootList \/ BootWatch \/ StartList \/ StartListFails \/ StartEngine
  BY <1>2 DEF BootFails, BootList, BootWatch, StartList, StartListFails, StartEngine,
              Engine, MainStep, Returns
<1>3. CASE TakeQuit \/ TakeIgnored \/ TakeFatal \/ TakeChange
  BY <1>3 DEF TakeQuit, TakeIgnored, TakeFatal, TakeChange, Take, MainStep, Returns
<1>4. CASE Started \/ StartFailed \/ StopSucceeded \/ StopFailed \/ Stopped \/ StoppedFailed
  BY <1>4 DEF Started, StartFailed, StopSucceeded, StopFailed, Stopped, StoppedFailed,
              MainReads, MainStep, Returns
<1>5. CASE StopEngine \/ StopClear \/ StopReturn \/ Cancel \/ Exit
  BY <1>5 DEF StopEngine, Engine, StopClear, StopReturn, Cancel, Exit, MainStep
<1>6. CASE Environment
  BY <1>6 DEF Environment, CreateNamespace, ModifyNamespace, DeleteNamespace, Changed,
              CloseWatch, ReceiveNoise, Signal, GoStep
<1> QED
  BY <1>1, <1>2, <1>3, <1>4, <1>5, <1>6 DEF Next, Main

\* A SIGTERM of the kubelet waits in quit, however long the boot, a start or a
\* stop takes, until run has decided to return.
THEOREM SignalIsHeard == SSpec => []TerminationIsHeard
<1>1. SInit => TerminationIsHeard
  BY DEF SInit, TerminationIsHeard
<1>2. TerminationIsHeard /\ [SNext]_allVars => TerminationIsHeard'
  <2> SUFFICES ASSUME TerminationIsHeard, [SNext]_allVars, grace', Alive'
               PROVE  (quit \/ code # "none")'
    BY DEF TerminationIsHeard
  <2> USE DEF TerminationIsHeard
  <2>1. CASE Boot \/ Listen \/ ProbeOk \/ ProbeFailed
    BY <2>1 DEF Boot, ReadConfig, NewInstance, NewEngine, StartServer, NotifySignal,
                BootStepFails, BootStep, Dies, Listen, ProbeOk, ProbeFailed, Probe, Alive
  <2>2. CASE Terminate
    BY <2>2 DEF Terminate, Alive
  <2>3. CASE Kill \/ Crash \/ Restart
    BY <2>3 DEF Kill, Crash, Restart, Dies, Alive
  <2>4. CASE Loop
    <3>1. CASE Next
      <4>1. grace
        BY <2>4 DEF Loop
      <4> QED
        BY <3>1, <4>1, SignalKept
    <3>2. ASSUME NEW n \in Namespace,
                 CreateNamespace(n) \/ ModifyNamespace(n) \/ DeleteNamespace(n)
          PROVE  (quit \/ code # "none")'
      <4>1. UNCHANGED <<mpc, code, quit, grace>>
        BY <2>4, <3>2 DEF Loop, CreateNamespace, ModifyNamespace, DeleteNamespace, Changed
      <4> QED
        BY <4>1 DEF Alive
    <3> QED
      BY <2>4, <3>1, <3>2 DEF Loop
  <2>5. CASE UNCHANGED allVars
    BY <2>5 DEF Alive
  <2> QED
    BY <2>1, <2>2, <2>3, <2>4, <2>5 DEF SNext, Kubelet
<1> QED
  BY <1>1, <1>2, PTL DEF SSpec

===============================================================================

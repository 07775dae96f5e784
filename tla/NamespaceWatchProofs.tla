-------------------------- MODULE NamespaceWatchProofs --------------------------
(***************************************************************************)
(* Proofs about NamespaceWatch, for every value of its constants.          *)
(*                                                                         *)
(* The inductive invariant IInv relates the log of the cluster, what the   *)
(* watch has followed, what is on its way in the channel and what the      *)
(* engine has loaded.  Its heart is Covered: a change that the engine's    *)
(* sources do not reflect is ahead of the watch, on its way, or was jumped *)
(* over by a new subscription.                                             *)
(***************************************************************************)
EXTENDS NamespaceWatch, TLAPS

\* No version is ahead of the log.
Bounds ==
  /\ seenRV <= Len(log)
  /\ listRV <= Len(log)
  /\ loadedRV <= Len(log)

\* An event with a version says what the log says of that version.
Faithful(e) == e.rv # 0 => e.rv \in 1 .. Len(log) /\ e.type = log[e.rv]

\* So does every event on its way.
EventsFaithful ==
  /\ Faithful(wevent)
  /\ \A i \in 1 .. Len(restart) : Faithful(restart[i])

\* The event of version v was received and not taken from the channel yet.
InFlight(v) ==
  \/ wpc = "send" /\ wevent.rv = v
  \/ \E i \in 1 .. Len(restart) : restart[i].rv = v

\* A change that the sources do not reflect is not lost, except by a jump.
Covered ==
  \A v \in loadedRV + 1 .. Len(log) :
    log[v] # "MODIFIED" => v > seenRV \/ v \in missed \/ InFlight(v)

\* Only a change of the set of namespaces makes what was loaded differ from it.
Current ==
  (\A v \in loadedRV + 1 .. Len(log) : log[v] = "MODIFIED") => loaded = live

\* The main goroutine has loaded sources and not decided to replace them.
Loaded == mpc \in {"startEngine", "startCheck", "select"} /\ batches = 1
SourcesFacts == Loaded => Covered /\ Current

\* The engine and its sources at each point of the main goroutine, as far as
\* the goroutine's own last value of err tells.
Own(v) == err.by = "main" /\ err.val = v
EngineFacts ==
  /\ mpc \in {"bootList", "bootWatch", "startList"} =>
       engine = "stopped" /\ batches = 0
  /\ mpc = "startEngine" => engine = "stopped" /\ batches = 1
  /\ mpc = "startCheck" /\ Own("nil") => engine = "running" /\ batches = 1
  /\ mpc = "select" => engine = "running" /\ batches = 1
  /\ mpc = "stopCheck" /\ Own("nil") => engine = "stopped"
  /\ mpc = "stopClear" => engine = "stopped"
  /\ mpc = "stopReturn" => ~Own("nil")
  /\ mpc = "stopped" /\ code = "none" /\ Own("nil") =>
       engine = "stopped" /\ batches = 0

\* The watch at each point of the goroutine, as far as its own last err tells.
WatchFacts ==
  /\ mpc \in {"bootList", "bootWatch"} => wpc = "unborn"
  /\ wpc \in {"select", "send", "sleep"} => wi # "nil"
  /\ wpc = "check" /\ err.by = "watcher" /\ err.val = "nil" => wi # "nil"
  /\ wpc = "check" /\ err.by = "watcher" /\ err.val # "nil" => wi = "nil"
  /\ wpc = "classify" => wi = "nil" /\ (err.by = "watcher" => err.val # "nil")
  /\ wpc \notin {"fatal", "done", "panicked"} => attempts \in 0 .. 3
  /\ wpc = "fatal" =>
       wi = "nil" /\ (attempts >= 3 \/ err.by = "main" \/ err.val = "other")

\* The inductive invariant; what concerns err holds until the goroutines race
\* for it.
IInv ==
  /\ TypeOK /\ Bounds /\ EventsFaithful
  /\ ~crossed => SourcesFacts
  /\ ~crossed => EngineFacts
  /\ ~crossed => WatchFacts

\* What is sent without a version is an event.
LEMMA NoChangeTyped ==
  ASSUME NEW type \in NoiseType \cup {"FATAL"}
  PROVE  NoChange(type) \in Event
  BY DEF NoChange, Event

\* So is what the watch delivers of a logged change.
LEMMA LoggedTyped ==
  ASSUME log \in Seq(ChangeType), NEW v \in 1 .. Len(log)
  PROVE  [type |-> log[v], rv |-> v] \in Event
<1>1. log[v] \in ChangeType
  OBVIOUS
<1> QED
  BY <1>1 DEF Event

\* What an element of the channel was before a send.
LEMMA Appended ==
  ASSUME NEW s \in Seq(Event), NEW e \in Event
  PROVE  /\ Append(s, e) \in Seq(Event)
         /\ \A i \in 1 .. Len(Append(s, e)) :
              \/ i \in 1 .. Len(s) /\ Append(s, e)[i] = s[i]
              \/ Append(s, e)[i] = e
         /\ \A i \in 1 .. Len(s) :
              i \in 1 .. Len(Append(s, e)) /\ Append(s, e)[i] = s[i]
         /\ Len(s) + 1 \in 1 .. Len(Append(s, e))
         /\ Append(s, e)[Len(s) + 1] = e
  OBVIOUS

\* What an element of the channel becomes when the first one is received.
LEMMA Tailed ==
  ASSUME NEW s \in Seq(Event), s # <<>>
  PROVE  /\ Tail(s) \in Seq(Event)
         /\ Head(s) = s[1]
         /\ \A i \in 1 .. Len(Tail(s)) :
              i + 1 \in 1 .. Len(s) /\ Tail(s)[i] = s[i + 1]
         /\ \A i \in 1 .. Len(s) :
              i # 1 => i - 1 \in 1 .. Len(Tail(s)) /\ Tail(s)[i - 1] = s[i]
  OBVIOUS

USE DEF vars, clusterVars, watchVars, envVars, goVars, mainVars, chanVars,
        errVars, engineVars

\* Every step keeps the types of the variables.
LEMMA TypeStep ==
  ASSUME TypeOK, [Next]_vars
  PROVE  TypeOK'
<1> USE ConstantsAssumption DEF TypeOK, Alive
<1>1. CASE Receive
  <2>1. seenRV + 1 \in 1 .. Len(log)
    BY <1>1 DEF Receive
  <2>2. wevent' \in Event
    BY <1>1, <2>1, LoggedTyped DEF Receive
  <2> QED
    BY <1>1, <2>2 DEF Receive, GoStep
<1>2. CASE Send
  <2>1. restart \in Seq(Event) /\ wevent \in Event
    OBVIOUS
  <2>2. restart' = Append(restart, wevent)
    BY <1>2 DEF Send
  <2>3. restart' \in Seq(Event)
    BY <2>1, <2>2
  <2>4. wevent' \in Event
    BY <1>2, NoChangeTyped DEF Send, NoiseType
  <2>5. /\ wpc' = "select"
       /\ UNCHANGED <<clusterVars, watchVars, envVars, listRV, attempts,
                      mainVars, quit, errVars, engineVars>>
    BY <1>2 DEF Send, GoStep
  <2> QED
    BY <2>3, <2>4, <2>5
<1>3. CASE Closed
  BY <1>3 DEF Closed, GoStep
<1>4. CASE Panic
  BY <1>4 DEF Panic
<1>5. CASE Relist
  BY <1>5 DEF Relist, GoStep
<1>6. CASE Rewatch
  BY <1>6 DEF Rewatch, GoStep, Resume, WriteErr
<1>7. CASE ResubscribeFails
  BY <1>7 DEF ResubscribeFails, GoStep, WriteErr
<1>8. CASE Resubscribed
  BY <1>8 DEF Resubscribed, CheckErr, GoStep, ReadErr
<1>9. CASE FindsError
  BY <1>9 DEF FindsError, CheckErr, GoStep, ReadErr
<1>10. CASE Retry
  BY <1>10 DEF Retry, Classify, GoStep, ReadErr, FakeWatch
<1>11. CASE GiveUp
  BY <1>11 DEF GiveUp, Classify, GoStep, ReadErr
<1>12. CASE Wake
  BY <1>12 DEF Wake, GoStep
<1>13. CASE SendFatal
  <2>1. NoChange("FATAL") \in Event
    BY NoChangeTyped
  <2>2. restart' \in Seq(Event)
    BY <1>13, <2>1 DEF SendFatal
  <2> QED
    BY <1>13, <2>2 DEF SendFatal, GoStep
<1>14. CASE WatcherDone
  BY <1>14 DEF WatcherDone, GoStep
<1>15. CASE BootFails
  BY <1>15 DEF BootFails, MainStep, Returns
<1>16. CASE BootList
  BY <1>16 DEF BootList
<1>17. CASE BootWatch
  BY <1>17 DEF BootWatch
<1>18. CASE StartList
  BY <1>18 DEF StartList, MainStep
<1>19. CASE StartListFails
  BY <1>19 DEF StartListFails, MainStep, WriteErr
<1>20. CASE StartEngine
  BY <1>20 DEF StartEngine, Engine, MainStep, WriteErr
<1>21. CASE Started
  BY <1>21 DEF Started, MainReads, MainStep, ReadErr
<1>22. CASE StartFailed
  BY <1>22 DEF StartFailed, MainReads, MainStep, ReadErr, Returns
<1>23. CASE TakeQuit
  BY <1>23 DEF TakeQuit, MainStep, OnQuit, Returns
<1>24. CASE TakeIgnored
  BY <1>24 DEF TakeIgnored, Take, MainStep
<1>25. CASE TakeFatal
  BY <1>25 DEF TakeFatal, Take, MainStep, Returns
<1>26. CASE TakeChange
  BY <1>26 DEF TakeChange, Take, MainStep
<1>27. CASE StopEngine
  BY <1>27 DEF StopEngine, Engine, MainStep, WriteErr
<1>28. CASE StopSucceeded
  BY <1>28 DEF StopSucceeded, MainReads, MainStep, ReadErr
<1>29. CASE StopFailed
  BY <1>29 DEF StopFailed, MainReads, MainStep, ReadErr
<1>30. CASE StopClear
  BY <1>30 DEF StopClear, MainStep, Cleared, Assigned
<1>31. CASE StopReturn
  BY <1>31 DEF StopReturn, MainStep, Assigned
<1>32. CASE Stopped
  BY <1>32 DEF Stopped, MainReads, MainStep, ReadErr
<1>33. CASE StoppedFailed
  BY <1>33 DEF StoppedFailed, MainReads, MainStep, ReadErr, Returns
<1>34. CASE Cancel
  BY <1>34 DEF Cancel, MainStep
<1>35. CASE Exit
  BY <1>35 DEF Exit, MainStep
<1>36. CASE CloseWatch
  BY <1>36 DEF CloseWatch
<1>37. CASE ReceiveNoise
  <2>1. wevent' \in Event
    BY <1>37, NoChangeTyped DEF ReceiveNoise
  <2> QED
    BY <1>37, <2>1 DEF ReceiveNoise, GoStep
<1>38. CASE Signal
  BY <1>38 DEF Signal
<1>39. ASSUME NEW n \in Namespace, CreateNamespace(n) PROVE TypeOK'
  <2>1. log' \in Seq(ChangeType)
    BY <1>39 DEF CreateNamespace, Changed, ChangeType
  <2> QED
    BY <1>39, <2>1 DEF CreateNamespace, Changed
<1>40. ASSUME NEW n \in Namespace, ModifyNamespace(n) PROVE TypeOK'
  <2>1. log' \in Seq(ChangeType)
    BY <1>40 DEF ModifyNamespace, Changed, ChangeType
  <2> QED
    BY <1>40, <2>1 DEF ModifyNamespace, Changed
<1>41. ASSUME NEW n \in Namespace, DeleteNamespace(n) PROVE TypeOK'
  <2>1. log' \in Seq(ChangeType)
    BY <1>41 DEF DeleteNamespace, Changed, ChangeType
  <2> QED
    BY <1>41, <2>1 DEF DeleteNamespace, Changed
<1>42. CASE UNCHANGED vars
  BY <1>42
<1> QED
  BY <1>1, <1>2, <1>3, <1>4, <1>5, <1>6, <1>7, <1>8, <1>9, <1>10, <1>11, <1>12,
     <1>13, <1>14, <1>15, <1>16, <1>17, <1>18, <1>19, <1>20, <1>21, <1>22,
     <1>23, <1>24, <1>25, <1>26, <1>27, <1>28, <1>29, <1>30, <1>31, <1>32,
     <1>33, <1>34, <1>35, <1>36, <1>37, <1>38, <1>39, <1>40, <1>41, <1>42
     DEF Next, Watcher, Main, Environment

\* No step makes a version exceed the length of the log.
LEMMA BoundsStep ==
  ASSUME TypeOK, Bounds, [Next]_vars
  PROVE  Bounds'
<1> USE DEF TypeOK, Bounds, Alive
<1>1. CASE Receive
  BY <1>1 DEF Receive, GoStep
<1>2. CASE Send
  BY <1>2 DEF Send, GoStep, NoChange
<1>3. CASE Closed
  BY <1>3 DEF Closed, GoStep
<1>4. CASE Panic
  BY <1>4 DEF Panic
<1>5. CASE Relist
  BY <1>5 DEF Relist, GoStep
<1>6. CASE Rewatch
  BY <1>6 DEF Rewatch, GoStep, Resume, WriteErr
<1>7. CASE ResubscribeFails
  BY <1>7 DEF ResubscribeFails, GoStep, WriteErr
<1>8. CASE Resubscribed
  BY <1>8 DEF Resubscribed, CheckErr, GoStep, ReadErr
<1>9. CASE FindsError
  BY <1>9 DEF FindsError, CheckErr, GoStep, ReadErr
<1>10. CASE Retry
  BY <1>10 DEF Retry, Classify, GoStep, ReadErr, FakeWatch
<1>11. CASE GiveUp
  BY <1>11 DEF GiveUp, Classify, GoStep, ReadErr
<1>12. CASE Wake
  BY <1>12 DEF Wake, GoStep
<1>13. CASE SendFatal
  BY <1>13 DEF SendFatal, GoStep, NoChange
<1>14. CASE WatcherDone
  BY <1>14 DEF WatcherDone, GoStep
<1>15. CASE BootFails
  BY <1>15 DEF BootFails, MainStep, Returns
<1>16. CASE BootList
  BY <1>16 DEF BootList
<1>17. CASE BootWatch
  BY <1>17 DEF BootWatch
<1>18. CASE StartList
  BY <1>18 DEF StartList, MainStep
<1>19. CASE StartListFails
  BY <1>19 DEF StartListFails, MainStep, WriteErr
<1>20. CASE StartEngine
  BY <1>20 DEF StartEngine, Engine, MainStep, WriteErr
<1>21. CASE Started
  BY <1>21 DEF Started, MainReads, MainStep, ReadErr
<1>22. CASE StartFailed
  BY <1>22 DEF StartFailed, MainReads, MainStep, ReadErr, Returns
<1>23. CASE TakeQuit
  BY <1>23 DEF TakeQuit, MainStep, OnQuit, Returns
<1>24. CASE TakeIgnored
  BY <1>24 DEF TakeIgnored, Take, MainStep
<1>25. CASE TakeFatal
  BY <1>25 DEF TakeFatal, Take, MainStep, Returns
<1>26. CASE TakeChange
  BY <1>26 DEF TakeChange, Take, MainStep
<1>27. CASE StopEngine
  BY <1>27 DEF StopEngine, Engine, MainStep, WriteErr
<1>28. CASE StopSucceeded
  BY <1>28 DEF StopSucceeded, MainReads, MainStep, ReadErr
<1>29. CASE StopFailed
  BY <1>29 DEF StopFailed, MainReads, MainStep, ReadErr
<1>30. CASE StopClear
  BY <1>30 DEF StopClear, MainStep, Cleared, Assigned
<1>31. CASE StopReturn
  BY <1>31 DEF StopReturn, MainStep, Assigned
<1>32. CASE Stopped
  BY <1>32 DEF Stopped, MainReads, MainStep, ReadErr
<1>33. CASE StoppedFailed
  BY <1>33 DEF StoppedFailed, MainReads, MainStep, ReadErr, Returns
<1>34. CASE Cancel
  BY <1>34 DEF Cancel, MainStep
<1>35. CASE Exit
  BY <1>35 DEF Exit, MainStep
<1>36. CASE CloseWatch
  BY <1>36 DEF CloseWatch
<1>37. CASE ReceiveNoise
  BY <1>37 DEF ReceiveNoise, GoStep, NoChange
<1>38. CASE Signal
  BY <1>38 DEF Signal
<1>39. ASSUME NEW n \in Namespace, CreateNamespace(n) PROVE Bounds'
  BY <1>39 DEF CreateNamespace, Changed
<1>40. ASSUME NEW n \in Namespace, ModifyNamespace(n) PROVE Bounds'
  BY <1>40 DEF ModifyNamespace, Changed
<1>41. ASSUME NEW n \in Namespace, DeleteNamespace(n) PROVE Bounds'
  BY <1>41 DEF DeleteNamespace, Changed
<1>42. CASE UNCHANGED vars
  BY <1>42
<1> QED
  BY <1>1, <1>2, <1>3, <1>4, <1>5, <1>6, <1>7, <1>8, <1>9, <1>10, <1>11, <1>12,
     <1>13, <1>14, <1>15, <1>16, <1>17, <1>18, <1>19, <1>20, <1>21, <1>22,
     <1>23, <1>24, <1>25, <1>26, <1>27, <1>28, <1>29, <1>30, <1>31, <1>32,
     <1>33, <1>34, <1>35, <1>36, <1>37, <1>38, <1>39, <1>40, <1>41, <1>42
     DEF Next, Watcher, Main, Environment

\* Events keep saying what the log says: the log only grows, and what is sent
\* was received from it.
LEMMA EventsStep ==
  ASSUME TypeOK, EventsFaithful, [Next]_vars
  PROVE  EventsFaithful'
<1> USE DEF TypeOK, EventsFaithful, Faithful, Alive
<1>1. CASE Receive
  BY <1>1 DEF Receive, GoStep
<1>2. CASE Send
  <2>1. Faithful(wevent)'
    BY <1>2 DEF Send, GoStep, NoChange
  <2>2. restart \in Seq(Event) /\ wevent \in Event
    OBVIOUS
  <2>3. restart' = Append(restart, wevent)
    BY <1>2 DEF Send
  <2>4. log' = log
    BY <1>2 DEF Send, GoStep
  <2>5. ASSUME NEW i \in 1 .. Len(restart')
        PROVE  Faithful(restart[i])'
    <3>1. \/ i \in 1 .. Len(restart) /\ restart'[i] = restart[i]
          \/ restart'[i] = wevent
      BY <2>2, <2>3, Appended
    <3>2. Faithful(restart[i]) \/ restart'[i] = wevent
      BY <3>1
    <3> QED
      BY <2>4, <3>1, <3>2
  <2> QED
    BY <2>1, <2>5
<1>3. CASE Closed
  BY <1>3 DEF Closed, GoStep
<1>4. CASE Panic
  BY <1>4 DEF Panic
<1>5. CASE Relist
  BY <1>5 DEF Relist, GoStep
<1>6. CASE Rewatch
  BY <1>6 DEF Rewatch, GoStep, Resume, WriteErr
<1>7. CASE ResubscribeFails
  BY <1>7 DEF ResubscribeFails, GoStep, WriteErr
<1>8. CASE Resubscribed
  BY <1>8 DEF Resubscribed, CheckErr, GoStep, ReadErr
<1>9. CASE FindsError
  BY <1>9 DEF FindsError, CheckErr, GoStep, ReadErr
<1>10. CASE Retry
  BY <1>10 DEF Retry, Classify, GoStep, ReadErr, FakeWatch
<1>11. CASE GiveUp
  BY <1>11 DEF GiveUp, Classify, GoStep, ReadErr
<1>12. CASE Wake
  BY <1>12 DEF Wake, GoStep
<1>13. CASE SendFatal
  BY <1>13 DEF SendFatal, GoStep, NoChange
<1>14. CASE WatcherDone
  BY <1>14 DEF WatcherDone, GoStep
<1>15. CASE BootFails
  BY <1>15 DEF BootFails, MainStep, Returns
<1>16. CASE BootList
  BY <1>16 DEF BootList
<1>17. CASE BootWatch
  BY <1>17 DEF BootWatch
<1>18. CASE StartList
  BY <1>18 DEF StartList, MainStep
<1>19. CASE StartListFails
  BY <1>19 DEF StartListFails, MainStep, WriteErr
<1>20. CASE StartEngine
  BY <1>20 DEF StartEngine, Engine, MainStep, WriteErr
<1>21. CASE Started
  BY <1>21 DEF Started, MainReads, MainStep, ReadErr
<1>22. CASE StartFailed
  BY <1>22 DEF StartFailed, MainReads, MainStep, ReadErr, Returns
<1>23. CASE TakeQuit
  BY <1>23 DEF TakeQuit, MainStep, OnQuit, Returns
<1>24. CASE TakeIgnored
  BY <1>24 DEF TakeIgnored, Take, MainStep
<1>25. CASE TakeFatal
  BY <1>25 DEF TakeFatal, Take, MainStep, Returns
<1>26. CASE TakeChange
  BY <1>26 DEF TakeChange, Take, MainStep
<1>27. CASE StopEngine
  BY <1>27 DEF StopEngine, Engine, MainStep, WriteErr
<1>28. CASE StopSucceeded
  BY <1>28 DEF StopSucceeded, MainReads, MainStep, ReadErr
<1>29. CASE StopFailed
  BY <1>29 DEF StopFailed, MainReads, MainStep, ReadErr
<1>30. CASE StopClear
  BY <1>30 DEF StopClear, MainStep, Cleared, Assigned
<1>31. CASE StopReturn
  BY <1>31 DEF StopReturn, MainStep, Assigned
<1>32. CASE Stopped
  BY <1>32 DEF Stopped, MainReads, MainStep, ReadErr
<1>33. CASE StoppedFailed
  BY <1>33 DEF StoppedFailed, MainReads, MainStep, ReadErr, Returns
<1>34. CASE Cancel
  BY <1>34 DEF Cancel, MainStep
<1>35. CASE Exit
  BY <1>35 DEF Exit, MainStep
<1>36. CASE CloseWatch
  BY <1>36 DEF CloseWatch
<1>37. CASE ReceiveNoise
  BY <1>37 DEF ReceiveNoise, GoStep, NoChange
<1>38. CASE Signal
  BY <1>38 DEF Signal
<1>39. ASSUME NEW n \in Namespace, CreateNamespace(n) PROVE EventsFaithful'
  BY <1>39 DEF CreateNamespace, Changed
<1>40. ASSUME NEW n \in Namespace, ModifyNamespace(n) PROVE EventsFaithful'
  BY <1>40 DEF ModifyNamespace, Changed
<1>41. ASSUME NEW n \in Namespace, DeleteNamespace(n) PROVE EventsFaithful'
  BY <1>41 DEF DeleteNamespace, Changed
<1>42. CASE UNCHANGED vars
  BY <1>42
<1> QED
  BY <1>1, <1>2, <1>3, <1>4, <1>5, <1>6, <1>7, <1>8, <1>9, <1>10, <1>11, <1>12,
     <1>13, <1>14, <1>15, <1>16, <1>17, <1>18, <1>19, <1>20, <1>21, <1>22,
     <1>23, <1>24, <1>25, <1>26, <1>27, <1>28, <1>29, <1>30, <1>31, <1>32,
     <1>33, <1>34, <1>35, <1>36, <1>37, <1>38, <1>39, <1>40, <1>41, <1>42
     DEF Next, Watcher, Main, Environment

\* A goroutine that reads its own err polls a watch that exists.
LEMMA WatchStep ==
  ASSUME TypeOK, WatchFacts, ~crossed', [Next]_vars
  PROVE  WatchFacts'
<1> USE ConstantsAssumption DEF TypeOK, WatchFacts, Alive
<1>1. CASE Receive
  BY <1>1 DEF Receive, GoStep
<1>2. CASE Send
  BY <1>2 DEF Send, GoStep, NoChange
<1>3. CASE Closed
  BY <1>3 DEF Closed, GoStep
<1>4. CASE Panic
  BY <1>4 DEF Panic
<1>5. CASE Relist
  BY <1>5 DEF Relist, GoStep
<1>6. CASE Rewatch
  BY <1>6 DEF Rewatch, GoStep, Resume, WriteErr
<1>7. CASE ResubscribeFails
  BY <1>7 DEF ResubscribeFails, GoStep, WriteErr
<1>8. CASE Resubscribed
  <2>1. attempts' = 0
    BY <1>8 DEF Resubscribed
  <2>2. attempts' \in 0 .. 3
    BY <2>1
  <2>3. err.by = "watcher" /\ err.val = "nil" /\ wpc = "check"
    BY <1>8 DEF Resubscribed, CheckErr, GoStep, ReadErr
  <2>4. wpc' = "select" /\ UNCHANGED <<mpc, wi, err>>
    BY <1>8 DEF Resubscribed, CheckErr, GoStep, ReadErr
  <2> QED
    BY <2>2, <2>3, <2>4
<1>9. CASE FindsError
  BY <1>9 DEF FindsError, CheckErr, GoStep, ReadErr
<1>10. CASE Retry
  BY <1>10 DEF Retry, Classify, GoStep, ReadErr, FakeWatch, Retries
<1>11. CASE GiveUp
  <2>1. wpc = "classify" /\ wpc' = "fatal" /\ UNCHANGED <<mpc, wi, err>>
    BY <1>11 DEF GiveUp, Classify, GoStep, ReadErr
  <2>2. err.by = "watcher"
    BY <1>11 DEF GiveUp, Classify, ReadErr
  <2>3. wi = "nil" /\ err.val # "nil"
    BY <2>1, <2>2
  <2>4. err.val \in {"net", "other"}
    BY <2>3
  <2>5. attempts \in 0 .. 3
    BY <2>1
  <2>6. err.val = "net" => attempts' = 4
    BY <1>11, <2>5 DEF GiveUp, Classify, Retries
  <2> QED
    BY <2>1, <2>3, <2>4, <2>6
<1>12. CASE Wake
  BY <1>12 DEF Wake, GoStep
<1>13. CASE SendFatal
  BY <1>13 DEF SendFatal, GoStep, NoChange
<1>14. CASE WatcherDone
  BY <1>14 DEF WatcherDone, GoStep
<1>15. CASE BootFails
  BY <1>15 DEF BootFails, MainStep, Returns
<1>16. CASE BootList
  BY <1>16 DEF BootList
<1>17. CASE BootWatch
  BY <1>17 DEF BootWatch
<1>18. CASE StartList
  BY <1>18 DEF StartList, MainStep
<1>19. CASE StartListFails
  BY <1>19 DEF StartListFails, MainStep, WriteErr
<1>20. CASE StartEngine
  BY <1>20 DEF StartEngine, Engine, MainStep, WriteErr
<1>21. CASE Started
  BY <1>21 DEF Started, MainReads, MainStep, ReadErr
<1>22. CASE StartFailed
  BY <1>22 DEF StartFailed, MainReads, MainStep, ReadErr, Returns
<1>23. CASE TakeQuit
  BY <1>23 DEF TakeQuit, MainStep, OnQuit, Returns
<1>24. CASE TakeIgnored
  BY <1>24 DEF TakeIgnored, Take, MainStep
<1>25. CASE TakeFatal
  BY <1>25 DEF TakeFatal, Take, MainStep, Returns
<1>26. CASE TakeChange
  BY <1>26 DEF TakeChange, Take, MainStep
<1>27. CASE StopEngine
  BY <1>27 DEF StopEngine, Engine, MainStep, WriteErr
<1>28. CASE StopSucceeded
  BY <1>28 DEF StopSucceeded, MainReads, MainStep, ReadErr
<1>29. CASE StopFailed
  BY <1>29 DEF StopFailed, MainReads, MainStep, ReadErr
<1>30. CASE StopClear
  BY <1>30 DEF StopClear, MainStep, Cleared, Assigned
<1>31. CASE StopReturn
  BY <1>31 DEF StopReturn, MainStep, Assigned
<1>32. CASE Stopped
  BY <1>32 DEF Stopped, MainReads, MainStep, ReadErr
<1>33. CASE StoppedFailed
  BY <1>33 DEF StoppedFailed, MainReads, MainStep, ReadErr, Returns
<1>34. CASE Cancel
  BY <1>34 DEF Cancel, MainStep
<1>35. CASE Exit
  BY <1>35 DEF Exit, MainStep
<1>36. CASE CloseWatch
  BY <1>36 DEF CloseWatch
<1>37. CASE ReceiveNoise
  BY <1>37 DEF ReceiveNoise, GoStep, NoChange
<1>38. CASE Signal
  BY <1>38 DEF Signal
<1>39. ASSUME NEW n \in Namespace, CreateNamespace(n) PROVE WatchFacts'
  BY <1>39 DEF CreateNamespace, Changed
<1>40. ASSUME NEW n \in Namespace, ModifyNamespace(n) PROVE WatchFacts'
  BY <1>40 DEF ModifyNamespace, Changed
<1>41. ASSUME NEW n \in Namespace, DeleteNamespace(n) PROVE WatchFacts'
  BY <1>41 DEF DeleteNamespace, Changed
<1>42. CASE UNCHANGED vars
  BY <1>42
<1> QED
  BY <1>1, <1>2, <1>3, <1>4, <1>5, <1>6, <1>7, <1>8, <1>9, <1>10, <1>11, <1>12,
     <1>13, <1>14, <1>15, <1>16, <1>17, <1>18, <1>19, <1>20, <1>21, <1>22,
     <1>23, <1>24, <1>25, <1>26, <1>27, <1>28, <1>29, <1>30, <1>31, <1>32,
     <1>33, <1>34, <1>35, <1>36, <1>37, <1>38, <1>39, <1>40, <1>41, <1>42
     DEF Next, Watcher, Main, Environment

\* A goroutine that reads its own err knows what it did to the engine.
LEMMA EngineStep ==
  ASSUME TypeOK, EngineFacts, ~crossed', [Next]_vars
  PROVE  EngineFacts'
<1> USE ConstantsAssumption DEF TypeOK, EngineFacts, Own, Alive
<1>1. CASE Receive
  BY <1>1 DEF Receive, GoStep
<1>2. CASE Send
  BY <1>2 DEF Send, GoStep, NoChange
<1>3. CASE Closed
  BY <1>3 DEF Closed, GoStep
<1>4. CASE Panic
  BY <1>4 DEF Panic
<1>5. CASE Relist
  BY <1>5 DEF Relist, GoStep
<1>6. CASE Rewatch
  BY <1>6 DEF Rewatch, GoStep, Resume, WriteErr
<1>7. CASE ResubscribeFails
  BY <1>7 DEF ResubscribeFails, GoStep, WriteErr
<1>8. CASE Resubscribed
  BY <1>8 DEF Resubscribed, CheckErr, GoStep, ReadErr
<1>9. CASE FindsError
  BY <1>9 DEF FindsError, CheckErr, GoStep, ReadErr
<1>10. CASE Retry
  BY <1>10 DEF Retry, Classify, GoStep, ReadErr, FakeWatch
<1>11. CASE GiveUp
  BY <1>11 DEF GiveUp, Classify, GoStep, ReadErr
<1>12. CASE Wake
  BY <1>12 DEF Wake, GoStep
<1>13. CASE SendFatal
  BY <1>13 DEF SendFatal, GoStep, NoChange
<1>14. CASE WatcherDone
  BY <1>14 DEF WatcherDone, GoStep
<1>15. CASE BootFails
  BY <1>15 DEF BootFails, MainStep, Returns
<1>16. CASE BootList
  BY <1>16 DEF BootList
<1>17. CASE BootWatch
  BY <1>17 DEF BootWatch
<1>18. CASE StartList
  BY <1>18 DEF StartList, MainStep
<1>19. CASE StartListFails
  BY <1>19 DEF StartListFails, MainStep, WriteErr
<1>20. CASE StartEngine
  BY <1>20 DEF StartEngine, Engine, MainStep, WriteErr
<1>21. CASE Started
  BY <1>21 DEF Started, MainReads, MainStep, ReadErr
<1>22. CASE StartFailed
  BY <1>22 DEF StartFailed, MainReads, MainStep, ReadErr, Returns
<1>23. CASE TakeQuit
  BY <1>23 DEF TakeQuit, MainStep, OnQuit, Returns
<1>24. CASE TakeIgnored
  BY <1>24 DEF TakeIgnored, Take, MainStep, Ignored
<1>25. CASE TakeFatal
  BY <1>25 DEF TakeFatal, Take, MainStep, Returns
<1>26. CASE TakeChange
  BY <1>26 DEF TakeChange, Take, MainStep, Ignored
<1>27. CASE StopEngine
  BY <1>27 DEF StopEngine, Engine, MainStep, WriteErr
<1>28. CASE StopSucceeded
  BY <1>28 DEF StopSucceeded, MainReads, MainStep, ReadErr, StopSucceeds
<1>29. CASE StopFailed
  BY <1>29 DEF StopFailed, MainReads, MainStep, ReadErr, StopSucceeds
<1>30. CASE StopClear
  BY <1>30 DEF StopClear, MainStep, Cleared, Assigned
<1>31. CASE StopReturn
  BY <1>31 DEF StopReturn, MainStep, Assigned
<1>32. CASE Stopped
  BY <1>32 DEF Stopped, MainReads, MainStep, ReadErr
<1>33. CASE StoppedFailed
  BY <1>33 DEF StoppedFailed, MainReads, MainStep, ReadErr, Returns
<1>34. CASE Cancel
  BY <1>34 DEF Cancel, MainStep
<1>35. CASE Exit
  BY <1>35 DEF Exit, MainStep
<1>36. CASE CloseWatch
  BY <1>36 DEF CloseWatch
<1>37. CASE ReceiveNoise
  BY <1>37 DEF ReceiveNoise, GoStep, NoChange
<1>38. CASE Signal
  BY <1>38 DEF Signal
<1>39. ASSUME NEW n \in Namespace, CreateNamespace(n) PROVE EngineFacts'
  BY <1>39 DEF CreateNamespace, Changed
<1>40. ASSUME NEW n \in Namespace, ModifyNamespace(n) PROVE EngineFacts'
  BY <1>40 DEF ModifyNamespace, Changed
<1>41. ASSUME NEW n \in Namespace, DeleteNamespace(n) PROVE EngineFacts'
  BY <1>41 DEF DeleteNamespace, Changed
<1>42. CASE UNCHANGED vars
  BY <1>42
<1> QED
  BY <1>1, <1>2, <1>3, <1>4, <1>5, <1>6, <1>7, <1>8, <1>9, <1>10, <1>11, <1>12,
     <1>13, <1>14, <1>15, <1>16, <1>17, <1>18, <1>19, <1>20, <1>21, <1>22,
     <1>23, <1>24, <1>25, <1>26, <1>27, <1>28, <1>29, <1>30, <1>31, <1>32,
     <1>33, <1>34, <1>35, <1>36, <1>37, <1>38, <1>39, <1>40, <1>41, <1>42
     DEF Next, Watcher, Main, Environment

\* What covers a change keeps covering it as long as the watch is not moved on
\* and what is on its way stays on its way.
LEMMA StillCovered ==
  ASSUME TypeOK, Covered, Current,
         UNCHANGED <<clusterVars, seenRV, loaded, loadedRV>>,
         missed \subseteq missed',
         \A v \in Nat \ {0} : InFlight(v) => InFlight(v)'
  PROVE  Covered' /\ Current'
<1>1. Covered'
  BY DEF Covered, TypeOK
<1>2. Current'
  BY DEF Current
<1> QED
  BY <1>1, <1>2

\* A change is ahead of the watch when it is made, and only one that is not a
\* modification changes the set of namespaces.
LEMMA LogGrows ==
  ASSUME TypeOK, Bounds, Covered, Current,
         UNCHANGED <<watchVars, goVars, restart, loaded, loadedRV>>,
         NEW type \in ChangeType, log' = Append(log, type),
         type = "MODIFIED" => live' = live
  PROVE  Covered' /\ Current'
<1>1. log \in Seq(ChangeType) /\ seenRV \in Nat /\ loadedRV \in Nat
  BY DEF TypeOK
<1>2. /\ Len(log') = Len(log) + 1 /\ Len(log) \in Nat
      /\ log'[Len(log) + 1] = type
      /\ \A v \in 1 .. Len(log) : log'[v] = log[v]
  BY <1>1
<1>3. \A v \in Nat : InFlight(v) => InFlight(v)'
  BY DEF InFlight
<1>4. Covered'
  BY <1>1, <1>2, <1>3 DEF Covered, Bounds
<1>5. Current'
  BY <1>1, <1>2 DEF Current, Bounds
<1> QED
  BY <1>4, <1>5

\* The sources stay current, or whatever they miss stays covered.
LEMMA SourcesStep ==
  ASSUME TypeOK, Bounds, EventsFaithful, EngineFacts, SourcesFacts, [Next]_vars
  PROVE  SourcesFacts'
<1> USE DEF SourcesFacts, Loaded, Alive
<1>1. CASE Receive
  <2> SUFFICES ASSUME Loaded'
              PROVE  Covered' /\ Current'
    OBVIOUS
  <2>0. Covered /\ Current
    BY <1>1 DEF Receive, GoStep
  <2>1. wpc = "select" /\ wpc' = "send" /\ wevent'.rv = seenRV + 1
    BY <1>1 DEF Receive, GoStep
  <2>2. /\ UNCHANGED <<clusterVars, missed, loaded, loadedRV, restart>>
        /\ seenRV' = seenRV + 1
    BY <1>1 DEF Receive, GoStep
  <2>3. \A v \in Nat : InFlight(v) \/ v = seenRV + 1 => InFlight(v)'
    BY <2>1, <2>2 DEF InFlight
  <2>4. Covered'
    BY <2>0, <2>2, <2>3 DEF Covered, TypeOK
  <2>5. Current'
    BY <2>0, <2>2 DEF Current
  <2> QED
    BY <2>4, <2>5
<1>2. CASE Send
  <2> SUFFICES ASSUME Loaded'
              PROVE  Covered' /\ Current'
    OBVIOUS
  <2>0. Covered /\ Current
    BY <1>2 DEF Send, GoStep, NoChange
  <2>1. restart \in Seq(Event) /\ wevent \in Event
    BY NoChangeTyped DEF TypeOK
  <2>2. restart' = Append(restart, wevent)
    BY <1>2 DEF Send, GoStep, NoChange
  <2>3. /\ \A i \in 1 .. Len(restart) :
             i \in 1 .. Len(restart') /\ restart'[i] = restart[i]
        /\ \E i \in 1 .. Len(restart') : restart'[i] = wevent
    BY <2>1, <2>2, Appended
  <2>4. \A v \in Nat : InFlight(v) => InFlight(v)'
    BY <2>3 DEF InFlight
  <2> QED
    BY <1>2, <2>0, <2>4, StillCovered DEF Send, GoStep, NoChange
<1>3. CASE Closed
  BY <1>3, StillCovered
     DEF Closed, GoStep, InFlight
<1>4. CASE Panic
  BY <1>4 DEF Panic
<1>5. CASE Relist
  BY <1>5, StillCovered
     DEF Relist, GoStep, InFlight
<1>6. CASE Rewatch
  <2> SUFFICES ASSUME Loaded'
              PROVE  Covered' /\ Current'
    OBVIOUS
  <2>0. Covered /\ Current
    BY <1>6 DEF Rewatch, GoStep, Resume, WriteErr
  <2>1. UNCHANGED <<clusterVars, loaded, loadedRV, restart>>
    BY <1>6 DEF Rewatch, GoStep, Resume, WriteErr
  <2>2. seenRV' = listRV /\ missed' = missed \cup (seenRV + 1 .. listRV)
    BY <1>6 DEF Rewatch, GoStep, Resume, WriteErr
  <2>3. \A v \in Nat : InFlight(v) => InFlight(v)'
    BY <1>6, <2>1 DEF InFlight, Rewatch, GoStep, Resume, WriteErr
  <2>4. Covered'
    BY <2>0, <2>1, <2>2, <2>3 DEF Covered, TypeOK
  <2>5. Current'
    BY <2>0, <2>1 DEF Current
  <2> QED
    BY <2>4, <2>5
<1>7. CASE ResubscribeFails
  BY <1>7, StillCovered
     DEF ResubscribeFails, GoStep, WriteErr, InFlight
<1>8. CASE Resubscribed
  BY <1>8, StillCovered
     DEF Resubscribed, CheckErr, GoStep, ReadErr, InFlight
<1>9. CASE FindsError
  BY <1>9, StillCovered
     DEF FindsError, CheckErr, GoStep, ReadErr, InFlight
<1>10. CASE Retry
  BY <1>10, StillCovered
     DEF Retry, Classify, GoStep, ReadErr, FakeWatch, InFlight
<1>11. CASE GiveUp
  BY <1>11, StillCovered
     DEF GiveUp, Classify, GoStep, ReadErr, InFlight
<1>12. CASE Wake
  BY <1>12, StillCovered
     DEF Wake, GoStep, InFlight
<1>13. CASE SendFatal
  <2> SUFFICES ASSUME Loaded'
              PROVE  Covered' /\ Current'
    OBVIOUS
  <2>0. Covered /\ Current
    BY <1>13 DEF SendFatal, GoStep, NoChange
  <2>1. restart \in Seq(Event) /\ NoChange("FATAL") \in Event
    BY NoChangeTyped DEF TypeOK
  <2>2. restart' = Append(restart, NoChange("FATAL"))
    BY <1>13 DEF SendFatal, GoStep, NoChange
  <2>3. \A v \in Nat : InFlight(v) => InFlight(v)'
    BY <1>13, <2>1, <2>2, Appended DEF InFlight, SendFatal, GoStep, NoChange
  <2> QED
    BY <1>13, <2>0, <2>3, StillCovered DEF SendFatal, GoStep, NoChange
<1>14. CASE WatcherDone
  BY <1>14, StillCovered
     DEF WatcherDone, GoStep, InFlight
<1>15. CASE BootFails
  BY <1>15 DEF BootFails, MainStep, Returns
<1>16. CASE BootList
  BY <1>16 DEF BootList
<1>17. CASE BootWatch
  BY <1>17 DEF BootWatch
<1>18. CASE StartList
  <2>1. loadedRV' = Len(log') /\ loaded' = live'
    BY <1>18 DEF StartList, MainStep
  <2>2. Len(log') \in Nat
    BY <1>18 DEF TypeOK, StartList, MainStep
  <2> QED
    BY <2>1, <2>2 DEF Covered, Current
<1>19. CASE StartListFails
  BY <1>19 DEF StartListFails, MainStep, WriteErr, EngineFacts
<1>20. CASE StartEngine
  BY <1>20, StillCovered
     DEF StartEngine, Engine, MainStep, WriteErr, InFlight
<1>21. CASE Started
  BY <1>21, StillCovered
     DEF Started, MainReads, MainStep, ReadErr, InFlight
<1>22. CASE StartFailed
  BY <1>22 DEF StartFailed, MainReads, MainStep, ReadErr, Returns
<1>23. CASE TakeQuit
  BY <1>23 DEF TakeQuit, MainStep, OnQuit, Returns
<1>24. CASE TakeIgnored
  <2> SUFFICES ASSUME Loaded'
              PROVE  Covered' /\ Current'
    OBVIOUS
  <2>0. Covered /\ Current
    BY <1>24 DEF TakeIgnored, Take, MainStep
  <2>1. restart \in Seq(Event) /\ restart # <<>>
    BY <1>24 DEF TypeOK, TakeIgnored, Take, MainStep
  <2>2. restart' = Tail(restart)
    BY <1>24 DEF TakeIgnored, Take, MainStep
  <2>3. restart[1].type \in {"", "MODIFIED"}
    BY <1>24, <2>1, Tailed DEF TakeIgnored, Take, MainStep, Ignored
  <2>4. \A v \in 1 .. Len(log) : restart[1].rv = v => log[v] = "MODIFIED"
    <3>1. 1 \in 1 .. Len(restart)
      BY <2>1
    <3>2. Faithful(restart[1])
      BY <3>1 DEF EventsFaithful
    <3>3. log \in Seq(ChangeType)
      BY DEF TypeOK
    <3>4. \A v \in 1 .. Len(log) : log[v] \in ChangeType /\ v # 0
      BY <3>3
    <3> QED
      BY <2>3, <3>2, <3>4 DEF Faithful, ChangeType
  <2>5. \A v \in 1 .. Len(log) :
          InFlight(v) /\ log[v] # "MODIFIED" => InFlight(v)'
    <3>1. \A i \in 1 .. Len(restart) : i # 1 =>
            i - 1 \in 1 .. Len(restart') /\ restart'[i - 1] = restart[i]
      BY <2>1, <2>2, Tailed
    <3>2. UNCHANGED <<wpc, wevent>>
      BY <1>24 DEF TakeIgnored, Take, MainStep
    <3> QED
      BY <2>4, <3>1, <3>2 DEF InFlight
  <2>6. UNCHANGED <<clusterVars, seenRV, missed, loaded, loadedRV>>
    BY <1>24 DEF TakeIgnored, Take, MainStep
  <2>7. Covered'
    BY <2>0, <2>5, <2>6 DEF Covered, TypeOK
  <2>8. Current'
    BY <2>0, <2>6 DEF Current
  <2> QED
    BY <2>7, <2>8
<1>25. CASE TakeFatal
  BY <1>25 DEF TakeFatal, Take, MainStep, Returns
<1>26. CASE TakeChange
  BY <1>26 DEF TakeChange, Take, MainStep
<1>27. CASE StopEngine
  BY <1>27 DEF StopEngine, Engine, MainStep, WriteErr
<1>28. CASE StopSucceeded
  BY <1>28 DEF StopSucceeded, MainReads, MainStep, ReadErr
<1>29. CASE StopFailed
  BY <1>29 DEF StopFailed, MainReads, MainStep, ReadErr
<1>30. CASE StopClear
  BY <1>30 DEF StopClear, MainStep, Cleared, Assigned
<1>31. CASE StopReturn
  BY <1>31 DEF StopReturn, MainStep, Assigned
<1>32. CASE Stopped
  BY <1>32 DEF Stopped, MainReads, MainStep, ReadErr
<1>33. CASE StoppedFailed
  BY <1>33 DEF StoppedFailed, MainReads, MainStep, ReadErr, Returns
<1>34. CASE Cancel
  BY <1>34 DEF Cancel, MainStep
<1>35. CASE Exit
  BY <1>35 DEF Exit, MainStep
<1>36. CASE CloseWatch
  BY <1>36, StillCovered
     DEF CloseWatch, InFlight
<1>37. CASE ReceiveNoise
  BY <1>37, StillCovered
     DEF ReceiveNoise, GoStep, NoChange, InFlight
<1>38. CASE Signal
  BY <1>38, StillCovered
     DEF Signal, InFlight
<1>39. ASSUME NEW n \in Namespace, CreateNamespace(n) PROVE SourcesFacts'
  <2> SUFFICES ASSUME Loaded'
              PROVE  Covered' /\ Current'
    OBVIOUS
  <2>1. UNCHANGED <<watchVars, goVars, restart, loaded, loadedRV>>
    BY <1>39 DEF CreateNamespace, Changed
  <2>2. Covered /\ Current
    BY <1>39 DEF CreateNamespace, Changed
  <2>3. PICK type \in ChangeType :
          log' = Append(log, type) /\ (type = "MODIFIED" => live' = live)
    BY <1>39 DEF CreateNamespace, Changed, ChangeType
  <2> QED
    BY <2>1, <2>2, <2>3, LogGrows
<1>40. ASSUME NEW n \in Namespace, ModifyNamespace(n) PROVE SourcesFacts'
  <2> SUFFICES ASSUME Loaded'
              PROVE  Covered' /\ Current'
    OBVIOUS
  <2>1. UNCHANGED <<watchVars, goVars, restart, loaded, loadedRV>>
    BY <1>40 DEF ModifyNamespace, Changed
  <2>2. Covered /\ Current
    BY <1>40 DEF ModifyNamespace, Changed
  <2>3. PICK type \in ChangeType :
          log' = Append(log, type) /\ (type = "MODIFIED" => live' = live)
    BY <1>40 DEF ModifyNamespace, Changed, ChangeType
  <2> QED
    BY <2>1, <2>2, <2>3, LogGrows
<1>41. ASSUME NEW n \in Namespace, DeleteNamespace(n) PROVE SourcesFacts'
  <2> SUFFICES ASSUME Loaded'
              PROVE  Covered' /\ Current'
    OBVIOUS
  <2>1. UNCHANGED <<watchVars, goVars, restart, loaded, loadedRV>>
    BY <1>41 DEF DeleteNamespace, Changed
  <2>2. Covered /\ Current
    BY <1>41 DEF DeleteNamespace, Changed
  <2>3. PICK type \in ChangeType :
          log' = Append(log, type) /\ (type = "MODIFIED" => live' = live)
    BY <1>41 DEF DeleteNamespace, Changed, ChangeType
  <2> QED
    BY <2>1, <2>2, <2>3, LogGrows
<1>42. CASE UNCHANGED vars
  BY <1>42, StillCovered DEF InFlight
<1> QED
  BY <1>1, <1>2, <1>3, <1>4, <1>5, <1>6, <1>7, <1>8, <1>9, <1>10, <1>11, <1>12,
     <1>13, <1>14, <1>15, <1>16, <1>17, <1>18, <1>19, <1>20, <1>21, <1>22,
     <1>23, <1>24, <1>25, <1>26, <1>27, <1>28, <1>29, <1>30, <1>31, <1>32,
     <1>33, <1>34, <1>35, <1>36, <1>37, <1>38, <1>39, <1>40, <1>41, <1>42
     DEF Next, Watcher, Main, Environment

\* The inductive invariant holds when the process begins.
LEMMA InitIInv == Init => IInv
<1> SUFFICES ASSUME Init
             PROVE  IInv
  OBVIOUS
<1>1. log = <<>> /\ restart = <<>> /\ seenRV = 0 /\ listRV = 0 /\ loadedRV = 0
  BY DEF Init
<1>2. wevent \in Event /\ log \in Seq(ChangeType) /\ restart \in Seq(Event)
  <2>1. wevent = NoChange("")
    BY DEF Init, NoChange
  <2>2. NoChange("") \in Event
    BY NoChangeTyped DEF NoiseType
  <2>3. log \in Seq(ChangeType) /\ restart \in Seq(Event)
    BY <1>1
  <2> QED
    BY <2>1, <2>2, <2>3
<1>3. TypeOK
  BY <1>2 DEF Init, TypeOK
<1>4. Len(log) = 0 /\ Len(restart) = 0
  BY <1>1
<1>5. Faithful(wevent)
  BY DEF Init, Faithful
<1>6. Bounds /\ EventsFaithful
  BY <1>1, <1>4, <1>5 DEF Bounds, EventsFaithful
<1>7. SourcesFacts /\ EngineFacts
  BY DEF Init, SourcesFacts, Loaded, EngineFacts
<1>8. attempts = 0 /\ wpc = "unborn"
  BY DEF Init
<1>9. WatchFacts
  BY <1>8 DEF WatchFacts
<1> QED
  BY <1>3, <1>6, <1>7, <1>9 DEF IInv

\* crossed is never taken back.
LEMMA CrossedStays == ASSUME TypeOK, crossed, [Next]_vars PROVE crossed'

<1> USE DEF Alive
<1>1. CASE Receive
  BY <1>1 DEF Receive, GoStep
<1>2. CASE Send
  BY <1>2 DEF Send, GoStep, NoChange
<1>3. CASE Closed
  BY <1>3 DEF Closed, GoStep
<1>4. CASE Panic
  BY <1>4 DEF Panic
<1>5. CASE Relist
  BY <1>5 DEF Relist, GoStep
<1>6. CASE Rewatch
  BY <1>6 DEF Rewatch, GoStep, Resume, WriteErr
<1>7. CASE ResubscribeFails
  BY <1>7 DEF ResubscribeFails, GoStep, WriteErr
<1>8. CASE Resubscribed
  BY <1>8 DEF Resubscribed, CheckErr, GoStep, ReadErr
<1>9. CASE FindsError
  BY <1>9 DEF FindsError, CheckErr, GoStep, ReadErr
<1>10. CASE Retry
  BY <1>10 DEF Retry, Classify, GoStep, ReadErr, FakeWatch
<1>11. CASE GiveUp
  BY <1>11 DEF GiveUp, Classify, GoStep, ReadErr
<1>12. CASE Wake
  BY <1>12 DEF Wake, GoStep
<1>13. CASE SendFatal
  BY <1>13 DEF SendFatal, GoStep, NoChange
<1>14. CASE WatcherDone
  BY <1>14 DEF WatcherDone, GoStep
<1>15. CASE BootFails
  BY <1>15 DEF BootFails, MainStep, Returns
<1>16. CASE BootList
  BY <1>16 DEF BootList
<1>17. CASE BootWatch
  BY <1>17 DEF BootWatch
<1>18. CASE StartList
  BY <1>18 DEF StartList, MainStep
<1>19. CASE StartListFails
  BY <1>19 DEF StartListFails, MainStep, WriteErr
<1>20. CASE StartEngine
  BY <1>20 DEF StartEngine, Engine, MainStep, WriteErr
<1>21. CASE Started
  BY <1>21 DEF Started, MainReads, MainStep, ReadErr
<1>22. CASE StartFailed
  BY <1>22 DEF StartFailed, MainReads, MainStep, ReadErr, Returns
<1>23. CASE TakeQuit
  BY <1>23 DEF TakeQuit, MainStep, OnQuit, Returns
<1>24. CASE TakeIgnored
  BY <1>24 DEF TakeIgnored, Take, MainStep
<1>25. CASE TakeFatal
  BY <1>25 DEF TakeFatal, Take, MainStep, Returns
<1>26. CASE TakeChange
  BY <1>26 DEF TakeChange, Take, MainStep
<1>27. CASE StopEngine
  BY <1>27 DEF StopEngine, Engine, MainStep, WriteErr
<1>28. CASE StopSucceeded
  BY <1>28 DEF StopSucceeded, MainReads, MainStep, ReadErr
<1>29. CASE StopFailed
  BY <1>29 DEF StopFailed, MainReads, MainStep, ReadErr
<1>30. CASE StopClear
  BY <1>30 DEF StopClear, MainStep, Cleared, Assigned
<1>31. CASE StopReturn
  BY <1>31 DEF StopReturn, MainStep, Assigned
<1>32. CASE Stopped
  BY <1>32 DEF Stopped, MainReads, MainStep, ReadErr
<1>33. CASE StoppedFailed
  BY <1>33 DEF StoppedFailed, MainReads, MainStep, ReadErr, Returns
<1>34. CASE Cancel
  BY <1>34 DEF Cancel, MainStep
<1>35. CASE Exit
  BY <1>35 DEF Exit, MainStep
<1>36. CASE CloseWatch
  BY <1>36 DEF CloseWatch
<1>37. CASE ReceiveNoise
  BY <1>37 DEF ReceiveNoise, GoStep, NoChange
<1>38. CASE Signal
  BY <1>38 DEF Signal
<1>39. ASSUME NEW n \in Namespace, CreateNamespace(n) PROVE crossed'
  BY <1>39 DEF CreateNamespace, Changed
<1>40. ASSUME NEW n \in Namespace, ModifyNamespace(n) PROVE crossed'
  BY <1>40 DEF ModifyNamespace, Changed
<1>41. ASSUME NEW n \in Namespace, DeleteNamespace(n) PROVE crossed'
  BY <1>41 DEF DeleteNamespace, Changed
<1>42. CASE UNCHANGED vars
  BY <1>42
<1> QED
  BY <1>1, <1>2, <1>3, <1>4, <1>5, <1>6, <1>7, <1>8, <1>9, <1>10, <1>11, <1>12,
     <1>13, <1>14, <1>15, <1>16, <1>17, <1>18, <1>19, <1>20, <1>21, <1>22,
     <1>23, <1>24, <1>25, <1>26, <1>27, <1>28, <1>29, <1>30, <1>31, <1>32,
     <1>33, <1>34, <1>35, <1>36, <1>37, <1>38, <1>39, <1>40, <1>41, <1>42
     DEF Next, Watcher, Main, Environment

\* Every step preserves the inductive invariant.
THEOREM Inductive == IInv /\ [Next]_vars => IInv'
<1> SUFFICES ASSUME IInv, [Next]_vars
             PROVE  IInv'
  OBVIOUS
<1>1. TypeOK /\ Bounds /\ EventsFaithful
  BY DEF IInv
<1>2. TypeOK' /\ Bounds' /\ EventsFaithful'
  BY <1>1, TypeStep, BoundsStep, EventsStep
<1>3. ASSUME ~crossed'
      PROVE  SourcesFacts' /\ EngineFacts' /\ WatchFacts'
  <2>1. ~crossed
    BY <1>1, <1>3, CrossedStays
  <2>2. SourcesFacts /\ EngineFacts /\ WatchFacts
    BY <2>1 DEF IInv
  <2>3. SourcesFacts'
    BY <1>1, <2>2, SourcesStep
  <2>4. EngineFacts'
    BY <1>1, <1>3, <2>2, EngineStep
  <2>5. WatchFacts'
    BY <1>1, <1>3, <2>2, WatchStep
  <2> QED
    BY <2>3, <2>4, <2>5
<1> QED
  BY <1>2, <1>3 DEF IInv

\* The inductive invariant holds in every reachable state: whatever the sources
\* of the engine miss is ahead of the watch, on its way, or was jumped over.
THEOREM Invariance == Spec => []IInv
<1>1. IInv /\ UNCHANGED vars => IInv'
  BY Inductive
<1> QED
  BY InitIInv, Inductive, PTL DEF Spec

\* The variables of the goroutines, channel and the engine keep their types.
THEOREM TypeCorrect == Spec => []TypeOK
<1>1. IInv => TypeOK
  BY DEF IInv
<1> QED
  BY <1>1, Invariance, PTL

\* What is covered is reflected once nothing is ahead of the watch or on its way.
LEMMA Settled == IInv => NeverSilentlyStale
<1> SUFFICES ASSUME IInv, ~crossed, Quiescent,
                    \A v \in missed : v <= loadedRV
             PROVE  loaded = live
  BY DEF NeverSilentlyStale
<1>1. Covered /\ Current
  BY DEF IInv, EngineFacts, SourcesFacts, Loaded, Quiescent
<1>2. \A v \in Nat : ~InFlight(v)
  BY DEF Quiescent, InFlight
<1>3. \A v \in loadedRV + 1 .. Len(log) :
        v \in Nat /\ v <= seenRV /\ v \notin missed
  BY DEF IInv, TypeOK, Quiescent
<1>4. \A v \in loadedRV + 1 .. Len(log) : log[v] = "MODIFIED"
  BY <1>1, <1>2, <1>3 DEF Covered, IInv, TypeOK
<1> QED
  BY <1>1, <1>4 DEF Current

\* When everything has settled, what the engine misses was jumped over by a new
\* subscription.
THEOREM SettledIsCurrent == Spec => []NeverSilentlyStale
  BY Settled, Invariance, PTL

\* The loop waits for events only with a running engine and one batch of
\* sources in it.
THEOREM LoopServes == Spec => []ServesUnlessRaced
<1>1. IInv => ServesUnlessRaced
  BY DEF IInv, EngineFacts, ServesUnlessRaced
<1> QED
  BY <1>1, Invariance, PTL

\* Sources are listed and loaded into a stopped engine without any.
THEOREM StartsClean == Spec => []StartsFromClean
<1>1. IInv => StartsFromClean
  BY DEF IInv, EngineFacts, StartsFromClean
<1> QED
  BY <1>1, Invariance, PTL

\* The goroutine gives up only after a failure that is not transient, or after at
\* least three transient ones without a success between them.
THEOREM GivesUpWithCause == Spec => []GivesUpForCause
<1>1. IInv => GivesUpForCause
  BY DEF IInv, WatchFacts, GivesUpForCause
<1> QED
  BY <1>1, Invariance, PTL

\* A goroutine that reads the result of its own subscription never polls a
\* watch that does not exist.
THEOREM PollsAWatch == Spec => []PollsUnlessRaced
<1>1. IInv => PollsUnlessRaced
  BY DEF IInv, WatchFacts, PollsUnlessRaced
<1> QED
  BY <1>1, Invariance, PTL

\* The end of the watch goroutine, as the loop learns of it.
GoneFacts ==
  /\ code = "none" => mpc \notin {"cancelled", "exited"}
  /\ GoneIsAnnounced

LEMMA GoneStep ==
  ASSUME TypeOK, GoneFacts, [Next]_vars
  PROVE  GoneFacts'
<1> USE DEF TypeOK, GoneFacts, GoneIsAnnounced, Alive
<1>1. CASE Receive
  BY <1>1 DEF Receive, GoStep
<1>2. CASE Send
  <2>1. restart \in Seq(Event) /\ wevent \in Event
    OBVIOUS
  <2>2. restart' = Append(restart, wevent)
    BY <1>2 DEF Send
  <2>3. \A i \in 1 .. Len(restart) : i \in 1 .. Len(restart') /\ restart'[i] = restart[i]
    BY <2>1, <2>2, Appended
  <2> QED
    BY <1>2, <2>3 DEF Send, GoStep
<1>3. CASE Closed
  BY <1>3 DEF Closed, GoStep
<1>4. CASE Panic
  BY <1>4 DEF Panic
<1>5. CASE Relist
  BY <1>5 DEF Relist, GoStep
<1>6. CASE Rewatch
  BY <1>6 DEF Rewatch, GoStep, Resume, WriteErr
<1>7. CASE ResubscribeFails
  BY <1>7 DEF ResubscribeFails, GoStep, WriteErr
<1>8. CASE Resubscribed
  BY <1>8 DEF Resubscribed, CheckErr, GoStep, ReadErr
<1>9. CASE FindsError
  BY <1>9 DEF FindsError, CheckErr, GoStep, ReadErr
<1>10. CASE Retry
  BY <1>10 DEF Retry, Classify, GoStep, ReadErr, FakeWatch
<1>11. CASE GiveUp
  BY <1>11 DEF GiveUp, Classify, GoStep, ReadErr
<1>12. CASE Wake
  BY <1>12 DEF Wake, GoStep
<1>13. CASE SendFatal
  <2>1. restart \in Seq(Event) /\ NoChange("FATAL") \in Event
    BY NoChangeTyped
  <2>2. restart' = Append(restart, NoChange("FATAL"))
    BY <1>13 DEF SendFatal
  <2>3. Len(restart) + 1 \in 1 .. Len(restart') /\ restart'[Len(restart) + 1].type = "FATAL"
    BY <2>1, <2>2, Appended DEF NoChange
  <2> QED
    BY <1>13, <2>3 DEF SendFatal, GoStep
<1>14. CASE WatcherDone
  BY <1>14 DEF WatcherDone, GoStep
<1>15. CASE BootFails
  BY <1>15 DEF BootFails, MainStep, Returns
<1>16. CASE BootList
  BY <1>16 DEF BootList
<1>17. CASE BootWatch
  BY <1>17 DEF BootWatch
<1>18. CASE StartList
  BY <1>18 DEF StartList, MainStep
<1>19. CASE StartListFails
  BY <1>19 DEF StartListFails, MainStep, WriteErr
<1>20. CASE StartEngine
  BY <1>20 DEF StartEngine, Engine, MainStep, WriteErr
<1>21. CASE Started
  BY <1>21 DEF Started, MainReads, MainStep, ReadErr
<1>22. CASE StartFailed
  BY <1>22 DEF StartFailed, MainReads, MainStep, ReadErr, Returns
<1>23. CASE TakeQuit
  BY <1>23 DEF TakeQuit, MainStep, OnQuit, Returns
<1>24. CASE TakeIgnored
  <2>1. restart \in Seq(Event) /\ restart # <<>> /\ restart' = Tail(restart)
    BY <1>24 DEF TakeIgnored, Take
  <2>2. restart[1].type # "FATAL"
    BY <1>24, <2>1, Tailed DEF TakeIgnored, Ignored
  <2>3. \A i \in 1 .. Len(restart) :
          i # 1 => i - 1 \in 1 .. Len(restart') /\ restart'[i - 1] = restart[i]
    BY <2>1, Tailed
  <2> QED
    <3>1. UNCHANGED <<code, wpc>> /\ mpc' \notin {"cancelled", "exited"}
      BY <1>24 DEF TakeIgnored, Take, MainStep
    <3>2. ASSUME NEW i \in 1 .. Len(restart), restart[i].type = "FATAL"
          PROVE  \E k \in 1 .. Len(restart') : restart'[k].type = "FATAL"
      <4>1. i # 1
        BY <2>2, <3>2
      <4>2. i - 1 \in 1 .. Len(restart') /\ restart'[i - 1] = restart[i]
        BY <2>3, <4>1
      <4> QED
        BY <3>2, <4>2
    <3> QED
      BY <3>1, <3>2
<1>25. CASE TakeFatal
  BY <1>25 DEF TakeFatal, Take, MainStep, Returns
<1>26. CASE TakeChange
  <2>1. restart \in Seq(Event) /\ restart # <<>> /\ restart' = Tail(restart)
    BY <1>26 DEF TakeChange, Take
  <2>2. restart[1].type # "FATAL"
    BY <1>26, <2>1, Tailed DEF TakeChange, Ignored
  <2>3. \A i \in 1 .. Len(restart) :
          i # 1 => i - 1 \in 1 .. Len(restart') /\ restart'[i - 1] = restart[i]
    BY <2>1, Tailed
  <2> QED
    <3>1. UNCHANGED <<code, wpc>> /\ mpc' \notin {"cancelled", "exited"}
      BY <1>26 DEF TakeChange, Take, MainStep
    <3>2. ASSUME NEW i \in 1 .. Len(restart), restart[i].type = "FATAL"
          PROVE  \E k \in 1 .. Len(restart') : restart'[k].type = "FATAL"
      <4>1. i # 1
        BY <2>2, <3>2
      <4>2. i - 1 \in 1 .. Len(restart') /\ restart'[i - 1] = restart[i]
        BY <2>3, <4>1
      <4> QED
        BY <3>2, <4>2
    <3> QED
      BY <3>1, <3>2
<1>27. CASE StopEngine
  BY <1>27 DEF StopEngine, Engine, MainStep, WriteErr
<1>28. CASE StopSucceeded
  BY <1>28 DEF StopSucceeded, MainReads, MainStep, ReadErr
<1>29. CASE StopFailed
  BY <1>29 DEF StopFailed, MainReads, MainStep, ReadErr
<1>30. CASE StopClear
  BY <1>30 DEF StopClear, MainStep, Cleared, Assigned
<1>31. CASE StopReturn
  BY <1>31 DEF StopReturn, MainStep, Assigned
<1>32. CASE Stopped
  BY <1>32 DEF Stopped, MainReads, MainStep, ReadErr
<1>33. CASE StoppedFailed
  BY <1>33 DEF StoppedFailed, MainReads, MainStep, ReadErr, Returns
<1>34. CASE Cancel
  BY <1>34 DEF Cancel, MainStep
<1>35. CASE Exit
  BY <1>35 DEF Exit, MainStep
<1>36. CASE CloseWatch
  BY <1>36 DEF CloseWatch
<1>37. CASE ReceiveNoise
  BY <1>37 DEF ReceiveNoise, GoStep, NoChange
<1>38. CASE Signal
  BY <1>38 DEF Signal
<1>39. ASSUME NEW n \in Namespace, CreateNamespace(n) PROVE GoneFacts'
  BY <1>39 DEF CreateNamespace, Changed
<1>40. ASSUME NEW n \in Namespace, ModifyNamespace(n) PROVE GoneFacts'
  BY <1>40 DEF ModifyNamespace, Changed
<1>41. ASSUME NEW n \in Namespace, DeleteNamespace(n) PROVE GoneFacts'
  BY <1>41 DEF DeleteNamespace, Changed
<1>42. CASE UNCHANGED vars
  BY <1>42
<1> QED
  BY <1>1, <1>2, <1>3, <1>4, <1>5, <1>6, <1>7, <1>8, <1>9, <1>10, <1>11, <1>12,
     <1>13, <1>14, <1>15, <1>16, <1>17, <1>18, <1>19, <1>20, <1>21, <1>22,
     <1>23, <1>24, <1>25, <1>26, <1>27, <1>28, <1>29, <1>30, <1>31, <1>32,
     <1>33, <1>34, <1>35, <1>36, <1>37, <1>38, <1>39, <1>40, <1>41, <1>42
     DEF Next, Watcher, Main, Environment

\* While run has not decided to return, a watch goroutine that is over has left its
\* FATAL in the channel, whatever the goroutines read in err.
THEOREM GoneIsHeard == Spec => []GoneIsAnnounced
<1>1. Init => GoneFacts
  BY DEF Init, GoneFacts, GoneIsAnnounced
<1>2. TypeOK /\ GoneFacts /\ [Next]_vars => GoneFacts'
  BY GoneStep
<1>3. GoneFacts => GoneIsAnnounced
  BY DEF GoneFacts
<1> QED
  BY <1>1, <1>2, <1>3, TypeCorrect, PTL DEF Spec

\* A sequence of events in the order of their versions, and what a send and a
\* receive leave of it.
Ordered(s) ==
  \A i, j \in 1 .. Len(s) : i < j /\ s[i].rv # 0 /\ s[j].rv # 0 => s[i].rv < s[j].rv

LEMMA SentInOrder ==
  ASSUME NEW s \in Seq(Event), NEW e \in Event, Ordered(s),
         e.rv # 0 => \A i \in 1 .. Len(s) : s[i].rv < e.rv
  PROVE  Ordered(Append(s, e))
<1> DEFINE t == Append(s, e)
<1>1. /\ Len(t) = Len(s) + 1
      /\ \A i \in 1 .. Len(s) : t[i] = s[i]
      /\ t[Len(s) + 1] = e
  OBVIOUS
<1>2. Len(s) \in Nat
  OBVIOUS
<1> HIDE DEF t
<1>3. ASSUME NEW i \in 1 .. Len(t), NEW j \in 1 .. Len(t), i < j, t[i].rv # 0, t[j].rv # 0
      PROVE  t[i].rv < t[j].rv
  <2>1. i \in 1 .. Len(s) /\ t[i] = s[i]
    BY <1>1, <1>2, <1>3
  <2>2. CASE j \in 1 .. Len(s)
    BY <1>1, <1>3, <2>1, <2>2 DEF Ordered
  <2>3. CASE j = Len(s) + 1
    BY <1>1, <1>3, <2>1, <2>3
  <2> QED
    BY <1>1, <1>2, <2>2, <2>3
<1> QED
  BY <1>3 DEF Ordered, t

LEMMA TakenInOrder ==
  ASSUME NEW s \in Seq(Event), s # <<>>, Ordered(s)
  PROVE  Ordered(Tail(s))
<1> DEFINE t == Tail(s)
<1>1. \A i \in 1 .. Len(t) : i + 1 \in 1 .. Len(s) /\ t[i] = s[i + 1]
  BY Tailed
<1>2. Len(t) \in Nat
  OBVIOUS
<1> HIDE DEF t
<1> QED
  BY <1>1, <1>2 DEF Ordered, t

\* What has been received was received once and in order, and a new subscription
\* starts where the last one ended or later.
OrderFacts ==
  /\ wevent.rv <= seenRV
  /\ \A i \in 1 .. Len(restart) : restart[i].rv <= seenRV
  /\ wpc = "rewatch" => seenRV <= listRV
  /\ wpc # "send" => wevent.rv = 0
  /\ mpc \in {"bootList", "bootWatch"} => seenRV = 0 /\ wpc = "unborn"
  /\ Ordered(restart)
  /\ wevent.rv # 0 => \A i \in 1 .. Len(restart) : restart[i].rv < wevent.rv

LEMMA OrderStep ==
  ASSUME TypeOK, Bounds, OrderFacts, [Next]_vars
  PROVE  OrderFacts'
<1> USE DEF TypeOK, Bounds, OrderFacts, Alive
<1>0. wevent.rv \in Nat /\ \A i \in 1 .. Len(restart) : restart[i].rv \in Nat
  <2>1. \A i \in 1 .. Len(restart) : restart[i] \in Event
    OBVIOUS
  <2>2. \A e \in Event : e.rv \in Nat
    BY DEF Event
  <2> QED
    BY <2>1, <2>2
<1>1. CASE Receive
  <2>1. seenRV' = seenRV + 1 /\ wevent'.rv = seenRV + 1
    BY <1>1 DEF Receive
  <2>2. UNCHANGED <<restart, mpc>> /\ wpc' = "send"
    BY <1>1 DEF Receive, GoStep
  <2>3. mpc \notin {"bootList", "bootWatch"}
    <3>1. wpc = "select"
      BY <1>1 DEF Receive, GoStep
    <3> QED
      BY <3>1
  <2>4. \A i \in 1 .. Len(restart) : restart[i].rv < seenRV + 1
    BY <1>0
  <2> QED
    BY <1>0, <2>1, <2>2, <2>3, <2>4
<1>2. CASE Send
  <2>1. restart \in Seq(Event) /\ wevent \in Event
    OBVIOUS
  <2>2. restart' = Append(restart, wevent)
    BY <1>2 DEF Send
  <2>3. UNCHANGED <<seenRV, listRV, mpc>> /\ wpc = "send" /\ wpc' = "select"
    BY <1>2 DEF Send, GoStep
  <2>4. /\ wevent.rv <= seenRV
        /\ wevent.rv # 0 => \A i \in 1 .. Len(restart) : restart[i].rv < wevent.rv
    OBVIOUS
  <2>5. Ordered(restart')
    BY <2>1, <2>2, <2>4, SentInOrder
  <2>6. \A i \in 1 .. Len(restart') : restart'[i].rv <= seenRV
    BY <2>1, <2>2, <2>4, Appended
  <2>7. wevent'.rv = 0
    BY <1>2 DEF Send, NoChange
  <2> QED
    BY <2>3, <2>5, <2>6, <2>7
<1>3. CASE Closed
  BY <1>3 DEF Closed, GoStep
<1>4. CASE Panic
  BY <1>4 DEF Panic
<1>5. CASE Relist
  BY <1>5 DEF Relist, GoStep
<1>6. CASE Rewatch
  <2>1. seenRV <= listRV /\ seenRV' = listRV
    BY <1>6 DEF Rewatch, GoStep, Resume
  <2>2. UNCHANGED <<restart, wevent, mpc>> /\ wpc' = "check" /\ wpc = "rewatch"
    BY <1>6 DEF Rewatch, GoStep
  <2>3. wevent.rv <= listRV /\ \A i \in 1 .. Len(restart) : restart[i].rv <= listRV
    BY <1>0, <2>1
  <2>4. mpc \notin {"bootList", "bootWatch"}
    BY <2>2
  <2> QED
    BY <2>1, <2>2, <2>3, <2>4
<1>7. CASE ResubscribeFails
  BY <1>7 DEF ResubscribeFails, GoStep, WriteErr
<1>8. CASE Resubscribed
  BY <1>8 DEF Resubscribed, CheckErr, GoStep, ReadErr
<1>9. CASE FindsError
  BY <1>9 DEF FindsError, CheckErr, GoStep, ReadErr
<1>10. CASE Retry
  BY <1>10 DEF Retry, Classify, GoStep, ReadErr, FakeWatch
<1>11. CASE GiveUp
  BY <1>11 DEF GiveUp, Classify, GoStep, ReadErr
<1>12. CASE Wake
  BY <1>12 DEF Wake, GoStep
<1>13. CASE SendFatal
  <2>1. restart \in Seq(Event) /\ NoChange("FATAL") \in Event
    BY NoChangeTyped
  <2>2. restart' = Append(restart, NoChange("FATAL"))
    BY <1>13 DEF SendFatal
  <2>3. UNCHANGED <<seenRV, listRV, mpc, wevent>> /\ wpc = "fatal" /\ wpc' = "done"
    BY <1>13 DEF SendFatal, GoStep
  <2>4. NoChange("FATAL").rv = 0
    BY DEF NoChange
  <2>5. Ordered(restart')
    BY <2>1, <2>2, <2>4, SentInOrder
  <2>6. \A i \in 1 .. Len(restart') : restart'[i].rv <= seenRV
    BY <2>1, <2>2, <2>4, Appended
  <2>7. wevent.rv = 0
    BY <2>3
  <2> QED
    BY <2>3, <2>5, <2>6, <2>7
<1>14. CASE WatcherDone
  BY <1>14 DEF WatcherDone, GoStep
<1>15. CASE BootFails
  BY <1>15 DEF BootFails, MainStep, Returns
<1>16. CASE BootList
  BY <1>16 DEF BootList
<1>17. CASE BootWatch
  <2>1. mpc = "bootWatch" /\ seenRV' = listRV
    BY <1>17 DEF BootWatch
  <2>2. UNCHANGED <<restart, wevent>> /\ wpc' = "select" /\ mpc' = "startList"
    BY <1>17 DEF BootWatch
  <2>3. wevent.rv <= listRV /\ \A i \in 1 .. Len(restart) : restart[i].rv <= listRV
    BY <1>0, <2>1
  <2> QED
    BY <2>1, <2>2, <2>3
<1>18. CASE StartList
  BY <1>18 DEF StartList, MainStep
<1>19. CASE StartListFails
  BY <1>19 DEF StartListFails, MainStep, WriteErr
<1>20. CASE StartEngine
  BY <1>20 DEF StartEngine, Engine, MainStep, WriteErr
<1>21. CASE Started
  BY <1>21 DEF Started, MainReads, MainStep, ReadErr
<1>22. CASE StartFailed
  BY <1>22 DEF StartFailed, MainReads, MainStep, ReadErr, Returns
<1>23. CASE TakeQuit
  BY <1>23 DEF TakeQuit, MainStep, OnQuit, Returns
<1>24. CASE TakeIgnored
  <2>1. restart \in Seq(Event) /\ restart # <<>> /\ restart' = Tail(restart)
    BY <1>24 DEF TakeIgnored, Take
  <2>2. UNCHANGED <<seenRV, listRV, wpc, wevent>> /\ mpc' \notin {"bootList", "bootWatch"}
    BY <1>24 DEF TakeIgnored, Take, MainStep
  <2>3. Ordered(restart')
    BY <2>1, TakenInOrder
  <2>4. \A i \in 1 .. Len(restart') : i + 1 \in 1 .. Len(restart) /\ restart'[i] = restart[i + 1]
    BY <2>1, Tailed
  <2> QED
    BY <2>2, <2>3, <2>4
<1>25. CASE TakeFatal
  <2>1. restart \in Seq(Event) /\ restart # <<>> /\ restart' = Tail(restart)
    BY <1>25 DEF TakeFatal, Take
  <2>2. UNCHANGED <<seenRV, listRV, wpc, wevent>> /\ mpc' \notin {"bootList", "bootWatch"}
    BY <1>25 DEF TakeFatal, Take, MainStep
  <2>3. Ordered(restart')
    BY <2>1, TakenInOrder
  <2>4. \A i \in 1 .. Len(restart') : i + 1 \in 1 .. Len(restart) /\ restart'[i] = restart[i + 1]
    BY <2>1, Tailed
  <2> QED
    BY <2>2, <2>3, <2>4
<1>26. CASE TakeChange
  <2>1. restart \in Seq(Event) /\ restart # <<>> /\ restart' = Tail(restart)
    BY <1>26 DEF TakeChange, Take
  <2>2. UNCHANGED <<seenRV, listRV, wpc, wevent>> /\ mpc' \notin {"bootList", "bootWatch"}
    BY <1>26 DEF TakeChange, Take, MainStep
  <2>3. Ordered(restart')
    BY <2>1, TakenInOrder
  <2>4. \A i \in 1 .. Len(restart') : i + 1 \in 1 .. Len(restart) /\ restart'[i] = restart[i + 1]
    BY <2>1, Tailed
  <2> QED
    BY <2>2, <2>3, <2>4
<1>27. CASE StopEngine
  BY <1>27 DEF StopEngine, Engine, MainStep, WriteErr
<1>28. CASE StopSucceeded
  BY <1>28 DEF StopSucceeded, MainReads, MainStep, ReadErr
<1>29. CASE StopFailed
  BY <1>29 DEF StopFailed, MainReads, MainStep, ReadErr
<1>30. CASE StopClear
  BY <1>30 DEF StopClear, MainStep, Cleared, Assigned
<1>31. CASE StopReturn
  BY <1>31 DEF StopReturn, MainStep, Assigned
<1>32. CASE Stopped
  BY <1>32 DEF Stopped, MainReads, MainStep, ReadErr
<1>33. CASE StoppedFailed
  BY <1>33 DEF StoppedFailed, MainReads, MainStep, ReadErr, Returns
<1>34. CASE Cancel
  BY <1>34 DEF Cancel, MainStep
<1>35. CASE Exit
  BY <1>35 DEF Exit, MainStep
<1>36. CASE CloseWatch
  BY <1>36 DEF CloseWatch
<1>37. CASE ReceiveNoise
  BY <1>37 DEF ReceiveNoise, GoStep, NoChange
<1>38. CASE Signal
  BY <1>38 DEF Signal
<1>39. ASSUME NEW n \in Namespace, CreateNamespace(n) PROVE OrderFacts'
  BY <1>39 DEF CreateNamespace, Changed
<1>40. ASSUME NEW n \in Namespace, ModifyNamespace(n) PROVE OrderFacts'
  BY <1>40 DEF ModifyNamespace, Changed
<1>41. ASSUME NEW n \in Namespace, DeleteNamespace(n) PROVE OrderFacts'
  BY <1>41 DEF DeleteNamespace, Changed
<1>42. CASE UNCHANGED vars
  BY <1>42
<1> QED
  BY <1>1, <1>2, <1>3, <1>4, <1>5, <1>6, <1>7, <1>8, <1>9, <1>10, <1>11, <1>12,
     <1>13, <1>14, <1>15, <1>16, <1>17, <1>18, <1>19, <1>20, <1>21, <1>22,
     <1>23, <1>24, <1>25, <1>26, <1>27, <1>28, <1>29, <1>30, <1>31, <1>32,
     <1>33, <1>34, <1>35, <1>36, <1>37, <1>38, <1>39, <1>40, <1>41, <1>42
     DEF Next, Watcher, Main, Environment

\* Each change reaches the loop once, and changes reach it in their order, across
\* all the subscriptions that the watch goroutine makes.
THEOREM EventsInOrder == Spec => []EventsOnceInOrder
<1>1. Init => OrderFacts
  <2> SUFFICES ASSUME Init
               PROVE  OrderFacts
    OBVIOUS
  <2>1. seenRV = 0 /\ wevent.rv = 0 /\ restart = <<>> /\ wpc = "unborn"
    BY DEF Init
  <2> QED
    BY <2>1 DEF OrderFacts, Ordered
<1>2. IInv /\ OrderFacts /\ [Next]_vars => OrderFacts'
  BY OrderStep DEF IInv
<1>3. OrderFacts => EventsOnceInOrder
  BY DEF OrderFacts, Ordered, EventsOnceInOrder
<1> QED
  BY <1>1, <1>2, <1>3, Invariance, PTL DEF Spec

\* The goroutine has had one watch and follows it, and only run assigns err.
Undisturbed ==
  /\ wi # "closed" /\ missed = {}
  /\ wpc \in {"unborn", "select", "send", "done", "panicked"}
  /\ err.by = "main" /\ ~crossed

LEMMA UndisturbedStep ==
  ASSUME MaxCloses = 0, TypeOK, Undisturbed, [Next]_vars
  PROVE  Undisturbed'
<1> USE DEF Undisturbed
<1>1. CASE Watcher
  <2>1. CASE Receive
    BY <2>1 DEF Receive, GoStep
  <2>5. CASE Send
    BY <2>5 DEF Send, GoStep
  <2>2. CASE Panic \/ WatcherDone
    BY <2>2 DEF Panic, WatcherDone, GoStep
  <2>3. ~(Closed \/ Relist \/ Rewatch \/ Resubscribed \/ FindsError \/ Wake \/ SendFatal)
    BY DEF Closed, Relist, Rewatch, Resubscribed, FindsError, CheckErr, Wake, SendFatal, GoStep
  <2>4. ~(ResubscribeFails \/ Retry \/ GiveUp)
    BY DEF ResubscribeFails, Retry, GiveUp, Classify, GoStep
  <2> QED
    BY <1>1, <2>1, <2>2, <2>3, <2>4, <2>5 DEF Watcher
<1>2. CASE Main
  <2>1. CASE BootList \/ BootWatch
    BY <2>1 DEF BootList, BootWatch
  <2>2. CASE BootFails \/ StartList
    BY <2>2 DEF BootFails, StartList, MainStep
  <2>3. CASE StartListFails
    BY <2>3 DEF StartListFails, MainStep, WriteErr
  <2>4. CASE StartEngine \/ StopEngine
    BY <2>4 DEF StartEngine, StopEngine, Engine, MainStep, WriteErr
  <2>5. CASE Started \/ StartFailed \/ StopSucceeded \/ StopFailed \/ Stopped \/ StoppedFailed
    BY <2>5 DEF Started, StartFailed, StopSucceeded, StopFailed, Stopped, StoppedFailed,
                MainReads, MainStep, ReadErr
  <2>6. CASE TakeQuit \/ TakeIgnored \/ TakeFatal \/ TakeChange
    BY <2>6 DEF TakeQuit, TakeIgnored, TakeFatal, TakeChange, Take, MainStep
  <2>7. CASE StopClear \/ StopReturn
    <3>1. err'.by = "main"
      BY <2>7 DEF StopClear, StopReturn, Assigned
    <3>2. ~crossed'
      BY <2>7 DEF StopClear, StopReturn
    <3>3. UNCHANGED <<wi, missed, wpc>>
      BY <2>7 DEF StopClear, StopReturn, MainStep
    <3> QED
      BY <3>1, <3>2, <3>3
  <2>8. CASE Cancel \/ Exit
    BY <2>8 DEF Cancel, Exit, MainStep
  <2> QED
    BY <1>2, <2>1, <2>2, <2>3, <2>4, <2>5, <2>6, <2>7, <2>8 DEF Main
<1>3. CASE Environment
  <2>1. ASSUME NEW n \in Namespace,
               CreateNamespace(n) \/ ModifyNamespace(n) \/ DeleteNamespace(n)
        PROVE  Undisturbed'
    BY <2>1 DEF CreateNamespace, ModifyNamespace, DeleteNamespace, Changed
  <2>2. ~CloseWatch
    BY DEF CloseWatch, TypeOK
  <2>3. CASE ReceiveNoise
    BY <2>3 DEF ReceiveNoise, GoStep
  <2>4. CASE Signal
    BY <2>4 DEF Signal
  <2> QED
    BY <1>3, <2>1, <2>2, <2>3, <2>4 DEF Environment
<1>4. CASE UNCHANGED vars
  BY <1>4
<1> QED
  BY <1>1, <1>2, <1>3, <1>4 DEF Next

\* While the API server never ends the watch, the engine serves the namespaces of
\* the cluster whenever all has settled, also after failures of start and stop.
THEOREM UnclosedIsCurrent ==
  ASSUME MaxCloses = 0
  PROVE  Spec => []CurrentWhenSettled
<1>1. Init => Undisturbed
  <2> SUFFICES ASSUME Init
               PROVE  Undisturbed
    OBVIOUS
  <2>1. err.by = "main"
    BY DEF Init
  <2>2. ~crossed
    BY DEF Init
  <2>3. wi = "nil" /\ missed = {} /\ wpc = "unborn"
    BY DEF Init
  <2> QED
    BY <2>1, <2>2, <2>3 DEF Undisturbed
<1>2. TypeOK /\ Undisturbed /\ [Next]_vars => Undisturbed'
  BY UndisturbedStep
<1>3. Undisturbed /\ NeverSilentlyStale => CurrentWhenSettled
  BY DEF Undisturbed, NeverSilentlyStale, CurrentWhenSettled
<1> QED
  BY <1>1, <1>2, <1>3, TypeCorrect, SettledIsCurrent, PTL DEF Spec

===============================================================================

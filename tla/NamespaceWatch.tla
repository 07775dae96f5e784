---------------------------- MODULE NamespaceWatch ----------------------------
(***************************************************************************)
(* The namespace watch and the restart loop of cmd/root.go (run and        *)
(* watchNamespaces), from the first namespace list to the exit of the      *)
(* process.  Two goroutines run concurrently:                              *)
(*                                                                         *)
(*   - the watch goroutine receives the events of the Kubernetes watch,    *)
(*     forwards them over the channel restart, and subscribes again when   *)
(*     the watch is closed;                                                *)
(*   - the main goroutine starts the engine, and stops and starts it again *)
(*     for the events that change the set of namespaces.                   *)
(*                                                                         *)
(* They share the channel restart and, without synchronisation, run's      *)
(* variable err.  A call is one step, and so is every read and every write *)
(* of err, so that TLC explores all their interleavings.                   *)
(*                                                                         *)
(* External parts: the API server is the set live of namespaces with the   *)
(* log of the changes made to it (a resource version is a length of log);  *)
(* the discovery engine is the variables engine, loaded, loadedRV and      *)
(* batches.                                                                *)
(***************************************************************************)
EXTENDS Integers, Sequences

CONSTANTS
  Namespace,        \* the names a namespace can have
  Errors,           \* the kinds of failure that calls can meet
  RestartCapacity,  \* the capacity of the channel restart (1024 in the code)
  MaxChanges,       \* bound: changes made to the cluster's namespaces
  MaxCloses,        \* bound: times the API server closes an open watch
  MaxNoise          \* bound: watch events that report no change

\* "net" stands for an error that wraps *net.OpError, "other" for the rest.
ASSUME ConstantsAssumption ==
  /\ Errors \subseteq {"net", "other"}
  /\ RestartCapacity \in Nat \ {0}
  /\ MaxChanges \in Nat
  /\ MaxCloses \in Nat
  /\ MaxNoise \in Nat

VARIABLES
  live,      \* the namespaces of the cluster
  log,       \* the kinds of the changes made to them since the process began
  wi,        \* the watch interface: "nil", "open" or "closed"
  seenRV,    \* the resource version up to which the watch has been followed
  missed,    \* history: the versions that a new subscription jumped over
  closes,    \* how often the API server closed the watch
  noise,     \* how many events without a change it sent
  wpc,       \* control state of the watch goroutine
  wevent,    \* the event it is sending
  listRV,    \* the resource version of the list a watch will start from
  attempts,  \* failed subscriptions in a row
  mpc,       \* control state of the main goroutine
  deferred,  \* whether the deferred stop() of run is registered
  code,      \* what run returns: "none" until decided
  quit,      \* whether the channel quit holds a signal
  restart,   \* the channel restart
  err,       \* run's err: its value and, for the history, its last writer
  crossed,   \* history: a goroutine read an err that the other one wrote
  engine,    \* the discovery engine: "stopped" or "running"
  loaded,    \* the namespaces of the newest batch of sources added to it
  loadedRV,  \* the resource version at which these were listed
  batches    \* the number of batches added since the sources were cleared

clusterVars == <<live, log>>
watchVars   == <<wi, seenRV, missed>>
envVars     == <<closes, noise>>
goVars      == <<wpc, wevent, listRV, attempts>>
mainVars    == <<mpc, deferred, code>>
chanVars    == <<quit, restart>>
errVars     == <<err, crossed>>
engineVars  == <<engine, loaded, loadedRV, batches>>
vars == <<clusterVars, watchVars, envVars, goVars, mainVars, chanVars, errVars,
          engineVars>>

ChangeType == {"ADDED", "MODIFIED", "DELETED"}
NoiseType  == {"", "ERROR"}
Event == [type : ChangeType \cup NoiseType \cup {"FATAL"}, rv : Nat]

Alive == mpc # "exited"

Init ==
  /\ live \in SUBSET Namespace
  /\ log = <<>>
  /\ wi = "nil" /\ seenRV = 0 /\ missed = {}
  /\ closes = 0 /\ noise = 0
  /\ wpc = "unborn" /\ wevent = [type |-> "", rv |-> 0]
  /\ listRV = 0 /\ attempts = 0
  /\ mpc = "bootList" /\ deferred = FALSE /\ code = "none"
  /\ quit = FALSE /\ restart = <<>>
  /\ err = [val |-> "nil", by |-> "main"] /\ crossed = FALSE
  /\ engine = "stopped" /\ loaded = {} /\ loadedRV = 0 /\ batches = 0

-------------------------------------------------------------------------------
(* The shared variable err, and the frames of the steps. *)

WriteErr(who, v) == err' = [val |-> v, by |-> who] /\ UNCHANGED crossed
ReadErr(who) == crossed' = (crossed \/ err.by # who) /\ UNCHANGED err

\* A step of the watch goroutine leaves the main goroutine's state alone, and
\* once subscribed the main goroutine leaves the watch's alone.
GoStep(from, to) ==
  /\ Alive /\ wpc = from /\ wpc' = to
  /\ UNCHANGED <<clusterVars, closes, mainVars, quit, engineVars>>
MainStep(from, to) ==
  /\ Alive /\ mpc = from /\ mpc' = to
  /\ UNCHANGED <<clusterVars, watchVars, envVars, goVars>>

-------------------------------------------------------------------------------
(* The environment: the cluster, the connection and the operator. *)

\* Whether there is a process or not.
Changed(ns, type) ==
  /\ Len(log) < MaxChanges
  /\ live' = ns
  /\ log' = Append(log, type)
  /\ UNCHANGED <<watchVars, envVars, goVars, mainVars, chanVars, errVars, engineVars>>

CreateNamespace(n) == n \notin live /\ Changed(live \cup {n}, "ADDED")
ModifyNamespace(n) == n \in live /\ Changed(live, "MODIFIED")
DeleteNamespace(n) == n \in live /\ Changed(live \ {n}, "DELETED")

\* The API server ends a watch whenever it likes.
CloseWatch ==
  /\ Alive /\ wi = "open" /\ closes < MaxCloses
  /\ wi' = "closed" /\ closes' = closes + 1
  /\ UNCHANGED <<clusterVars, seenRV, missed, noise, goVars, mainVars, chanVars,
                 errVars, engineVars>>

\* SIGINT or SIGTERM.
Signal ==
  /\ Alive /\ ~quit
  /\ quit' = TRUE
  /\ UNCHANGED <<clusterVars, watchVars, envVars, goVars, mainVars, restart,
                 errVars, engineVars>>

-------------------------------------------------------------------------------
(* The watch goroutine. *)

\* Faulty variants, which the mutants of the project put in place of the code.
RetriesOnce(n) == n < 2
ResumeBefore(rv) == rv - 1
ResumeFromStart(rv) == 0
NoFakeWatch == wi

Retries(n) == n < 4
FakeWatch == "closed"
NoChange(type) == [type |-> type, rv |-> 0]

\* A subscription follows the changes made after the list it started from.
Resume(rv) == rv

Receive ==
  /\ GoStep("select", "send")
  /\ wi = "open" /\ seenRV < Len(log)
  /\ seenRV' = seenRV + 1
  /\ wevent' = [type |-> log[seenRV + 1], rv |-> seenRV + 1]
  /\ UNCHANGED <<wi, missed, noise, listRV, attempts, restart, errVars>>

\* An empty event, or one that reports an error of the watch itself.
ReceiveNoise ==
  /\ GoStep("select", "send")
  /\ wi = "open" /\ noise < MaxNoise
  /\ noise' = noise + 1
  /\ \E type \in NoiseType : wevent' = NoChange(type)
  /\ UNCHANGED <<watchVars, listRV, attempts, restart, errVars>>

\* For a mutant: a send that does not wait for room in the channel.
SendOrDrop ==
  /\ GoStep("send", "select")
  /\ restart' = IF Len(restart) < RestartCapacity
                THEN Append(restart, wevent) ELSE restart
  /\ wevent' = NoChange("")
  /\ UNCHANGED <<watchVars, noise, listRV, attempts, errVars>>

\* The send blocks while the channel is full.
Send ==
  /\ GoStep("send", "select")
  /\ Len(restart) < RestartCapacity
  /\ restart' = Append(restart, wevent)
  /\ wevent' = NoChange("")
  /\ UNCHANGED <<watchVars, noise, listRV, attempts, errVars>>

Closed ==
  /\ GoStep("select", "relist")
  /\ wi = "closed"
  /\ UNCHANGED <<watchVars, noise, wevent, listRV, attempts, restart, errVars>>

\* ResultChan of a nil interface panics, which ends the process.
Panic ==
  /\ Alive /\ wpc = "select" /\ wi = "nil"
  /\ wpc' = "panicked" /\ mpc' = "exited" /\ code' = "panic"
  /\ UNCHANGED <<clusterVars, watchVars, envVars, wevent, listRV, attempts,
                 deferred, chanVars, errVars, engineVars>>

Relist ==
  /\ GoStep("relist", "rewatch")
  /\ listRV' = Len(log)
  /\ UNCHANGED <<watchVars, noise, wevent, attempts, restart, errVars>>

\* The versions between the end of the old watch and the list reach nobody.
Rewatch ==
  /\ GoStep("rewatch", "check")
  /\ wi' = "open"
  /\ seenRV' = Resume(listRV)
  /\ missed' = missed \cup (seenRV + 1 .. listRV)
  /\ WriteErr("watcher", "nil")
  /\ UNCHANGED <<noise, wevent, listRV, attempts, restart>>

\* watchNamespaces returns (nil, e), which is assigned to wi and err.
ResubscribeFails ==
  /\ \E from \in {"relist", "rewatch"} : GoStep(from, "check")
  /\ \E e \in Errors : WriteErr("watcher", e)
  /\ wi' = "nil"
  /\ UNCHANGED <<seenRV, missed, noise, wevent, listRV, attempts, restart>>

CheckErr(to) ==
  /\ GoStep("check", to)
  /\ ReadErr("watcher")
  /\ UNCHANGED <<watchVars, noise, wevent, listRV, restart>>

Resubscribed == CheckErr("select") /\ err.val = "nil" /\ attempts' = 0
FindsError == CheckErr("classify") /\ err.val # "nil" /\ UNCHANGED attempts

Classify(to) ==
  /\ GoStep("classify", to)
  /\ ReadErr("watcher")
  /\ attempts' = IF err.val = "net" THEN attempts + 1 ELSE attempts
  /\ UNCHANGED <<seenRV, missed, noise, wevent, listRV, restart>>

\* The fake watch that replaces the missing one is closed already.
Retry ==
  /\ Classify("sleep")
  /\ err.val = "net" /\ Retries(attempts + 1)
  /\ wi' = FakeWatch

GiveUp ==
  /\ Classify("fatal")
  /\ err.val = "net" => ~Retries(attempts + 1)
  /\ UNCHANGED wi

Wake ==
  /\ GoStep("sleep", "select")
  /\ UNCHANGED <<watchVars, noise, wevent, listRV, attempts, restart, errVars>>

\* For a mutant: giving up without telling the main goroutine.
GoneSilently ==
  /\ GoStep("fatal", "done")
  /\ UNCHANGED <<watchVars, noise, wevent, listRV, attempts, restart, errVars>>

SendFatal ==
  /\ GoStep("fatal", "done")
  /\ Len(restart) < RestartCapacity
  /\ restart' = Append(restart, NoChange("FATAL"))
  /\ UNCHANGED <<watchVars, noise, wevent, listRV, attempts, errVars>>

\* run has cancelled watchCtx.
WatcherDone ==
  /\ GoStep("select", "done")
  /\ mpc = "cancelled"
  /\ UNCHANGED <<watchVars, noise, wevent, listRV, attempts, restart, errVars>>

Watcher ==
  \/ Receive \/ Send \/ Closed \/ Panic
  \/ Relist \/ Rewatch \/ ResubscribeFails
  \/ Resubscribed \/ FindsError \/ Retry \/ GiveUp \/ Wake
  \/ SendFatal \/ WatcherDone

-------------------------------------------------------------------------------
(* The main goroutine: the first subscription, start, stop and the loop. *)

\* Faulty variants for the mutants.
IgnoredWithNew == {"", "MODIFIED", "ADDED"}
KeepsSources == batches
NotLookedAt == TRUE
StaysInLoop == "select"

Ignored == {"", "MODIFIED"}
Cleared == 0
OnQuit == "stopEngine"

\* run returns c, after the deferred calls.
Returns(c) == code' = c /\ UNCHANGED deferred

BootFails ==
  /\ \E from \in {"bootList", "bootWatch"} : MainStep(from, "exited")
  /\ Errors # {}
  /\ Returns("1")
  /\ UNCHANGED <<chanVars, errVars, engineVars>>

BootList ==
  /\ Alive /\ mpc = "bootList" /\ mpc' = "bootWatch"
  /\ listRV' = Len(log)
  /\ UNCHANGED <<clusterVars, watchVars, envVars, wpc, wevent, attempts,
                 deferred, code, chanVars, errVars, engineVars>>

BootWatch ==
  /\ Alive /\ mpc = "bootWatch" /\ mpc' = "startList"
  /\ wi' = "open" /\ seenRV' = listRV
  /\ wpc' = "select"
  /\ UNCHANGED <<clusterVars, missed, envVars, wevent, listRV, attempts,
                 deferred, code, chanVars, errVars, engineVars>>

\* start(): the sources are built for the namespaces that this list returns.
StartList ==
  /\ MainStep("startList", "startEngine")
  /\ loaded' = live /\ loadedRV' = Len(log)
  /\ batches' = batches + 1
  /\ UNCHANGED <<deferred, code, chanVars, errVars, engine>>

StartListFails ==
  /\ MainStep("startList", "startCheck")
  /\ \E e \in Errors : WriteErr("main", e)
  /\ UNCHANGED <<deferred, code, chanVars, engineVars>>

\* A call to the engine, whose result is assigned to err.
Engine(from, to, state) ==
  /\ MainStep(from, to)
  /\ \/ engine' = state /\ WriteErr("main", "nil")
     \/ UNCHANGED engine /\ "other" \in Errors /\ WriteErr("main", "other")
  /\ UNCHANGED <<deferred, code, chanVars, loaded, loadedRV, batches>>

StartEngine == Engine("startEngine", "startCheck", "running")

MainReads(from, to) ==
  /\ MainStep(from, to)
  /\ ReadErr("main")
  /\ UNCHANGED <<chanVars, engineVars>>

\* The initial start registers the deferred stop(), and a failed one returns
\* without it, so that nothing but the end of the process stops the engine.
Started ==
  /\ MainReads("startCheck", "select")
  /\ err.val = "nil"
  /\ deferred' = TRUE /\ UNCHANGED code

StartFailed ==
  /\ MainReads("startCheck", IF deferred THEN "stopEngine" ELSE "cancelled")
  /\ err.val # "nil"
  /\ Returns("1")

\* For a mutant: a signal that is taken and not acted on.
TakeQuitAndGoOn ==
  /\ MainStep("select", "select")
  /\ quit /\ quit' = FALSE
  /\ UNCHANGED <<deferred, code, restart, errVars, engineVars>>

TakeQuit ==
  /\ MainStep("select", OnQuit)
  /\ quit /\ quit' = FALSE
  /\ Returns("0")
  /\ UNCHANGED <<restart, errVars, engineVars>>

\* The next event leaves the channel.
Take(to) ==
  /\ MainStep("select", to)
  /\ restart # <<>> /\ restart' = Tail(restart)
  /\ UNCHANGED <<quit, errVars, engineVars>>

TakeIgnored ==
  /\ Take("select")
  /\ Head(restart).type \in Ignored
  /\ UNCHANGED <<deferred, code>>

TakeFatal ==
  /\ Take("stopEngine")
  /\ Head(restart).type = "FATAL"
  /\ Returns("1")

TakeChange ==
  /\ Take("stopEngine")
  /\ Head(restart).type \notin Ignored \cup {"FATAL"}
  /\ UNCHANGED <<deferred, code>>

\* stop(), called by the loop or, once code is decided, by the deferred call.
\* It assigns run's err in both.
StopEngine == Engine("stopEngine", "stopCheck", "stopped")

StopSucceeds == err.val = "nil"

StopSucceeded ==
  /\ MainReads("stopCheck", "stopClear")
  /\ StopSucceeds
  /\ UNCHANGED <<deferred, code>>

StopFailed ==
  /\ MainReads("stopCheck", "stopReturn")
  /\ ~StopSucceeds
  /\ UNCHANGED <<deferred, code>>

\* The loop assigns what stop() returns to err; the deferred call to its own.
Assigned(v) == IF code = "none" THEN [val |-> v, by |-> "main"] ELSE err

StopClear ==
  /\ MainStep("stopClear", "stopped")
  /\ loaded' = {} /\ loadedRV' = 0 /\ batches' = Cleared
  /\ err' = Assigned("nil")
  /\ UNCHANGED <<deferred, code, chanVars, crossed, engine>>

\* return err reads err once more.
StopReturn ==
  /\ MainStep("stopReturn", "stopped")
  /\ crossed' = (crossed \/ err.by # "main")
  /\ err' = Assigned(err.val)
  /\ UNCHANGED <<deferred, code, chanVars, engineVars>>

Stopped ==
  /\ MainReads("stopped", "startList")
  /\ code = "none" /\ err.val = "nil"
  /\ UNCHANGED <<deferred, code>>

\* run returns 1, and its deferred stop() is a second attempt.
StoppedFailed ==
  /\ MainReads("stopped", "stopEngine")
  /\ code = "none" /\ err.val # "nil"
  /\ Returns("1")

\* The deferred stop() is over; watchCancel is the deferred call after it.
Cancel ==
  /\ MainStep("stopped", "cancelled")
  /\ code # "none"
  /\ UNCHANGED <<deferred, code, chanVars, errVars, engineVars>>

Exit ==
  /\ MainStep("cancelled", "exited")
  /\ UNCHANGED <<deferred, code, chanVars, errVars, engineVars>>

Main ==
  \/ BootFails \/ BootList \/ BootWatch
  \/ StartList \/ StartListFails \/ StartEngine \/ Started \/ StartFailed
  \/ TakeQuit \/ TakeIgnored \/ TakeFatal \/ TakeChange
  \/ StopEngine \/ StopSucceeded \/ StopFailed \/ StopClear \/ StopReturn
  \/ Stopped \/ StoppedFailed \/ Cancel \/ Exit

-------------------------------------------------------------------------------
Environment ==
  \/ \E n \in Namespace :
       CreateNamespace(n) \/ ModifyNamespace(n) \/ DeleteNamespace(n)
  \/ CloseWatch
  \/ ReceiveNoise
  \/ Signal

Next == Watcher \/ Main \/ Environment

Spec == Init /\ [][Next]_vars

\* Calls return, sleeps end, and Go schedules every goroutine that can run.
\* A select picks among its ready cases at random: a signal that is ready each
\* time is taken in the end.
Fairness ==
  /\ WF_vars(Watcher)
  /\ WF_vars(Main)
  /\ SF_vars(TakeQuit)

FairSpec == Spec /\ Fairness

-------------------------------------------------------------------------------
(* Properties.  crossed becomes TRUE when a goroutine reads an err that the  *)
(* other one wrote, which the code does not exclude: what such a read does   *)
(* is the matter of ServesWhenIdle, which is stated without ~crossed.        *)

TypeOK ==
  /\ live \in SUBSET Namespace
  /\ log \in Seq(ChangeType)
  /\ wi \in {"nil", "open", "closed"}
  /\ seenRV \in Nat /\ missed \in SUBSET Nat
  /\ closes \in Nat /\ noise \in Nat
  /\ wpc \in {"unborn", "select", "send", "relist", "rewatch", "check",
              "classify", "sleep", "fatal", "done", "panicked"}
  /\ wevent \in Event /\ listRV \in Nat /\ attempts \in Nat
  /\ mpc \in {"bootList", "bootWatch", "startList", "startEngine",
              "startCheck", "select", "stopEngine", "stopCheck", "stopClear",
              "stopReturn", "stopped", "cancelled", "exited"}
  /\ deferred \in BOOLEAN
  /\ code \in {"none", "0", "1", "panic", "signal"}
  /\ quit \in BOOLEAN /\ restart \in Seq(Event)
  /\ err \in [val : {"nil"} \cup Errors, by : {"main", "watcher"}]
  /\ crossed \in BOOLEAN
  /\ engine \in {"stopped", "running"}
  /\ loaded \in SUBSET Namespace /\ loadedRV \in Nat /\ batches \in Nat

\* No event is on its way and both goroutines wait for the next one.
Quiescent ==
  /\ mpc = "select" /\ wpc = "select"
  /\ wi = "open" /\ seenRV = Len(log)
  /\ restart = <<>>

\* When everything has settled the engine serves exactly the namespaces of the
\* cluster, unless a new subscription jumped over a change: the start that
\* loads the sources lists the namespaces after the watch began, the channel
\* loses no event, and only events that change no name are ignored.
NeverSilentlyStale ==
  ~crossed /\ Quiescent /\ (\A v \in missed : v <= loadedRV) => loaded = live

\* "Watches k8s namespaces from the current state, sending new events for each
\* change": when everything has settled, the engine serves the namespaces of
\* the cluster.  watchNamespaces breaks it, since it lists anew to learn where
\* to watch from and throws the list away.
CurrentWhenSettled == Quiescent => loaded = live

\* The loop waits for events only with a running engine that holds one batch of
\* sources: every failure of stop() or start() has ended run.
ServesUnlessRaced ==
  ~crossed /\ mpc = "select" => engine = "running" /\ batches = 1

\* The same of every execution, those where the goroutines race for err too: "If
\* a watch event is received then we need to restart the engine".
ServesWhenIdle == mpc = "select" => engine = "running"

\* start() lists and loads sources into an engine that was stopped and emptied.
StartsFromClean ==
  /\ ~crossed /\ mpc = "startList" => engine = "stopped" /\ batches = 0
  /\ ~crossed /\ mpc = "startEngine" => engine = "stopped" /\ batches = 1

\* "create a fake watcher that is closed so that we end up in this loop again":
\* the goroutine polls a watch that exists, since each failed subscription is
\* replaced by the fake watch or ends the goroutine.  When the goroutines race
\* for err a failure may pass unnoticed, and Panic follows.
PollsUnlessRaced == ~crossed /\ wpc = "select" => wi # "nil"

\* "If we've had less than 3 failures then retry": the goroutine gives up only
\* when the last subscription failed, with another error than a transient one or
\* after at least three transient ones without a success between them, however
\* many passes of the loop, and changes of the cluster, lie between these.
GivesUpForCause ==
  ~crossed /\ wpc = "fatal" =>
    wi = "nil" /\ (attempts >= 3 \/ err.by = "main" \/ err.val = "other")

\* The loop never waits on a channel that nobody will send to again: once the
\* watch goroutine is over, its FATAL is in the channel until run has decided to
\* return.  That holds of executions with a race for err, too.
GoneIsAnnounced ==
  code = "none" /\ wpc \in {"done", "panicked"} =>
    \E i \in 1 .. Len(restart) : restart[i].type = "FATAL"

\* The changes reach the loop in the order in which they were made and each of
\* them once, across closed watches, failed subscriptions and new ones: an event
\* that a new subscription repeated would cost another restart.
EventsOnceInOrder ==
  /\ \A i, j \in 1 .. Len(restart) :
       i < j /\ restart[i].rv # 0 /\ restart[j].rv # 0 => restart[i].rv < restart[j].rv
  /\ wevent.rv # 0 => \A i \in 1 .. Len(restart) : restart[i].rv < wevent.rv

\* A process without an open watch gets one again or ends: it never goes on
\* serving without hearing of changes.
WatchRecoversOrExits == wi # "open" ~> (wi = "open" \/ ~Alive)

\* A signal ends the process, whatever the goroutines are doing.
SignalExits == quit ~> ~Alive

\* Once the cluster stops changing, the process ends or serves its namespaces for
\* good, unless the goroutines raced for err or a new subscription jumped over a
\* change: through failed calls, closed watches and a full channel no event is
\* lost between the goroutines and none waits for ever.
EventuallyCurrent ==
  <>[](~crossed /\ (\A v \in missed : v <= loadedRV) => loaded = live \/ ~Alive)
===============================================================================

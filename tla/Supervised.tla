------------------------------ MODULE Supervised ------------------------------
(***************************************************************************)
(* The life of the process under the kubelet: run of cmd/root.go from its  *)
(* first line, with the status server that it starts, around the restart   *)
(* loop of NamespaceWatch.  The deployment of the Helm chart probes        *)
(* /healthz; a process that fails several probes in a row gets SIGTERM,    *)
(* and SIGKILL when its grace period is over, and a process that ended is  *)
(* started again with nothing but the cluster as it then is.               *)
(*                                                                         *)
(* A call of the process may take for ever here: Kubernetes, NATS and the  *)
(* Overmind API are asked without a deadline, except for the details of    *)
(* the instance.                                                           *)
(***************************************************************************)
EXTENDS NamespaceWatch

CONSTANT FailureThreshold  \* failed probes in a row that the kubelet accepts

ASSUME SupervisionAssumption == FailureThreshold \in Nat \ {0}

VARIABLES
  boot,      \* control state of run before its first list of the namespaces
  server,    \* the status server: "none", "starting", "listening" or "failed"
  failures,  \* probes that failed in a row
  grace      \* whether the kubelet has sent SIGTERM and will send SIGKILL

processVars == <<boot, server>>
kubeletVars == <<failures, grace>>
allVars     == <<vars, processVars, kubeletVars>>

SInit ==
  /\ Init
  /\ boot = "config" /\ server = "none"
  /\ failures = 0 /\ grace = FALSE

\* The process ends where it stands, and nothing of it is left but the cluster.
Dies(how) ==
  /\ Alive
  /\ mpc' = "exited" /\ code' = how
  /\ UNCHANGED <<clusterVars, watchVars, envVars, goVars, deferred, chanVars,
                 errVars, engineVars, processVars, kubeletVars>>

-------------------------------------------------------------------------------
(* run before the namespaces: the configuration, the details of the Overmind   *)
(* instance, the token client and the engine, the status server.               *)

BootStep(from, to) ==
  /\ Alive /\ boot = from /\ boot' = to
  /\ UNCHANGED <<vars, kubeletVars>>

ReadConfig   == BootStep("config", "instance") /\ UNCHANGED server
NewInstance  == BootStep("instance", "client") /\ UNCHANGED server
NewEngine    == BootStep("client", "serve") /\ UNCHANGED server
StartServer  == BootStep("serve", "notify") /\ server' = "starting"
NotifySignal == BootStep("notify", "booted") /\ UNCHANGED server

\* Each of these steps may fail, and ends the process when it does.
BootStepFails == boot \in {"config", "instance", "client"} /\ Dies("1")

\* The goroutine of the server; its failure is logged and nothing else.
Listen ==
  /\ Alive /\ server = "starting"
  /\ server' \in {"listening", "failed"}
  /\ UNCHANGED <<vars, boot, kubeletVars>>

Boot == ReadConfig \/ NewInstance \/ NewEngine \/ StartServer \/ NotifySignal \/ BootStepFails

-------------------------------------------------------------------------------
(* The kubelet. *)

\* External: the engine is connected to NATS only while it runs, and may lose
\* the connection at any time.
MayBeConnected == engine = "running"

\* Faulty variant for the mutants: a handler that does not look.
AlwaysOk == server = "listening"

\* The handler answers 200 if the engine is connected, 500 otherwise.
MayAnswerOk == server = "listening" /\ MayBeConnected

Probe(ok) ==
  /\ Alive /\ ~grace /\ failures < FailureThreshold
  /\ ok => MayAnswerOk
  /\ failures' = IF ok THEN 0 ELSE failures + 1
  /\ UNCHANGED <<vars, processVars, grace>>

ProbeOk     == Probe(TRUE)
ProbeFailed == Probe(FALSE)

\* Before signal.Notify a SIGTERM ends the process, after it quit holds it.
Terminate ==
  /\ failures = FailureThreshold /\ ~grace
  /\ grace' = TRUE
  /\ IF boot = "booted"
     THEN quit' = TRUE /\ UNCHANGED <<mpc, code>>
     ELSE mpc' = "exited" /\ code' = "signal" /\ UNCHANGED quit
  /\ Alive
  /\ UNCHANGED <<clusterVars, watchVars, envVars, goVars, deferred, restart,
                 errVars, engineVars, processVars, failures>>

Kill  == grace /\ Dies("signal")
Crash == Dies("signal")

\* A new process, which finds the cluster as it is.
Restart ==
  /\ ~Alive
  /\ wi' = "nil" /\ seenRV' = 0 /\ missed' = {}
  /\ wpc' = "unborn" /\ wevent' = NoChange("") /\ listRV' = 0 /\ attempts' = 0
  /\ mpc' = "bootList" /\ deferred' = FALSE /\ code' = "none"
  /\ quit' = FALSE /\ restart' = <<>>
  /\ err' = [val |-> "nil", by |-> "main"] /\ crossed' = FALSE
  /\ engine' = "stopped" /\ loaded' = {} /\ loadedRV' = 0 /\ batches' = 0
  /\ boot' = "config" /\ server' = "none"
  /\ failures' = 0 /\ grace' = FALSE
  /\ UNCHANGED <<clusterVars, envVars>>

Kubelet == ProbeOk \/ ProbeFailed \/ Terminate \/ Kill \/ Restart

\* The loop begins once run has come there; before that only the cluster moves.
Loop ==
  /\ IF boot = "booted" THEN Next
     ELSE \E n \in Namespace : CreateNamespace(n) \/ ModifyNamespace(n) \/ DeleteNamespace(n)
  /\ UNCHANGED <<processVars, kubeletVars>>

SNext == Boot \/ Listen \/ Loop \/ Kubelet \/ Crash

SSpec == SInit /\ [][SNext]_allVars

\* Nothing is assumed of the process: its calls may never return, and its
\* goroutines may never be heard of again.  The kubelet goes on probing.
FairSSpec == SSpec /\ WF_allVars(Kubelet)

-------------------------------------------------------------------------------
(* Properties. *)

\* A SIGTERM is not lost, whatever the process is doing when it comes: until the
\* process has ended it is waiting in quit or run has decided to return.  While
\* run boots or restarts the engine nobody reads quit, and it must still be there
\* afterwards.
TerminationIsHeard == grace /\ Alive => quit \/ code # "none"

\* A process that does not serve, be it stuck in a call of its boot or of a
\* restart, idle since it took a failure for a success, or deaf because its
\* status server could not start, serves in the end or ends: the status that it
\* reports is that of the engine, so that the kubelet replaces it.
InService == server = "listening" /\ engine = "running"
ServesOrIsReplaced == Alive /\ ~InService ~> InService \/ ~Alive

===============================================================================

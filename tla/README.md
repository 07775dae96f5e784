# A TLA+ model of the Overmind Kubernetes source

This directory models the Kubernetes source of Overmind: the process that
discovers the objects of a cluster, serves queries about them over NATS and
starts anew whenever the cluster's namespaces change. Paths below are those of
the repository, with `src/` in front.

    tlc -workers 2 -config NamespaceWatchSafety.cfg MCNamespaceWatch
    tlapm NamespaceWatchProofs.tla      # and the other modules of proofs, see 2

`PROJECT.json` lists the components, the runs, the source lines behind each
definition (`map`), the hazards, the findings and the theorems.

## 1. Inventory

| part | code | state | operations |
|---|---|---|---|
| watch and restart loop | `cmd/root.go:299-530` | the watch `wi`, the failure count `attempts`, the channels `restart` (1024 places) and `quit`, one shared variable `err`, the return code, the deferred calls | `watchNamespaces`, the watch goroutine, `start`, `stop`, the `select` of the loop |
| health check | `cmd/root.go:161`, `229-251` | a context with a deadline | `HealthCheck`, called for each heartbeat |
| generic source | `sources/generic_source.go` | the cache and the mutex for making it | `Get`, `List`, `Search`, `Scopes`, conversion to items |
| scopes | `sources/shared_util.go:11-57` | none | `ScopeDetails.String`, `ParseScope` |
| selectors | `sources/shared_util.go:60-125` | none | `Selector.String`, `ListOptionsToQuery`, `LabelSelectorToQuery`, `QueryToListOptions` |
| loaders and link extractors | `sources/*.go` | none | 30 constructors, 20 extractors, `ObjectReferenceToQuery` |
| health of resources | `sources/{deployment,pods,volumeattachment}.go` | none | one table each |
| redaction | `sources/secret.go` | none | a digest in place of a secret's data |
| start-up, status server, supervision | `cmd/root.go:60-310`, `deployments/.../deployment.yaml` | the state of the boot, of the server and of the signal channel | straight-line start-up, `/healthz`, `signal.Notify`; the kubelet's probes, SIGTERM, SIGKILL and restart |
| command line | `cmd/root.go:545-654` | flags, environment, a file | set-up |
| tracing | `cmd/tracing.go` | exporters | set-up, shutdown, sampler |
| discovery engine, sdpcache, client-go, NATS | libraries | - | external |

**How they interact.** `run` makes the clients, lists the namespaces, subscribes
to their changes and starts the watch goroutine. The goroutine turns the events
of the API server into messages on `restart`; the main goroutine receives them
and, for all but empty and `MODIFIED` ones, stops the engine, clears its
sources, lists the namespaces, builds the 30 sources for them and starts the
engine. The engine's workers call the sources concurrently; a source answers
from its cache or asks the API server. Its items carry links (queries for other
items), and another source has to recognise the scope of each of these. The
engine's heartbeat calls the health check. The kubelet probes the status server,
which reports the engine's connection, and replaces a process that fails.

**What is hard about it.**

* Two goroutines assign and read the same `err`, with several calls between
  assignment and use.
* Three sources of truth about namespaces: the list at the start of the engine,
  the list from which the watch starts, and the events; each with its own
  resource version.
* Failures: of the list, the watch, the start and the stop of the engine;
  retries counted over passes of a loop; a last message that must get through
  a full channel; deferred calls that run twice.
* A cache that is filled item by item while it is read, and that expires item
  by item.
* A deadline that was meant for start-up and is used for the life of the
  process.
* A process that may be stuck in a call without a deadline, deaf because its
  status server failed, or killed at any point; one SIGTERM that must not be lost
  while nobody reads its channel.
* Scopes are texts with dots, clusters are named after hosts, and references go
  from namespaced objects to cluster-wide ones and back; each of 20 extractors
  builds the scopes of its links by itself, and a wrong one is only a query that
  finds nothing.

**What makes each part correct.**

* *Watch and loop*: settled means current (`NeverSilentlyStale`,
  `CurrentWhenSettled`, `EventuallyCurrent`); the loop waits only with a running
  engine that has one batch of sources (`ServesUnlessRaced`, `ServesWhenIdle`),
  loads only into an empty, stopped engine (`StartsFromClean`), never polls a
  missing watch (`PollsUnlessRaced`), gives up only for a cause
  (`GivesUpForCause`), hears of each change once and in order
  (`EventsOnceInOrder`) and of the end of the goroutine that tells of them
  (`GoneIsAnnounced`), gets its watch back or ends (`WatchRecoversOrExits`) and
  obeys a signal (`SignalExits`). All of its steps are steps of a simple engine
  (`ImplementsLifecycle`).
* *Supervision*: a SIGTERM is heard (`TerminationIsHeard`), a process that does not serve
  comes to serve or is replaced (`ServesOrIsReplaced`), and every life of the
  process treats its engine as it should (`ImplementsLifecycles`).
* *Source*: what it asks for is current and complete
  (`UncachedAnswersAreCurrent`), what it remembers was true and of the right
  scope (`AnswersWereTrue`), it makes its cache once (`NothingForgotten`), a
  LIST is a whole list (`ListsAreComplete`). To those who query it, it looks like a
  source without cache, lock and calls that decides each query at one moment
  (`ImplementsService`).
* *Scopes, selectors, links*: what is written is read back (`RoundTrip`,
  `AcceptsExactly`), a selector finds all that it selects (`SearchesFindWhatIsMeant`), a link
  leads to no other object than the one that is meant (`LinksReachTheirObjects`), and
  those that the annotations promise find it (`DocumentedLinksReach`).
* *Health check*: it reports what was so (`HealthWasSeen`), and reports health
  when there is health (`HealthyReportsOk`).
* *Redaction*: the digest differs when the data does (`DigestTellsChange`).

## 2. Modules

| module | models | proofs |
|---|---|---|
| `NamespaceWatch` | `run` from its first list, and `watchNamespaces`: both goroutines | `NamespaceWatchProofs` |
| `EngineLifecycle` | abstract: what the loop promises of the engine | - |
| `QueryService` | abstract: what a source promises to those who query it | - |
| `EngineRefinement` (extends `NamespaceWatchProofs`) | the mapping of the first to the second | in itself |
| `Supervised` (extends `NamespaceWatch`) | the whole life of the process under the kubelet | `SupervisedProofs` (extends `EngineRefinement`) |
| `Scope` | scopes as sequences of sections | `ScopeProofs` |
| `KubeTypeSource` (extends `Scope`) | one source, its cache, its concurrent callers | `KubeTypeSourceProofs` |
| `Links` (extends `Scope`) | the sources and their links: operators | - |
| `LabelSelectors` | selectors made into queries and back: operators | `LabelSelectorsProofs` |
| `Discovery` (extends `Links`, `LabelSelectors`) | requests, and links followed from item to item | `DiscoveryProofs` |
| `HealthCheck` | the check and its context | `HealthCheckProofs` |
| `SecretRedaction` | the digest of a secret that is edited and read again | - |
| `MC*` | instances: symmetry, texts, the refinement as a property | |

Each module holds, near the operators they replace, a few *faulty variants*:
operators which no definition uses, each one a plausible bug. Put in place of
the right operator they make a property fail, which shows that the property can.

### NamespaceWatch

| code | model |
|---|---|
| the namespaces of the cluster, resource versions | `live`, `log`; a version is a length of `log` |
| `wi`, and how far the watch has been followed | `wi` in nil, open, closed; `seenRV` |
| the goroutine of line 329 | `wpc` and the actions `Receive` .. `WatcherDone` |
| `watchNamespaces` | `Relist` then `Rewatch`, or `ResubscribeFails` at either; at boot `BootList`, `BootWatch`, `BootFails` |
| `err` of line 304 and its last writer | `err`; `WriteErr`, `ReadErr` |
| `attempts`, line 332 | `attempts` |
| `restart`, `quit` | a bounded sequence, a flag |
| `start` | `StartList`, `StartEngine`, `Started`, and the failures |
| `stop` | `StopEngine`, `StopSucceeded` / `StopFailed`, `StopClear`, `StopReturn` |
| the loop | `TakeQuit`, `TakeIgnored`, `TakeFatal`, `TakeChange`, `Stopped`, `StoppedFailed` |
| `defer stop()`, `defer watchCancel()`, return | `deferred`, the same stop actions with `code` decided, `Cancel`, `Exit` |
| the engine and its sources | `engine`, `loaded` (their namespaces), `batches` |

Each call is a step of its own, and so is every read and write of `err`. That is
what makes the races visible: between a failed call's assignment and the `if`
that looks at it, the other goroutine can assign nil. Only some of the readings
are races, and the history variable `crossed` becomes true at the first of them:
a goroutine read what the other one wrote. Properties of the intended behaviour
are stated for executions with `~crossed`; `ServesWhenIdle` is stated for all.
The memory is sequentially consistent in the model. `err` is an interface of
two words, and Go lets a racing read see a torn one; the model leaves that out.

A watch that ends loses nothing by itself, but the next one starts at a list
that is made later and thrown away: `missed` collects the versions in between.

### EngineLifecycle and EngineRefinement

`EngineLifecycle` has no goroutines, channels or errors: an engine is *empty*, is
*filled* with the sources of the namespaces that the cluster has at that
moment, *running*, *halted*, and empty again. It never runs with no sources or with
those of two moments, and nothing is added to it while it runs. The process may
end at any point (*ended*). The mapping of `EngineRefinement` reads the abstract
status off the variables `engine`, `batches`, `mpc` and `crossed` of
`NamespaceWatch`. Once the goroutines have raced for `err` it is *undefined*,
which the abstract module allows as a step of its own (`Race`): that is the
precise sense in which the races of `err` are the only thing between the code
and its promise. A halt that fails leaves a running engine; the loop then ends the
process, which is why the status of an engine that could not be stopped is still *running*.

`RestartedSpec` adds `Again`: after an end, or when nothing is known of the engine,
a new process begins with an empty one. This is what `Supervised` implements.

### Supervised

`Supervised` adds what is around the loop. `boot` goes through `run` before the first
list: configuration, Overmind instance, token client and engine, status server,
`signal.Notify`. Before the last of these a SIGTERM kills, after it it waits in
`quit`. `server` is the goroutine of the status server, whose failure is only
logged. The kubelet probes, counts failures, terminates, kills, and starts a
new process, whose variables are all new but for the cluster. `Crash` ends a
process at any point. The steps of the loop are those of `NamespaceWatch`, unchanged.

### KubeTypeSource

A query is received, looks in the cache, asks the API server, stores what it
got one item at a time, and answers. Changes of the cluster, ticks of time and
steps of other workers may come between any two. `past` is the history of the
cluster's objects, so that properties can ask what was true during a query.
Names, and the sets of names that selectors stand for, are abstract; the scopes
are real texts, and one of the scopes asked for is not the source's.
The cache is external: an entry has a key (method, scope, query), a value and
the ticks it has left. `Search` does not call `ensureCache`, and so is modelled
with a cache that may not exist, in which nothing is stored and
nothing found. Only the process' first queries meet this.

### QueryService

The abstract source has no cache, no mutex and no calls. A query is *asked*, then
*answered* in one step, `Decide`: with all that the cluster holds at that step and
that is wanted (`Found`), with NOTFOUND if nothing is (`Absent`), with a failure
(`Failed`: NOSCOPE exactly if no scope is meant); or, only if the query
may be answered by the cache, with what was so at some earlier moment (`Recalled`):
each item was wanted once, or there was a moment without any. `Found` does
not allow a part of the items, and `Absent` not a NOTFOUND of what exists; `Recalled` allows
a part, which is finding 3. The mapping is at the end of `KubeTypeSource`: a query is
*asked* while it waits for its lookup or its API call, and decided by the lookup if that hits or
cannot go on, else by the API call; what follows (the stores, one item at
a time) is invisible, as is everything that happens to the cache by itself. The
objects of the cluster are mapped to the items that are made of them, with their
scopes as texts, so that the round trip of scopes is part of the refinement.

### Scope, LabelSelectors, Links, Discovery

`Scope` represents a text by its sections between dots: the code splits at dots
and joins with them, and nothing else about the text matters. `Links` has the
sources with their scopes, and every link that an extractor may make for some
value of the fields it reads: a reference whose kind or namespace the resource chooses
(owners, the target of an address or of an autoscaler, the backend of an ingress) may
be to any kind in any namespace, one kind without a source among them (`Kinds`, `References`).
The namespace of the object that is meant (`home`) is part of
the link, from what Kubernetes says of each reference. `LabelSelectors` has a
query for each order in which Go may traverse the map.

`Discovery` puts the three together. A request asks for an item with any
text for a scope; from the item that is found one goes on to another along any of its
links. A link by labels or fields is first written as a search query from a selector of the
resource, and read again by the source that gets it. `Targets` are the items that a query
finds: those of the type in the scope, if what is asked for fits the method (`Answerable`).

### HealthCheck, SecretRedaction

`HealthCheck` has time in ticks, the deadline of line 161 and the timer of the
heartbeat. `SecretRedaction` has the data of a secret as a function on texts, and
a digest for each order of its keys; SHA-512 is taken to be injective, so that
the digest is the text that is written into it.

## 3. Runs

| run | shows | bounds |
|---|---|---|
| `watch_safety` | all safety properties of the loop for uncrossed executions, the inductive invariant of the proofs, and the refinement `ImplementsLifecycle`; `EventsOnceInOrder` and `GoneIsAnnounced`, of crossed executions too | 2 namespaces, 2 places, 2 changes, 1 closed watch; 4.7 million states |
| `watch_progress` | `EventuallyCurrent`, `SignalExits` and `WatchRecoversOrExits`, with failures of every kind | 1 namespace, 1 place, 1 change, 1 closed watch, 1 empty event |
| `watch_missed` | finding 1 | no failing call, 1 closed watch |
| `watch_idle` | finding 2 | as `watch_safety` |
| `supervised` | `TerminationIsHeard`, `ServesOrIsReplaced` and the refinement `ImplementsLifecycles` for a process that is probed, terminated, killed and started again without limit | 1 namespace, 1 place, 1 change, 1 closed watch, 3 failed probes; 775 thousand states |
| `source_queries` | the properties of the source, and the refinement `ImplementsService` | 2 workers, 2 names, 2 namespaces, 2 calls, 1 change, lifetime of 1 tick; 2.2 million states |
| `source_lists` | finding 3 | the same |
| `health_check` | `HealthWasSeen` | ticks of 5 s: the deadline of 10 s, the frequency of 30 s |
| `health_expired` | finding 4 | the same |
| `discovery` | scopes, links and selectors: all properties of `Discovery` but `DocumentedLinksReach` | a cluster with a dot in its name, 2 namespaces, requests with all 340 texts of up to 4 sections of 4 kinds; 2 keys, 2 values, at most one expression; 16 thousand states |
| `discovery_links` | finding 6 | the same |
| `secret_digest` | finding 5 | keys and values of at most 1 of 2 characters, 2 entries |

**Why the bounds are enough.** Two changes are what it takes for one event to
be taken while another is on its way or behind a restart, and for one to be jumped
over while another is not. One closed watch leads to any number of subscriptions,
since each failed one is followed by a fake watch that is closed; so the four
failures in a row are reached, and in `watch_progress` the one place of the channel is taken when the
goroutine gives up. One or two places make the channel full with as many
events; the proofs are for every capacity. In a source,
two workers are what a race takes, two calls a hit and a miss, one change and
one tick an answer that is too old. `discovery` has no counter to bound: it follows
links through the finite graph of kinds and namespaces without end, and four sections are a
cluster with a dot, a namespace and one too many. In `supervised` the number
of processes has no bound either; three failed probes are the
default of Kubernetes, which the chart leaves as it is. The cluster goes on while there is
no process, so that the one namespace may appear or go between two lives.

**Deadlock** is not checked where a system may stop: the process exits, and in
other modules the bounds run out. The health check and the supervised process go
on for ever, and there it is checked.

**Fairness** (`FairSpec` of `NamespaceWatch`). Weak fairness of each goroutine:
calls return (they have no deadline in the code, so this is an assumption about client-go and the
engine), sleeps end, Go schedules what can run. Strong fairness of
`TakeQuit`: `select` picks at random among ready cases, so that it takes a
signal that is ready again and again. There is none for the cluster, the
operator or the network. So failures may go on for ever or not occur, and
`WatchRecoversOrExits` holds because four in a row end the process.

`FairSSpec` of `Supervised` assumes nothing of the process, whose calls may take
for ever and whose goroutines may never run again. Only the kubelet is weakly fair: it goes
on probing, terminates after three failures and kills after the grace period.
So `ServesOrIsReplaced` rests on the handler and the kubelet alone: on a status that says no more
than the engine's connection does. The loop plays no part in it.

## 4. Findings

1. **Changes between two watches are lost** (`watch_missed`, `cmd/root.go:514`).
   A new watch starts from a new list, which is thrown away. A namespace created
   between the end of the old watch and that list is not served until another
   event restarts the engine.
2. **The loop goes on with a stopped engine** (`watch_idle`, `cmd/root.go:480`).
   `stop()`, `start()` and the watch goroutine share `err`; when a subscription succeeds
   after one of them failed and before the check, the failure disappears. The run shows
   it for `start()`: the process waits for events without serving. The liveness of the NATS
   connection that `/healthz` reports may get the container restarted.
3. **A LIST from the cache may be a part of the list** (`source_lists`,
   `sources/generic_source.go:232`).
4. **The health check fails from the eleventh second on** (`health_expired`,
   `cmd/root.go:237`): it uses the context of start-up.
5. **The digest of a secret changes without the secret** (`secret_digest`,
   `sources/secret.go:45`): the loop ranges over a map, in another order each
   time, and writes keys and values without separators. A secret of two entries that
   nobody has touched looks changed when it is read again; and data that is moved
   between a key and its value looks the same.
6. **Promised links find nothing** (`discovery_links`, `sources/networkpolicy.go:53`). The
   peers of a network policy are asked for with GET and a selector for a name, where
   the pods that the policy is for are searched (line 18). The property says of every link that an
   annotation `+overmind:link` promises and an extractor makes that it finds something; TLC shows this
   case of two. The other one is a claim's link to its volume
   (`sources/persistentvolumeclaim.go:20`): it has the claim's scope, with a namespace, and
   sources of volumes offer only that of the cluster.

Seen while modelling, without a run:

* The same race of `err` the other way round: a nil from the main goroutine
  hides a failed subscription, and the goroutine calls `ResultChan` of a nil
  interface (`Panic`; `PollsUnlessRaced` excludes it for uncrossed executions).
* `cmd/root.go:353` says "If we have had less than 3 failures then retry", and line 354 retries the
  third one too. `GivesUpForCause` asks only what both say: that nobody gives up on transient
  errors before the third.
* Links that nothing can answer because no source has their type: `sources/service.go:82` asks for an
  `Endpoint`, the type being `Endpoints`, and `sources/ingress.go:15` for an `IngressClass`. The node
  that owns a static pod is asked for in the pod's scope (`sources/generic_source.go:387`).
  `sources/daemonset.go:20` promises a link to `Pod`, and there is no extractor.
* The comments on how a change spreads between a claim and its volume
  differ: it does from the claim (`sources/persistentvolumeclaim.go:31`), and it does not by the comment and flags
  of `sources/persistentvolume.go:69`.
* The expressions of a label selector are dropped, so that a search finds
  more than it selects; `SearchesFindWhatIsMeant` asks for equality without them and for all that
  is meant with them.
* An error is cached as long as an item, and a worker that is slow to store
  overwrites what a faster one stored later. `AnswersWereTrue` holds all
  the same: it asks that an answer was true once.
* `Search` reads the cache without the mutex under which it is made.
* The links of `Endpoints` to `dns` are GETs, those of the other extractors
  SEARCHes; a headless service links to an address `None`.
* The status server that cannot listen is logged and the process goes on
  (`Listen`); it fails every probe and is replaced, which is why the log is the only trace.
* A SIGTERM that comes during a restart waits in `quit` until the loop is back in its
  `select`; if a call of the restart does not return the grace period decides.
* `run` ends in `os.Exit`, so that the `PersistentPostRun` of `cmd/root.go:609`, which flushes
  the traces, never runs.
* The comment of `sources/node.go:70` and the `Out: true` under it say opposite things.
* `sources/deployment.go:108` says that it is never reached; a deployment which is
  neither available nor progressing (its deadline exceeded) gets there.

## 5. Proofs

`tlapm` proves the following for every value of the constants that meets the
assumptions of the modules (`ConstantsAssumption`: any namespaces, any bounds, any capacity of the
channel but zero; `SupervisionAssumption`: any number of failed probes;
`SourceAssumption`: any cluster name and namespaces without dots, any lifetime, any
number of workers, names, queries and changes; `HealthAssumption`: any deadline and
frequency; `LinksAssumption` and `DiscoveryAssumption`: any texts).

| module | theorem | property |
|---|---|---|
| `NamespaceWatchProofs` | `TypeCorrect` | `Spec => []TypeOK` |
| | `SettledIsCurrent` | `Spec => []NeverSilentlyStale` |
| | `UnclosedIsCurrent` | `Spec => []CurrentWhenSettled` if the watch is never closed (`MaxCloses = 0`) |
| | `LoopServes`, `StartsClean`, `PollsAWatch`, `GivesUpWithCause` | `ServesUnlessRaced`, `StartsFromClean`, `PollsUnlessRaced`, `GivesUpForCause` |
| | `GoneIsHeard`, `EventsInOrder` | `GoneIsAnnounced`, `EventsOnceInOrder` |
| | `Invariance` | `Spec => []IInv` |
| `EngineRefinement` | `Refinement` | `Spec => ImplementsLifecycle` |
| `SupervisedProofs` | `SupervisedIsCurrent` | `SSpec => []NeverSilentlyStale` |
| | `SupervisedServes` | `ServesUnlessRaced`, `StartsFromClean`, `PollsUnlessRaced` and `GivesUpForCause`, of `SSpec` |
| | `SupervisedIsTold` | `GoneIsAnnounced` and `EventsOnceInOrder`, of `SSpec` |
| | `SupervisedRefinement` | `SSpec => ImplementsLifecycles` |
| | `SignalIsHeard` | `SSpec => []TerminationIsHeard` |
| `KubeTypeSourceProofs` | `TypeCorrect` | `Spec => []TypeOK` |
| | `AnswersTrue` | `Spec => []AnswersWereTrue` |
| | `UncachedCurrent` | `Spec => []UncachedAnswersAreCurrent` |
| | `NothingIsForgotten` | `Spec => NothingForgotten` |
| | `ServiceRefinement` | `Spec => ImplementsService` |
| `HealthCheckProofs` | `TypeCorrect`, `ReportsWhatWasSeen` | `TypeOK`, `HealthWasSeen` |
| `LabelSelectorsProofs` | `LabelsFindAll`, `LabelsSelect`, `FieldsSelect` | a query finds all that its selector selects, and no more if it only lists labels |
| `DiscoveryProofs` | `TypeCorrect` | `Spec => []TypeOK` |
| | `SearchesFind` | `Spec => []SearchesFindWhatIsMeant` |
| | `ScopesAreReadBack`, `AcceptsAllItShould` | `RoundTrip`, `AcceptsExactly` |
| | `LinksReach` | `Spec => []LinksReachTheirObjects` |
| `ScopeProofs` | `NamespacedRoundTrip`, `ClusterRoundTrip` | `ParseScope` undoes `String` |

**The invariant of the loop.** `NeverSilentlyStale` says something only of settled
states; what is true on the way there is `Covered`: each change after
the list that the engine was loaded from is *ahead of the watch*, *in flight*
(in the goroutine's hand or in the channel), or *jumped over*; unless it is a
`MODIFIED`, which no one needs to hear of. When all is quiet the first two are
empty, and `Current` says that sources loaded before nothing but such changes
are the right ones. For this to be inductive one needs
`EventsFaithful`, that an event says of its version what the log says of it, so that
no namespace is ignored as `MODIFIED` which was created; and `Bounds`. A
`TakeChange` breaks `Covered` for the change it takes, and rightly: it leaves
`Loaded`, the states in which the engine's sources are not about to be
replaced. `EngineFacts` and `WatchFacts` carry what a goroutine knows from its own
last value of `err` to the point where it looks at it; they, and with them all of
the invariant but types, hold while `~crossed`, since a foreign value would
undo that knowledge. The lemmas go action by action: those of the environment, the
watch goroutine and the main goroutine, each under the named parts of `IInv`.

**What the loop is told.** `GoneIsAnnounced` and `EventsOnceInOrder` hold whether the goroutines
race or not, and so have invariants without `crossed`. `GoneFacts` adds that `run` has decided to
return before it cancels and exits; a message that is taken from the channel is a FATAL only if
the same step decides. `OrderFacts` adds what orders the events: no event is newer than what the goroutine
has received (`seenRV`), and a subscription in the making starts at a list that is at least as new. That the head of
the channel can go and one can be added at its end are lemmas about sequences that are `Ordered`.

**The refinement** rests on `EngineFacts`: a step that starts the engine is one
of `EngineLifecycle` only if the engine was filled and halted before, which is what the goroutine
knows from its own `err`. The first racing read maps to `Race`. The proof has
one step for each action, most of which stutter.

**The supervised process.** A step of `Loop` preserves `IInv` by the proofs of the
loop, a step of the boot or of the kubelet changes nothing that `IInv` is about; only
`Dies` and `Restart` have proofs of their own. A new process
meets `IInv` not because it is an initial state (the log of the cluster goes on)
but because nothing is loaded and it lists anew. The same goes for `GoneFacts`, `OrderFacts` and
the refinement: a death is an `End` of the abstract engine, or a stutter if the goroutines had raced
and nothing was known of it, and `Restart` is `Again`. What the kubelet does to the other
variables stutters. `SignalIsHeard` needs
that a signal is taken only together with the decision to return, and that
`quit` is not emptied by anybody else.

**The invariant of the source** (`SourceInv`) speaks of the past of the cluster:
each entry of the cache says something that was true at one revision of the
objects its *key* is about (`EntryTrue`); each query that is storing or has answered,
without the cache, what was *all* there was at one revision since it began
(`WasAll`). `past` only grows, so that all of this stays true (`StaysTrue`), and
a step has to be looked at only for the one query and the one entry that it changes
(`CallStep`, `StoreStep`). That an answer has its query's scope comes from the round trip of
`ScopeProofs`: an object that the API server gave for a scope gets that scope back.
`NothingIsForgotten` needs that there are no entries before there is a cache.

**The refinement of the source** (`ServiceRefinement`) uses the same invariant: that
what an entry says was true is what `Recalled` asks of an answer from the cache. The rest is the
translation. An item of the abstract cluster is wanted exactly if it is made of an object that the
call asked for (`WantedSeen`), in which direction one needs that different namespaces have different
scopes (`ScopesDiffer`): otherwise the item of another namespace would be wanted too. A step changes
one worker's query, and is a step of the abstract source if what is seen of that query is (`SeenStep`,
`DecideStep`) or does not change (`UnseenStep`); there is one lemma for each action (`LookupServed`, `AskServed`,
`StoreServed`, ...). A change of the cluster adds a revision to both histories.

**The health check** needs what the check has found out between its two
questions (`Seen`).

**Discovery**: a request keeps the text it was made with until
it is answered; the rest is arithmetic of sections. For links there is a lemma
for each extractor: each link of it *leads* where it should (`Leads`). It names the scope of the
object it is for and finds exactly that (`Found`), or it names the scope of its own item for an object that lives
elsewhere and finds nothing (`Lost`), which takes that the scopes of two namespaces and of the cluster
differ and are read back (`OfferedScopes`). References beside an item (`LocalsLead`) and
those with a namespace (`ReferencesLead`) have lemmas of their own, for all kinds at once.
For searches, `LooksFor` keeps what the options in hand were made from: a selector, or the name of an
object of the item's namespace. `LabelsFindAll`, `LabelsSelect` and `FieldsSelect` then say that each order of the
conditions lists what the selector selects. They need no induction over the conditions: an order is a bijection
of positions and conditions, so that to meet all of a sequence is to meet all of the map.

**Only model-checked**: the liveness properties (`EventuallyCurrent`, `SignalExits`,
`WatchRecoversOrExits`, `ServesOrIsReplaced`), since fairness and ENABLED are beyond the prover; and the
findings, which are violations. `CurrentWhenSettled`, which `watch_missed`
violates, is proved for a watch that is never closed. All other invariants, action properties and
refinements of the runs are proved. The library's theorems that take an operator as a parameter (induction, images of
finite sets) cannot be used with the provers at hand; so the sets of labels are said to be finite where they
are defined, and nothing is proved about a computation by recursion, of which the proved modules have none.

## 6. Not modelled

* Command line, environment and configuration file (`cmd/root.go:545-654`): values that
  are read once and never change; `Supervised` has only that reading them may fail.
* Tracing: exporters and a sampler, no state of the program.
* The lengths of sleeps (`cmd/root.go:363`): a sleep is any delay. The code's
  grows with each retry and is not reset by a success.
* The directions in which a change spreads along a link (`BlastPropagation`): constants of each link
  that only the external engine reads. Chains of changes lead through items of other programs
  (addresses, host names, volumes of the cloud), which are not here.
* Health of resources: three functions of one status field each, with a table of
  cases that the unit tests go through; no state, and nothing for interleavings or
  bounds to vary. Tags and attributes of items likewise.
* Torn reads of `err`, see `NamespaceWatch`.
* The discovery engine, sdpcache, client-go and NATS are libraries: they appear
  as what the code sees of them. Of the Helm chart there are the probes and the
  restarts, the generated documentation is data.

## 7. Where to go on

Restarts and queries together (workers that still hold an old source when
the engine clears it) would need the order in which the discovery library stops
its workers, which is not in the repository. Within the repository what is
left is wording: the attributes of items, and the tables of section 6.

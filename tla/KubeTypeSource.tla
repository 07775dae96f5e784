---------------------------- MODULE KubeTypeSource ----------------------------
(***************************************************************************)
(* One source (sources/generic_source.go): the source of one Kubernetes    *)
(* type, queried by the engine's workers concurrently.  A query looks in   *)
(* the cache, asks the API server, converts what it gets and stores it in  *)
(* the cache one item at a time: each of these is a step, and the cluster  *)
(* may change, or time pass, between any two of them.                      *)
(*                                                                         *)
(* A query selects names: GET one, LIST all, SEARCH those of a selector.   *)
(*                                                                         *)
(* External parts.  past is the sequence of the cluster's contents, so     *)
(* that a revision is a length of past.  The cache (sdpcache) is a set of  *)
(* entries: an entry answers queries with its key until its lifetime is    *)
(* over, storing replaces the entry for the same key and item, and an item *)
(* that another method stored may answer a GET of its name.  Storing into  *)
(* a cache that does not exist yet does nothing.                           *)
(***************************************************************************)
EXTENDS Integers, Sequences, FiniteSets, Scope

CONSTANTS
  Worker,      \* the workers of the engine
  Name,        \* the names an object can have
  Cluster,     \* the cluster's name: a text
  Namespaces,  \* the namespaces that the source was built for
  Duration,    \* the lifetime of a cache entry, in ticks
  MaxChanges,  \* bound: changes made to the cluster's objects
  MaxCalls     \* bound: queries

ASSUME SourceAssumption ==
  /\ Cluster \in Seq(STRING) /\ IsText(Cluster) /\ Cluster # EmptyText
  /\ Namespaces \in SUBSET STRING /\ Namespaces # {} /\ "" \notin Namespaces
  /\ Duration \in Nat \ {0}
  /\ MaxChanges \in Nat /\ MaxCalls \in Nat

VARIABLES
  namespaced,  \* whether the source's type is namespaced
  past,        \* the contents the cluster has had
  ready,       \* whether the cache exists
  entries,     \* the contents of the cache
  call,        \* what each worker is doing
  calls        \* the number of queries so far

vars == <<namespaced, past, ready, entries, call, calls>>

Methods == {"GET", "LIST", "SEARCH"}
Errors  == {"NOSCOPE", "NOTFOUND", "OTHER"}

\* Objects of the type, and the part of the cluster they are in.
Homes == IF namespaced THEN Namespaces ELSE {""}
Object(home, n, rev) == [home |-> home, name |-> n, rev |-> rev]
Now == Len(past)

\* Scopes
Scopes ==
  IF namespaced THEN {String(Scoped(Cluster, ns)) : ns \in Namespaces}
                ELSE {String(Scoped(Cluster, ""))}

\* What a worker may be asked about: a scope of the source, or the text "x".
Asked == Scopes \cup {<<"x">>}

\* resourceToItem; the details of the item do not matter here.
Item(o) == [scope |-> String(Scoped(Cluster, o.home)), name |-> o.name, rev |-> o.rev]

NoAnswer == [items |-> {}, error |-> "none", cached |-> FALSE]
Idle == [pc |-> "idle", answer |-> NoAnswer]

Init ==
  /\ namespaced \in BOOLEAN
  /\ past \in {<<{Object(h, n, 1) : n \in ns}>> : h \in Homes, ns \in SUBSET Name}
  /\ ready = FALSE /\ entries = {}
  /\ call = [w \in Worker |-> Idle] /\ calls = 0

-------------------------------------------------------------------------------
(* The cluster and time. *)

Becomes(objects) ==
  /\ Now <= MaxChanges
  /\ past' = Append(past, objects)
  /\ UNCHANGED <<namespaced, ready, entries, call, calls>>

\* Creates, changes or replaces an object.
PutObject(home, n) ==
  Becomes({o \in past[Now] : <<o.home, o.name>> # <<home, n>>}
            \cup {Object(home, n, Now + 1)})

DeleteObject(o) == Becomes(past[Now] \ {o})

Tick ==
  /\ entries # {}
  /\ entries' = {[e EXCEPT !.left = @ - 1] : e \in {f \in entries : f.left > 1}}
  /\ UNCHANGED <<namespaced, past, ready, call, calls>>

-------------------------------------------------------------------------------
(* The cache. *)

Key(r) == [method |-> r.method, scope |-> r.scope, names |-> r.names]

\* Faulty variants for the mutants.
KeyWithoutScope(r) == [method |-> r.method, scope |-> Cluster, names |-> r.names]
AlwaysNew == {}

\* The key that StoreItem, StoreError and Lookup are given.
CacheKey(r) == Key(r)

\* For a mutant: the lifetime of a source that sets none, without the default.
EntryOfNoTime(r, val) == [key |-> CacheKey(r), val |-> val, left |-> 0]

Entry(r, val) == [key |-> CacheKey(r), val |-> val, left |-> Duration]
IsError(e) == e.val \in {[error |-> x] : x \in Errors}

SameSlot(e, f) ==
  /\ e.key = f.key
  /\ \/ IsError(e) /\ IsError(f)
     \/ ~IsError(e) /\ ~IsError(f) /\ e.val.name = f.val.name

Stored(e) == IF ready THEN {f \in entries : ~SameSlot(e, f)} \cup {e} ELSE entries

\* The items that another method stored and a GET may find.
OtherItems(r) ==
  {e \in entries : /\ r.method = "GET" /\ ~IsError(e)
                   /\ e.key.method # "GET" /\ e.key.scope = CacheKey(r).scope
                   /\ e.val.name \in r.names}

OwnEntries(r) == {e \in entries : e.key = CacheKey(r)}

-------------------------------------------------------------------------------
(* Queries. *)

Set(w, c) == call' = [call EXCEPT ![w] = c]
At(w, pc) == call[w].pc = pc

\* A query is answered.  Get also provides for a hit without an error and without
\* items, which the cache does not report: it is left out.
Answered(r, items, error, cached) ==
  [r EXCEPT !.pc = "answered",
            !.answer = [items |-> items, error |-> error, cached |-> cached]]

\* ensureCache, which the mutex makes one step.
NewCache == IF ready THEN entries ELSE {}
EnsureCache == ready' = TRUE /\ entries' = NewCache

NamesOf(method) ==
  CASE method = "GET"    -> {{n} : n \in Name}
    [] method = "LIST"   -> {Name}
    [] method = "SEARCH" -> SUBSET Name

\* since is the revision at which the query began: history, for the properties.
Received(method, scope, names, ignoreCache) ==
  [pc |-> IF method = "SEARCH" THEN "ask" ELSE "lookup", method |-> method,
   scope |-> scope, names |-> names, ignoreCache |-> ignoreCache, since |-> Now,
   toStore |-> {}, answer |-> NoAnswer]

\* SEARCH neither reads ignoreCache nor makes sure of the cache.
Query(w, r) ==
  /\ At(w, "idle") /\ calls < MaxCalls
  /\ calls' = calls + 1
  /\ Set(w, r)
  /\ IF r.method = "SEARCH" THEN UNCHANGED <<ready, entries>> ELSE EnsureCache
  /\ UNCHANGED <<namespaced, past>>

\* A SEARCH whose query is no JSON is refused without leaving a trace.
SearchMalformed(w, scope) ==
  Query(w, Answered(Received("SEARCH", scope, {}, FALSE), {}, "MALFORMED", FALSE))

Lookup(w) ==
  LET r == call[w]
  IN  /\ At(w, "lookup")
      /\ \/ /\ r.ignoreCache \/ OwnEntries(r) = {}
            /\ Set(w, [r EXCEPT !.pc = "ask"])
         \/ /\ ~r.ignoreCache
            /\ \E e \in OwnEntries(r) :
                 /\ IsError(e)
                 /\ Set(w, Answered(r, {}, e.val.error, TRUE))
         \/ /\ ~r.ignoreCache /\ r.method = "GET"
            /\ \E e \in OwnEntries(r) \cup OtherItems(r) :
                 /\ ~IsError(e)
                 /\ Set(w, Answered(r, {e.val}, "none", TRUE))
         \/ /\ ~r.ignoreCache /\ r.method = "LIST"
            /\ \E e \in OwnEntries(r) : ~IsError(e)
            /\ Set(w, Answered(r, {e.val : e \in {f \in OwnEntries(r) : ~IsError(f)}},
                               "none", TRUE))
      /\ UNCHANGED <<namespaced, past, ready, entries, calls>>

\* itemInterface; the cluster interface takes any scope.
Interface(scope) ==
  IF ~namespaced THEN {""}
  ELSE IF Parses(scope, TRUE) THEN {ParseScope(scope, TRUE).Namespace} ELSE {}

Selected(objects, r) ==
  {o \in objects : o.home \in Interface(r.scope) /\ o.name \in r.names}

\* For a mutant: a conversion that fails skips its object.
ConvertedOrSkipped(os) ==
  {Item(o) : o \in {p \in os : \A q \in os : p.rev <= q.rev}}

\* resourcesToItems
Converted(os) == {Item(o) : o \in os}

Fails(w, error) ==
  LET r == call[w]
  IN  /\ entries' = Stored(Entry(r, [error |-> error]))
      /\ Set(w, Answered(r, {}, error, FALSE))

\* Asks the API server, and stores the error if there is one: that of the scope,
\* of the call, of the extraction of the list or of the conversion of an item.
Ask(w) ==
  LET r  == call[w]
      os == Selected(past[Now], r)
  IN  /\ At(w, "ask")
      /\ \/ Interface(r.scope) = {} /\ Fails(w, "NOSCOPE")
         \/ Interface(r.scope) # {} /\ Fails(w, "OTHER")
         \/ /\ Interface(r.scope) # {} /\ r.method = "GET" /\ os = {}
            /\ Fails(w, "NOTFOUND")
         \/ /\ Interface(r.scope) # {} /\ (r.method = "GET" => os # {})
            /\ Set(w, [r EXCEPT !.pc = "store", !.toStore = Converted(os),
                                !.answer.items = Converted(os)])
            /\ UNCHANGED entries
      /\ UNCHANGED <<namespaced, past, ready, calls>>

\* StoreItem for the next item.
Store(w) ==
  LET r == call[w]
  IN  /\ At(w, "store")
      /\ \E i \in r.toStore :
           /\ entries' = Stored(Entry(r, i))
           /\ Set(w, [r EXCEPT !.toStore = @ \ {i}])
      /\ UNCHANGED <<namespaced, past, ready, calls>>

StoredAll(w) ==
  /\ At(w, "store") /\ call[w].toStore = {}
  /\ Set(w, [call[w] EXCEPT !.pc = "answered"])
  /\ UNCHANGED <<namespaced, past, ready, entries, calls>>

Return(w) ==
  /\ At(w, "answered")
  /\ Set(w, Idle)
  /\ UNCHANGED <<namespaced, past, ready, entries, calls>>

Work(w) == Lookup(w) \/ Ask(w) \/ Store(w) \/ StoredAll(w) \/ Return(w)

Next ==
  \/ \E home \in Homes, n \in Name : PutObject(home, n)
  \/ \E o \in past[Now] : DeleteObject(o)
  \/ Tick
  \/ \E w \in Worker :
       \/ \E method \in Methods, scope \in Asked, ignoreCache \in BOOLEAN :
            \E names \in NamesOf(method) :
              /\ method = "SEARCH" => ~ignoreCache
              /\ Query(w, Received(method, scope, names, ignoreCache))
       \/ \E scope \in Asked : SearchMalformed(w, scope)
       \/ Work(w)

Spec == Init /\ [][Next]_vars

-------------------------------------------------------------------------------
(* Properties. *)

TypeOK ==
  /\ past # <<>>
  /\ \A i \in DOMAIN past : \A o \in past[i] : o.home \in Homes /\ o.rev <= i
  /\ \A e \in entries : e.left \in 1 .. Duration
  /\ entries # {} => ready
  /\ calls <= MaxCalls

Answers == {call[w] : w \in {v \in Worker : At(v, "answered")}}
TrueAt(r, rev) == r.answer.items = {Item(o) : o \in Selected(past[rev], r)}

\* An answer that no cache may have given (a SEARCH, a query that ignores the
\* cache, a miss) is what the cluster held at one moment of the query: nothing
\* older, nothing missing, nothing of another namespace.  So is the absence of
\* an object.
UncachedAnswersAreCurrent ==
  \A r \in Answers :
    (r.method = "SEARCH" \/ r.ignoreCache \/ ~r.answer.cached)
      /\ r.answer.error \in {"none", "NOTFOUND"} =>
        \E rev \in r.since .. Now :
          TrueAt(r, rev) /\ (r.answer.error = "NOTFOUND" <=>
                               r.method = "GET" /\ r.answer.items = {})

\* What any answer says of a scope of the source was true once: each of its items
\* was there, in that scope and among the names asked for, and an object that it
\* reports as not found was not there.  The entries for different scopes and
\* methods do not mix.
AnswersWereTrue ==
  \A r \in Answers :
    r.scope \in Scopes =>
      /\ \A i \in r.answer.items :
           /\ i.scope = r.scope /\ i.name \in r.names
           /\ \E rev \in 1 .. Now : i \in {Item(o) : o \in Selected(past[rev], r)}
      /\ r.answer.error = "NOTFOUND" =>
           \E rev \in 1 .. Now : Selected(past[rev], r) = {}

\* Workers that start at the same time make the cache once: no step of a query
\* removes what another query has stored, which stays until its lifetime is over
\* or a newer value of the same takes its place.
NothingForgotten ==
  [][call' # call =>
       \A e \in entries : \E f \in entries' : SameSlot(e, f)]_vars

\* How those who query see a source: the contents of the cluster as items, and a
\* query as one that is asked until its items are known, and answered then.
ItemScopes == {String(Scoped(Cluster, ns)) : ns \in Namespaces \cup {""}}
Told == [rev \in 1 .. Now |-> {Item(o) : o \in past[rev]}]
StageSeen(c) ==
  IF c.pc = "idle" THEN "idle"
  ELSE IF c.pc \in {"lookup", "ask"} THEN "asked" ELSE "answered"
QuerySeen(c) ==
  IF c.pc = "idle"
  THEN [scopes |-> {}, names |-> {}, number |-> "many", sees |-> "now"]
  ELSE [scopes |-> {String(Scoped(Cluster, home)) : home \in Interface(c.scope)},
        names  |-> c.names,
        number |-> IF c.method = "GET" THEN "one" ELSE "many",
        sees   |-> IF c.method = "SEARCH" \/ c.ignoreCache THEN "now" ELSE "past"]
AnswerSeen(c) == [items |-> c.answer.items, error |-> c.answer.error]

Stages  == [w \in Worker |-> StageSeen(call[w])]
Queries == [w \in Worker |-> QuerySeen(call[w])]
Replies == [w \in Worker |-> AnswerSeen(call[w])]

Service ==
  INSTANCE QueryService
    WITH Scope <- ItemScopes, past <- Told,
         stage <- Stages, query <- Queries, answer <- Replies

\* However the lookups, calls and stores of several queries interleave, with each
\* other, with changes of the cluster and with the end of the entries' lifetimes,
\* each query is decided at one moment: by what the cluster holds then, or by what
\* it held once if the query may be answered by the cache.
ImplementsService == Service!Spec

\* "List all pods" (the documentation generated from pods.go and the like): a
\* LIST that succeeds returns all that the cluster held at some moment.  An
\* answer from the cache breaks it: the items of a list are stored, and expire,
\* one by one.
ListsAreComplete ==
  \A r \in Answers :
    r.method = "LIST" /\ r.answer.error = "none" =>
      \E rev \in 1 .. Now : TrueAt(r, rev)

===============================================================================

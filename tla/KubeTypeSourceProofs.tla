------------------------- MODULE KubeTypeSourceProofs -------------------------
(***************************************************************************)
(* Proofs about KubeTypeSource, for any number of workers, names, names-   *)
(* paces, queries and changes, and every lifetime of the cache's entries.  *)
(*                                                                         *)
(* The inductive invariant SourceInv says of each entry of the cache, and  *)
(* of each query at each of its steps, what was true of the cluster when.  *)
(***************************************************************************)
EXTENDS KubeTypeSource, ScopeProofs

USE DEF vars

-------------------------------------------------------------------------------
(* Types. *)

AnyHome  == Namespaces \cup {""}
AnyScope == {String(Scoped(Cluster, ns)) : ns \in AnyHome} \cup {<<"x">>}

ObjectType == [home : AnyHome, name : Name, rev : Nat]
ItemType   == [scope : AnyScope, name : Name, rev : Nat]
ErrorType  == {[error |-> x] : x \in Errors}
KeyType    == [method : Methods, scope : AnyScope, names : SUBSET Name]
EntryType  == [key : KeyType, val : ItemType \cup ErrorType, left : 1 .. Duration]
AnswerType == [items : SUBSET ItemType, error : Errors \cup {"none", "MALFORMED"},
               cached : BOOLEAN]
CallType   ==
  [pc : {"lookup", "ask", "store", "answered"}, method : Methods, scope : AnyScope,
   names : SUBSET Name, ignoreCache : BOOLEAN, since : Nat,
   toStore : SUBSET ItemType, answer : AnswerType]

Typed ==
  /\ namespaced \in BOOLEAN
  /\ past \in Seq(SUBSET ObjectType) /\ past # <<>>
  /\ entries \subseteq EntryType
  /\ call \in [Worker -> CallType \cup {Idle}]
  /\ calls \in 0 .. MaxCalls

\* Objects are where their type can be, and no newer than the contents.
Placed == \A i \in 1 .. Now : \A o \in past[i] : o.home \in Homes /\ o.rev <= i

-------------------------------------------------------------------------------
(* What was true of the cluster. *)

\* The object is among those that a query, or the key of an entry, is about.
About(o, k) == o.home \in Interface(k.scope) /\ o.name \in k.names

WasThere(i, k) == \E rev \in 1 .. Now : \E o \in past[rev] : About(o, k) /\ i = Item(o)
WasAbsent(k)   == \E rev \in 1 .. Now : \A o \in past[rev] : ~About(o, k)

\* The answer is all that there was at some moment of the query.
WasAll(r) ==
  \E rev \in r.since .. Now :
    /\ \A i \in r.answer.items : \E o \in past[rev] : About(o, r) /\ i = Item(o)
    /\ \A o \in past[rev] : About(o, r) => Item(o) \in r.answer.items

\* An entry says what was true once.
EntryTrue(e) ==
  /\ e.val \in ItemType => WasThere(e.val, e.key)
  /\ e.val = [error |-> "NOTFOUND"] => WasAbsent(e.key)

\* So does an answer; one that did not come from the cache, of its own time.
AnswerTrue(r) ==
  /\ \A i \in r.answer.items : WasThere(i, r)
  /\ r.answer.error = "NOTFOUND" => WasAbsent(r)
AnswerFresh(r) ==
  (r.method = "SEARCH" \/ r.ignoreCache \/ ~r.answer.cached)
    /\ r.answer.error \in {"none", "NOTFOUND"} =>
      /\ WasAll(r)
      /\ r.answer.error = "NOTFOUND" <=> r.method = "GET" /\ r.answer.items = {}

\* A query at each of its steps.
CallTrue(r) ==
  /\ r.since \in 1 .. Now
  /\ r.pc \in {"lookup", "ask"} => r.answer = NoAnswer
  /\ r.pc = "lookup" => r.method # "SEARCH"
  /\ r.pc = "store" =>
       /\ r.toStore \subseteq r.answer.items
       /\ r.answer.error = "none"
       /\ r.method = "GET" => r.answer.items # {}
       /\ WasAll(r)
  /\ r.pc = "answered" => AnswerTrue(r) /\ AnswerFresh(r)

EntriesTrue == \A e \in entries : EntryTrue(e)
CallsTrue   == \A w \in Worker, r \in CallType : call[w] = r => CallTrue(r)

\* The inductive invariant.
SourceInv ==
  /\ Typed /\ Placed
  /\ entries # {} => ready
  /\ EntriesTrue
  /\ CallsTrue

-------------------------------------------------------------------------------
(* Lemmas about the operators. *)

\* What an object becomes is typed, and no item is an error.
LEMMA ItemTyped ==
  /\ \A o \in ObjectType : Item(o) \in ItemType
  /\ ItemType \cap ErrorType = {}
<1>1. \A o \in ObjectType : Item(o) \in ItemType
  BY DEF ObjectType, ItemType, Item, AnyScope
<1>2. ASSUME NEW i \in ItemType, NEW x \in Errors
      PROVE  i # [error |-> x]
  <2>1. "name" \in DOMAIN i
    BY DEF ItemType
  <2>2. "name" \notin DOMAIN [error |-> x]
    OBVIOUS
  <2> QED
    BY <2>1, <2>2
<1> QED
  BY <1>1, <1>2 DEF ErrorType

\* The scopes that are asked for.
LEMMA AskedTyped == Asked \subseteq AnyScope
  BY DEF Asked, Scopes, AnyScope, AnyHome

\* Selected is said with About.
LEMMA SelectedAbout ==
  \A objects, k : Selected(objects, k) = {o \in objects : About(o, k)}
  BY DEF Selected, About

\* The entry that is stored.
LEMMA EntryTyped ==
  ASSUME NEW r \in CallType, NEW v \in ItemType \cup ErrorType
  PROVE  /\ Entry(r, v) \in EntryType
         /\ Entry(r, v).val = v
         /\ Entry(r, v).key.scope = r.scope /\ Entry(r, v).key.names = r.names
<1>1. Key(r) \in KeyType /\ Key(r).scope = r.scope /\ Key(r).names = r.names
  BY DEF Key, KeyType, CallType
<1>2. Duration \in 1 .. Duration
  <2>1. Duration \in Nat \ {0}
    BY SourceAssumption
  <2> QED
    BY <2>1
<1> QED
  BY <1>1, <1>2 DEF Entry, CacheKey, EntryType

\* An item of a scope of the source has that scope.
LEMMA OfTheScope ==
  ASSUME namespaced \in BOOLEAN, NEW scope \in Scopes,
         NEW home \in Homes, home \in Interface(scope)
  PROVE  String(Scoped(Cluster, home)) = scope
<1>1. CASE namespaced
  <2>1. PICK ns \in Namespaces : scope = String(Scoped(Cluster, ns))
    BY <1>1 DEF Scopes
  <2>2. ParseScope(scope, TRUE) = Scoped(Cluster, ns)
    BY <2>1, SourceAssumption, NamespacedRoundTrip DEF IsText
  <2>3. Scoped(Cluster, ns).Namespace = ns
    BY DEF Scoped
  <2>4. home = ns
    BY <1>1, <2>2, <2>3 DEF Interface
  <2> QED
    BY <2>1, <2>4
<1>2. CASE ~namespaced
  BY <1>2 DEF Scopes, Homes
<1> QED
  BY <1>1, <1>2

-------------------------------------------------------------------------------
(* Lemmas about steps. *)

\* The past of the cluster may grow, and the type stays what it is.
Grows ==
  /\ UNCHANGED namespaced
  /\ past' = past \/ \E objects \in SUBSET ObjectType : past' = Append(past, objects)

\* What was true stays true of the past.
LEMMA StaysTrue ==
  ASSUME Typed, Grows
  PROVE  /\ \A e \in EntryType : EntryTrue(e) => EntryTrue(e)'
         /\ \A r \in CallType : CallTrue(r) => CallTrue(r)'
<1>1. \A o, k : About(o, k)' <=> About(o, k)
  BY DEF Grows, About, Interface
<1>2. /\ Now \in Nat /\ Now' \in Nat /\ Now <= Now'
      /\ \A rev \in 1 .. Now : rev \in 1 .. Now' /\ past'[rev] = past[rev]
  BY DEF Grows, Typed, Now
<1>3. \A i, k : WasThere(i, k) => WasThere(i, k)'
  BY <1>1, <1>2 DEF WasThere
<1>4. \A k : WasAbsent(k) => WasAbsent(k)'
  BY <1>1, <1>2 DEF WasAbsent
<1>5. \A r \in CallType : r.since \in 1 .. Now /\ WasAll(r) => WasAll(r)'
  <2> SUFFICES ASSUME NEW r \in CallType, r.since \in 1 .. Now, WasAll(r)
               PROVE  WasAll(r)'
    OBVIOUS
  <2>1. PICK rev \in r.since .. Now :
          /\ \A i \in r.answer.items : \E o \in past[rev] : About(o, r) /\ i = Item(o)
          /\ \A o \in past[rev] : About(o, r) => Item(o) \in r.answer.items
    BY DEF WasAll
  <2>2. rev \in r.since .. Now' /\ past'[rev] = past[rev]
    BY <1>2
  <2> QED
    BY <1>1, <2>1, <2>2 DEF WasAll
<1>6. ASSUME NEW e \in EntryType, EntryTrue(e)
      PROVE  EntryTrue(e)'
  BY <1>3, <1>4, <1>6 DEF EntryTrue
<1>7. ASSUME NEW r \in CallType, CallTrue(r)
      PROVE  CallTrue(r)'
  <2>1. r.since \in 1 .. Now /\ r.since \in 1 .. Now'
    BY <1>2, <1>7 DEF CallTrue
  <2>2. AnswerTrue(r) => AnswerTrue(r)'
    BY <1>3, <1>4 DEF AnswerTrue
  <2>3. WasAll(r) => WasAll(r)'
    BY <1>5, <2>1
  <2>4. AnswerFresh(r) => AnswerFresh(r)'
    BY <2>3 DEF AnswerFresh
  <2> QED
    BY <1>7, <2>1, <2>2, <2>3, <2>4 DEF CallTrue
<1> QED
  BY <1>6, <1>7

\* A step of one query leaves the others as they are.
LEMMA CallStep ==
  ASSUME Typed, CallsTrue, Grows, NEW w \in Worker, NEW c \in CallType \cup {Idle},
         Set(w, c), c \in CallType => CallTrue(c)
  PROVE  call' \in [Worker -> CallType \cup {Idle}] /\ CallsTrue'
<1>1. call' \in [Worker -> CallType \cup {Idle}]
  BY DEF Typed, Set
<1>2. ASSUME NEW v \in Worker, NEW r \in CallType, call'[v] = r
      PROVE  CallTrue(r)'
  <2>1. CASE v = w
    BY <1>2, <2>1, StaysTrue DEF Typed, Set
  <2>2. CASE v # w
    <3>1. call[v] = r
      BY <1>2, <2>2 DEF Typed, Set
    <3> QED
      BY <3>1, StaysTrue DEF CallsTrue
  <2> QED
    BY <2>1, <2>2
<1> QED
  BY <1>1, <1>2 DEF CallsTrue

\* An entry of a query is stored in the place of the one for the same, if there
\* is a cache.
LEMMA StoreStep ==
  ASSUME Typed, entries # {} => ready, EntriesTrue, Grows, UNCHANGED ready,
         NEW e \in EntryType, EntryTrue(e), entries' = Stored(e)
  PROVE  /\ entries' \subseteq EntryType
         /\ (entries # {} => ready)'
         /\ EntriesTrue'
<1>1. \A f \in entries' : f \in entries \/ f = e
  BY DEF Stored
<1>2. entries' # {} => ready
  BY DEF Stored
<1>3. \A f \in entries' : f \in EntryType /\ EntryTrue(f)
  BY <1>1 DEF Typed, EntriesTrue
<1> QED
  BY <1>2, <1>3, StaysTrue DEF EntriesTrue

\* So are those entries which stay as they are.
LEMMA EntriesStay ==
  ASSUME Typed, EntriesTrue, Grows, entries' \subseteq entries
  PROVE  entries' \subseteq EntryType /\ EntriesTrue'
<1>1. \A f \in entries' : f \in EntryType /\ EntryTrue(f)
  BY DEF Typed, EntriesTrue
<1> QED
  BY <1>1, StaysTrue DEF EntriesTrue

-------------------------------------------------------------------------------
(* The steps of the cluster and of time. *)

\* The cluster becomes what objects of the type make of it.
LEMMA BecomesStep ==
  ASSUME SourceInv, NEW objects \in SUBSET ObjectType,
         \A o \in objects : o.home \in Homes /\ o.rev <= Now + 1, Becomes(objects)
  PROVE  SourceInv'
<1>1. past' = Append(past, objects) /\ UNCHANGED <<namespaced, ready, entries, call, calls>>
  BY DEF Becomes
<1>2. Typed /\ EntriesTrue /\ CallsTrue /\ Placed
  BY DEF SourceInv
<1>3. Grows
  BY <1>1 DEF Grows
<1>4. Typed'
  BY <1>1, <1>2 DEF Typed
<1>5. Placed'
  <2>1. past \in Seq(SUBSET ObjectType)
    BY <1>2 DEF Typed
  <2>2. Now \in Nat /\ Now' = Now + 1 /\ past'[Now + 1] = objects
    BY <1>1, <2>1 DEF Now
  <2>3. \A j \in 1 .. Now : past'[j] = past[j]
    BY <1>1, <2>1 DEF Now
  <2>4. Homes' = Homes
    BY <1>1 DEF Homes
  <2>5. ASSUME NEW j \in 1 .. Now', NEW o \in past'[j]
        PROVE  o.home \in Homes /\ o.rev <= j
    <3>1. CASE j = Now + 1
      BY <2>2, <2>5, <3>1
    <3>2. CASE j # Now + 1
      BY <1>2, <2>2, <2>3, <2>5, <3>2 DEF Placed
    <3> QED
      BY <3>1, <3>2
  <2> QED
    BY <2>4, <2>5 DEF Placed
<1>6. EntriesTrue'
  BY <1>1, <1>2, <1>3, EntriesStay
<1>7. CallsTrue'
  BY <1>1, <1>2, <1>3, StaysTrue DEF CallsTrue
<1> QED
  BY <1>1, <1>4, <1>5, <1>6, <1>7 DEF SourceInv

\* An object is created, changed or replaced.
LEMMA PutStep ==
  ASSUME SourceInv, NEW home \in Homes, NEW n \in Name, PutObject(home, n)
  PROVE  SourceInv'
<1>1. Now \in Nat /\ Now \in 1 .. Now /\ past[Now] \in SUBSET ObjectType
  BY DEF SourceInv, Typed, Now
<1>2. home \in AnyHome
  BY DEF Homes, AnyHome
<1>3. Object(home, n, Now + 1) \in ObjectType
  BY <1>1, <1>2 DEF Object, ObjectType
<1>4. Object(home, n, Now + 1).home = home /\ Object(home, n, Now + 1).rev = Now + 1
  BY DEF Object
<1>5. \A o \in past[Now] : o.home \in Homes /\ o.rev <= Now /\ o.rev \in Nat
  BY <1>1 DEF SourceInv, Placed, ObjectType
<1> DEFINE objects == {o \in past[Now] : <<o.home, o.name>> # <<home, n>>}
                        \cup {Object(home, n, Now + 1)}
<1>6. objects \in SUBSET ObjectType /\ \A o \in objects : o.home \in Homes /\ o.rev <= Now + 1
  BY <1>1, <1>3, <1>4, <1>5
<1>7. Becomes(objects)
  BY DEF PutObject
<1> QED
  BY <1>6, <1>7, BecomesStep

\* An object is deleted.
LEMMA DeleteStep ==
  ASSUME SourceInv, NEW gone \in past[Now], DeleteObject(gone)
  PROVE  SourceInv'
<1>1. Now \in Nat /\ Now \in 1 .. Now /\ past[Now] \in SUBSET ObjectType
  BY DEF SourceInv, Typed, Now
<1>2. \A o \in past[Now] : o.home \in Homes /\ o.rev <= Now /\ o.rev \in Nat
  BY <1>1 DEF SourceInv, Placed, ObjectType
<1>3. Becomes(past[Now] \ {gone})
  BY DEF DeleteObject
<1> HIDE DEF Now
<1>4. past[Now] \ {gone} \in SUBSET ObjectType
  BY <1>1
<1>5. \A o \in past[Now] \ {gone} : o.home \in Homes /\ o.rev <= Now + 1
  BY <1>1, <1>2
<1> QED
  BY <1>3, <1>4, <1>5, BecomesStep

\* What a step of the cache or of a query leaves alone.
LEMMA Unmoved ==
  ASSUME SourceInv, UNCHANGED <<namespaced, past>>
  PROVE  /\ Grows /\ Placed'
         /\ namespaced' \in BOOLEAN
         /\ past' \in Seq(SUBSET ObjectType) /\ past' # <<>>
         /\ Typed /\ EntriesTrue /\ CallsTrue /\ (entries # {} => ready)
<1>1. Typed /\ Placed /\ EntriesTrue /\ CallsTrue /\ (entries # {} => ready)
  BY DEF SourceInv
<1>2. Grows
  BY DEF Grows
<1>3. Placed'
  BY <1>1 DEF Placed, Homes, Now
<1> QED
  BY <1>1, <1>2, <1>3 DEF Typed

\* Entries come nearer to the end of their lifetime.
LEMMA TickStep ==
  ASSUME SourceInv, Tick
  PROVE  SourceInv'
<1>1. UNCHANGED <<namespaced, past, ready, call, calls>>
  BY DEF Tick
<1>2. /\ Grows /\ Placed' /\ Typed /\ EntriesTrue /\ CallsTrue
      /\ (entries # {} => ready)
  BY <1>1, Unmoved
<1>3. entries # {}
  BY DEF Tick
<1>4. \A f \in entries' : f \in EntryType /\ EntryTrue(f)
  <2> SUFFICES ASSUME NEW f \in entries'
               PROVE  f \in EntryType /\ EntryTrue(f)
    OBVIOUS
  <2>1. PICK e \in entries : e.left > 1 /\ f = [e EXCEPT !.left = @ - 1]
    BY DEF Tick
  <2>2. e \in EntryType /\ EntryTrue(e)
    BY <1>2, <2>1 DEF Typed, EntriesTrue
  <2>3. f \in EntryType /\ f.key = e.key /\ f.val = e.val
    <3>1. Duration \in Nat
      BY SourceAssumption
    <3>2. e.left - 1 \in 1 .. Duration
      BY <2>1, <2>2, <3>1 DEF EntryType
    <3> QED
      BY <2>1, <2>2, <3>2 DEF EntryType
  <2> QED
    BY <2>2, <2>3 DEF EntryTrue
<1>5. EntriesTrue'
  BY <1>2, <1>4, StaysTrue DEF EntriesTrue
<1>6. CallsTrue'
  BY <1>1, <1>2, StaysTrue DEF CallsTrue
<1>7. Typed'
  BY <1>1, <1>2, <1>4 DEF Typed
<1> QED
  BY <1>1, <1>2, <1>3, <1>5, <1>6, <1>7 DEF SourceInv

-------------------------------------------------------------------------------
(* The steps of a query. *)

\* A step that changes one query and at most drops entries.
LEMMA QuietStep ==
  ASSUME SourceInv, NEW w \in Worker, NEW c \in CallType \cup {Idle}, Set(w, c),
         c \in CallType => CallTrue(c), UNCHANGED <<namespaced, past>>,
         entries' \subseteq entries, ready' = ready \/ ready' = TRUE,
         calls' \in 0 .. MaxCalls
  PROVE  SourceInv'
<1>1. /\ Grows /\ Placed' /\ Typed /\ EntriesTrue /\ CallsTrue /\ (entries # {} => ready)
      /\ namespaced' \in BOOLEAN /\ past' \in Seq(SUBSET ObjectType) /\ past' # <<>>
  BY Unmoved
<1>2. call' \in [Worker -> CallType \cup {Idle}] /\ CallsTrue'
  BY <1>1, CallStep
<1>3. entries' \subseteq EntryType /\ EntriesTrue'
  BY <1>1, EntriesStay
<1>4. entries' # {} => ready'
  BY <1>1
<1>5. Typed'
  BY <1>1, <1>2, <1>3 DEF Typed
<1> QED
  BY <1>1, <1>2, <1>3, <1>4, <1>5 DEF SourceInv

\* A step that changes one query and stores an entry.
LEMMA StoringStep ==
  ASSUME SourceInv, NEW w \in Worker, NEW c \in CallType, Set(w, c), CallTrue(c),
         NEW e \in EntryType, EntryTrue(e), entries' = Stored(e),
         UNCHANGED <<namespaced, past, ready, calls>>
  PROVE  SourceInv'
<1>1. /\ Grows /\ Placed' /\ Typed /\ EntriesTrue /\ CallsTrue /\ (entries # {} => ready)
      /\ namespaced' \in BOOLEAN /\ past' \in Seq(SUBSET ObjectType) /\ past' # <<>>
  BY Unmoved
<1>2. call' \in [Worker -> CallType \cup {Idle}] /\ CallsTrue'
  BY <1>1, CallStep
<1>3. entries' \subseteq EntryType /\ (entries # {} => ready)' /\ EntriesTrue'
  BY <1>1, StoreStep
<1>4. calls' \in 0 .. MaxCalls
  BY <1>1 DEF Typed
<1>5. Typed'
  BY <1>1, <1>2, <1>3, <1>4 DEF Typed
<1> QED
  BY <1>1, <1>2, <1>3, <1>5 DEF SourceInv

\* What is true of a key is true of every other with the same scope and names.
LEMMA SameKey ==
  ASSUME NEW k, NEW l, k.scope = l.scope, k.names = l.names
  PROVE  /\ \A o : About(o, k) <=> About(o, l)
         /\ \A i : WasThere(i, k) <=> WasThere(i, l)
         /\ WasAbsent(k) <=> WasAbsent(l)
<1>1. \A o : About(o, k) <=> About(o, l)
  BY DEF About
<1> QED
  BY <1>1 DEF WasThere, WasAbsent

\* A query that is answered.
LEMMA AnswerTyped ==
  ASSUME NEW r \in CallType, NEW items \in SUBSET ItemType,
         NEW error \in Errors \cup {"none", "MALFORMED"}, NEW cached \in BOOLEAN
  PROVE  \E c \in CallType :
           /\ c = Answered(r, items, error, cached)
           /\ c.pc = "answered"
           /\ c.scope = r.scope /\ c.names = r.names /\ c.method = r.method
           /\ c.ignoreCache = r.ignoreCache /\ c.since = r.since
           /\ c.answer.items = items /\ c.answer.error = error
           /\ c.answer.cached = cached
<1> DEFINE a == [items |-> items, error |-> error, cached |-> cached]
<1>1. a \in AnswerType /\ a.items = items /\ a.error = error /\ a.cached = cached
  BY DEF AnswerType
<1> HIDE DEF a
<1>2. Answered(r, items, error, cached) = [r EXCEPT !.pc = "answered", !.answer = a]
  BY DEF Answered, a
<1> QED
  BY <1>1, <1>2 DEF CallType

\* A worker that is busy has a query.
LEMMA BusyWorker ==
  ASSUME SourceInv, NEW w \in Worker, call[w].pc # "idle"
  PROVE  call[w] \in CallType /\ CallTrue(call[w])
<1>1. call[w] \in CallType
  BY DEF SourceInv, Typed, Idle
<1> QED
  BY <1>1 DEF SourceInv, CallsTrue

\* A query that fails leaves its error in the cache.
LEMMA FailStep ==
  ASSUME SourceInv, NEW w \in Worker, NEW r \in CallType, call[w] = r, CallTrue(r),
         NEW error \in Errors, error = "NOTFOUND" => WasAbsent(r),
         error = "NOTFOUND" => r.method = "GET" /\ \A o \in past[Now] : ~About(o, r),
         Fails(w, error), UNCHANGED <<namespaced, past, ready, calls>>
  PROVE  SourceInv'
<1>1. PICK c \in CallType :
        /\ c = Answered(r, {}, error, FALSE)
        /\ c.pc = "answered"
        /\ c.scope = r.scope /\ c.names = r.names /\ c.method = r.method
        /\ c.ignoreCache = r.ignoreCache /\ c.since = r.since
        /\ c.answer.items = {} /\ c.answer.error = error
  <2>1. PICK none \in SUBSET ItemType : none = {}
    OBVIOUS
  <2>2. PICK no \in BOOLEAN : no = FALSE
    OBVIOUS
  <2>3. error \in Errors \cup {"none", "MALFORMED"}
    OBVIOUS
  <2>4. PICK c \in CallType :
          /\ c = Answered(r, none, error, no)
          /\ c.pc = "answered"
          /\ c.scope = r.scope /\ c.names = r.names /\ c.method = r.method
          /\ c.ignoreCache = r.ignoreCache /\ c.since = r.since
          /\ c.answer.items = none /\ c.answer.error = error
    BY <2>3, AnswerTyped
  <2>5. Answered(r, none, error, no) = Answered(r, {}, error, FALSE)
    BY <2>1, <2>2, Zenon
  <2> QED
    BY <2>1, <2>4, <2>5
<1>2. PICK v \in ErrorType : v = [error |-> error]
  BY DEF ErrorType
<1>3. PICK e \in EntryType :
        /\ e = Entry(r, v) /\ e.val = v
        /\ e.key.scope = r.scope /\ e.key.names = r.names
  BY EntryTyped
<1>4. EntryTrue(e)
  <2>1. e.val \notin ItemType
    BY <1>3, ItemTyped
  <2>2. e.val = [error |-> "NOTFOUND"] => error = "NOTFOUND"
    BY <1>2, <1>3
  <2>3. WasAbsent(e.key) <=> WasAbsent(r)
    BY <1>3, SameKey
  <2> QED
    BY <2>1, <2>2, <2>3 DEF EntryTrue
<1>5. CallTrue(c)
  <2>1. \A o : About(o, c) <=> About(o, r)
    BY <1>1, SameKey
  <2>2. r.since \in 1 .. Now
    BY DEF CallTrue
  <2>3. Now \in r.since .. Now
    <3>1. Now \in Nat
      BY DEF SourceInv, Typed, Now
    <3> QED
      BY <2>2, <3>1
  <2>4. error = "NOTFOUND" => WasAbsent(c)
    BY <1>1, SameKey
  <2>5. error = "NOTFOUND" => WasAll(c)
    BY <1>1, <2>1, <2>3 DEF WasAll
  <2>6. AnswerTrue(c)
    BY <1>1, <2>4 DEF AnswerTrue
  <2>7. error # "none"
    BY DEF Errors
  <2>8. AnswerFresh(c)
    BY <1>1, <2>5, <2>7 DEF AnswerFresh
  <2> QED
    BY <1>1, <2>2, <2>6, <2>8 DEF CallTrue
<1>6. Set(w, c) /\ entries' = Stored(e)
  BY <1>1, <1>2, <1>3 DEF Fails
<1> QED
  BY <1>4, <1>5, <1>6, StoringStep

\* What a worker receives is a query at its first step.
LEMMA ReceivedTyped ==
  ASSUME SourceInv, NEW method \in Methods, NEW scope \in Asked,
         NEW names \in SUBSET Name, NEW ignoreCache \in BOOLEAN
  PROVE  \E c \in CallType :
           /\ c = Received(method, scope, names, ignoreCache)
           /\ c.method = method /\ CallTrue(c)
<1>1. Now \in Nat /\ Now \in 1 .. Now
  BY DEF SourceInv, Typed, Now
<1>2. NoAnswer \in AnswerType
  BY DEF NoAnswer, AnswerType
<1>3. scope \in AnyScope
  BY AskedTyped
<1> HIDE DEF Now
<1>4. PICK pc \in {"lookup", "ask"} : pc = IF method = "SEARCH" THEN "ask" ELSE "lookup"
  OBVIOUS
<1> DEFINE c == [pc |-> pc, method |-> method, scope |-> scope, names |-> names,
                 ignoreCache |-> ignoreCache, since |-> Now, toStore |-> {},
                 answer |-> NoAnswer]
<1>5. c = Received(method, scope, names, ignoreCache)
  BY <1>4 DEF Received
<1>6. c \in CallType
  BY <1>1, <1>2, <1>3 DEF CallType
<1>7. c.pc = pc /\ c.method = method /\ c.since = Now /\ c.answer = NoAnswer
  OBVIOUS
<1> HIDE DEF c
<1>8. CallTrue(c)
  BY <1>1, <1>4, <1>7 DEF CallTrue
<1> QED
  BY <1>5, <1>6, <1>7, <1>8

\* A worker that takes a query makes sure of the cache, and nothing more.
LEMMA QueryStep ==
  ASSUME SourceInv, NEW w \in Worker, NEW c \in CallType, CallTrue(c), Query(w, c)
  PROVE  SourceInv'
<1>1. entries' \subseteq entries /\ (ready' = ready \/ ready' = TRUE)
  BY DEF Query, EnsureCache, NewCache
<1>2. calls' \in 0 .. MaxCalls
  <2>1. MaxCalls \in Nat
    BY SourceAssumption
  <2> QED
    BY <2>1 DEF Query, SourceInv, Typed
<1> QED
  BY <1>1, <1>2, QuietStep DEF Query

\* A SEARCH that is refused.
LEMMA MalformedStep ==
  ASSUME SourceInv, NEW w \in Worker, NEW scope \in Asked, SearchMalformed(w, scope)
  PROVE  SourceInv'
<1>1. PICK none \in SUBSET Name : none = {}
  OBVIOUS
<1>2. PICK no \in BOOLEAN : no = FALSE
  OBVIOUS
<1>3. PICK nothing \in SUBSET ItemType : nothing = {}
  OBVIOUS
<1>4. PICK method \in Methods : method = "SEARCH"
  BY DEF Methods
<1>5. PICK error \in Errors \cup {"none", "MALFORMED"} : error = "MALFORMED"
  OBVIOUS
<1>6. PICK r \in CallType : r = Received(method, scope, none, no) /\ CallTrue(r)
  BY ReceivedTyped
<1>7. PICK c \in CallType :
        /\ c = Answered(r, nothing, error, no)
        /\ c.pc = "answered" /\ c.since = r.since
        /\ c.answer.items = nothing /\ c.answer.error = error
  BY AnswerTyped
<1>8. c = Answered(Received("SEARCH", scope, {}, FALSE), {}, "MALFORMED", FALSE)
  BY <1>1, <1>2, <1>3, <1>4, <1>5, <1>6, <1>7, Zenon
<1>9. AnswerTrue(c) /\ AnswerFresh(c)
  BY <1>3, <1>5, <1>7 DEF AnswerTrue, AnswerFresh
<1>10. CallTrue(c)
  BY <1>6, <1>7, <1>9 DEF CallTrue
<1> QED
  BY <1>8, <1>10, QueryStep DEF SearchMalformed

\* A query that the cache answers, with what the entry's key is about.
LEMMA CachedStep ==
  ASSUME SourceInv, NEW w \in Worker, NEW r \in CallType, CallTrue(r),
         r.method # "SEARCH", ~r.ignoreCache,
         NEW items \in SUBSET ItemType, NEW error \in Errors \cup {"none"},
         \A i \in items : WasThere(i, r), error = "NOTFOUND" => WasAbsent(r),
         Set(w, Answered(r, items, error, TRUE)),
         UNCHANGED <<namespaced, past, ready, entries, calls>>
  PROVE  SourceInv'
<1>1. PICK yes \in BOOLEAN : yes = TRUE
  OBVIOUS
<1>2. error \in Errors \cup {"none", "MALFORMED"}
  OBVIOUS
<1>3. PICK c \in CallType :
        /\ c = Answered(r, items, error, yes)
        /\ c.pc = "answered"
        /\ c.scope = r.scope /\ c.names = r.names /\ c.method = r.method
        /\ c.ignoreCache = r.ignoreCache /\ c.since = r.since
        /\ c.answer.items = items /\ c.answer.error = error
        /\ c.answer.cached = yes
  BY <1>2, AnswerTyped
<1>4. c = Answered(r, items, error, TRUE)
  BY <1>1, <1>3, Zenon
<1>5. AnswerTrue(c)
  <2>1. \A i : WasThere(i, c) <=> WasThere(i, r)
    BY <1>3, SameKey
  <2>2. WasAbsent(c) <=> WasAbsent(r)
    BY <1>3, SameKey
  <2> QED
    BY <1>3, <2>1, <2>2 DEF AnswerTrue
<1>6. c.answer.cached /\ ~c.ignoreCache
  BY <1>1, <1>3, Zenon
<1>7. AnswerFresh(c)
  BY <1>3, <1>6 DEF AnswerFresh
<1>8. CallTrue(c)
  BY <1>3, <1>5, <1>7 DEF CallTrue
<1>9. calls' \in 0 .. MaxCalls
  BY DEF SourceInv, Typed
<1> QED
  BY <1>4, <1>8, <1>9, QuietStep

\* What an entry that a query finds says of the query.
LEMMA OwnTrue ==
  ASSUME SourceInv, NEW r \in CallType, NEW e \in OwnEntries(r)
  PROVE  /\ IsError(e) <=> e.val \in ErrorType
         /\ ~IsError(e) => e.val \in ItemType /\ WasThere(e.val, r)
         /\ e.val = [error |-> "NOTFOUND"] => WasAbsent(r)
<1>1. e \in entries /\ e \in EntryType /\ EntryTrue(e)
  BY DEF OwnEntries, SourceInv, Typed, EntriesTrue
<1>2. e.key.scope = r.scope /\ e.key.names = r.names
  BY DEF OwnEntries, CacheKey, Key
<1>3. \A i : WasThere(i, e.key) <=> WasThere(i, r)
  BY <1>2, SameKey
<1>4. WasAbsent(e.key) <=> WasAbsent(r)
  BY <1>2, SameKey
<1>5. IsError(e) <=> e.val \in ErrorType
  BY DEF IsError, ErrorType
<1>6. e.val \in ItemType \cup ErrorType
  BY <1>1 DEF EntryType
<1> QED
  BY <1>1, <1>3, <1>4, <1>5, <1>6 DEF EntryTrue

\* So does what another method stored of the one name that is asked for.
LEMMA OtherTrue ==
  ASSUME SourceInv, NEW r \in CallType, NEW e \in OtherItems(r)
  PROVE  ~IsError(e) /\ e.val \in ItemType /\ WasThere(e.val, r)
<1>1. e \in entries /\ e \in EntryType /\ EntryTrue(e)
  BY DEF OtherItems, SourceInv, Typed, EntriesTrue
<1>2. e.key.scope = r.scope /\ e.val.name \in r.names /\ ~IsError(e)
  BY DEF OtherItems, CacheKey, Key
<1>3. e.val \in ItemType
  BY <1>1, <1>2 DEF EntryType, IsError, ErrorType
<1>4. PICK rev \in 1 .. Now : \E o \in past[rev] : About(o, e.key) /\ e.val = Item(o)
  BY <1>1, <1>3 DEF EntryTrue, WasThere
<1>5. PICK o \in past[rev] : About(o, e.key) /\ e.val = Item(o)
  BY <1>4
<1>6. About(o, r)
  BY <1>2, <1>5 DEF About, Item
<1> QED
  BY <1>2, <1>3, <1>5, <1>6 DEF WasThere

\* The cache answers, or the query goes on to the API server.
LEMMA LookupStep ==
  ASSUME SourceInv, NEW w \in Worker, Lookup(w)
  PROVE  SourceInv'
<1>1. call[w] \in CallType /\ CallTrue(call[w])
  BY BusyWorker DEF Lookup, At
<1>2. PICK r \in CallType : r = call[w]
  BY <1>1
<1>3. CallTrue(r) /\ r.pc = "lookup" /\ r.method # "SEARCH"
  BY <1>1, <1>2 DEF Lookup, At, CallTrue
<1>4. UNCHANGED <<namespaced, past, ready, entries, calls>>
  BY DEF Lookup
<1>5. CASE Set(w, [r EXCEPT !.pc = "ask"])
  <2>1. PICK c \in CallType : c = [r EXCEPT !.pc = "ask"]
    BY DEF CallType
  <2>2. c.pc = "ask" /\ c.since = r.since /\ c.answer = r.answer /\ c.method = r.method
    BY <2>1 DEF CallType
  <2>3. CallTrue(c)
    BY <1>3, <2>2 DEF CallTrue
  <2>4. calls' \in 0 .. MaxCalls
    BY <1>4 DEF SourceInv, Typed
  <2> QED
    BY <1>4, <1>5, <2>1, <2>3, <2>4, QuietStep
<1>6. ASSUME ~r.ignoreCache, NEW e \in OwnEntries(r), IsError(e),
             Set(w, Answered(r, {}, e.val.error, TRUE))
      PROVE  SourceInv'
  <2>1. PICK none \in SUBSET ItemType : none = {}
    OBVIOUS
  <2>2. PICK error \in Errors : e.val = [error |-> error]
    BY <1>6 DEF IsError
  <2>3. e.val.error = error
    BY <2>2
  <2>4. error = "NOTFOUND" => WasAbsent(r)
    BY <2>2, OwnTrue
  <2>5. Set(w, Answered(r, none, error, TRUE))
    BY <1>6, <2>1, <2>3
  <2>6. \A i \in none : WasThere(i, r)
    BY <2>1
  <2> QED
    BY <1>3, <1>4, <1>6, <2>4, <2>5, <2>6, CachedStep
<1>7. ASSUME ~r.ignoreCache, NEW e \in OwnEntries(r) \cup OtherItems(r), ~IsError(e),
             Set(w, Answered(r, {e.val}, "none", TRUE))
      PROVE  SourceInv'
  <2>1. e.val \in ItemType /\ WasThere(e.val, r)
    BY <1>7, OwnTrue, OtherTrue
  <2>2. PICK items \in SUBSET ItemType : items = {e.val}
    BY <2>1
  <2>3. PICK error \in Errors \cup {"none"} : error = "none"
    OBVIOUS
  <2>4. Set(w, Answered(r, items, error, TRUE))
    BY <1>7, <2>2, <2>3
  <2>5. \A i \in items : WasThere(i, r)
    BY <2>1, <2>2
  <2> QED
    BY <1>3, <1>4, <1>7, <2>3, <2>4, <2>5, CachedStep
<1>8. ASSUME ~r.ignoreCache,
             Set(w, Answered(r, {e.val : e \in {f \in OwnEntries(r) : ~IsError(f)}},
                             "none", TRUE))
      PROVE  SourceInv'
  <2> DEFINE found == {e.val : e \in {f \in OwnEntries(r) : ~IsError(f)}}
  <2>1. \A i \in found : i \in ItemType /\ WasThere(i, r)
    BY OwnTrue
  <2>2. PICK items \in SUBSET ItemType : items = found
    BY <2>1
  <2>3. PICK error \in Errors \cup {"none"} : error = "none"
    OBVIOUS
  <2>4. Set(w, Answered(r, items, error, TRUE))
    BY <1>8, <2>2, <2>3
  <2>5. \A i \in items : WasThere(i, r)
    BY <2>1, <2>2
  <2> QED
    BY <1>3, <1>4, <1>8, <2>3, <2>4, <2>5, CachedStep
<1> QED
  BY <1>2, <1>5, <1>6, <1>7, <1>8 DEF Lookup

\* What was all there was, was there.
LEMMA AllWasThere ==
  ASSUME SourceInv, NEW r \in CallType, r.since \in 1 .. Now, WasAll(r)
  PROVE  \A i \in r.answer.items : WasThere(i, r)
<1>1. Now \in Nat
  BY DEF SourceInv, Typed, Now
<1>2. PICK rev \in r.since .. Now :
        \A i \in r.answer.items : \E o \in past[rev] : About(o, r) /\ i = Item(o)
  BY DEF WasAll
<1>3. rev \in 1 .. Now
  BY <1>1
<1> QED
  BY <1>2, <1>3 DEF WasThere

\* A query with the same names and items, in the same scope and of the same time,
\* has as good an answer.
LEMMA SameAnswer ==
  ASSUME NEW r, NEW c, c.scope = r.scope, c.names = r.names, c.since = r.since,
         c.answer.items = r.answer.items, WasAll(r)
  PROVE  WasAll(c)
<1>1. \A o : About(o, c) <=> About(o, r)
  BY SameKey
<1> QED
  BY <1>1 DEF WasAll

\* A query whose items are known and wait to be stored.
LEMMA ToStoreTyped ==
  ASSUME NEW r \in CallType, NEW items \in SUBSET ItemType
  PROVE  \E c \in CallType :
           /\ c = [r EXCEPT !.pc = "store", !.toStore = items, !.answer.items = items]
           /\ c.pc = "store" /\ c.toStore = items
           /\ c.answer.items = items /\ c.answer.error = r.answer.error
           /\ c.method = r.method /\ c.scope = r.scope /\ c.names = r.names
           /\ c.since = r.since /\ c.ignoreCache = r.ignoreCache
<1> DEFINE a == [r.answer EXCEPT !.items = items]
           c == [r EXCEPT !.pc = "store", !.toStore = items, !.answer = a]
<1>1. r.answer \in AnswerType
  BY DEF CallType
<1>2. a \in AnswerType /\ a.items = items /\ a.error = r.answer.error
  BY <1>1 DEF AnswerType
<1>3. c = [r EXCEPT !.pc = "store", !.toStore = items, !.answer.items = items]
  BY DEF CallType
<1> HIDE DEF a
<1>4. c \in CallType
  BY <1>2 DEF CallType
<1>5. /\ c.pc = "store" /\ c.toStore = items /\ c.answer = a
      /\ c.method = r.method /\ c.scope = r.scope /\ c.names = r.names
      /\ c.since = r.since /\ c.ignoreCache = r.ignoreCache
  BY DEF CallType
<1> HIDE DEF c
<1> QED
  BY <1>2, <1>3, <1>4, <1>5

\* A query with less to store.
LEMMA LessToStoreTyped ==
  ASSUME NEW r \in CallType, NEW i
  PROVE  \E c \in CallType :
           /\ c = [r EXCEPT !.toStore = @ \ {i}]
           /\ c.toStore = r.toStore \ {i} /\ c.pc = r.pc /\ c.answer = r.answer
           /\ c.method = r.method /\ c.scope = r.scope /\ c.names = r.names
           /\ c.since = r.since /\ c.ignoreCache = r.ignoreCache
<1> DEFINE c == [r EXCEPT !.toStore = @ \ {i}]
<1>1. c \in CallType
  BY DEF CallType
<1>2. /\ c.toStore = r.toStore \ {i} /\ c.pc = r.pc /\ c.answer = r.answer
      /\ c.method = r.method /\ c.scope = r.scope /\ c.names = r.names
      /\ c.since = r.since /\ c.ignoreCache = r.ignoreCache
  BY DEF CallType
<1> HIDE DEF c
<1>3. c = [r EXCEPT !.toStore = @ \ {i}]
  BY DEF c
<1> QED
  BY <1>1, <1>2, <1>3

\* A query at another step.
LEMMA StepTyped ==
  ASSUME NEW r \in CallType, NEW pc \in {"ask", "answered"}
  PROVE  \E c \in CallType :
           /\ c = [r EXCEPT !.pc = pc]
           /\ c.pc = pc /\ c.answer = r.answer
           /\ c.method = r.method /\ c.scope = r.scope /\ c.names = r.names
           /\ c.since = r.since /\ c.ignoreCache = r.ignoreCache
<1> DEFINE c == [r EXCEPT !.pc = pc]
<1>1. c \in CallType
  BY DEF CallType
<1>2. /\ c.pc = pc /\ c.answer = r.answer
      /\ c.method = r.method /\ c.scope = r.scope /\ c.names = r.names
      /\ c.since = r.since /\ c.ignoreCache = r.ignoreCache
  BY DEF CallType
<1>3. c = [r EXCEPT !.pc = pc]
  OBVIOUS
<1> HIDE DEF c
<1> QED
  BY <1>1, <1>2, <1>3

\* The API server answers a query, or an error does.
LEMMA AskStep ==
  ASSUME SourceInv, NEW w \in Worker, Ask(w)
  PROVE  SourceInv'
<1>1. call[w] \in CallType /\ CallTrue(call[w])
  BY BusyWorker DEF Ask, At
<1>2. PICK r \in CallType : call[w] = r
  BY <1>1
<1>3. CallTrue(r) /\ r.pc = "ask"
  BY <1>1, <1>2 DEF Ask, At
<1>4. UNCHANGED <<namespaced, past, ready, calls>>
  BY DEF Ask
<1>5. Now \in Nat /\ Now \in 1 .. Now /\ past[Now] \in SUBSET ObjectType
  BY DEF SourceInv, Typed, Now
<1> DEFINE os == Selected(past[Now], r)
<1>6. os = {o \in past[Now] : About(o, r)}
  BY SelectedAbout
<1> HIDE DEF os
<1>7. ASSUME NEW error \in Errors, error # "NOTFOUND", Fails(w, error)
      PROVE  SourceInv'
  BY <1>2, <1>3, <1>4, <1>7, FailStep
<1>8. ASSUME r.method = "GET", os = {}, Fails(w, "NOTFOUND")
      PROVE  SourceInv'
  <2>1. \A o \in past[Now] : ~About(o, r)
    BY <1>6, <1>8
  <2>2. WasAbsent(r)
    BY <1>5, <2>1 DEF WasAbsent
  <2>3. PICK error \in Errors : error = "NOTFOUND"
    BY DEF Errors
  <2>4. Fails(w, error)
    BY <1>8, <2>3
  <2> QED
    BY <1>2, <1>3, <1>4, <1>8, <2>1, <2>2, <2>4, FailStep
<1>9. ASSUME r.method = "GET" => os # {}, UNCHANGED entries,
             Set(w, [r EXCEPT !.pc = "store", !.toStore = Converted(os),
                              !.answer.items = Converted(os)])
      PROVE  SourceInv'
  <2>1. PICK items \in SUBSET ItemType : items = Converted(os)
    BY <1>5, <1>6, ItemTyped DEF Converted
  <2>2. PICK c \in CallType :
          /\ c = [r EXCEPT !.pc = "store", !.toStore = items, !.answer.items = items]
          /\ c.pc = "store" /\ c.toStore = items
          /\ c.answer.items = items /\ c.answer.error = r.answer.error
          /\ c.method = r.method /\ c.scope = r.scope /\ c.names = r.names
          /\ c.since = r.since /\ c.ignoreCache = r.ignoreCache
    BY ToStoreTyped
  <2>3. items = {Item(o) : o \in os}
    BY <2>1 DEF Converted
  <2>4. c = [r EXCEPT !.pc = "store", !.toStore = Converted(os),
                      !.answer.items = Converted(os)]
    BY <2>1, <2>2
  <2>5. c.answer.error = "none"
    BY <1>3, <2>2 DEF CallTrue, NoAnswer
  <2>6. c.method = "GET" => c.answer.items # {}
    <3>1. os # {} => items # {}
      BY <2>3
    <3> QED
      BY <1>9, <2>2, <3>1
  <2>7. WasAll(c)
    <3>1. Now \in c.since .. Now
      BY <1>3, <1>5, <2>2 DEF CallTrue, CallType
    <3>2. \A o : About(o, c) <=> About(o, r)
      BY <2>2, SameKey
    <3>3. /\ \A i \in c.answer.items : \E o \in past[Now] : About(o, c) /\ i = Item(o)
          /\ \A o \in past[Now] : About(o, c) => Item(o) \in c.answer.items
      <4>1. \A i \in items : \E o \in past[Now] : About(o, r) /\ i = Item(o)
        BY <1>6, <2>3
      <4>2. \A o \in past[Now] : About(o, r) => Item(o) \in items
        BY <1>6, <2>3
      <4> QED
        BY <2>2, <3>2, <4>1, <4>2
    <3> QED
      BY <3>1, <3>3 DEF WasAll
  <2>8. CallTrue(c)
    BY <1>3, <2>2, <2>5, <2>6, <2>7 DEF CallTrue
  <2>9. calls' \in 0 .. MaxCalls
    BY <1>4 DEF SourceInv, Typed
  <2> QED
    BY <1>4, <1>9, <2>4, <2>8, <2>9, QuietStep
<1>10. "NOSCOPE" \in Errors /\ "OTHER" \in Errors
  BY DEF Errors
<1> QED
  BY <1>2, <1>7, <1>8, <1>9, <1>10 DEF Ask, os

\* The next item is stored.
LEMMA StoreItemStep ==
  ASSUME SourceInv, NEW w \in Worker, Store(w)
  PROVE  SourceInv'
<1>1. call[w] \in CallType /\ CallTrue(call[w])
  BY BusyWorker DEF Store, At
<1>2. PICK r \in CallType : call[w] = r
  BY <1>1
<1>3. CallTrue(r) /\ r.pc = "store"
  BY <1>1, <1>2 DEF Store, At
<1>4. PICK i \in r.toStore :
        entries' = Stored(Entry(r, i)) /\ Set(w, [r EXCEPT !.toStore = @ \ {i}])
  BY <1>2 DEF Store
<1>5. i \in ItemType /\ i \in r.answer.items /\ WasAll(r) /\ r.since \in 1 .. Now
  BY <1>3 DEF CallTrue, CallType
<1>6. WasThere(i, r)
  BY <1>5, AllWasThere
<1>7. PICK e \in EntryType :
        /\ e = Entry(r, i) /\ e.val = i
        /\ e.key.scope = r.scope /\ e.key.names = r.names
  BY <1>5, EntryTyped
<1>8. EntryTrue(e)
  <2>1. WasThere(i, e.key)
    BY <1>6, <1>7, SameKey
  <2>2. e.val # [error |-> "NOTFOUND"]
    BY <1>5, <1>7, ItemTyped DEF ErrorType, Errors
  <2> QED
    BY <1>7, <2>1, <2>2 DEF EntryTrue
<1>9. PICK c \in CallType :
        /\ c = [r EXCEPT !.toStore = @ \ {i}]
        /\ c.toStore = r.toStore \ {i} /\ c.pc = r.pc /\ c.answer = r.answer
        /\ c.method = r.method /\ c.scope = r.scope /\ c.names = r.names
        /\ c.since = r.since
  BY LessToStoreTyped
<1>10. WasAll(c)
  BY <1>5, <1>9, SameAnswer
<1>11. CallTrue(c)
  BY <1>3, <1>9, <1>10 DEF CallTrue
<1>12. UNCHANGED <<namespaced, past, ready, calls>>
  BY DEF Store
<1> QED
  BY <1>4, <1>7, <1>8, <1>9, <1>11, <1>12, StoringStep

\* When all is stored, the query is answered.
LEMMA StoredAllStep ==
  ASSUME SourceInv, NEW w \in Worker, StoredAll(w)
  PROVE  SourceInv'
<1>1. call[w] \in CallType /\ CallTrue(call[w])
  BY BusyWorker DEF StoredAll, At
<1>2. PICK r \in CallType : call[w] = r
  BY <1>1
<1>3. CallTrue(r) /\ r.pc = "store"
  BY <1>1, <1>2 DEF StoredAll, At
<1>4. PICK c \in CallType :
        /\ c = [r EXCEPT !.pc = "answered"]
        /\ c.pc = "answered" /\ c.answer = r.answer /\ c.method = r.method
        /\ c.scope = r.scope /\ c.names = r.names /\ c.since = r.since
  BY StepTyped
<1>5. /\ WasAll(r) /\ r.since \in 1 .. Now /\ r.answer.error = "none"
      /\ r.method = "GET" => r.answer.items # {}
  BY <1>3 DEF CallTrue
<1>6. WasAll(c)
  BY <1>4, <1>5, SameAnswer
<1>7. AnswerTrue(c)
  BY <1>4, <1>5, <1>6, AllWasThere DEF AnswerTrue
<1>8. AnswerFresh(c)
  BY <1>4, <1>5, <1>6 DEF AnswerFresh
<1>9. CallTrue(c)
  BY <1>4, <1>5, <1>7, <1>8 DEF CallTrue
<1>10. Set(w, c) /\ UNCHANGED <<namespaced, past, ready, entries, calls>>
  BY <1>2, <1>4 DEF StoredAll
<1>11. calls' \in 0 .. MaxCalls
  BY <1>10 DEF SourceInv, Typed
<1> QED
  BY <1>9, <1>10, <1>11, QuietStep

\* The answer is given, and the worker is idle again.
LEMMA ReturnStep ==
  ASSUME SourceInv, NEW w \in Worker, Return(w)
  PROVE  SourceInv'
<1>1. Idle \notin CallType
  BY DEF Idle, CallType
<1>2. calls' \in 0 .. MaxCalls
  BY DEF Return, SourceInv, Typed
<1> QED
  BY <1>1, <1>2, QuietStep DEF Return

-------------------------------------------------------------------------------
(* The inductive invariant. *)

LEMMA SourceInit == Init => SourceInv
<1> SUFFICES ASSUME Init
             PROVE  SourceInv
  OBVIOUS
<1>1. PICK h \in Homes, ns \in SUBSET Name : past = <<{Object(h, n, 1) : n \in ns}>>
  BY DEF Init
<1>2. h \in AnyHome
  BY DEF Homes, AnyHome
<1> DEFINE objects == {Object(h, n, 1) : n \in ns}
<1>3. objects \in SUBSET ObjectType /\ \A o \in objects : o.home = h /\ o.rev = 1
  BY <1>2 DEF Object, ObjectType
<1> HIDE DEF objects
<1>4. /\ past \in Seq(SUBSET ObjectType) /\ past # <<>>
      /\ Now = 1 /\ past[1] = objects
  BY <1>1, <1>3 DEF Now, objects
<1>5. Placed
  BY <1>3, <1>4 DEF Placed
<1>6. /\ namespaced \in BOOLEAN /\ entries = {}
      /\ call = [w \in Worker |-> Idle] /\ calls = 0
  BY DEF Init
<1>7. calls \in 0 .. MaxCalls
  <2>1. MaxCalls \in Nat
    BY SourceAssumption
  <2> QED
    BY <1>6, <2>1
<1>8. Typed
  BY <1>4, <1>6, <1>7 DEF Typed
<1>9. Idle \notin CallType
  BY DEF Idle, CallType
<1>10. EntriesTrue /\ CallsTrue
  BY <1>6, <1>9 DEF EntriesTrue, CallsTrue
<1> QED
  BY <1>5, <1>6, <1>8, <1>10 DEF SourceInv

\* A query that is taken, well formed or not.
LEMMA TakeStep ==
  ASSUME SourceInv, NEW w \in Worker, NEW method \in Methods, NEW scope \in Asked,
         NEW ignoreCache \in BOOLEAN, NEW names \in NamesOf(method),
         Query(w, Received(method, scope, names, ignoreCache))
  PROVE  SourceInv'
<1>1. names \in SUBSET Name
  BY DEF NamesOf, Methods
<1>2. PICK c \in CallType :
        c = Received(method, scope, names, ignoreCache) /\ CallTrue(c)
  BY <1>1, ReceivedTyped
<1> QED
  BY <1>2, QueryStep

LEMMA SourceStep == SourceInv /\ [Next]_vars => SourceInv'
<1> SUFFICES ASSUME SourceInv, [Next]_vars
             PROVE  SourceInv'
  OBVIOUS
<1>1. ASSUME NEW home \in Homes, NEW n \in Name, PutObject(home, n)
      PROVE  SourceInv'
  BY <1>1, PutStep
<1>2. ASSUME NEW o \in past[Now], DeleteObject(o)
      PROVE  SourceInv'
  BY <1>2, DeleteStep
<1>3. CASE Tick
  BY <1>3, TickStep
<1>4. ASSUME NEW w \in Worker, NEW method \in Methods, NEW scope \in Asked,
             NEW ignoreCache \in BOOLEAN, NEW names \in NamesOf(method),
             Query(w, Received(method, scope, names, ignoreCache))
      PROVE  SourceInv'
  BY <1>4, TakeStep
<1>5. ASSUME NEW w \in Worker, NEW scope \in Asked, SearchMalformed(w, scope)
      PROVE  SourceInv'
  BY <1>5, MalformedStep
<1>6. ASSUME NEW w \in Worker, Work(w)
      PROVE  SourceInv'
  BY <1>6, LookupStep, AskStep, StoreItemStep, StoredAllStep, ReturnStep DEF Work
<1>7. CASE UNCHANGED vars
  <2>1. UNCHANGED <<namespaced, past, ready, entries, call, calls>>
    BY <1>7
  <2>2. Typed /\ Placed /\ EntriesTrue /\ CallsTrue /\ (entries # {} => ready)
    BY DEF SourceInv
  <2>3. Grows
    BY <2>1 DEF Grows
  <2>4. Typed' /\ Placed'
    BY <2>1, <2>2 DEF Typed, Placed, Homes, Now
  <2>5. EntriesTrue' /\ CallsTrue'
    BY <2>1, <2>2, <2>3, StaysTrue, EntriesStay DEF CallsTrue
  <2> QED
    BY <2>1, <2>2, <2>4, <2>5 DEF SourceInv
<1> QED
  BY <1>1, <1>2, <1>3, <1>4, <1>5, <1>6, <1>7 DEF Next

\* SourceInv holds in every state: what each entry of the cache, each query and
\* each answer says of the cluster was true of it.
THEOREM SourceInvariance == Spec => []SourceInv
  BY SourceInit, SourceStep, PTL DEF Spec

-------------------------------------------------------------------------------
(* The properties. *)

\* The state has its type: no entry outlives its lifetime or precedes the cache,
\* and no object is newer than the contents it is in.
THEOREM TypeCorrect == Spec => []TypeOK
<1>1. SourceInv => TypeOK
  <2> SUFFICES ASSUME SourceInv
               PROVE  TypeOK
    OBVIOUS
  <2>1. DOMAIN past = 1 .. Now
    BY DEF SourceInv, Typed, Now
  <2>2. \A i \in DOMAIN past : \A o \in past[i] : o.home \in Homes /\ o.rev <= i
    BY <2>1 DEF SourceInv, Placed
  <2>3. \A e \in entries : e.left \in 1 .. Duration
    BY DEF SourceInv, Typed, EntryType
  <2>4. calls <= MaxCalls
    <3>1. MaxCalls \in Nat
      BY SourceAssumption
    <3> QED
      BY <3>1 DEF SourceInv, Typed
  <2> QED
    BY <2>2, <2>3, <2>4 DEF TypeOK, SourceInv, Typed
<1> QED
  BY <1>1, SourceInvariance, PTL

\* What a worker that has answered says.
LEMMA AnsweredTrue ==
  ASSUME SourceInv, NEW r \in Answers
  PROVE  r \in CallType /\ AnswerTrue(r) /\ AnswerFresh(r)
<1>1. PICK w \in Worker : r = call[w] /\ r.pc = "answered"
  BY DEF Answers, At
<1>2. r \in CallType /\ CallTrue(r)
  BY <1>1, BusyWorker
<1> QED
  BY <1>1, <1>2 DEF CallTrue

\* An answer that did not come from the cache is what the cluster held at one
\* moment of the query, for any number of workers and changes.
THEOREM UncachedCurrent == Spec => []UncachedAnswersAreCurrent
<1>1. SourceInv => UncachedAnswersAreCurrent
  <2> SUFFICES ASSUME SourceInv, NEW r \in Answers,
                      r.method = "SEARCH" \/ r.ignoreCache \/ ~r.answer.cached,
                      r.answer.error \in {"none", "NOTFOUND"}
               PROVE  \E rev \in r.since .. Now :
                        TrueAt(r, rev) /\ (r.answer.error = "NOTFOUND" <=>
                                             r.method = "GET" /\ r.answer.items = {})
    BY DEF UncachedAnswersAreCurrent
  <2>1. /\ WasAll(r)
        /\ r.answer.error = "NOTFOUND" <=> r.method = "GET" /\ r.answer.items = {}
    BY AnsweredTrue DEF AnswerFresh
  <2>2. r \in CallType
    BY AnsweredTrue
  <2>3. PICK rev \in r.since .. Now :
          /\ \A i \in r.answer.items : \E o \in past[rev] : About(o, r) /\ i = Item(o)
          /\ \A o \in past[rev] : About(o, r) => Item(o) \in r.answer.items
    BY <2>1 DEF WasAll
  <2>4. TrueAt(r, rev)
    BY <2>3, SelectedAbout DEF TrueAt
  <2> QED
    BY <2>1, <2>4
<1> QED
  BY <1>1, SourceInvariance, PTL

\* Whatever an answer says of a scope of the source, from the cache or not, was
\* true once, whoever stored it.
THEOREM AnswersTrue == Spec => []AnswersWereTrue
<1>1. SourceInv => AnswersWereTrue
  <2> SUFFICES ASSUME SourceInv, NEW r \in Answers, r.scope \in Scopes
               PROVE  /\ \A i \in r.answer.items :
                           /\ i.scope = r.scope /\ i.name \in r.names
                           /\ \E rev \in 1 .. Now :
                                i \in {Item(o) : o \in Selected(past[rev], r)}
                      /\ r.answer.error = "NOTFOUND" =>
                           \E rev \in 1 .. Now : Selected(past[rev], r) = {}
    BY DEF AnswersWereTrue
  <2>1. AnswerTrue(r)
    BY AnsweredTrue
  <2>2. ASSUME NEW i \in r.answer.items
        PROVE  /\ i.scope = r.scope /\ i.name \in r.names
               /\ \E rev \in 1 .. Now : i \in {Item(o) : o \in Selected(past[rev], r)}
    <3>1. PICK rev \in 1 .. Now : \E o \in past[rev] : About(o, r) /\ i = Item(o)
      BY <2>1, <2>2 DEF AnswerTrue, WasThere
    <3>2. PICK o \in past[rev] : About(o, r) /\ i = Item(o)
      BY <3>1
    <3>3. o.home \in Homes /\ o.home \in Interface(r.scope) /\ o.name \in r.names
      BY <3>2 DEF SourceInv, Placed, About
    <3>4. namespaced \in BOOLEAN
      BY DEF SourceInv, Typed
    <3>5. String(Scoped(Cluster, o.home)) = r.scope
      BY <3>3, <3>4, OfTheScope
    <3>6. i.scope = r.scope /\ i.name = o.name
      BY <3>2, <3>5 DEF Item
    <3>7. o \in Selected(past[rev], r)
      BY <3>2, SelectedAbout
    <3> QED
      BY <3>2, <3>3, <3>6, <3>7
  <2>3. ASSUME r.answer.error = "NOTFOUND"
        PROVE  \E rev \in 1 .. Now : Selected(past[rev], r) = {}
    <3>1. PICK rev \in 1 .. Now : \A o \in past[rev] : ~About(o, r)
      BY <2>1, <2>3 DEF AnswerTrue, WasAbsent
    <3> QED
      BY <3>1, SelectedAbout
  <2> QED
    BY <2>2, <2>3
<1> QED
  BY <1>1, SourceInvariance, PTL

\* What is stored takes only the place of the same.
LEMMA StoredKeeps ==
  ASSUME NEW e, entries' = Stored(e)
  PROVE  \A f \in entries : \E g \in entries' : SameSlot(f, g)
<1> SUFFICES ASSUME NEW f \in entries
             PROVE  \E g \in entries' : SameSlot(f, g)
  OBVIOUS
<1>1. SameSlot(f, f)
  BY DEF SameSlot
<1>2. CASE ready /\ SameSlot(e, f)
  <2>1. SameSlot(f, e)
    BY <1>2 DEF SameSlot
  <2> QED
    BY <1>2, <2>1 DEF Stored
<1>3. CASE ~(ready /\ SameSlot(e, f))
  <2>1. f \in entries'
    BY <1>3 DEF Stored
  <2> QED
    BY <1>1, <2>1
<1> QED
  BY <1>2, <1>3

\* No step of a query removes what another has stored: workers that start at the
\* same time make the cache once.
THEOREM NothingIsForgotten == Spec => NothingForgotten
<1> DEFINE Kept == \A e \in entries : \E f \in entries' : SameSlot(e, f)
<1>1. ASSUME SourceInv, [Next]_vars, call' # call
      PROVE  Kept
  <2>1. UNCHANGED entries => Kept
    BY DEF SameSlot
  <2>2. ASSUME NEW w \in Worker, NEW c, Query(w, c)
        PROVE  Kept
    <3>1. UNCHANGED entries
      BY <1>1, <2>2 DEF Query, EnsureCache, NewCache, SourceInv
    <3> QED
      BY <2>1, <3>1
  <2>3. ASSUME NEW w \in Worker, Work(w)
        PROVE  Kept
    <3>1. CASE Lookup(w) \/ StoredAll(w) \/ Return(w)
      BY <2>1, <3>1 DEF Lookup, StoredAll, Return
    <3>2. CASE Ask(w)
      BY <2>1, <3>2, StoredKeeps DEF Ask, Fails
    <3>3. CASE Store(w)
      BY <3>3, StoredKeeps DEF Store
    <3> QED
      BY <2>3, <3>1, <3>2, <3>3 DEF Work
  <2>4. ASSUME NEW w \in Worker, NEW scope \in Asked, SearchMalformed(w, scope)
        PROVE  Kept
    BY <2>2, <2>4 DEF SearchMalformed
  <2>5. ASSUME NEW home \in Homes, NEW n \in Name, PutObject(home, n)
        PROVE  Kept
    BY <1>1, <2>5 DEF PutObject, Becomes
  <2>6. ASSUME NEW o \in past[Now], DeleteObject(o)
        PROVE  Kept
    BY <1>1, <2>6 DEF DeleteObject, Becomes
  <2>7. ASSUME NEW w \in Worker, NEW method \in Methods, NEW scope \in Asked,
               NEW ignoreCache \in BOOLEAN, NEW names \in NamesOf(method),
               Query(w, Received(method, scope, names, ignoreCache))
        PROVE  Kept
    BY <2>2, <2>7
  <2>8. ~Tick
    BY <1>1 DEF Tick
  <2>9. Next
    BY <1>1
  <2> HIDE DEF Kept
  <2> QED
    BY <2>3, <2>4, <2>5, <2>6, <2>7, <2>8, <2>9 DEF Next
<1>2. SourceInv /\ [Next]_vars => [call' # call => Kept]_vars
  BY <1>1
<1> QED
  BY <1>2, SourceInvariance, PTL DEF Spec, NothingForgotten

-------------------------------------------------------------------------------
(* The source implements QueryService. *)

\* A text with one more section is longer.
LEMMA LongerText ==
  ASSUME NEW S, NEW t \in Seq(S), NEW s \in S
  PROVE  Append(t, s) # t
<1>1. Len(Append(t, s)) = Len(t) + 1 /\ Len(t) \in Nat
  OBVIOUS
<1> QED
  BY <1>1

\* Two texts with the same last section and the same rest.
LEMMA SameText ==
  ASSUME NEW S, NEW t \in Seq(S), NEW s \in S, NEW u \in S, Append(t, s) = Append(t, u)
  PROVE  s = u
<1>1. LastSection(Append(t, s)) = s /\ LastSection(Append(t, u)) = u
  BY WithoutLast
<1> QED
  BY <1>1

\* Sections of texts; the two that are no names of namespaces are named for the
\* provers, which do not know what is in STRING.
Section == STRING \cup {"", "x"}

LEMMA Sections ==
  /\ Cluster \in Seq(Section) /\ AnyHome \subseteq Section
  /\ \A s \in Section : <<s>> \in Seq(Section)
  /\ \A t \in Seq(Section), s \in Section : Append(t, s) \in Seq(Section)
<1>1. ASSUME NEW S
      PROVE  /\ \A s \in S : <<s>> \in Seq(S)
             /\ \A t \in Seq(S), s \in S : Append(t, s) \in Seq(S)
  OBVIOUS
<1>2. ASSUME NEW S, NEW T, S \subseteq T
      PROVE  Seq(S) \subseteq Seq(T)
  BY <1>2
<1>3. STRING \subseteq Section /\ AnyHome \subseteq Section
  <2>1. Namespaces \subseteq STRING
    BY SourceAssumption
  <2> QED
    BY <2>1, Zenon DEF Section, AnyHome
<1>4. Cluster \in Seq(STRING)
  BY SourceAssumption
<1> QED
  BY <1>1, <1>2, <1>3, <1>4

\* Scopes of different parts of the cluster are different.
LEMMA ScopesDiffer ==
  ASSUME NEW g \in Section, NEW h \in Section,
         String(Scoped(Cluster, g)) = String(Scoped(Cluster, h))
  PROVE  g = h
<1>1. Cluster \in Seq(Section)
  BY Sections
<1>2. \A k : String(Scoped(Cluster, k)) = IF k = "" THEN Cluster ELSE Append(Cluster, k)
  BY DEF String, Scoped
<1>3. CASE g = "" /\ h = ""
  BY <1>3
<1>4. CASE g # "" /\ h = ""
  <2>1. Append(Cluster, g) = Cluster
    BY <1>2, <1>4
  <2> QED
    BY <1>1, <2>1, LongerText
<1>5. CASE g = "" /\ h # ""
  <2>1. Append(Cluster, h) = Cluster
    BY <1>2, <1>5
  <2> QED
    BY <1>1, <2>1, LongerText
<1>6. CASE g # "" /\ h # ""
  <2>1. Append(Cluster, g) = Append(Cluster, h)
    BY <1>2, <1>6
  <2> QED
    BY <1>1, <2>1, SameText
<1> QED
  BY <1>3, <1>4, <1>5, <1>6

\* What a scope is read as is the section of a text.
LEMMA InterfaceReads ==
  ASSUME NEW scope \in AnyScope
  PROVE  Interface(scope) \subseteq Section
<1>1. scope \in Seq(Section)
  <2>1. CASE scope = <<"x">>
    <3>1. "x" \in Section
      BY DEF Section
    <3> QED
      BY <2>1, <3>1, Sections, Zenon
  <2>2. ASSUME NEW ns \in AnyHome, scope = String(Scoped(Cluster, ns))
        PROVE  scope \in Seq(Section)
    <3>1. scope = Cluster \/ scope = Append(Cluster, ns)
      BY <2>2, Zenon DEF String, Scoped
    <3> QED
      BY <3>1, Sections
  <2> QED
    BY <2>1, <2>2, Zenon DEF AnyScope
<1>2. CASE ~namespaced
  <2>1. Interface(scope) = {""}
    BY <1>2 DEF Interface
  <2> QED
    BY <2>1, Zenon DEF Section
<1>3. CASE namespaced /\ ~Parses(scope, TRUE)
  BY <1>3 DEF Interface
<1>4. CASE namespaced /\ Parses(scope, TRUE)
  <2>1. ParseScope(scope, TRUE) # NoScope
    BY <1>4 DEF Parses
  <2>2. ~(Len(scope) < 2) /\ ParseScope(scope, TRUE).Namespace = LastSection(scope)
    BY <2>1 DEF ParseScope, SectionsNeeded, Scoped
  <2>3. LastSection(scope) \in Section
    BY <1>1, <2>2 DEF LastSection
  <2> QED
    BY <1>4, <2>2, <2>3 DEF Interface
<1> QED
  BY <1>2, <1>3, <1>4

\* What a worker may be asked about is in the scopes of items, or nowhere.
LEMMA AskedScopes ==
  ASSUME namespaced \in BOOLEAN, NEW scope \in Asked
  PROVE  Interface(scope) \subseteq Namespaces \cup {""}
<1>1. CASE ~namespaced
  BY <1>1 DEF Interface
<1>2. CASE namespaced /\ scope = <<"x">>
  <2>1. Len(scope) < 2
    BY <1>2
  <2>2. ~Parses(scope, TRUE)
    BY <2>1 DEF Parses, ParseScope, SectionsNeeded
  <2> QED
    BY <1>2, <2>2 DEF Interface
<1>3. CASE namespaced /\ scope \in Scopes
  <2>1. PICK ns \in Namespaces : scope = String(Scoped(Cluster, ns))
    BY <1>3 DEF Scopes
  <2>2. ParseScope(scope, TRUE) = Scoped(Cluster, ns)
    BY <2>1, SourceAssumption, NamespacedRoundTrip DEF IsText
  <2>3. Scoped(Cluster, ns).Namespace = ns
    BY DEF Scoped
  <2> QED
    BY <1>3, <2>2, <2>3 DEF Interface
<1> QED
  BY <1>1, <1>2, <1>3 DEF Asked

\* The contents of the cluster as those who query see them.
LEMMA ToldOf ==
  ASSUME NEW p \in Seq(SUBSET ObjectType), NEW t,
         t = [rev \in 1 .. Len(p) |-> {Item(o) : o \in p[rev]}]
  PROVE  /\ Len(t) = Len(p)
         /\ \A rev \in 1 .. Len(p) : t[rev] = {Item(o) : o \in p[rev]}
<1>1. \A rev \in 1 .. Len(p) : {Item(o) : o \in p[rev]} \in SUBSET ItemType
  BY ItemTyped
<1>2. t \in [1 .. Len(p) -> SUBSET ItemType] /\ DOMAIN t = 1 .. Len(p) /\ Len(p) \in Nat
  BY <1>1
<1>3. t \in Seq(SUBSET ItemType)
  BY <1>2, SeqDef
<1> QED
  BY <1>2, <1>3

LEMMA ToldFacts ==
  ASSUME Typed
  PROVE  /\ Now \in Nat \ {0} /\ Len(Told) = Now
         /\ \A rev \in 1 .. Now : Told[rev] = {Item(o) : o \in past[rev]}
<1>1. past \in Seq(SUBSET ObjectType) /\ past # <<>> /\ Now \in Nat \ {0}
  BY EmptySeq DEF Typed, Now
<1> QED
  BY <1>1, ToldOf DEF Told, Now

\* The item of an object is wanted if the query is about the object.
LEMMA WantedItem ==
  ASSUME NEW r \in CallType, NEW o \in ObjectType
  PROVE  /\ Item(o).scope \in QuerySeen(r).scopes
         /\ Item(o).name \in QuerySeen(r).names
         <=> About(o, r)
<1>1. r.pc # "idle" /\ r.scope \in AnyScope
  BY DEF CallType
<1>2. /\ QuerySeen(r).scopes = {String(Scoped(Cluster, home)) : home \in Interface(r.scope)}
      /\ QuerySeen(r).names = r.names
  BY <1>1 DEF QuerySeen
<1>3. Item(o).scope = String(Scoped(Cluster, o.home)) /\ Item(o).name = o.name
  BY DEF Item
<1>4. o.home \in Section
  BY Sections DEF ObjectType
<1>5. Interface(r.scope) \subseteq Section
  BY <1>1, InterfaceReads
<1>6. Item(o).scope \in QuerySeen(r).scopes <=> o.home \in Interface(r.scope)
  BY <1>2, <1>3, <1>4, <1>5, ScopesDiffer
<1> QED
  BY <1>2, <1>3, <1>6 DEF About

\* What a query wants of a moment are the items of the objects that it selects.
LEMMA WantedSeen ==
  ASSUME Typed, NEW r \in CallType, NEW rev \in 1 .. Now
  PROVE  Service!Wanted(rev, QuerySeen(r)) = {Item(o) : o \in Selected(past[rev], r)}
<1>1. Told[rev] = {Item(o) : o \in past[rev]}
  BY ToldFacts
<1>2. past[rev] \in SUBSET ObjectType
  BY DEF Typed, Now
<1>3. \A o \in past[rev] :
        Item(o).scope \in QuerySeen(r).scopes /\ Item(o).name \in QuerySeen(r).names
          <=> About(o, r)
  BY <1>2, WantedItem
<1>4. Selected(past[rev], r) = {o \in past[rev] : About(o, r)}
  BY SelectedAbout
<1>5. \A i : i \in Service!Wanted(rev, QuerySeen(r))
               <=> \E o \in past[rev] : About(o, r) /\ i = Item(o)
  BY <1>1, <1>3 DEF Service!Wanted
<1> QED
  BY <1>4, <1>5

\* How those who query see the step of one worker.
LEMMA SeenStep ==
  ASSUME Typed, NEW w \in Worker, NEW c \in CallType \cup {Idle}, Set(w, c),
         UNCHANGED <<namespaced, past>>
  PROVE  /\ Told' = Told
         /\ Stages' = [Stages EXCEPT ![w] = StageSeen(c)]
         /\ Queries' = [Queries EXCEPT ![w] = QuerySeen(c)]
         /\ Replies' = [Replies EXCEPT ![w] = AnswerSeen(c)]
<1>1. call' = [v \in Worker |-> IF v = w THEN c ELSE call[v]]
  BY DEF Typed, Set
<1>2. \A d : QuerySeen(d)' = QuerySeen(d)
  BY DEF QuerySeen, Interface
<1>3. Told' = Told
  BY DEF Told, Now
<1>4. Stages' = [Stages EXCEPT ![w] = StageSeen(c)]
  BY <1>1 DEF Stages
<1>5. Queries' = [Queries EXCEPT ![w] = QuerySeen(c)]
  BY <1>1, <1>2 DEF Queries
<1>6. Replies' = [Replies EXCEPT ![w] = AnswerSeen(c)]
  BY <1>1 DEF Replies
<1> QED
  BY <1>3, <1>4, <1>5, <1>6

\* A step of one worker of which those who query see nothing.
LEMMA UnseenStep ==
  ASSUME Typed, NEW w \in Worker, NEW c \in CallType, Set(w, c),
         UNCHANGED <<namespaced, past>>,
         StageSeen(c) = StageSeen(call[w]), QuerySeen(c) = QuerySeen(call[w]),
         AnswerSeen(c) = AnswerSeen(call[w])
  PROVE  UNCHANGED Service!vars
<1>1. /\ Told' = Told
      /\ Stages' = [Stages EXCEPT ![w] = StageSeen(c)]
      /\ Queries' = [Queries EXCEPT ![w] = QuerySeen(c)]
      /\ Replies' = [Replies EXCEPT ![w] = AnswerSeen(c)]
  BY SeenStep
<1>2. /\ Stages[w] = StageSeen(call[w]) /\ Queries[w] = QuerySeen(call[w])
      /\ Replies[w] = AnswerSeen(call[w])
  BY DEF Stages, Queries, Replies
<1>3. \A f : f = [v \in Worker |-> f[v]] => f = [f EXCEPT ![w] = f[w]]
  OBVIOUS
<1>4. /\ Stages = [v \in Worker |-> Stages[v]] /\ Queries = [v \in Worker |-> Queries[v]]
      /\ Replies = [v \in Worker |-> Replies[v]]
  BY DEF Stages, Queries, Replies
<1> QED
  BY <1>1, <1>2, <1>3, <1>4 DEF Service!vars

\* The query does not change while it is worked on.
LEMMA QuerySame ==
  ASSUME NEW r \in CallType, NEW c \in CallType, c.scope = r.scope, c.names = r.names,
         c.method = r.method, c.ignoreCache = r.ignoreCache
  PROVE  QuerySeen(c) = QuerySeen(r)
<1>1. c.pc # "idle" /\ r.pc # "idle"
  BY DEF CallType
<1> QED
  BY <1>1, Zenon DEF QuerySeen

\* What a step decides.
LEMMA DecideStep ==
  ASSUME Typed, NEW w \in Worker, NEW r \in CallType, call[w] = r,
         r.pc \in {"lookup", "ask"},
         NEW c \in CallType, Set(w, c), c.pc \in {"store", "answered"},
         QuerySeen(c) = QuerySeen(r), UNCHANGED <<namespaced, past>>,
         \/ Service!Found(QuerySeen(r), AnswerSeen(c))
         \/ Service!Absent(QuerySeen(r), AnswerSeen(c))
         \/ Service!Failed(QuerySeen(r), AnswerSeen(c))
         \/ Service!Recalled(QuerySeen(r), AnswerSeen(c))
  PROVE  Service!Decide(w)
<1>1. /\ Told' = Told
      /\ Stages' = [Stages EXCEPT ![w] = StageSeen(c)]
      /\ Queries' = [Queries EXCEPT ![w] = QuerySeen(c)]
      /\ Replies' = [Replies EXCEPT ![w] = AnswerSeen(c)]
  BY SeenStep
<1>2. /\ Stages[w] = StageSeen(r) /\ Queries[w] = QuerySeen(r)
      /\ Queries = [v \in Worker |-> Queries[v]] /\ Replies = [v \in Worker |-> Replies[v]]
  BY DEF Stages, Queries, Replies
<1>3. StageSeen(r) = "asked" /\ StageSeen(c) = "answered"
  BY DEF StageSeen
<1>4. Replies'[w] = AnswerSeen(c)
  BY <1>1, <1>2
<1>5. Queries' = Queries
  BY <1>1, <1>2
<1>6. Service!Move(w, "asked", "answered")
  BY <1>1, <1>2, <1>3 DEF Service!Move
<1>7. Service!SetAnswer(w, Replies'[w])
  BY <1>1, <1>4 DEF Service!SetAnswer
<1> QED
  BY <1>2, <1>4, <1>5, <1>6, <1>7 DEF Service!Decide

-------------------------------------------------------------------------------
(* The steps, as those who query see them. *)

Served == Service!Next \/ UNCHANGED Service!vars

\* A step of a worker.
LEMMA WorkerServed ==
  ASSUME NEW w \in Worker,
         Service!Ask(w) \/ Service!Refuse(w) \/ Service!Decide(w) \/ Service!Return(w)
  PROVE  Served
  BY DEF Served, Service!Next

\* A query has its names, and a scope that is read or not.
LEMMA SeenFacts ==
  ASSUME NEW r \in CallType
  PROVE  /\ QuerySeen(r).scopes = {} <=> Interface(r.scope) = {}
         /\ QuerySeen(r).number = "one" <=> r.method = "GET"
<1>1. r.pc # "idle"
  BY DEF CallType
<1>2. /\ QuerySeen(r).scopes = {String(Scoped(Cluster, home)) : home \in Interface(r.scope)}
      /\ QuerySeen(r).number = IF r.method = "GET" THEN "one" ELSE "many"
  BY <1>1 DEF QuerySeen
<1> QED
  BY <1>2

\* The cluster changes.
LEMMA ChangeServed ==
  ASSUME SourceInv, NEW objects, Becomes(objects), Typed'
  PROVE  Served
<1>1. past' = Append(past, objects) /\ UNCHANGED <<namespaced, call>>
  BY DEF Becomes
<1>2. Typed
  BY DEF SourceInv
<1>3. /\ Now \in Nat /\ Now' = Now + 1
      /\ \A rev \in 1 .. Now : past'[rev] = past[rev]
  BY <1>1, <1>2 DEF Typed, Now
<1>4. /\ Len(Told) = Now
      /\ \A rev \in 1 .. Now : Told[rev] = {Item(o) : o \in past[rev]}
  BY <1>2, ToldFacts
<1>5. /\ Len(Told') = Now'
      /\ \A rev \in 1 .. Now' : Told'[rev] = {Item(o) : o \in past'[rev]}
  <2>1. past' \in Seq(SUBSET ObjectType)
    BY DEF Typed
  <2> QED
    BY <2>1, ToldOf DEF Told, Now
<1>6. ASSUME NEW rev \in 1 .. Now
      PROVE  Told'[rev] = Told[rev]
  <2>1. rev \in 1 .. Now' /\ past'[rev] = past[rev]
    BY <1>3
  <2>2. Told'[rev] = {Item(o) : o \in past'[rev]}
    BY <1>5, <2>1
  <2>3. Told[rev] = {Item(o) : o \in past[rev]}
    BY <1>4
  <2> QED
    BY <2>1, <2>2, <2>3
<1>7. UNCHANGED <<Stages, Queries, Replies>>
  <2>1. \A d : QuerySeen(d)' = QuerySeen(d)
    BY <1>1 DEF QuerySeen, Interface
  <2> QED
    BY <1>1, <2>1 DEF Stages, Queries, Replies
<1>8. Service!Change
  BY <1>3, <1>4, <1>5, <1>6, <1>7 DEF Service!Change, Service!Now
<1> QED
  BY <1>8 DEF Served, Service!Next

\* A query begins.
LEMMA QueryServed ==
  ASSUME SourceInv, NEW w \in Worker, NEW scope \in Asked, NEW names \in SUBSET Name,
         NEW c \in CallType, c.scope = scope, c.names = names, Query(w, c),
         \/ c.pc \in {"lookup", "ask"} /\ c.answer = NoAnswer
         \/ c.pc = "answered" /\ AnswerSeen(c) = Service!Error("MALFORMED")
  PROVE  Served
<1>1. Set(w, c) /\ UNCHANGED <<namespaced, past>> /\ call[w].pc = "idle"
  BY DEF Query, At
<1>2. Typed /\ namespaced \in BOOLEAN
  BY DEF SourceInv, Typed
<1>3. /\ Told' = Told
      /\ Stages' = [Stages EXCEPT ![w] = StageSeen(c)]
      /\ Queries' = [Queries EXCEPT ![w] = QuerySeen(c)]
      /\ Replies' = [Replies EXCEPT ![w] = AnswerSeen(c)]
  BY <1>1, <1>2, SeenStep
<1>4. call[w] = Idle
  BY <1>1, <1>2 DEF Typed, CallType
<1>5. /\ Stages[w] = StageSeen(Idle) /\ Replies[w] = AnswerSeen(Idle)
      /\ Queries = [v \in Worker |-> Queries[v]] /\ Replies = [v \in Worker |-> Replies[v]]
  BY <1>4 DEF Stages, Queries, Replies
<1>6. StageSeen(Idle) = "idle"
  BY DEF StageSeen, Idle
<1>7. Queries'[w] = QuerySeen(c)
  BY <1>3, <1>5
<1>8. QuerySeen(c) \in Service!Query
  <2>1. c.pc # "idle"
    BY DEF CallType
  <2>2. PICK number \in {"one", "many"} :
          number = IF c.method = "GET" THEN "one" ELSE "many"
    OBVIOUS
  <2>3. PICK sees \in {"now", "past"} :
          sees = IF c.method = "SEARCH" \/ c.ignoreCache THEN "now" ELSE "past"
    BY Zenon
  <2>4. PICK scopes \in SUBSET ItemScopes :
          scopes = {String(Scoped(Cluster, home)) : home \in Interface(c.scope)}
    BY <1>2, AskedScopes, Zenon DEF ItemScopes
  <2>5. QuerySeen(c) = [scopes |-> scopes, names |-> names, number |-> number, sees |-> sees]
    BY <2>1, <2>2, <2>3, <2>4, Zenon DEF QuerySeen
  <2> QED
    BY <2>5 DEF Service!Query
<1>9. Service!SetQuery(w, Queries'[w])
  BY <1>3, <1>7 DEF Service!SetQuery
<1>10. CASE c.pc \in {"lookup", "ask"} /\ c.answer = NoAnswer
  <2>1. StageSeen(c) = "asked"
    BY <1>10 DEF StageSeen
  <2>2. AnswerSeen(c) = AnswerSeen(Idle)
    BY <1>10 DEF AnswerSeen, Idle
  <2>3. UNCHANGED Replies
    BY <1>3, <1>5, <2>2
  <2>4. Service!Move(w, "idle", "asked")
    BY <1>3, <1>5, <1>6, <2>1 DEF Service!Move
  <2>5. Service!Ask(w)
    BY <1>7, <1>8, <1>9, <2>3, <2>4 DEF Service!Ask
  <2> QED
    BY <2>5, WorkerServed
<1>11. CASE c.pc = "answered" /\ AnswerSeen(c) = Service!Error("MALFORMED")
  <2>1. StageSeen(c) = "answered"
    BY <1>11 DEF StageSeen
  <2>2. Service!Move(w, "idle", "answered")
    BY <1>3, <1>5, <1>6, <2>1 DEF Service!Move
  <2>3. Service!SetAnswer(w, Service!Error("MALFORMED"))
    BY <1>3, <1>11 DEF Service!SetAnswer
  <2>4. Service!Refuse(w)
    BY <1>7, <1>8, <1>9, <2>2, <2>3 DEF Service!Refuse
  <2> QED
    BY <2>4, WorkerServed
<1> QED
  BY <1>10, <1>11

\* A worker takes a query, well formed or not.
LEMMA TakeServed ==
  ASSUME SourceInv, NEW w \in Worker, NEW method \in Methods, NEW scope \in Asked,
         NEW ignoreCache \in BOOLEAN, NEW names \in NamesOf(method),
         Query(w, Received(method, scope, names, ignoreCache))
  PROVE  Served
<1>1. names \in SUBSET Name
  BY DEF NamesOf, Methods
<1>2. PICK c \in CallType :
        c = Received(method, scope, names, ignoreCache) /\ CallTrue(c)
  BY <1>1, ReceivedTyped
<1>3. /\ c.scope = scope /\ c.names = names /\ c.answer = NoAnswer
      /\ c.pc \in {"lookup", "ask"}
  BY <1>2, Zenon DEF Received
<1> QED
  BY <1>1, <1>2, <1>3, QueryServed

LEMMA MalformedServed ==
  ASSUME SourceInv, NEW w \in Worker, NEW scope \in Asked, SearchMalformed(w, scope)
  PROVE  Served
<1>1. PICK none \in SUBSET Name : none = {}
  OBVIOUS
<1>2. PICK no \in BOOLEAN : no = FALSE
  OBVIOUS
<1>3. PICK nothing \in SUBSET ItemType : nothing = {}
  OBVIOUS
<1>4. PICK method \in Methods : method = "SEARCH"
  BY DEF Methods
<1>5. PICK error \in Errors \cup {"none", "MALFORMED"} : error = "MALFORMED"
  OBVIOUS
<1>6. PICK r \in CallType : r = Received(method, scope, none, no)
  BY ReceivedTyped
<1>7. PICK c \in CallType :
        /\ c = Answered(r, nothing, error, no)
        /\ c.pc = "answered" /\ c.scope = r.scope /\ c.names = r.names
        /\ c.answer.items = nothing /\ c.answer.error = error
  BY AnswerTyped
<1>8. c = Answered(Received("SEARCH", scope, {}, FALSE), {}, "MALFORMED", FALSE)
  BY <1>1, <1>2, <1>3, <1>4, <1>5, <1>6, <1>7, Zenon
<1>9. r.scope = scope /\ r.names = none
  BY <1>6, Zenon DEF Received
<1>10. AnswerSeen(c) = Service!Error("MALFORMED")
  BY <1>3, <1>5, <1>7 DEF AnswerSeen, Service!Error
<1>11. Query(w, c)
  BY <1>8 DEF SearchMalformed
<1> QED
  BY <1>7, <1>9, <1>10, <1>11, QueryServed

\* The items of an entry are wanted by the query that it is found for.
LEMMA WasWanted ==
  ASSUME Typed, NEW r \in CallType, NEW i, WasThere(i, r)
  PROVE  \E rev \in 1 .. Now : i \in Service!Wanted(rev, QuerySeen(r))
<1>1. PICK rev \in 1 .. Now : \E o \in past[rev] : About(o, r) /\ i = Item(o)
  BY DEF WasThere
<1>2. i \in {Item(o) : o \in Selected(past[rev], r)}
  BY <1>1, SelectedAbout
<1> QED
  BY <1>2, WantedSeen

\* Nothing was wanted when there was nothing.
LEMMA WasNotWanted ==
  ASSUME Typed, NEW r \in CallType, WasAbsent(r)
  PROVE  \E rev \in 1 .. Now : Service!Wanted(rev, QuerySeen(r)) = {}
<1>1. PICK rev \in 1 .. Now : \A o \in past[rev] : ~About(o, r)
  BY DEF WasAbsent
<1>2. Selected(past[rev], r) = {}
  BY <1>1, SelectedAbout
<1>3. Service!Wanted(rev, QuerySeen(r)) = {Item(o) : o \in Selected(past[rev], r)}
  BY WantedSeen
<1> QED
  BY <1>2, <1>3

\* The cache answers a query with what it knows from before.
LEMMA CachedServed ==
  ASSUME SourceInv, NEW w \in Worker, NEW r \in CallType, call[w] = r, r.pc = "lookup",
         r.method # "SEARCH", ~r.ignoreCache,
         NEW items \in SUBSET ItemType, NEW error \in Errors \cup {"none"},
         \A i \in items : WasThere(i, r), error = "NOTFOUND" => WasAbsent(r),
         error # "none" => items = {},
         error = "none" => /\ items # {}
                           /\ r.method = "GET" => \E i \in items : items = {i},
         Set(w, Answered(r, items, error, TRUE)), UNCHANGED <<namespaced, past>>
  PROVE  Served
<1>1. PICK yes \in BOOLEAN : yes = TRUE
  OBVIOUS
<1>2. error \in Errors \cup {"none", "MALFORMED"}
  OBVIOUS
<1>3. PICK c \in CallType :
        /\ c = Answered(r, items, error, yes)
        /\ c.pc = "answered"
        /\ c.scope = r.scope /\ c.names = r.names /\ c.method = r.method
        /\ c.ignoreCache = r.ignoreCache /\ c.since = r.since
        /\ c.answer.items = items /\ c.answer.error = error
        /\ c.answer.cached = yes
  BY <1>2, AnswerTyped
<1>4. Set(w, c)
  BY <1>1, <1>3, Zenon
<1>5. QuerySeen(c) = QuerySeen(r)
  BY <1>3, QuerySame
<1> DEFINE a == AnswerSeen(c)
           q == QuerySeen(r)
<1>6. a = [items |-> items, error |-> error]
  BY <1>3 DEF AnswerSeen
<1>7. q.sees = "past"
  <2>1. r.pc # "idle" /\ ~(r.method = "SEARCH" \/ r.ignoreCache)
    OBVIOUS
  <2> QED
    BY <2>1, Zenon DEF QuerySeen
<1>8. Typed /\ Len(Told) = Now
  BY ToldFacts DEF SourceInv
<1>9. q.number = "one" <=> r.method = "GET"
  BY SeenFacts
<1> HIDE DEF a, q
<1>10. ASSUME error = "none"
       PROVE  Service!Recalled(q, a)
  <2>1. \A i \in items : \E rev \in 1 .. Now : i \in Service!Wanted(rev, q)
    BY <1>8, WasWanted DEF q
  <2> QED
    BY <1>6, <1>7, <1>8, <1>9, <1>10, <2>1 DEF Service!Recalled, Service!Now
<1>11. ASSUME error = "NOTFOUND"
       PROVE  Service!Recalled(q, a)
  <2>1. \E rev \in 1 .. Now : Service!Wanted(rev, q) = {}
    BY <1>8, <1>11, WasNotWanted DEF q
  <2>2. a = Service!Error("NOTFOUND")
    BY <1>6, <1>11 DEF Service!Error
  <2> QED
    BY <1>7, <1>8, <2>1, <2>2 DEF Service!Recalled, Service!Now
<1>12. ASSUME error \in {"NOSCOPE", "OTHER"}
       PROVE  Service!Recalled(q, a)
  <2>1. a \in {Service!Error("NOSCOPE"), Service!Error("OTHER")}
    BY <1>6, <1>12 DEF Service!Error
  <2> QED
    BY <1>7, <2>1 DEF Service!Recalled
<1>13. Service!Recalled(q, a)
  BY <1>10, <1>11, <1>12 DEF Errors
<1>14. Service!Decide(w)
  BY <1>3, <1>4, <1>5, <1>8, <1>13, DecideStep DEF a, q
<1> QED
  BY <1>14, WorkerServed

\* A query that fails: in its scope, at the call, or for there is no such object.
LEMMA FailServed ==
  ASSUME SourceInv, NEW w \in Worker, NEW r \in CallType, call[w] = r, r.pc = "ask",
         NEW error \in Errors,
         error = "NOSCOPE" <=> Interface(r.scope) = {},
         error = "NOTFOUND" => r.method = "GET" /\ Selected(past[Now], r) = {},
         Fails(w, error), UNCHANGED <<namespaced, past>>
  PROVE  Served
<1>1. PICK none \in SUBSET ItemType : none = {}
  OBVIOUS
<1>2. PICK no \in BOOLEAN : no = FALSE
  OBVIOUS
<1>3. error \in Errors \cup {"none", "MALFORMED"}
  OBVIOUS
<1>4. PICK c \in CallType :
        /\ c = Answered(r, none, error, no)
        /\ c.pc = "answered"
        /\ c.scope = r.scope /\ c.names = r.names /\ c.method = r.method
        /\ c.ignoreCache = r.ignoreCache
        /\ c.answer.items = none /\ c.answer.error = error
  BY <1>3, AnswerTyped
<1>5. c = Answered(r, {}, error, FALSE)
  BY <1>1, <1>2, <1>4, Zenon
<1>6. Set(w, c)
  BY <1>5 DEF Fails
<1>7. QuerySeen(c) = QuerySeen(r)
  BY <1>4, QuerySame
<1> DEFINE a == AnswerSeen(c)
           q == QuerySeen(r)
<1>8. a = Service!Error(error)
  BY <1>1, <1>4 DEF AnswerSeen, Service!Error
<1>9. Typed /\ Len(Told) = Now /\ Now \in 1 .. Now
  BY ToldFacts DEF SourceInv
<1>10. /\ q.number = "one" <=> r.method = "GET"
       /\ q.scopes = {} <=> Interface(r.scope) = {}
  BY SeenFacts
<1> HIDE DEF a, q
<1>11. ASSUME error = "NOTFOUND"
       PROVE  Service!Absent(q, a)
  <2>1. Service!Wanted(Now, q) = {Item(o) : o \in Selected(past[Now], r)}
    BY <1>9, WantedSeen DEF q
  <2>2. Service!Wanted(Service!Now, q) = {}
    BY <1>9, <1>11, <2>1 DEF Service!Now
  <2> QED
    BY <1>8, <1>10, <1>11, <2>2 DEF Service!Absent
<1>12. ASSUME error # "NOTFOUND"
       PROVE  Service!Failed(q, a)
  <2>1. error \in {"NOSCOPE", "OTHER"}
    BY <1>12 DEF Errors
  <2> QED
    BY <1>8, <1>10, <2>1 DEF Service!Failed
<1>13. Service!Decide(w)
  BY <1>4, <1>6, <1>7, <1>9, <1>11, <1>12, DecideStep DEF a, q
<1> QED
  BY <1>13, WorkerServed

\* The cache answers, or the query goes on to the API server unseen.
LEMMA LookupServed ==
  ASSUME SourceInv, NEW w \in Worker, Lookup(w)
  PROVE  Served
<1>1. call[w] \in CallType /\ CallTrue(call[w])
  BY BusyWorker DEF Lookup, At
<1>2. PICK r \in CallType : call[w] = r
  BY <1>1
<1>3. r.pc = "lookup" /\ r.method # "SEARCH"
  BY <1>1, <1>2 DEF Lookup, At, CallTrue
<1>4. UNCHANGED <<namespaced, past>> /\ Typed
  BY DEF Lookup, SourceInv
<1>5. CASE Set(w, [r EXCEPT !.pc = "ask"])
  <2>1. PICK pc \in {"ask", "answered"} : pc = "ask"
    OBVIOUS
  <2>2. PICK c \in CallType :
          /\ c = [r EXCEPT !.pc = pc]
          /\ c.pc = pc /\ c.answer = r.answer
          /\ c.method = r.method /\ c.scope = r.scope /\ c.names = r.names
          /\ c.since = r.since /\ c.ignoreCache = r.ignoreCache
    BY StepTyped
  <2>3. Set(w, c)
    BY <1>5, <2>1, <2>2
  <2>4. QuerySeen(c) = QuerySeen(r)
    BY <2>2, QuerySame
  <2>5. StageSeen(c) = StageSeen(r) /\ AnswerSeen(c) = AnswerSeen(r)
    BY <1>3, <2>1, <2>2 DEF StageSeen, AnswerSeen
  <2>6. UNCHANGED Service!vars
    BY <1>2, <1>4, <2>3, <2>4, <2>5, UnseenStep
  <2> QED
    BY <2>6 DEF Served
<1>6. ASSUME ~r.ignoreCache, NEW e \in OwnEntries(r), IsError(e),
             Set(w, Answered(r, {}, e.val.error, TRUE))
      PROVE  Served
  <2>1. PICK none \in SUBSET ItemType : none = {}
    OBVIOUS
  <2>2. PICK error \in Errors : e.val = [error |-> error]
    BY <1>6 DEF IsError
  <2>3. e.val.error = error /\ error # "none"
    BY <2>2 DEF Errors
  <2>4. error = "NOTFOUND" => WasAbsent(r)
    BY <2>2, OwnTrue
  <2>5. Set(w, Answered(r, none, error, TRUE))
    BY <1>6, <2>1, <2>3
  <2>6. \A i \in none : WasThere(i, r)
    BY <2>1
  <2> QED
    BY <1>2, <1>3, <1>4, <1>6, <2>1, <2>3, <2>4, <2>5, <2>6, CachedServed
<1>7. ASSUME ~r.ignoreCache, NEW e \in OwnEntries(r) \cup OtherItems(r), ~IsError(e),
             Set(w, Answered(r, {e.val}, "none", TRUE))
      PROVE  Served
  <2>1. e.val \in ItemType /\ WasThere(e.val, r)
    BY <1>7, OwnTrue, OtherTrue
  <2>2. PICK items \in SUBSET ItemType : items = {e.val}
    BY <2>1
  <2>3. PICK error \in Errors \cup {"none"} : error = "none"
    OBVIOUS
  <2>4. Set(w, Answered(r, items, error, TRUE))
    BY <1>7, <2>2, <2>3
  <2>5. \A i \in items : WasThere(i, r)
    BY <2>1, <2>2
  <2>6. items # {} /\ \E i \in items : items = {i}
    BY <2>2
  <2> QED
    BY <1>2, <1>3, <1>4, <1>7, <2>3, <2>4, <2>5, <2>6, CachedServed
<1>8. ASSUME ~r.ignoreCache, r.method = "LIST", NEW e \in OwnEntries(r), ~IsError(e),
             Set(w, Answered(r, {d.val : d \in {f \in OwnEntries(r) : ~IsError(f)}},
                             "none", TRUE))
      PROVE  Served
  <2> DEFINE found == {d.val : d \in {f \in OwnEntries(r) : ~IsError(f)}}
  <2>1. \A i \in found : i \in ItemType /\ WasThere(i, r)
    BY OwnTrue
  <2>2. PICK items \in SUBSET ItemType : items = found
    BY <2>1
  <2>3. PICK error \in Errors \cup {"none"} : error = "none"
    OBVIOUS
  <2>4. Set(w, Answered(r, items, error, TRUE))
    BY <1>8, <2>2, <2>3
  <2>5. \A i \in items : WasThere(i, r)
    BY <2>1, <2>2
  <2>6. items # {} /\ r.method # "GET"
    BY <1>8, <2>2
  <2> QED
    BY <1>2, <1>3, <1>4, <1>8, <2>3, <2>4, <2>5, <2>6, CachedServed
<1> QED
  BY <1>2, <1>5, <1>6, <1>7, <1>8 DEF Lookup

\* The API server answers: the query is decided when its items are known, before
\* they are stored.
LEMMA AskServed ==
  ASSUME SourceInv, NEW w \in Worker, Ask(w)
  PROVE  Served
<1>1. call[w] \in CallType /\ CallTrue(call[w])
  BY BusyWorker DEF Ask, At
<1>2. PICK r \in CallType : call[w] = r
  BY <1>1
<1>3. r.pc = "ask" /\ r.answer = NoAnswer
  BY <1>1, <1>2 DEF Ask, At, CallTrue
<1>4. UNCHANGED <<namespaced, past>> /\ Typed
  BY DEF Ask, SourceInv
<1>5. /\ Now \in Nat /\ Now \in 1 .. Now /\ past[Now] \in SUBSET ObjectType
      /\ Len(Told) = Now
  BY <1>4, ToldFacts DEF Typed, Now
<1> DEFINE os == Selected(past[Now], r)
<1>6. os \in SUBSET ObjectType
  BY <1>5 DEF Selected
<1> HIDE DEF os
<1>7. ASSUME NEW error \in Errors, error = "NOSCOPE" <=> Interface(r.scope) = {},
             error = "NOTFOUND" => r.method = "GET" /\ os = {}, Fails(w, error)
      PROVE  Served
  BY <1>2, <1>3, <1>4, <1>7, FailServed DEF os
<1>8. ASSUME Interface(r.scope) # {}, r.method = "GET" => os # {},
             Set(w, [r EXCEPT !.pc = "store", !.toStore = Converted(os),
                              !.answer.items = Converted(os)])
      PROVE  Served
  <2>1. PICK items \in SUBSET ItemType : items = Converted(os)
    BY <1>6, ItemTyped DEF Converted
  <2>2. PICK c \in CallType :
          /\ c = [r EXCEPT !.pc = "store", !.toStore = items, !.answer.items = items]
          /\ c.pc = "store" /\ c.toStore = items
          /\ c.answer.items = items /\ c.answer.error = r.answer.error
          /\ c.method = r.method /\ c.scope = r.scope /\ c.names = r.names
          /\ c.since = r.since /\ c.ignoreCache = r.ignoreCache
    BY ToStoreTyped
  <2>3. Set(w, c)
    BY <1>8, <2>1, <2>2
  <2>4. QuerySeen(c) = QuerySeen(r)
    BY <2>2, QuerySame
  <2> DEFINE a == AnswerSeen(c)
             q == QuerySeen(r)
  <2>5. a = [items |-> items, error |-> "none"] /\ a.items = items
    BY <1>3, <2>2 DEF AnswerSeen, NoAnswer
  <2>6. items = {Item(o) : o \in os}
    BY <2>1 DEF Converted
  <2>7. items = Service!Wanted(Service!Now, q)
    BY <1>4, <1>5, <2>6, WantedSeen DEF Service!Now, os
  <2>8. /\ q.number = "one" <=> r.method = "GET"
        /\ q.scopes = {} <=> Interface(r.scope) = {}
    BY SeenFacts
  <2>9. os # {} => items # {}
    BY <2>6
  <2> HIDE DEF a, q
  <2>10. Service!Found(q, a)
    BY <1>8, <2>5, <2>7, <2>8, <2>9 DEF Service!Found
  <2>11. Service!Decide(w)
    BY <1>2, <1>3, <1>4, <2>2, <2>3, <2>4, <2>10, DecideStep DEF a, q
  <2> QED
    BY <2>11, WorkerServed
<1>9. PICK noScope \in Errors : noScope = "NOSCOPE"
  BY DEF Errors
<1>10. PICK other \in Errors : other = "OTHER"
  BY DEF Errors
<1>11. PICK notFound \in Errors : notFound = "NOTFOUND"
  BY DEF Errors
<1>12. CASE Interface(r.scope) = {} /\ Fails(w, "NOSCOPE")
  <2>1. Fails(w, noScope)
    BY <1>9, <1>12
  <2> QED
    BY <1>7, <1>9, <1>12, <2>1
<1>13. CASE Interface(r.scope) # {} /\ Fails(w, "OTHER")
  <2>1. Fails(w, other)
    BY <1>10, <1>13
  <2> QED
    BY <1>7, <1>10, <1>13, <2>1
<1>14. CASE Interface(r.scope) # {} /\ r.method = "GET" /\ os = {} /\ Fails(w, "NOTFOUND")
  <2>1. Fails(w, notFound)
    BY <1>11, <1>14
  <2> QED
    BY <1>7, <1>11, <1>14, <2>1
<1> QED
  BY <1>2, <1>8, <1>12, <1>13, <1>14 DEF Ask, os

\* An item is stored, or all are: those who query see nothing of it.
LEMMA StoreServed ==
  ASSUME SourceInv, NEW w \in Worker, Store(w) \/ StoredAll(w)
  PROVE  Served
<1>1. call[w] \in CallType /\ CallTrue(call[w])
  BY BusyWorker DEF Store, StoredAll, At
<1>2. PICK r \in CallType : call[w] = r
  BY <1>1
<1>3. r.pc = "store"
  BY <1>2 DEF Store, StoredAll, At
<1>4. UNCHANGED <<namespaced, past>> /\ Typed
  BY DEF Store, StoredAll, SourceInv
<1>5. \E c \in CallType :
        /\ Set(w, c) /\ c.pc \in {"store", "answered"} /\ c.answer = r.answer
        /\ c.method = r.method /\ c.scope = r.scope /\ c.names = r.names
        /\ c.ignoreCache = r.ignoreCache
  <2>1. CASE Store(w)
    <3>1. PICK i \in r.toStore : Set(w, [r EXCEPT !.toStore = @ \ {i}])
      BY <1>2, <2>1 DEF Store
    <3>2. PICK c \in CallType :
            /\ c = [r EXCEPT !.toStore = @ \ {i}]
            /\ c.toStore = r.toStore \ {i} /\ c.pc = r.pc /\ c.answer = r.answer
            /\ c.method = r.method /\ c.scope = r.scope /\ c.names = r.names
            /\ c.since = r.since /\ c.ignoreCache = r.ignoreCache
      BY LessToStoreTyped
    <3> QED
      BY <1>3, <3>1, <3>2
  <2>2. CASE StoredAll(w)
    <3>1. PICK pc \in {"ask", "answered"} : pc = "answered"
      OBVIOUS
    <3>2. PICK c \in CallType :
            /\ c = [r EXCEPT !.pc = pc]
            /\ c.pc = pc /\ c.answer = r.answer
            /\ c.method = r.method /\ c.scope = r.scope /\ c.names = r.names
            /\ c.since = r.since /\ c.ignoreCache = r.ignoreCache
      BY StepTyped
    <3>3. Set(w, c)
      BY <1>2, <2>2, <3>1, <3>2 DEF StoredAll
    <3> QED
      BY <3>1, <3>2, <3>3
  <2> QED
    BY <2>1, <2>2
<1>6. PICK c \in CallType :
        /\ Set(w, c) /\ c.pc \in {"store", "answered"} /\ c.answer = r.answer
        /\ c.method = r.method /\ c.scope = r.scope /\ c.names = r.names
        /\ c.ignoreCache = r.ignoreCache
  BY <1>5
<1>7. QuerySeen(c) = QuerySeen(r)
  BY <1>6, QuerySame
<1>8. StageSeen(c) = StageSeen(r) /\ AnswerSeen(c) = AnswerSeen(r)
  BY <1>3, <1>6 DEF StageSeen, AnswerSeen
<1>9. UNCHANGED Service!vars
  BY <1>2, <1>4, <1>6, <1>7, <1>8, UnseenStep
<1> QED
  BY <1>9 DEF Served

\* The answer is given.
LEMMA ReturnServed ==
  ASSUME SourceInv, NEW w \in Worker, Return(w)
  PROVE  Served
<1>1. call[w].pc = "answered" /\ Set(w, Idle) /\ UNCHANGED <<namespaced, past>> /\ Typed
  BY DEF Return, At, SourceInv
<1>2. /\ Told' = Told
      /\ Stages' = [Stages EXCEPT ![w] = StageSeen(Idle)]
      /\ Queries' = [Queries EXCEPT ![w] = QuerySeen(Idle)]
      /\ Replies' = [Replies EXCEPT ![w] = AnswerSeen(Idle)]
  BY <1>1, SeenStep
<1>3. Stages[w] = "answered"
  BY <1>1 DEF Stages, StageSeen
<1>4. /\ StageSeen(Idle) = "idle" /\ QuerySeen(Idle) = Service!NoQuery
      /\ AnswerSeen(Idle) = Service!NoAnswer
  BY DEF StageSeen, QuerySeen, AnswerSeen, Idle, NoAnswer, Service!NoQuery,
         Service!NoAnswer
<1>5. Service!Move(w, "answered", "idle")
  BY <1>2, <1>3, <1>4 DEF Service!Move
<1>6. Service!SetQuery(w, Service!NoQuery)
  BY <1>2, <1>4 DEF Service!SetQuery
<1>7. Service!SetAnswer(w, Service!NoAnswer)
  BY <1>2, <1>4 DEF Service!SetAnswer
<1>8. Service!Return(w)
  BY <1>5, <1>6, <1>7 DEF Service!Return
<1> QED
  BY <1>8, WorkerServed

LEMMA ServedInit == Init => Service!Init
<1> SUFFICES ASSUME Init
             PROVE  Service!Init
  OBVIOUS
<1>1. call = [w \in Worker |-> Idle] /\ Len(past) = 1
  BY DEF Init
<1>2. Service!Now = 1
  BY <1>1, SourceInit, ToldFacts DEF SourceInv, Now, Service!Now
<1>3. /\ StageSeen(Idle) = "idle" /\ QuerySeen(Idle) = Service!NoQuery
      /\ AnswerSeen(Idle) = Service!NoAnswer
  BY DEF StageSeen, QuerySeen, AnswerSeen, Idle, NoAnswer, Service!NoQuery,
         Service!NoAnswer
<1> QED
  BY <1>1, <1>2, <1>3 DEF Service!Init, Stages, Queries, Replies

LEMMA ServedStep == SourceInv /\ [Next]_vars => Served
<1> SUFFICES ASSUME SourceInv, [Next]_vars
             PROVE  Served
  OBVIOUS
<1>1. Typed'
  BY SourceStep DEF SourceInv
<1>2. ASSUME NEW home \in Homes, NEW n \in Name, PutObject(home, n)
      PROVE  Served
  BY <1>1, <1>2, ChangeServed DEF PutObject
<1>3. ASSUME NEW o \in past[Now], DeleteObject(o)
      PROVE  Served
  BY <1>1, <1>3, ChangeServed DEF DeleteObject
<1>4. CASE UNCHANGED <<namespaced, past, call>>
  <2>1. \A d : QuerySeen(d)' = QuerySeen(d)
    BY <1>4 DEF QuerySeen, Interface
  <2>2. UNCHANGED Service!vars
    BY <1>4, <2>1 DEF Service!vars, Told, Stages, Queries, Replies, Now
  <2> QED
    BY <2>2 DEF Served
<1>5. ASSUME NEW w \in Worker, NEW method \in Methods, NEW scope \in Asked,
             NEW ignoreCache \in BOOLEAN, NEW names \in NamesOf(method),
             Query(w, Received(method, scope, names, ignoreCache))
      PROVE  Served
  BY <1>5, TakeServed
<1>6. ASSUME NEW w \in Worker, NEW scope \in Asked, SearchMalformed(w, scope)
      PROVE  Served
  BY <1>6, MalformedServed
<1>7. ASSUME NEW w \in Worker, Work(w)
      PROVE  Served
  BY <1>7, LookupServed, AskServed, StoreServed, ReturnServed DEF Work
<1>8. CASE Tick
  BY <1>4, <1>8 DEF Tick
<1>9. CASE UNCHANGED vars
  BY <1>4, <1>9
<1> QED
  BY <1>2, <1>3, <1>5, <1>6, <1>7, <1>8, <1>9 DEF Next

\* A source with its cache, its mutex and its calls implements QueryService: for any
\* number of workers, names, namespaces, changes and queries, each query is decided
\* at one moment, by what the cluster holds then or, if it may be answered by the
\* cache, by what the cluster held once.
THEOREM ServiceRefinement == Spec => ImplementsService
  BY ServedInit, ServedStep, SourceInvariance, PTL
     DEF Spec, ImplementsService, Service!Spec, Served

===============================================================================

----------------------------- MODULE QueryService -----------------------------
(***************************************************************************)
(* What a source promises to those who query it (sources/generic_source.go *)
(* without its cache, its lock, its API calls and their order): each query *)
(* is decided at one moment between its start and its end.  What it finds  *)
(* then is what the cluster holds at that moment, or, if the query allows  *)
(* it, what the cluster has held before.                                   *)
(***************************************************************************)
EXTENDS Integers, Sequences

CONSTANTS
  Worker,  \* those who query
  Scope,   \* the scopes that items can have
  Name     \* the names that items can have

VARIABLES
  past,   \* the items that the cluster has held, from its first contents to now
  stage,  \* of each worker's query: "idle", "asked" or "answered"
  query,  \* each worker's query
  answer  \* and its answer

vars == <<past, stage, query, answer>>

Now == Len(past)

\* A query for one item or for many, which sees those of now or of the past, too.
Query ==
  [scopes : SUBSET Scope, names : SUBSET Name,
   number : {"one", "many"}, sees : {"now", "past"}]

NoQuery  == [scopes |-> {}, names |-> {}, number |-> "many", sees |-> "now"]
NoAnswer == [items |-> {}, error |-> "none"]
Error(e) == [items |-> {}, error |-> e]

Wanted(rev, q) == {i \in past[rev] : i.scope \in q.scopes /\ i.name \in q.names}

Init ==
  /\ Now = 1
  /\ stage = [w \in Worker |-> "idle"]
  /\ query = [w \in Worker |-> NoQuery] /\ answer = [w \in Worker |-> NoAnswer]

Change ==
  /\ Now' = Now + 1
  /\ \A rev \in 1 .. Now : past'[rev] = past[rev]
  /\ UNCHANGED <<stage, query, answer>>

Move(w, from, to) == stage[w] = from /\ stage' = [stage EXCEPT ![w] = to]
SetQuery(w, q)    == query' = [query EXCEPT ![w] = q] /\ UNCHANGED past
SetAnswer(w, a)   == answer' = [answer EXCEPT ![w] = a] /\ UNCHANGED past

Ask(w) ==
  /\ Move(w, "idle", "asked")
  /\ query'[w] \in Query /\ SetQuery(w, query'[w])
  /\ UNCHANGED answer

\* A query that is not understood.
Refuse(w) ==
  /\ Move(w, "idle", "answered")
  /\ query'[w] \in Query /\ SetQuery(w, query'[w])
  /\ SetAnswer(w, Error("MALFORMED"))

\* What may be answered to a query: what there is, that there is nothing, that it
\* failed ...
Found(q, a) ==
  /\ q.scopes # {}
  /\ q.number = "one" => a.items # {}
  /\ a = [items |-> Wanted(Now, q), error |-> "none"]
Absent(q, a) ==
  /\ q.scopes # {} /\ q.number = "one"
  /\ Wanted(Now, q) = {}
  /\ a = Error("NOTFOUND")
Failed(q, a) == a = Error(IF q.scopes = {} THEN "NOSCOPE" ELSE "OTHER")

\* ... and what is known from before: some of what there was, that there was
\* nothing, or that it failed.
Recalled(q, a) ==
  /\ q.sees = "past"
  /\ \/ /\ a.error = "none" /\ a.items # {}
        /\ q.number = "one" => \E i \in a.items : a.items = {i}
        /\ \A i \in a.items : \E rev \in 1 .. Now : i \in Wanted(rev, q)
     \/ /\ a = Error("NOTFOUND")
        /\ \E rev \in 1 .. Now : Wanted(rev, q) = {}
     \/ a \in {Error("NOSCOPE"), Error("OTHER")}

Decide(w) ==
  LET q == query[w]
      a == answer'[w]
  IN  /\ Move(w, "asked", "answered")
      /\ Found(q, a) \/ Absent(q, a) \/ Failed(q, a) \/ Recalled(q, a)
      /\ SetAnswer(w, a)
      /\ UNCHANGED query

Return(w) ==
  /\ Move(w, "answered", "idle")
  /\ SetQuery(w, NoQuery) /\ SetAnswer(w, NoAnswer)

Next ==
  \/ \E w \in Worker : Ask(w) \/ Refuse(w) \/ Decide(w) \/ Return(w)
  \/ Change

Spec == Init /\ [][Next]_vars

===============================================================================

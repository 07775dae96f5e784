---------------------------- MODULE SecretRedaction ----------------------------
(***************************************************************************)
(* The redaction of secrets (sources/secret.go).  The item of a secret     *)
(* carries a digest in place of its data, by which people can tell when it *)
(* has changed.  The module follows one secret that is edited and read     *)
(* again, and compares two of its items.                                   *)
(*                                                                         *)
(* External: SHA-512, whose digests are taken to be as different as the    *)
(* texts that are written into it; so the digest is that text.             *)
(***************************************************************************)
EXTENDS Integers, Sequences, FiniteSets, SequencesExt

CONSTANTS
  Char,       \* what texts are made of
  MaxLength,  \* bound: the length of a key or a value
  MaxEntries  \* bound: the entries of a secret

VARIABLES
  data,   \* the data of the secret: values by their keys
  item,   \* the item that was made of it last
  before  \* the item before that

vars == <<data, item, before>>

Values == UNION {[1 .. n -> Char] : n \in 0 .. MaxLength}
Keys   == Values \ {<<>>}
Data   == UNION {[keys -> Values] : keys \in {ks \in SUBSET Keys : Cardinality(ks) <= MaxEntries}}

NotRead == [data |-> <<>>, redacted |-> <<"none">>]

\* The keys and values of the map, one after the other, in any order.
Redact(d) ==
  {FlattenSeq([i \in DOMAIN order |-> order[i] \o d[order[i]]]) : order \in SetToSeqs(DOMAIN d)}

Init == data \in Data /\ item = NotRead /\ before = NotRead

\* External: somebody edits the secret.
Edit == data' \in Data /\ UNCHANGED <<item, before>>

\* The item keeps what the data was, for the property.
Read ==
  /\ \E text \in Redact(data) : item' = [data |-> data, redacted |-> text]
  /\ before' = item
  /\ UNCHANGED data

Next == Edit \/ Read
Spec == Init /\ [][Next]_vars

-------------------------------------------------------------------------------
(* Properties. *)

\* "show people when it has changed, to that end we will hash all of the data in
\* the secret and return the hash": two items of the secret have the same digest
\* exactly when its data is the same.
DigestTellsChange ==
  NotRead \notin {item, before} =>
    (item.redacted = before.redacted <=> item.data = before.data)

===============================================================================

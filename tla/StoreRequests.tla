--------------------------- MODULE StoreRequests ---------------------------
(***************************************************************************)
(* The transactions a store engine is asked to commit, and what they do   *)
(* to the documents and the event log (store_internal/transaction.rs).    *)
(***************************************************************************)
EXTENDS Naturals, Sequences, FiniteSets

CONSTANTS
    Thread,           \* the clients
    Key,              \* JSON and blob addresses
    Value,            \* document contents
    Absent,           \* "no document at this address"
    Event,            \* event identities
    Request,          \* the transactions and replacements clients submit
    NoRequest,
    InitDocs,
    KvMaxEntries,     \* StoreCapacityBudget.kv_max_entries
    EventLogMaxItems  \* StoreCapacityBudget.event_log_max_items

Image == Value \cup {Absent}

Partial(S, T) == UNION {[D -> T] : D \in SUBSET S}

(* expect: the Exact and Absent preconditions; write: puts and deletes;   *)
(* drop: events a scoped replacement removes; events: the ones appended.  *)
RequestType ==
    [kind : {"commit", "replace"}, expect : Partial(Key, Image),
     write : Partial(Key, Image), drop : SUBSET Event, events : Seq(Event)]

ASSUME RequestAssumption ==
    /\ Absent \notin Value
    /\ NoRequest \notin Request
    /\ Request \subseteq RequestType
    /\ \A r \in Request : r.kind = "commit" => r.drop = {}
    /\ InitDocs \in [Key -> Image]
    /\ IsFiniteSet(Key)

NoDocs == [k \in {} |-> Absent]

(* The documents and the log after r. *)
DocsAfter(r, d) ==
    [k \in Key |-> IF k \in DOMAIN r.write THEN r.write[k] ELSE d[k]]

(* The events a scoped replacement leaves in place. *)
Surviving(r, l) ==
    LET Kept(e) == e \notin r.drop IN SelectSeq(l, Kept)

LogAfter(r, l) ==
    (IF r.kind = "commit" THEN l ELSE Surviving(r, l)) \o r.events

Present(d) == {k \in Key : d[k] # Absent}

Distinct(s) == \A i, j \in 1 .. Len(s) : s[i] = s[j] => i = j

Matches(r, d) == \A k \in DOMAIN r.expect : d[k] = r.expect[k]

(* Mutant: the budgets are compared with the state before the request. *)
FitsBefore(r, d, l) ==
    /\ LogAfter(r, l) \in Seq(Event)
    /\ Distinct(LogAfter(r, l))
    /\ Cardinality(Present(d)) <= KvMaxEntries
    /\ Len(l) <= EventLogMaxItems

(* The event checks and the entry and event budgets *)
Fits(r, d, l) ==
    /\ LogAfter(r, l) \in Seq(Event)
    /\ Distinct(LogAfter(r, l))
    /\ Cardinality(Present(DocsAfter(r, d))) <= KvMaxEntries
    /\ Len(LogAfter(r, l)) <= EventLogMaxItems

ASSUME CapacityAssumption ==
    /\ KvMaxEntries \in Nat /\ EventLogMaxItems \in Nat
    /\ Cardinality(Present(InitDocs)) <= KvMaxEntries
=============================================================================

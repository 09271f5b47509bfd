---------------------------- MODULE MutationOperations ----------------------------
(***************************************************************************)
(* Durable mutations under an operation identity: the path of Write and     *)
(* LongTermMutate from an entry (entry/src/runtime.rs, idempotency.rs)      *)
(* through the adapter (adapter/src/dispatch.rs) and the SDK                *)
(* (sdk/src/runtime.rs) to the Store (store_internal/platform.rs), which    *)
(* commits the effect together with a receipt for the identity.             *)
(*                                                                          *)
(* The Store is shared by several processes; a reservation is local to one. *)
(* A committed document is named by the request that wrote it, so an exact  *)
(* precondition compares requests.  A request is its own intent digest.     *)
(* Refusals that come before the reservation change nothing and are left    *)
(* out.                                                                     *)
(***************************************************************************)
EXTENDS Naturals, FiniteSets

CONSTANTS
    Thread, Process, ProcessOf,
    Request,     \* records [key, kind, doc, dry]
    MaxKeys,     \* the limit of one process's in-flight keys
    None

Kind == {"write", "correct", "delete"}
Key == {r.key : r \in Request}
Doc == {r.doc : r \in Request}

Answer == {"accepted", "replayed", "rejected", "conflict", "duplicated", "exhausted", "error"}

Receipt == [intent : Request, effect : {"changed", "noop"}]

ASSUME OperationAssumption ==
    /\ ProcessOf \in [Thread -> Process]
    /\ \A r \in Request : DOMAIN r = {"key", "kind", "doc", "dry"} /\ r.kind \in Kind
                          /\ r.dry \in BOOLEAN /\ (r.kind = "write" => ~r.dry)
    /\ None \notin Request \cup Receipt \cup Answer
    /\ MaxKeys \in Nat

(* storage_key: the key and the operation kind, within one scope and actor. *)
Identity(r) == <<r.key, r.kind>>
Identities == {Identity(r) : r \in Request}

VARIABLES
    docs,        \* document -> the request that wrote it, or None when it is absent
    receipts,    \* identity -> the receipt and audit pair, or None
    reserved,    \* process -> the requests whose keys are in flight there
    pc, call,    \* thread -> its place in the call and what it carries
    effects      \* history: how often a request's mutation of a document was committed

vars == <<docs, receipts, reserved, pc, call, effects>>

Idle == [req |-> None, seen |-> None, changes |-> FALSE, accepted |-> FALSE, answer |-> None]

Call == [req : Request, seen : Request \cup {None}, changes : BOOLEAN, accepted : BOOLEAN,
         answer : Answer \cup {None}]

TypeOK ==
    /\ docs \in [Doc -> Request \cup {None}]
    /\ receipts \in [Identities -> Receipt \cup {None}]
    /\ reserved \in [Process -> SUBSET Request]
    /\ pc \in [Thread -> {"idle", "preflight", "plan", "load", "commit", "reload", "finish",
                          "done"}]
    /\ call \in [Thread -> Call \cup {Idle}]
    /\ \A t \in Thread : pc[t] = "idle" <=> call[t] = Idle
    /\ effects \in [Request -> Nat]

Init ==
    /\ docs = [d \in Doc |-> None] /\ receipts = [i \in Identities |-> None]
    /\ reserved = [p \in Process |-> {}]
    /\ pc = [t \in Thread |-> "idle"] /\ call = [t \in Thread |-> Idle]
    /\ effects = [r \in Request |-> 0]

Goto(t, l) == pc' = [pc EXCEPT ![t] = l]

(* The call of t has its answer; what is left is to wake, release and return. *)
Answered(t, a) ==
    /\ Goto(t, "finish")
    /\ call' = [call EXCEPT ![t].answer = a]

(* load_committed_mutation_operation with classify_replay. *)
Lookup(r) ==
    LET found == receipts[Identity(r)]
    IN  IF found = None THEN "none" ELSE IF found.intent = r THEN "same" ELSE "different"

(* What the SDK makes of a committed or replayed outcome. *)
Reported(t, outcome) == IF call[t].accepted THEN outcome ELSE "rejected"

---------------------------------------------------------------------------
(* Mutant: one key more than the limit. *)
FullLater(t) == Cardinality(reserved[ProcessOf[t]]) > MaxKeys

Full(t) == Cardinality(reserved[ProcessOf[t]]) >= MaxKeys

(* EntryIdempotencyCache::reserve *)
InFlight(t, r) == {x \in reserved[ProcessOf[t]] : x.key = r.key}

Reserve(t, r) ==
    /\ pc[t] = "idle"
    /\ LET p == ProcessOf[t]
           refused == IF MaxKeys = 0 THEN None
                      ELSE IF InFlight(t, r) # {} THEN "duplicated"
                      ELSE IF Full(t) THEN "exhausted" ELSE None
       IN  /\ Goto(t, IF refused = None THEN "preflight" ELSE "done")
           /\ call' = [call EXCEPT ![t] = [Idle EXCEPT !.req = r, !.answer = refused]]
           /\ reserved' = IF refused = None /\ MaxKeys > 0
                          THEN [reserved EXCEPT ![p] = @ \cup {r}] ELSE reserved
    /\ UNCHANGED <<docs, receipts, effects>>

(* preflight_memory_mutation_operation *)
Preflight(t) ==
    /\ pc[t] = "preflight"
    /\ CASE Lookup(call[t].req) = "none"      -> Goto(t, "plan") /\ UNCHANGED call
         [] Lookup(call[t].req) = "same"      -> Answered(t, "replayed")
         [] Lookup(call[t].req) = "different" -> Answered(t, "conflict")
    /\ UNCHANGED <<docs, receipts, reserved, effects>>

(* The plan of a write: governance decides how much of it is accepted, and a *)
(* write that is accepted in part is committed and reported as not accepted. *)
PlanWrite(t, accepted, changes) ==
    /\ pc[t] = "plan" /\ call[t].req.kind = "write"
    /\ call' = [call EXCEPT ![t].seen = docs[call[t].req.doc],
                            ![t].accepted = accepted, ![t].changes = changes]
    /\ Goto(t, "load")
    /\ UNCHANGED <<docs, receipts, reserved, effects>>

(* The plan of a control mutation: rejected when its target is absent or it  *)
(* is a dry run, and then without a mutation.                                *)
PlanControl(t) ==
    /\ pc[t] = "plan" /\ call[t].req.kind # "write"
    /\ LET target == docs[call[t].req.doc]
           accepted == target # None /\ ~call[t].req.dry
       IN  call' = [call EXCEPT ![t].seen = target,
                                ![t].accepted = accepted, ![t].changes = accepted]
    /\ Goto(t, "load")
    /\ UNCHANGED <<docs, receipts, reserved, effects>>

(* The first look at the receipt in the commit. *)
Load(t) ==
    /\ pc[t] = "load"
    /\ CASE Lookup(call[t].req) = "none"      -> Goto(t, "commit") /\ UNCHANGED call
         [] Lookup(call[t].req) = "same"      -> Answered(t, Reported(t, "replayed"))
         [] Lookup(call[t].req) = "different" -> Answered(t, "conflict")
    /\ UNCHANGED <<docs, receipts, reserved, effects>>

(* Mutant: the receipt is put without its absent precondition. *)
PreconditionsUnreceipted(t) ==
    call[t].changes => docs[call[t].req.doc] = call[t].seen

(* Mutant: the planned document is not compared. *)
PreconditionsUnseen(t) == receipts[Identity(call[t].req)] = None

(* The preconditions of the batch: the document it changes as it was planned, *)
(* and no receipt.                                                            *)
Preconditions(t) ==
    /\ call[t].changes => docs[call[t].req.doc] = call[t].seen
    /\ receipts[Identity(call[t].req)] = None

(* Mutant: the receipt of a batch without mutations is left out. *)
ApplyWithoutNoop(t) ==
    LET r == call[t].req
    IN  /\ docs' = IF call[t].changes
                   THEN [docs EXCEPT ![r.doc] = IF r.kind = "delete" THEN None ELSE r] ELSE docs
        /\ effects' = IF call[t].changes THEN [effects EXCEPT ![r] = @ + 1] ELSE effects
        /\ receipts' = IF call[t].changes
                       THEN [receipts EXCEPT ![Identity(r)] =
                              [intent |-> r, effect |-> "changed"]]
                       ELSE receipts

(* The batch with append_mutation_operation_records: one transaction.  The   *)
(* count of a dry run is of the records it would affect.                     *)
Apply(t) ==
    LET r == call[t].req
        affected == call[t].changes \/ (r.dry /\ call[t].seen # None)
    IN  /\ docs' = IF call[t].changes
                   THEN [docs EXCEPT ![r.doc] = IF r.kind = "delete" THEN None ELSE r] ELSE docs
        /\ effects' = IF call[t].changes THEN [effects EXCEPT ![r] = @ + 1] ELSE effects
        /\ receipts' = [receipts EXCEPT ![Identity(r)] =
                          [intent |-> r, effect |-> IF affected THEN "changed" ELSE "noop"]]

(* The engine commits and the receipt is read back ... *)
Commit(t) ==
    /\ pc[t] = "commit" /\ Preconditions(t)
    /\ Apply(t)
    /\ Answered(t, Reported(t, "accepted"))
    /\ UNCHANGED reserved

(* ... or commits and then fails: the journal is durable, or the receipt      *)
(* cannot be read back ...                                                    *)
CommitUnconfirmed(t) ==
    /\ pc[t] = "commit" /\ Preconditions(t)
    /\ Apply(t)
    /\ Answered(t, "error")
    /\ UNCHANGED reserved

(* ... or meets a precondition that has failed. *)
CommitLoses(t) ==
    /\ pc[t] = "commit" /\ ~Preconditions(t)
    /\ Goto(t, "reload")
    /\ UNCHANGED <<docs, receipts, reserved, call, effects>>

(* A failed precondition is a replay when the receipt is there by now.       *)
(* Otherwise the error keeps its class, conflict, and the adapter answers    *)
(* every error of that class as a conflict of the operation.                 *)
Reload(t) ==
    /\ pc[t] = "reload"
    /\ Answered(t, IF Lookup(call[t].req) = "same" THEN Reported(t, "replayed") ELSE "conflict")
    /\ UNCHANGED <<docs, receipts, reserved, effects>>

(* A read, a check of the plan, the budget or the disk may fail at every       *)
(* step, without an effect.                                                    *)
Fails(t) ==
    /\ pc[t] \in {"preflight", "plan", "load", "commit", "reload"}
    /\ Answered(t, "error")
    /\ UNCHANGED <<docs, receipts, reserved, effects>>

(* The end of handle_in_budget_lease: the learning worker is woken, and when  *)
(* that fails the caller gets the error in place of the response; the         *)
(* reservation is dropped in every case.                                      *)
Finish(t, wakes) ==
    /\ pc[t] = "finish"
    /\ call' = IF wakes \/ call[t].answer = "error" THEN call
               ELSE [call EXCEPT ![t].answer = "error"]
    /\ reserved' = [reserved EXCEPT ![ProcessOf[t]] = @ \ {call[t].req}]
    /\ Goto(t, "done")
    /\ UNCHANGED <<docs, receipts, effects>>

(* The client has the answer, and may send the same request again. *)
Return(t) ==
    /\ pc[t] = "done"
    /\ Goto(t, "idle") /\ call' = [call EXCEPT ![t] = Idle]
    /\ UNCHANGED <<docs, receipts, reserved, effects>>

(* The process dies: its calls and its reservations are gone. *)
Crash(p) ==
    /\ \E t \in Thread : ProcessOf[t] = p /\ pc[t] # "idle"
    /\ pc' = [t \in Thread |-> IF ProcessOf[t] = p THEN "idle" ELSE pc[t]]
    /\ call' = [t \in Thread |-> IF ProcessOf[t] = p THEN Idle ELSE call[t]]
    /\ reserved' = [reserved EXCEPT ![p] = {}]
    /\ UNCHANGED <<docs, receipts, effects>>

Next ==
    \/ \E t \in Thread :
        \/ \E r \in Request : Reserve(t, r)
        \/ Preflight(t)
        \/ \E accepted, changes \in BOOLEAN : PlanWrite(t, accepted, changes)
        \/ PlanControl(t)
        \/ Load(t)
        \/ Commit(t)
        \/ CommitUnconfirmed(t)
        \/ Fails(t)
        \/ CommitLoses(t)
        \/ Reload(t)
        \/ \E wakes \in BOOLEAN : Finish(t, wakes)
        \/ Return(t)
    \/ \E p \in Process : Crash(p)

Spec == Init /\ [][Next]_vars

---------------------------------------------------------------------------
(* A mutation takes effect at most once under its identity, whatever is      *)
(* retried, by whom, after which crash or lost answer, and although the      *)
(* document may since have returned to the state the mutation was planned    *)
(* on; and it takes effect only together with a receipt of its own intent    *)
(* that says so (commit_memory_mutation_operation..., platform.rs).          *)
ExactlyOnce ==
    \A r \in Request :
        /\ effects[r] <= 1
        /\ effects[r] = 1 => /\ receipts[Identity(r)] # None
                             /\ receipts[Identity(r)].intent = r
                             /\ receipts[Identity(r)].effect = "changed"

(* A receipt is never replaced or lost: the store holds the first intent     *)
(* committed under an identity for good (the absent preconditions of         *)
(* append_mutation_operation_records).                                       *)
ReceiptsStay ==
    [][\A i \in Identities : receipts[i] # None => receipts'[i] = receipts[i]]_vars

(* A correction planned on a document that is deleted meanwhile does not      *)
(* bring it back: only a write creates a document (the exact preconditions   *)
(* of plan_owner_writes).                                                    *)
NoResurrection ==
    [][\A d \in Doc : docs[d] = None /\ docs'[d] # None => docs'[d].kind = "write"]_vars

(* A caller told that its operation was accepted or replayed finds a receipt *)
(* of its own intent in the store (write_operation,                          *)
(* mutate_long_term_memory_operation).                                       *)
SuccessIsDurable ==
    \A t \in Thread : call[t].answer \in {"accepted", "replayed"} =>
        /\ receipts[Identity(call[t].req)] # None
        /\ receipts[Identity(call[t].req)].intent = call[t].req

(* The reservations of a process are those of the calls running in it, one   *)
(* call per key: none is leaked by an early return, an error or a crash,   *)
(* and none is shared (EntryIdempotencyReservation::drop).                   *)
ReservationsExact ==
    MaxKeys > 0 =>
        \A p \in Process :
            LET running == {t \in Thread : ProcessOf[t] = p /\ pc[t] \notin {"idle", "done"}}
            IN  /\ reserved[p] = {call[t].req : t \in running}
                /\ \A s, t \in running : call[s].req.key = call[t].req.key => s = t
                /\ Cardinality(running) <= MaxKeys
===================================================================================

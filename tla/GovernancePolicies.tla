---------------------------- MODULE GovernancePolicies ----------------------------
(***************************************************************************)
(* Long-term governance policies: mutate_memory_governance_policy of         *)
(* sdk/src/runtime.rs with the planner of core/src/memory/                  *)
(* long_term_control.rs.  A rule is put (Suppress, Pause) or removed at an  *)
(* exact revision (RemoveSuppression, Resume) under an operation identity.  *)
(* Planning lists the policies two or three times without a lock; only the  *)
(* commit is atomic, and its checks alone relate what the lists saw.        *)
(*                                                                          *)
(* A rule stands for its kind, selector and duration or expiry.  The entry  *)
(* and adapter around this call are those of MutationOperations.            *)
(***************************************************************************)
EXTENDS Integers, FiniteSets

CONSTANTS
    Thread,
    Op,          \* operation ids of the clients
    Rule,
    Request,     \* [op, kind |-> "put", rule, dry] or [op, kind |-> "remove", id, rev, dry]
    None

Policy == [rule : Rule, rev : Nat \ {0}]
Effect == [id : Op, rev : Nat \ {0}, deleted : BOOLEAN]
Answer == {"committed", "replayed", "rejected", "stale", "refused", "lost", "conflict", "error"}

ASSUME PolicyAssumption ==
    /\ \A r \in Request : /\ r.op \in Op /\ r.dry \in BOOLEAN
                          /\ \/ r.kind = "put" /\ r.rule \in Rule
                             \/ r.kind = "remove" /\ r.id \in Op /\ r.rev \in Nat
    /\ None \notin Request \cup Op \cup Policy \cup Effect \cup Answer

Identity(r) == <<r.op, r.kind>>
Identities == Op \X {"put", "remove"}

VARIABLES
    policies,    \* policy id (the operation that created it) -> [rule, rev], or None
    audits,      \* the control audit trail: a set of effects [id, rev, deleted]
    committed,   \* the receipts: identity -> the request it is committed for, or None
    pc, calls    \* thread -> its place in the call and what it carries

policyVars == <<policies, audits, committed, pc, calls>>

(* id: the policy planned for; audit: the effect the audit's id is bound to;  *)
(* write: the effect of the planned write, None when nothing is written;      *)
(* bound: what the precondition expects.                                      *)
IdleThread == [req |-> None, id |-> None, audit |-> None, write |-> None, bound |-> None,
               answer |-> None]

Call == [req : Request, id : Op \cup {None}, audit : Effect \cup {None},
         write : Effect \cup {None}, bound : Policy \cup {None}, answer : Answer \cup {None}]

PolicyTypeOK ==
    /\ policies \in [Op -> Policy \cup {None}]
    /\ audits \subseteq Effect
    /\ committed \in [Identities -> Request \cup {None}]
    /\ pc \in [Thread -> {"idle", "preflight", "plan", "delete", "bind", "load", "commit",
                          "reload", "done"}]
    /\ calls \in [Thread -> Call \cup {IdleThread}]
    /\ \A t \in Thread : pc[t] = "idle" <=> calls[t] = IdleThread

PolicyInit ==
    /\ policies = [i \in Op |-> None] /\ audits = {}
    /\ committed = [i \in Identities |-> None]
    /\ pc = [t \in Thread |-> "idle"] /\ calls = [t \in Thread |-> IdleThread]

Goto(t, l) == pc' = [pc EXCEPT ![t] = l]

Answered(t, a) ==
    /\ Goto(t, "done")
    /\ calls' = [calls EXCEPT ![t].answer = a]

(* load_committed_mutation_operation with classify_replay. *)
Lookup(r) ==
    LET found == committed[Identity(r)]
    IN  IF found = None THEN "none" ELSE IF found = r THEN "same" ELSE "different"

ActiveFor(rule) == {i \in Op : policies[i] # None /\ policies[i].rule = rule}

---------------------------------------------------------------------------
Begin(t, r) ==
    /\ pc[t] = "idle"
    /\ Goto(t, "preflight") /\ calls' = [calls EXCEPT ![t].req = r]
    /\ UNCHANGED <<policies, audits, committed>>

Preflight(t) ==
    /\ pc[t] = "preflight"
    /\ CASE Lookup(calls[t].req) = "none"      -> Goto(t, "plan") /\ UNCHANGED calls
         [] Lookup(calls[t].req) = "same"      -> Answered(t, "replayed")
         [] Lookup(calls[t].req) = "different" -> Answered(t, "conflict")
    /\ UNCHANGED <<policies, audits, committed>>

(* Suppress and Pause: the rule's policy at its next revision, or a new one   *)
(* named after the operation.                                                 *)
PlanPut(t) ==
    LET r == calls[t].req
        active == ActiveFor(r.rule)
        id == IF active = {} THEN r.op ELSE CHOOSE i \in active : TRUE
        effect == [id |-> id, deleted |-> FALSE,
                   rev |-> IF active = {} THEN 1 ELSE policies[id].rev + 1]
    IN  /\ pc[t] = "plan" /\ r.kind = "put"
        /\ CASE Cardinality(active) > 1 -> Answered(t, "error")
             [] r.dry /\ Cardinality(active) <= 1 -> Answered(t, "rejected")
             [] OTHER -> /\ calls' = [calls EXCEPT ![t].id = id, ![t].audit = effect,
                                                 ![t].write = effect]
                         /\ Goto(t, "bind")
        /\ UNCHANGED <<policies, audits, committed>>

(* The policy a removal names, at exactly its revision. *)
Exact(r) == r.rev > 0 /\ policies[r.id] # None /\ policies[r.id].rev = r.rev

(* remove_exact_policy: the first list decides and gives the audit its id ... *)
PlanRemove(t) ==
    LET r == calls[t].req
    IN  /\ pc[t] = "plan" /\ r.kind = "remove"
        /\ CASE ~Exact(r) -> Answered(t, "stale")
             [] Exact(r) /\ r.dry -> Answered(t, "rejected")
             [] OTHER -> /\ calls' = [calls EXCEPT ![t].id = r.id, ![t].audit =
                                        [id |-> r.id, rev |-> policies[r.id].rev,
                                         deleted |-> TRUE]]
                         /\ Goto(t, "delete")
        /\ UNCHANGED <<policies, audits, committed>>

(* ... and delete_long_term_governance_policy lists again: the effect in the  *)
(* audit is that of the policy found now, if any.                             *)
PlanDelete(t) ==
    LET found == policies[calls[t].id]
    IN  /\ pc[t] = "delete"
        /\ calls' = IF found = None THEN calls
                   ELSE [calls EXCEPT ![t].write = [id |-> calls[t].id, rev |-> found.rev,
                                                   deleted |-> TRUE]]
        /\ Goto(t, "bind")
        /\ UNCHANGED <<policies, audits, committed>>

(* plan_control_writes: the precondition is what the last list finds; with no *)
(* write there is only the audit.                                             *)
Bind(t) ==
    /\ pc[t] = "bind"
    /\ calls' = [calls EXCEPT ![t].bound = policies[calls[t].id]]
    /\ Goto(t, "load")
    /\ UNCHANGED <<policies, audits, committed>>

Load(t) ==
    /\ pc[t] = "load"
    /\ CASE Lookup(calls[t].req) = "none"      -> Goto(t, "commit") /\ UNCHANGED calls
         [] Lookup(calls[t].req) = "same"      -> Answered(t, "replayed")
         [] Lookup(calls[t].req) = "different" -> Answered(t, "conflict")
    /\ UNCHANGED <<policies, audits, committed>>

(* Mutant: the audit may name other effects than the ones in its id. *)
CanonicalAuditLoose(t) == calls[t].write # None

(* validate_control_document: an audit has effects and its id is their digest. *)
CanonicalAudit(t) == calls[t].write # None /\ calls[t].write = calls[t].audit

(* The typed checks of the batch: a delete also needs an exact precondition. *)
Admitted(t) == CanonicalAudit(t) /\ (calls[t].write.deleted => calls[t].bound # None)

(* The policy as it was bound, and no receipt. *)
Preconditions(t) ==
    /\ policies[calls[t].id] = calls[t].bound
    /\ committed[Identity(calls[t].req)] = None

(* Mutant: a stale plan is written over a newer policy. *)
SuccessorAny(t) == calls[t].write.deleted => policies[calls[t].write.id] # None

(* validate_long_term_control_post_image: a policy begins at revision 1, goes *)
(* up by one, and is deleted at the revision the audit names.                 *)
Successor(t) ==
    LET w == calls[t].write
        before == policies[w.id]
    IN  IF w.deleted THEN before # None /\ before.rev = w.rev
        ELSE w.rev = IF before = None THEN 1 ELSE before.rev + 1

(* validate_unique_governance_policies on the image after the commit. *)
Unique(t) ==
    ~calls[t].write.deleted => ActiveFor(calls[t].req.rule) \subseteq {calls[t].id}

Apply(t) ==
    LET r == calls[t].req
        w == calls[t].write
    IN  /\ policies' = [policies EXCEPT ![w.id] =
                           IF w.deleted THEN None ELSE [rule |-> r.rule, rev |-> w.rev]]
        /\ audits' = audits \cup {w}
        /\ committed' = [committed EXCEPT ![Identity(r)] = r]

(* The batch is refused before the engine sees it ... *)
CommitInvalid(t) ==
    /\ pc[t] = "commit" /\ ~Admitted(t)
    /\ Answered(t, "refused")
    /\ UNCHANGED <<policies, audits, committed>>

(* ... or fails a precondition and looks for its receipt ... *)
CommitLoses(t) ==
    /\ pc[t] = "commit" /\ Admitted(t) /\ ~Preconditions(t)
    /\ Goto(t, "reload")
    /\ UNCHANGED <<policies, audits, committed, calls>>

(* ... or fails a check of the post-image ... *)
CommitRefused(t) ==
    /\ pc[t] = "commit" /\ Admitted(t) /\ Preconditions(t)
    /\ ~(Unique(t) /\ Successor(t))
    /\ Answered(t, "refused")
    /\ UNCHANGED <<policies, audits, committed>>

(* ... or is applied, which the caller may not learn. *)
Commit(t, answer) ==
    /\ pc[t] = "commit" /\ Admitted(t) /\ Preconditions(t)
    /\ Unique(t) /\ Successor(t)
    /\ Apply(t)
    /\ Answered(t, answer)

(* The policy command of the adapter tells a failed precondition from a       *)
(* receipt for another intent.                                                *)
Reload(t) ==
    /\ pc[t] = "reload"
    /\ Answered(t, CASE Lookup(calls[t].req) = "none"      -> "lost"
                     [] Lookup(calls[t].req) = "same"      -> "replayed"
                     [] Lookup(calls[t].req) = "different" -> "conflict")
    /\ UNCHANGED <<policies, audits, committed>>

(* The call returns, with its answer or an error, or its process dies. *)
Leave(t) ==
    /\ pc[t] # "idle"
    /\ Goto(t, "idle") /\ calls' = [calls EXCEPT ![t] = IdleThread]
    /\ UNCHANGED <<policies, audits, committed>>

PolicyNext ==
    \E t \in Thread :
        \/ \E r \in Request : Begin(t, r)
        \/ Preflight(t)
        \/ PlanPut(t)
        \/ PlanRemove(t)
        \/ PlanDelete(t)
        \/ Bind(t)
        \/ Load(t)
        \/ CommitInvalid(t)
        \/ CommitLoses(t)
        \/ CommitRefused(t)
        \/ \E answer \in {"committed", "error"} : Commit(t, answer)
        \/ Reload(t)
        \/ Leave(t)

PolicySpec == PolicyInit /\ [][PolicyNext]_policyVars

---------------------------------------------------------------------------
(* "An old removal cannot remove a later incarnation of the same rule": a     *)
(* policy disappears only by a removal whose reference is exactly its id and  *)
(* revision, although the revision was compared in the first of three lists   *)
(* and the rule may have been renewed, removed and created again since        *)
(* (remove_exact_policy, validate_control_document,                           *)
(* validate_long_term_control_post_image).                                    *)
OldRemovalSparesLater ==
    [][\A i \in Op : policies[i] # None /\ policies'[i] = None =>
        \E r \in Request : /\ r.kind = "remove" /\ r.id = i /\ r.rev = policies[i].rev
                           /\ committed[Identity(r)] = None /\ committed'[Identity(r)] = r]_policyVars

(* One rule has one policy, whoever puts it at the same time                  *)
(* (validate_unique_governance_policies); the planner counts on it.           *)
UniqueRule ==
    \A i, j \in Op : policies[i] # None /\ policies[j] # None
                     /\ policies[i].rule = policies[j].rule => i = j

(* The audit trail alone tells which policies are in force: a policy has the  *)
(* highest revision audited for it, its revisions are audited without gaps,   *)
(* and after the audit of its removal nothing follows, so an id and a         *)
(* revision never name two states of a rule.                                  *)
AuditReconstructs ==
    \A i \in Op :
        LET trail == {a \in audits : a.id = i}
            Gapless(n) == /\ \A a \in trail : a.rev \in 1 .. n
                          /\ \A m \in 1 .. n :
                                [id |-> i, rev |-> m, deleted |-> FALSE] \in audits
        IN  /\ policies[i] # None => /\ Gapless(policies[i].rev)
                                     /\ \A a \in trail : ~a.deleted
            /\ policies[i] = None => \/ trail = {}
                                     \/ \E z \in trail : /\ Gapless(z.rev) /\ z.deleted
                                                         /\ \A a \in trail : a.deleted => a = z

(* A policy call is told that its operation id is committed for a different   *)
(* intent only when it is, and that it is committed or replayed only when the *)
(* store holds its receipt (dispatch of LongTermPolicy).                      *)
AnswersAreTrue ==
    \A t \in Thread :
        /\ calls[t].answer = "conflict" => Lookup(calls[t].req) = "different"
        /\ calls[t].answer \in {"committed", "replayed"} => Lookup(calls[t].req) = "same"
===================================================================================

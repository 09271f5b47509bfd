------------------------- MODULE LearningAndPolicyProofs -------------------------
(***************************************************************************)
(* The first part is about governance policies, for any threads,             *)
(* operations, rules and requests.  The lists a call makes are unrelated, so *)
(* the argument rests on what its plan keeps from the first of them          *)
(* (Planned) and on the checks of the commit; that an id is never given to a *)
(* second policy needs the receipt of the operation it is named after        *)
(* (Created).                                                                *)
(*                                                                           *)
(* The second part is about the learning engine of one scope, for any number *)
(* of jobs, workers, operations, attempts and generations and for any        *)
(* environment: types, the completeness of a recovery that reports success,  *)
(* and that a permission generation resumes a job once.                      *)
(***************************************************************************)
EXTENDS LearningCycle, GovernancePolicies, TLAPS

(* Governance policies. *)

(* What a plan has fixed: the audit of a put starts a policy named after the   *)
(* operation or goes past revision 1; that of a removal is what was asked.     *)
PlanOf(c) ==
    /\ c.id \in Op /\ c.audit \in Effect /\ c.audit.id = c.id
    /\ c.req.kind = "put" => /\ ~c.audit.deleted
                             /\ c.audit.rev = 1 => c.id = c.req.op
    /\ c.req.kind = "remove" => /\ c.audit.deleted
                                /\ c.id = c.req.id /\ c.audit.rev = c.req.rev

Planned == \A t \in Thread : pc[t] \in {"delete", "bind", "load", "commit"} => PlanOf(calls[t])

(* What an answer says of the store. *)
Told(c) ==
    /\ c.answer = "conflict" => Lookup(c.req) = "different"
    /\ c.answer \in {"committed", "replayed"} => Lookup(c.req) = "same"

(* A policy that was ever audited has the receipt of the put that created it. *)
Created == \A a \in audits : committed[<<a.id, "put">>] # None

PolicyInv == PolicyTypeOK /\ Planned /\ Created /\ UniqueRule /\ AuditReconstructs /\ AnswersAreTrue

Places == {"preflight", "plan", "delete", "bind", "load", "commit", "reload", "done"}

(* A step of a call to place l, with what it carries. *)
Moves(t, l, c) == pc' = [pc EXCEPT ![t] = l] /\ calls' = [calls EXCEPT ![t] = c]

(* An idle thread is told apart from a call. *)
LEMMA IdleIsNoCall == IdleThread \notin Call
BY PolicyAssumption DEF IdleThread, Call

(* What a thread that is not idle carries. *)
LEMMA Busy ==
    ASSUME PolicyTypeOK, NEW t \in Thread, pc[t] # "idle"
    PROVE  /\ calls[t] \in Call /\ calls[t].req \in Request
           /\ calls[t].req.op \in Op /\ calls[t].req.kind \in {"put", "remove"}
           /\ Identity(calls[t].req) \in Identities
<1>1. calls[t] \in Call /\ calls[t].req \in Request
  BY DEF PolicyTypeOK, Call
<1>2. calls[t].req.op \in Op /\ calls[t].req.kind \in {"put", "remove"}
  BY <1>1, PolicyAssumption
<1> QED
  BY <1>1, <1>2 DEF Identities, Identity

(* The form of an answer. *)
LEMMA AnsweredShape ==
    ASSUME PolicyTypeOK, NEW t \in Thread, pc[t] # "idle", NEW a \in Answer, Answered(t, a)
    PROVE  /\ Moves(t, "done", [calls[t] EXCEPT !.answer = a])
           /\ [calls[t] EXCEPT !.answer = a] \in Call
BY Busy DEF Answered, Goto, Moves, Call

(* A planned put: an effect of the rule's policy or of a new one. *)
LEMMA PutShape ==
    ASSUME PolicyTypeOK, NEW t \in Thread, PlanPut(t)
    PROVE  \/ \E a \in Answer : Answered(t, a) /\ a \notin {"committed", "replayed", "conflict"}
           \/ \E e \in Effect :
                /\ ~e.deleted
                /\ e.rev = 1 => e.id = calls[t].req.op
                /\ Moves(t, "bind", [calls[t] EXCEPT !.id = e.id, !.audit = e, !.write = e])
<1> DEFINE r == calls[t].req
           active == ActiveFor(r.rule)
           id == IF active = {} THEN r.op ELSE CHOOSE i \in active : TRUE
           e == [id |-> id, deleted |-> FALSE,
                 rev |-> IF active = {} THEN 1 ELSE policies[id].rev + 1]
<1>1. pc[t] = "plan" /\ r \in Request /\ r.op \in Op
  BY Zenon, Busy DEF PlanPut
<1>2. e \in Effect /\ ~e.deleted /\ e.id = id /\ (e.rev = 1 => e.id = r.op)
  <2>1. CASE active = {}
    BY <1>1, <2>1 DEF Effect
  <2>2. CASE active # {}
    <3>1. id \in active
      BY <2>2
    <3>2. id \in Op /\ policies[id] \in Policy
      BY Zenon, <3>1 DEF ActiveFor, PolicyTypeOK
    <3>3. policies[id].rev + 1 \in Nat \ {0} /\ policies[id].rev + 1 # 1
      BY <3>2 DEF Policy
    <3> QED
      BY Zenon, <2>2, <3>2, <3>3 DEF Effect
  <2> QED
    BY Zenon, <2>1, <2>2
<1> HIDE DEF e, id, active
<1>3. \/ Answered(t, "error") \/ Answered(t, "rejected")
      \/ Moves(t, "bind", [calls[t] EXCEPT !.id = id, !.audit = e, !.write = e])
  BY ZenonT(40) DEF PlanPut, Goto, Moves, e, id, active
<1> QED
  BY Zenon, <1>2, <1>3 DEF Answer

(* The steps of a call, but for its end and its commit. *)
Aside(t) ==
    \/ \E r \in Request : Begin(t, r)
    \/ Preflight(t) \/ PlanPut(t) \/ PlanRemove(t) \/ PlanDelete(t) \/ Bind(t) \/ Load(t)
    \/ CommitInvalid(t) \/ CommitLoses(t) \/ CommitRefused(t) \/ Reload(t)

(* A planned removal names the id and revision its request names. *)
LEMMA RemoveShape ==
    ASSUME PolicyTypeOK, NEW t \in Thread, PlanRemove(t)
    PROVE  \/ \E a \in Answer : Answered(t, a) /\ a \notin {"committed", "replayed", "conflict"}
           \/ \E e \in Effect :
                /\ e.deleted /\ e.id = calls[t].req.id /\ e.rev = calls[t].req.rev
                /\ Moves(t, "delete", [calls[t] EXCEPT !.id = e.id, !.audit = e])
<1> DEFINE r == calls[t].req
           e == [id |-> r.id, rev |-> policies[r.id].rev, deleted |-> TRUE]
<1>1. pc[t] = "plan" /\ r \in Request /\ r.kind = "remove"
  BY Zenon, Busy DEF PlanRemove
<1>2. r.id \in Op
  BY Zenon, <1>1, PolicyAssumption
<1>3. CASE Exact(r) /\ ~r.dry
  <2>1. policies[r.id] \in Policy /\ policies[r.id].rev = r.rev
    BY <1>2, <1>3 DEF Exact, PolicyTypeOK
  <2>2. e \in Effect /\ e.deleted /\ e.id = r.id /\ e.rev = r.rev
    BY Zenon, <1>2, <2>1 DEF Effect, Policy
  <2>3. Moves(t, "delete", [calls[t] EXCEPT !.id = e.id, !.audit = e])
    BY Zenon, <1>3 DEF PlanRemove, Goto, Moves
  <2> HIDE DEF e
  <2> QED
    BY Zenon, <2>2, <2>3
<1>4. CASE ~Exact(r) \/ r.dry
  <2>1. Answered(t, "stale") \/ Answered(t, "rejected")
    BY <1>4 DEF PlanRemove
  <2> QED
    BY Zenon, <2>1 DEF Answer
<1> QED
  BY Zenon, <1>3, <1>4

(* The removal's write is built from the policy the store holds now. *)
LEMMA DeleteShape ==
    ASSUME PolicyTypeOK, Planned, NEW t \in Thread, PlanDelete(t)
    PROVE  \E w \in Effect \cup {None} : /\ [calls[t] EXCEPT !.write = w] \in Call
                                         /\ Moves(t, "bind", [calls[t] EXCEPT !.write = w])
<1> DEFINE found == policies[calls[t].id]
           w == IF found = None THEN calls[t].write
                ELSE [id |-> calls[t].id, rev |-> found.rev, deleted |-> TRUE]
<1>1. pc[t] = "delete" /\ calls[t] \in Call /\ calls[t].id \in Op
  BY Busy DEF PlanDelete, Planned, PlanOf
<1>2. w \in Effect \cup {None}
  BY <1>1 DEF Call, PolicyTypeOK, Policy, Effect
<1>3. [calls[t] EXCEPT !.write = w] \in Call
  <2> HIDE DEF w
  <2> QED
    BY <1>1, <1>2 DEF Call
<1>4. Moves(t, "bind", [calls[t] EXCEPT !.write = w])
  <2>1. CASE found = None
    <3>1. [calls[t] EXCEPT !.write = w] = calls[t]
      BY <1>1, <2>1 DEF Call
    <3>2. calls = [calls EXCEPT ![t] = calls[t]]
      BY DEF PolicyTypeOK
    <3>3. calls' = calls /\ pc' = [pc EXCEPT ![t] = "bind"]
      BY <2>1 DEF PlanDelete, Goto
    <3> HIDE DEF w, found
    <3> QED
      BY <3>1, <3>2, <3>3 DEF Moves
  <2>2. CASE found # None
    BY <2>2 DEF PlanDelete, Goto, Moves
  <2> QED
    BY <2>1, <2>2
<1> HIDE DEF w
<1> QED
  BY <1>2, <1>3, <1>4

(* Such a step leads to a call with a true answer, or with a plan. *)
Settles(t) ==
    \E l \in Places, c \in Call :
        /\ Moves(t, l, c) /\ Told(c)
        /\ l \in {"delete", "bind", "load", "commit"} => PlanOf(c)

(* Every step but the commit leaves the documents and settles the thread. *)
LEMMA AsideMoves ==
    ASSUME PolicyTypeOK, Planned, AnswersAreTrue, NEW t \in Thread, Aside(t)
    PROVE  /\ UNCHANGED <<policies, audits, committed>>
           /\ Settles(t)
<1>1. UNCHANGED <<policies, audits, committed>>
  BY Zenon DEF Aside, Begin, Preflight, PlanPut, PlanRemove, PlanDelete, Bind, Load, CommitInvalid,
         CommitLoses, CommitRefused, Reload
<1> SUFFICES Settles(t)
  BY <1>1
<1>2. ASSUME NEW r \in Request, Begin(t, r)
      PROVE  Settles(t)
  <2>1. [IdleThread EXCEPT !.req = r] \in Call /\ Told([IdleThread EXCEPT !.req = r])
    BY PolicyAssumption DEF IdleThread, Call, Told, Answer
  <2>2. calls[t] = IdleThread
    BY <1>2 DEF Begin, PolicyTypeOK
  <2>3. Moves(t, "preflight", [IdleThread EXCEPT !.req = r])
    BY <1>2, <2>2 DEF Begin, Moves, Goto
  <2> QED
    BY <2>1, <2>3 DEF Places, Settles
<1>3. ASSUME NEW a \in Answer, pc[t] # "idle", Answered(t, a),
             a = "conflict" => Lookup(calls[t].req) = "different",
             a \in {"committed", "replayed"} => Lookup(calls[t].req) = "same"
      PROVE  Settles(t)
  <2> DEFINE c == [calls[t] EXCEPT !.answer = a]
  <2>1. Moves(t, "done", c) /\ c \in Call
    BY <1>3, AnsweredShape
  <2>2. c.req = calls[t].req /\ c.answer = a
    BY <1>3, Busy DEF Call
  <2>3. Told(c)
    BY <1>3, <2>2 DEF Told
  <2> HIDE DEF c
  <2> QED
    BY <2>1, <2>3 DEF Places, Settles
<1>4. ASSUME pc[t] # "idle", NEW l \in Places, UNCHANGED calls, Goto(t, l),
             l \in {"delete", "bind", "load", "commit"} => PlanOf(calls[t])
      PROVE  Settles(t)
  <2>1. calls = [calls EXCEPT ![t] = calls[t]]
    BY DEF PolicyTypeOK
  <2>2. Moves(t, l, calls[t])
    BY Zenon, <1>4, <2>1 DEF Moves, Goto
  <2>3. calls[t] \in Call /\ Told(calls[t])
    BY <1>4, Busy DEF AnswersAreTrue, Told
  <2> QED
    BY <1>4, <2>2, <2>3 DEF Settles
<1>5. CASE Preflight(t)
  <2>1. CASE Lookup(calls[t].req) = "none"
    BY <1>4, <1>5, <2>1 DEF Preflight, Places
  <2>2. CASE Lookup(calls[t].req) = "same"
    BY <1>3, <1>5, <2>2 DEF Preflight, Answer
  <2>3. CASE Lookup(calls[t].req) = "different"
    BY <1>3, <1>5, <2>3 DEF Preflight, Answer
  <2> QED
    BY <2>1, <2>2, <2>3 DEF Lookup
<1>6. CASE Load(t)
  <2>1. CASE Lookup(calls[t].req) = "none"
    BY <1>4, <1>6, <2>1 DEF Load, Places, Planned
  <2>2. CASE Lookup(calls[t].req) = "same"
    BY <1>3, <1>6, <2>2 DEF Load, Answer
  <2>3. CASE Lookup(calls[t].req) = "different"
    BY <1>3, <1>6, <2>3 DEF Load, Answer
  <2> QED
    BY <2>1, <2>2, <2>3 DEF Lookup
<1>7. CASE Reload(t)
  <2>1. CASE Lookup(calls[t].req) = "none"
    BY <1>3, <1>7, <2>1 DEF Reload, Answer
  <2>2. CASE Lookup(calls[t].req) = "same"
    BY <1>3, <1>7, <2>2 DEF Reload, Answer
  <2>3. CASE Lookup(calls[t].req) = "different"
    BY <1>3, <1>7, <2>3 DEF Reload, Answer
  <2> QED
    BY <2>1, <2>2, <2>3 DEF Lookup
<1>8. CASE CommitInvalid(t) \/ CommitRefused(t)
  BY <1>3, <1>8 DEF CommitInvalid, CommitRefused, Answer
<1>9. CASE CommitLoses(t)
  BY <1>4, <1>9 DEF CommitLoses, Places
<1>10. CASE PlanPut(t)
  <2>1. pc[t] # "idle" /\ calls[t] \in Call /\ calls[t].req.kind = "put" /\ Told(calls[t])
    BY Zenon, <1>10, Busy DEF PlanPut, AnswersAreTrue, Told
  <2>2. ASSUME NEW e \in Effect, ~e.deleted, e.rev = 1 => e.id = calls[t].req.op,
               Moves(t, "bind", [calls[t] EXCEPT !.id = e.id, !.audit = e, !.write = e])
        PROVE  Settles(t)
    <3> DEFINE c == [calls[t] EXCEPT !.id = e.id, !.audit = e, !.write = e]
    <3>1. /\ c \in Call /\ c.req = calls[t].req /\ c.answer = calls[t].answer
          /\ c.id = e.id /\ c.audit = e /\ e.id \in Op
      BY Zenon, <2>1 DEF Call, Effect
    <3> HIDE DEF c
    <3>2. Told(c) /\ PlanOf(c)
      BY <2>1, <2>2, <3>1 DEF Told, PlanOf
    <3> QED
      BY <2>2, <3>1, <3>2 DEF Places, Settles, c
  <2>3. ASSUME NEW a \in Answer, Answered(t, a), a \notin {"committed", "replayed", "conflict"}
        PROVE  Settles(t)
    BY <1>3, <2>1, <2>3
  <2> QED
    BY Zenon, <1>10, <2>2, <2>3, PutShape
<1>11. CASE PlanRemove(t)
  <2>1. pc[t] # "idle" /\ calls[t] \in Call /\ calls[t].req.kind = "remove" /\ Told(calls[t])
    BY <1>11, Busy DEF PlanRemove, AnswersAreTrue, Told
  <2>2. ASSUME NEW e \in Effect, e.deleted, e.id = calls[t].req.id, e.rev = calls[t].req.rev,
               Moves(t, "delete", [calls[t] EXCEPT !.id = e.id, !.audit = e])
        PROVE  Settles(t)
    <3> DEFINE c == [calls[t] EXCEPT !.id = e.id, !.audit = e]
    <3>1. /\ c \in Call /\ c.req = calls[t].req /\ c.answer = calls[t].answer
          /\ c.id = e.id /\ c.audit = e /\ e.id \in Op
      BY Zenon, <2>1 DEF Call, Effect
    <3> HIDE DEF c
    <3>2. Told(c) /\ PlanOf(c)
      BY <2>1, <2>2, <3>1 DEF Told, PlanOf
    <3> QED
      BY <2>2, <3>1, <3>2 DEF Places, Settles, c
  <2>3. ASSUME NEW a \in Answer, Answered(t, a), a \notin {"committed", "replayed", "conflict"}
        PROVE  Settles(t)
    BY <1>3, <2>1, <2>3
  <2> QED
    BY Zenon, <1>11, <2>2, <2>3, RemoveShape
<1>12. ASSUME NEW c \in Call, NEW l \in {"bind", "load"}, Moves(t, l, c),
              pc[t] \in {"delete", "bind"}, c.req = calls[t].req, c.answer = calls[t].answer,
              c.id = calls[t].id, c.audit = calls[t].audit
      PROVE  Settles(t)
  <2>1. Told(calls[t]) /\ PlanOf(calls[t])
    BY <1>12 DEF AnswersAreTrue, Told, Planned
  <2>2. Told(c) /\ PlanOf(c)
    BY Zenon, <1>12, <2>1 DEF Told, PlanOf
  <2> QED
    BY <1>12, <2>2 DEF Places, Settles
<1>13. CASE PlanDelete(t)
  <2>1. PICK w \in Effect \cup {None} :
            /\ [calls[t] EXCEPT !.write = w] \in Call
            /\ Moves(t, "bind", [calls[t] EXCEPT !.write = w])
    BY Zenon, <1>13, DeleteShape
  <2>2. pc[t] = "delete" /\ calls[t] \in Call
    BY <1>13, Busy DEF PlanDelete
  <2>3. PICK c \in Call : /\ Moves(t, "bind", c)
                          /\ c.req = calls[t].req /\ c.answer = calls[t].answer
                          /\ c.id = calls[t].id /\ c.audit = calls[t].audit
    BY Zenon, <2>1, <2>2 DEF Call
  <2> QED
    BY Zenon, <1>12, <2>2, <2>3
<1>14. CASE Bind(t)
  <2>1. pc[t] = "bind" /\ calls[t] \in Call /\ calls[t].id \in Op
    BY <1>14, Busy DEF Bind, Planned, PlanOf
  <2>2. Moves(t, "load", [calls[t] EXCEPT !.bound = policies[calls[t].id]])
    BY <1>14 DEF Bind, Moves, Goto
  <2>3. policies[calls[t].id] \in Policy \cup {None}
    BY <2>1 DEF PolicyTypeOK
  <2>4. PICK c \in Call : /\ Moves(t, "load", c)
                          /\ c.req = calls[t].req /\ c.answer = calls[t].answer
                          /\ c.id = calls[t].id /\ c.audit = calls[t].audit
    BY <2>1, <2>2, <2>3 DEF Call
  <2> QED
    BY <1>12, <2>1, <2>4
<1> QED
  BY <1>2, <1>5, <1>6, <1>7, <1>8, <1>9, <1>10, <1>11, <1>13, <1>14 DEF Aside

(* Such a step preserves what is said of the calls. *)
LEMMA CallsInductive ==
    ASSUME PolicyInv, NEW t \in Thread, Aside(t)
    PROVE  PolicyInv'
<1>1. PolicyTypeOK /\ Planned /\ AnswersAreTrue
  BY DEF PolicyInv
<1>2. UNCHANGED <<policies, audits, committed>> /\ Settles(t)
  BY <1>1, AsideMoves
<1>3. PICK l \in Places, c \in Call :
          /\ Moves(t, l, c) /\ Told(c)
          /\ l \in {"delete", "bind", "load", "commit"} => PlanOf(c)
  BY <1>2 DEF Settles
<1>4. ASSUME NEW u \in Thread
      PROVE  /\ u = t => pc'[u] = l /\ calls'[u] = c
             /\ u # t => pc'[u] = pc[u] /\ calls'[u] = calls[u]
  BY <1>1, <1>3 DEF Moves, PolicyTypeOK
<1>5. c # IdleThread /\ l # "idle"
  BY IdleIsNoCall DEF Places
<1>6. PolicyTypeOK'
  <2>1. /\ pc' \in [Thread -> {"idle"} \cup Places] /\ calls' \in [Thread -> Call \cup {IdleThread}]
    BY <1>1, <1>3 DEF Moves, PolicyTypeOK, Places
  <2>2. \A u \in Thread : pc'[u] = "idle" <=> calls'[u] = IdleThread
    BY Zenon, <1>1, <1>4, <1>5 DEF PolicyTypeOK
  <2> QED
    BY <1>1, <1>2, <2>1, <2>2 DEF PolicyTypeOK, Places
<1>7. Planned'
  <2>1. ASSUME NEW u \in Thread, pc'[u] \in {"delete", "bind", "load", "commit"}
        PROVE  PlanOf(calls'[u])
    BY Zenon, <1>1, <1>3, <1>4, <2>1 DEF Planned
  <2> QED
    BY <2>1 DEF Planned, PlanOf
<1>8. AnswersAreTrue'
  <2>1. ASSUME NEW u \in Thread
        PROVE  Told(calls'[u])
    BY Zenon, <1>1, <1>3, <1>4 DEF AnswersAreTrue, Told
  <2> QED
    BY Zenon, <1>2, <2>1 DEF AnswersAreTrue, Told, Lookup
<1> QED
  BY <1>2, <1>6, <1>7, <1>8 DEF PolicyInv, Created, UniqueRule, AuditReconstructs

(* A thread that returns its answer keeps the invariant. *)
LEMMA LeaveInductive ==
    ASSUME PolicyInv, NEW t \in Thread, Leave(t)
    PROVE  PolicyInv'
<1>1. PolicyTypeOK /\ Planned /\ AnswersAreTrue
  BY DEF PolicyInv
<1>2. UNCHANGED <<policies, audits, committed>>
  BY DEF Leave
<1>3. ASSUME NEW u \in Thread
      PROVE  \/ pc'[u] = "idle" /\ calls'[u] = IdleThread
             \/ pc'[u] = pc[u] /\ calls'[u] = calls[u]
  BY <1>1 DEF Leave, Goto, PolicyTypeOK
<1>4. PolicyTypeOK'
  BY Zenon, <1>1, <1>2 DEF Leave, Goto, PolicyTypeOK
<1>5. Planned'
  <2>1. ASSUME NEW u \in Thread, pc'[u] \in {"delete", "bind", "load", "commit"}
        PROVE  PlanOf(calls'[u])
    BY Zenon, <1>1, <1>3, <2>1 DEF Planned
  <2> QED
    BY <2>1 DEF Planned, PlanOf
<1>6. AnswersAreTrue'
  <2>1. Told(IdleThread)
    BY PolicyAssumption DEF Told, IdleThread, Answer
  <2>2. ASSUME NEW u \in Thread
        PROVE  Told(calls'[u])
    BY Zenon, <1>1, <1>3, <2>1 DEF AnswersAreTrue, Told
  <2> QED
    BY Zenon, <1>2, <2>2 DEF AnswersAreTrue, Told, Lookup
<1> QED
  BY <1>2, <1>4, <1>5, <1>6 DEF PolicyInv, Created, UniqueRule, AuditReconstructs

(* AuditReconstructs of one policy p with id i and the audits as. *)
Gapless(i, n, as) ==
    /\ \A a \in as : a.id = i => a.rev \in 1 .. n
    /\ \A m \in 1 .. n : [id |-> i, rev |-> m, deleted |-> FALSE] \in as

Whole(i, p, as) ==
    /\ p # None => Gapless(i, p.rev, as) /\ \A a \in as : a.id = i => ~a.deleted
    /\ p = None => \/ \A a \in as : a.id # i
                   \/ \E z \in as : /\ z.id = i /\ Gapless(i, z.rev, as) /\ z.deleted
                                     /\ \A a \in as : a.id = i /\ a.deleted => a = z

(* The audit trail can be judged one policy at a time. *)
LEMMA AuditsWhole ==
    /\ AuditReconstructs <=> \A i \in Op : Whole(i, policies[i], audits)
    /\ AuditReconstructs' <=> \A i \in Op : Whole(i, policies'[i], audits')
BY DEF AuditReconstructs, Whole, Gapless

(* What a commit has checked, and what it does. *)
Commits(t, r, w) ==
    /\ r = calls[t].req /\ w.id \in Op /\ Identity(r) \in Identities
    /\ committed[Identity(r)] = None
    /\ committed' = [committed EXCEPT ![Identity(r)] = r]
    /\ audits' = audits \cup {w}
    /\ \/ /\ r.kind = "put" /\ ~w.deleted /\ r.rule \in Rule
          /\ policies' = [policies EXCEPT ![w.id] = [rule |-> r.rule, rev |-> w.rev]]
          /\ ActiveFor(r.rule) \subseteq {w.id}
          /\ w.rev = 1 => w.id = r.op
          /\ w.rev = IF policies[w.id] = None THEN 1 ELSE policies[w.id].rev + 1
       \/ /\ r.kind = "remove" /\ w.deleted /\ w.id = r.id /\ w.rev = r.rev
          /\ policies' = [policies EXCEPT ![w.id] = None]
          /\ policies[w.id] # None /\ policies[w.id].rev = w.rev

(* A commit has checked its preconditions against the current documents. *)
LEMMA CommitFacts ==
    ASSUME PolicyInv, NEW t \in Thread, NEW answer \in {"committed", "error"}, Commit(t, answer)
    PROVE  \E r \in Request, w \in Effect : Commits(t, r, w)
<1> DEFINE r == calls[t].req
           w == calls[t].write
<1>1. PolicyTypeOK /\ pc[t] = "commit" /\ PlanOf(calls[t])
  BY DEF PolicyInv, Commit, Planned
<1>2. r \in Request /\ r.op \in Op /\ r.kind \in {"put", "remove"} /\ Identity(r) \in Identities
  BY Zenon, <1>1, Busy
<1>3. w = calls[t].audit /\ w \in Effect /\ w.id = calls[t].id /\ w.id \in Op
  BY Zenon, <1>1 DEF Commit, Admitted, CanonicalAudit, PlanOf
<1>4. /\ committed[Identity(r)] = None
      /\ committed' = [committed EXCEPT ![Identity(r)] = r]
      /\ audits' = audits \cup {w}
      /\ policies' = [policies EXCEPT ![w.id] =
                         IF w.deleted THEN None ELSE [rule |-> r.rule, rev |-> w.rev]]
  BY Zenon DEF Commit, Preconditions, Apply
<1>5. CASE r.kind = "put"
  <2>1. ~w.deleted /\ (w.rev = 1 => w.id = r.op)
    BY Zenon, <1>1, <1>3, <1>5 DEF PlanOf
  <2>2. r.rule \in Rule
    BY <1>2, <1>5, PolicyAssumption
  <2>3. /\ ActiveFor(r.rule) \subseteq {w.id}
        /\ w.rev = IF policies[w.id] = None THEN 1 ELSE policies[w.id].rev + 1
    BY Zenon, <1>3, <2>1 DEF Commit, Unique, Successor
  <2> QED
    BY Zenon, <1>2, <1>3, <1>4, <1>5, <2>1, <2>2, <2>3 DEF Commits
<1>6. CASE r.kind = "remove"
  <2>1. w.deleted /\ w.id = r.id /\ w.rev = r.rev
    BY Zenon, <1>1, <1>3, <1>6 DEF PlanOf
  <2>2. policies[w.id] # None /\ policies[w.id].rev = w.rev
    BY <2>1 DEF Commit, Successor
  <2> QED
    BY Zenon, <1>2, <1>3, <1>4, <1>6, <2>1, <2>2 DEF Commits
<1> QED
  BY Zenon, <1>2, <1>5, <1>6

(* The commit preserves what is said of the calls ... *)
LEMMA CommitCalls ==
    ASSUME PolicyInv, NEW t \in Thread, NEW answer \in {"committed", "error"}, Commit(t, answer)
    PROVE  PolicyTypeOK' /\ Planned' /\ AnswersAreTrue'
<1>1. PolicyTypeOK /\ Planned /\ AnswersAreTrue /\ pc[t] = "commit"
  BY DEF PolicyInv, Commit
<1>9. PICK r \in Request, w \in Effect : Commits(t, r, w)
  BY CommitFacts
<1>2. /\ r = calls[t].req /\ w.id \in Op /\ Identity(r) \in Identities
      /\ committed[Identity(r)] = None
      /\ committed' = [committed EXCEPT ![Identity(r)] = r]
      /\ audits' = audits \cup {w}
      /\ \/ /\ r.rule \in Rule
            /\ policies' = [policies EXCEPT ![w.id] = [rule |-> r.rule, rev |-> w.rev]]
         \/ policies' = [policies EXCEPT ![w.id] = None]
  BY Zenon, <1>9 DEF Commits
<1> DEFINE c == [calls[t] EXCEPT !.answer = answer]
<1>3. Moves(t, "done", c) /\ c \in Call
  BY Zenon, <1>1, AnsweredShape DEF Commit, Answer
<1>4. c.req = r /\ c.answer = answer /\ c # IdleThread
  BY Zenon, <1>1, <1>2, <1>3, Busy, IdleIsNoCall DEF Call
<1> HIDE DEF c
<1>5. ASSUME NEW u \in Thread
      PROVE  /\ u = t => pc'[u] = "done" /\ calls'[u] = c
             /\ u # t => pc'[u] = pc[u] /\ calls'[u] = calls[u]
  BY <1>1, <1>3 DEF Moves, PolicyTypeOK
<1>6. PolicyTypeOK'
  <2>1. pc' \in [Thread -> {"idle"} \cup Places] /\ calls' \in [Thread -> Call \cup {IdleThread}]
    BY Zenon, <1>1, <1>3 DEF Moves, PolicyTypeOK, Places
  <2>2. \A u \in Thread : pc'[u] = "idle" <=> calls'[u] = IdleThread
    BY Zenon, <1>1, <1>4, <1>5 DEF PolicyTypeOK
  <2>3. policies' \in [Op -> Policy \cup {None}]
    BY <1>1, <1>2 DEF PolicyTypeOK, Policy, Effect
  <2>4. audits' \subseteq Effect /\ committed' \in [Identities -> Request \cup {None}]
    BY Zenon, <1>1, <1>2 DEF PolicyTypeOK
  <2> QED
    BY Zenon, <2>1, <2>2, <2>3, <2>4 DEF PolicyTypeOK, Places
<1>7. Planned'
  <2>1. ASSUME NEW u \in Thread, pc'[u] \in {"delete", "bind", "load", "commit"}
        PROVE  PlanOf(calls'[u])
    BY Zenon, <1>1, <1>5, <2>1 DEF Planned
  <2> QED
    BY Zenon, <2>1 DEF Planned, PlanOf
<1>8. AnswersAreTrue'
  <2> DEFINE Now(q) == IF committed'[Identity(q)] = None THEN "none"
                       ELSE IF committed'[Identity(q)] = q THEN "same" ELSE "different"
             TrueNow(d) == /\ d.answer = "conflict" => Now(d.req) = "different"
                           /\ d.answer \in {"committed", "replayed"} => Now(d.req) = "same"
  <2>1. Now(r) = "same"
    BY Zenon, <1>1, <1>2, PolicyAssumption DEF PolicyTypeOK
  <2>2. ASSUME NEW q \in Request, Lookup(q) # "none"
        PROVE  Now(q) = Lookup(q)
    <3>1. committed[Identity(q)] # None /\ Identity(q) # Identity(r)
      BY Zenon, <1>2, <2>2 DEF Lookup
    <3>2. committed'[Identity(q)] = committed[Identity(q)]
      BY <1>1, <1>2, <3>1 DEF PolicyTypeOK
    <3> QED
      BY Zenon, <3>2 DEF Lookup
  <2> HIDE DEF Now
  <2>3. TrueNow(c)
    BY Zenon, <1>4, <2>1
  <2>4. ASSUME NEW u \in Thread
        PROVE  TrueNow(calls[u])
    <3>1. CASE pc[u] = "idle"
      BY <1>1, <3>1, PolicyAssumption DEF PolicyTypeOK, IdleThread, Answer
    <3>2. CASE pc[u] # "idle"
      <4>1. calls[u].req \in Request /\ Told(calls[u])
        BY <1>1, <3>2, Busy DEF AnswersAreTrue, Told
      <4> QED
        BY Zenon, <2>2, <4>1 DEF Told
    <3> QED
      BY Zenon, <3>1, <3>2
  <2>5. ASSUME NEW u \in Thread
        PROVE  TrueNow(calls'[u])
    BY <1>5, <2>3, <2>4
  <2> QED
    BY <2>5 DEF AnswersAreTrue, Lookup, Now
<1> QED
  BY <1>6, <1>7, <1>8

(* ... that a rule has one policy ... *)
LEMMA CommitUnique ==
    ASSUME PolicyInv, NEW t \in Thread, NEW r \in Request, NEW w \in Effect, Commits(t, r, w)
    PROVE  UniqueRule'
<1>1. PolicyTypeOK /\ UniqueRule
  BY DEF PolicyInv
<1>2. CASE policies' = [policies EXCEPT ![w.id] = None]
  BY Zenon, <1>1, <1>2 DEF UniqueRule, PolicyTypeOK, Commits
<1>3. CASE /\ policies' = [policies EXCEPT ![w.id] = [rule |-> r.rule, rev |-> w.rev]]
           /\ ActiveFor(r.rule) \subseteq {w.id}
  <2>1. ASSUME NEW i \in Op, i # w.id, policies'[i] # None
        PROVE  policies'[i] = policies[i] /\ policies[i].rule # r.rule
    BY <1>1, <1>3, <2>1 DEF PolicyTypeOK, ActiveFor
  <2>2. w.id \in Op => policies'[w.id].rule = r.rule
    BY <1>1, <1>3 DEF PolicyTypeOK
  <2> QED
    BY Zenon, <1>1, <2>1, <2>2 DEF UniqueRule
<1> QED
  BY Zenon, <1>2, <1>3 DEF Commits

(* ... and that the audits tell the policies. *)
LEMMA CommitAudits ==
    ASSUME PolicyInv, NEW t \in Thread, NEW r \in Request, NEW w \in Effect, Commits(t, r, w)
    PROVE  Created' /\ AuditReconstructs'
<1>1. PolicyTypeOK /\ Created /\ \A i \in Op : Whole(i, policies[i], audits)
  BY Zenon, AuditsWhole DEF PolicyInv
<1>2. /\ w.id \in Op /\ w.rev \in Nat \ {0} /\ w.deleted \in BOOLEAN
      /\ w = [id |-> w.id, rev |-> w.rev, deleted |-> w.deleted]
      /\ \A a \in audits : a \in Effect
      /\ audits' = audits \cup {w}
  BY Zenon, <1>1 DEF Effect, Commits, PolicyTypeOK
<1>3. ASSUME policies[w.id] # None
      PROVE  committed[<<w.id, "put">>] # None
  <2>1. policies[w.id].rev \in Nat \ {0}
    BY <1>1, <1>2, <1>3 DEF PolicyTypeOK, Policy
  <2>2. 1 \in 1 .. policies[w.id].rev
    BY <2>1
  <2>3. [id |-> w.id, rev |-> 1, deleted |-> FALSE] \in audits
    BY <1>1, <1>2, <1>3, <2>2 DEF Whole, Gapless
  <2> QED
    BY Zenon, <1>1, <2>3 DEF Created
<1>4. ASSUME policies[w.id] = None
      PROVE  /\ w.rev = 1 /\ w.id = r.op /\ r.kind = "put" /\ \A a \in audits : a.id # w.id
  <2>1. w.rev = 1 /\ w.id = r.op /\ r.kind = "put"
    BY Zenon, <1>4 DEF Commits
  <2>2. committed[<<w.id, "put">>] = None
    BY <2>1 DEF Commits, Identity
  <2> QED
    BY Zenon, <1>1, <2>1, <2>2 DEF Created
<1>5. Created'
  <2>1. committed' = [committed EXCEPT ![Identity(r)] = r] /\ Identity(r) \in Identities /\ r # None
    BY Zenon, PolicyAssumption DEF Commits
  <2>2. \A i \in Identities : committed[i] # None => committed'[i] # None
    BY <1>1, <2>1 DEF PolicyTypeOK
  <2>3. \A i \in Op : <<i, "put">> \in Identities
    BY DEF Identities
  <2>4. committed'[<<w.id, "put">>] # None
    <3>1. CASE policies[w.id] = None
      BY Zenon, <1>1, <1>4, <2>1, <3>1 DEF Identity, PolicyTypeOK
    <3>2. CASE policies[w.id] # None
      BY <1>2, <1>3, <2>2, <2>3, <3>2
    <3> QED
      BY Zenon, <3>1, <3>2
  <2> QED
    BY Zenon, <1>1, <1>2, <2>2, <2>3, <2>4 DEF Created, Effect
<1>6. ASSUME NEW i \in Op, i # w.id
      PROVE  Whole(i, policies'[i], audits')
  <2>1. policies'[i] = policies[i]
    BY Zenon, <1>1, <1>6 DEF Commits, PolicyTypeOK
  <2>2. \A a : a \in audits' /\ a.id = i <=> a \in audits /\ a.id = i
    BY Zenon, <1>2, <1>6
  <2>3. \A n : Gapless(i, n, audits') <=> Gapless(i, n, audits)
    BY <2>2 DEF Gapless
  <2>4. Whole(i, policies[i], audits)
    BY Zenon, <1>1
  <2> QED
    BY Zenon, <2>1, <2>2, <2>3, <2>4 DEF Whole
<1>7. Whole(w.id, policies'[w.id], audits')
  <2>1. CASE ~w.deleted
    <3>1. policies'[w.id] = [rule |-> r.rule, rev |-> w.rev] /\ policies'[w.id] # None
      BY <1>1, <1>2, <2>1, PolicyAssumption DEF Commits, PolicyTypeOK, Policy
    <3>2. Gapless(w.id, w.rev, audits')
      <4>1. CASE policies[w.id] = None
        BY <1>2, <1>4, <2>1, <4>1 DEF Gapless
      <4>2. CASE policies[w.id] # None
        <5>1. /\ policies[w.id].rev \in Nat \ {0} /\ w.rev = policies[w.id].rev + 1
              /\ Gapless(w.id, policies[w.id].rev, audits)
          BY Zenon, <1>1, <1>2, <2>1, <4>2 DEF Commits, PolicyTypeOK, Policy, Whole
        <5> DEFINE n == policies[w.id].rev
        <5> HIDE DEF n
        <5>2. /\ n \in Nat \ {0} /\ w.rev = n + 1 /\ Gapless(w.id, n, audits)
          BY Zenon, <5>1 DEF n
        <5>3. \A m \in 1 .. n + 1 : m \in 1 .. n \/ m = n + 1
          BY <5>2
        <5>4. \A m \in 1 .. n : m \in 1 .. n + 1
          BY <5>2
        <5>5. \A a \in audits' : a.id = w.id => a.rev \in 1 .. n + 1
          BY <1>2, <5>2, <5>4 DEF Gapless
        <5>6. \A m \in 1 .. n + 1 : [id |-> w.id, rev |-> m, deleted |-> FALSE] \in audits'
          BY Zenon, <1>2, <2>1, <5>2, <5>3 DEF Gapless
        <5> QED
          BY <5>2, <5>5, <5>6 DEF Gapless
      <4> QED
        BY Zenon, <4>1, <4>2
    <3>3. \A a \in audits' : a.id = w.id => ~a.deleted
      BY Zenon, <1>1, <1>2, <1>4, <2>1 DEF Whole
    <3> QED
      BY <3>1, <3>2, <3>3 DEF Whole
  <2>2. CASE w.deleted
    <3>1. policies'[w.id] = None /\ policies[w.id] # None /\ policies[w.id].rev = w.rev
      BY <1>1, <1>2, <2>2 DEF Commits, PolicyTypeOK
    <3>2. /\ Gapless(w.id, w.rev, audits) /\ \A a \in audits : a.id = w.id => ~a.deleted
      BY <1>1, <1>2, <3>1 DEF Whole
    <3>3. w.rev \in 1 .. w.rev
      BY <1>2
    <3>4. Gapless(w.id, w.rev, audits')
      BY <1>2, <3>2, <3>3 DEF Gapless
    <3>5. w \in audits' /\ \A a \in audits' : a.id = w.id /\ a.deleted => a = w
      BY <1>2, <3>2
    <3> QED
      BY Zenon, <2>2, <3>1, <3>4, <3>5 DEF Whole
  <2> QED
    BY Zenon, <1>2, <2>1, <2>2
<1> QED
  BY Zenon, <1>5, <1>6, <1>7, AuditsWhole

---------------------------------------------------------------------------
(* Every reachable state satisfies the inductive invariant: types, plans true  *)
(* to their first list, one policy per rule, an audit trail that reconstructs  *)
(* the policies, and true answers.                                             *)
THEOREM PoliciesInductive == PolicySpec => []PolicyInv
<1>1. PolicyInit => PolicyInv
  <2> SUFFICES ASSUME PolicyInit PROVE PolicyInv
    OBVIOUS
  <2>1. PolicyTypeOK
    BY DEF PolicyInit, PolicyTypeOK
  <2>2. Planned /\ Created /\ UniqueRule
    BY Zenon DEF PolicyInit, Planned, Created, UniqueRule
  <2>3. AuditReconstructs
    BY Zenon DEF PolicyInit, AuditReconstructs
  <2>4. AnswersAreTrue
    BY PolicyAssumption DEF PolicyInit, AnswersAreTrue, IdleThread, Answer
  <2> QED
    BY <2>1, <2>2, <2>3, <2>4 DEF PolicyInv
<1>2. PolicyInv /\ [PolicyNext]_policyVars => PolicyInv'
  <2> SUFFICES ASSUME PolicyInv, [PolicyNext]_policyVars PROVE PolicyInv'
    OBVIOUS
  <2>1. ASSUME NEW t \in Thread, NEW answer \in {"committed", "error"}, Commit(t, answer)
        PROVE  PolicyInv'
    BY Zenon, <2>1, CommitFacts, CommitCalls, CommitUnique, CommitAudits DEF PolicyInv
  <2>2. CASE UNCHANGED policyVars
    BY <2>2, SMTT(30) DEF policyVars, PolicyInv, PolicyTypeOK, Planned, PlanOf, Created, UniqueRule, AuditReconstructs,
                AnswersAreTrue, Lookup
  <2> QED
    BY <2>1, <2>2, CallsInductive, LeaveInductive DEF PolicyNext, Aside
<1> QED
  BY <1>1, <1>2, PTL DEF PolicySpec

(* A rule has at most one policy, for any number of concurrent puts            *)
(* (validate_unique_governance_policies).                                      *)
THEOREM RulesAreUnique == PolicySpec => []UniqueRule
<1>1. PolicyInv => UniqueRule
  BY DEF PolicyInv
<1> QED
  BY <1>1, PoliciesInductive, PTL

(* The audit trail reconstructs the policies and an id and a revision name one *)
(* state of a rule for ever (validate_long_term_control_post_image).           *)
THEOREM AuditsReconstruct == PolicySpec => []AuditReconstructs
<1>1. PolicyInv => AuditReconstructs
  BY DEF PolicyInv
<1> QED
  BY <1>1, PoliciesInductive, PTL

(* Committed, replayed and conflict are answered only where the receipts say   *)
(* so.                                                                         *)
THEOREM PolicyAnswersAreTrue == PolicySpec => []AnswersAreTrue
<1>1. PolicyInv => AnswersAreTrue
  BY DEF PolicyInv
<1> QED
  BY <1>1, PoliciesInductive, PTL

(* A policy disappears only by the removal of exactly its id and revision: an  *)
(* old removal spares the later incarnations of a rule (remove_exact_policy).  *)
THEOREM OldRemovalsSpareLater == PolicySpec => OldRemovalSparesLater
<1> DEFINE Spares == \A i \in Op : policies[i] # None /\ policies'[i] = None =>
                        \E r \in Request :
                            /\ r.kind = "remove" /\ r.id = i /\ r.rev = policies[i].rev
                            /\ committed[Identity(r)] = None /\ committed'[Identity(r)] = r
<1>1. PolicyInv /\ [PolicyNext]_policyVars => [Spares]_policyVars
  <2>1. SUFFICES ASSUME PolicyInv, [PolicyNext]_policyVars PROVE Spares
    BY Zenon
  <2>2. ASSUME NEW t \in Thread, NEW r \in Request, NEW w \in Effect, Commits(t, r, w)
        PROVE  Spares
    <3>1. SUFFICES ASSUME NEW i \in Op, policies[i] # None, policies'[i] = None
                   PROVE  /\ r.kind = "remove" /\ r.id = i /\ r.rev = policies[i].rev
                          /\ committed[Identity(r)] = None /\ committed'[Identity(r)] = r
      OBVIOUS
    <3>2. PolicyTypeOK /\ w.rev \in Nat \ {0}
      BY <2>1 DEF PolicyInv, Effect
    <3>3. i = w.id
      BY Zenon, <2>2, <3>1, <3>2 DEF Commits, PolicyTypeOK
    <3>4. r.rule \in Rule => [rule |-> r.rule, rev |-> w.rev] # None
      BY <3>2, PolicyAssumption DEF Policy
    <3>5. r.kind = "remove" /\ r.id = i /\ r.rev = policies[i].rev
      BY Zenon, <2>2, <3>1, <3>2, <3>3, <3>4 DEF Commits, PolicyTypeOK
    <3>6. committed[Identity(r)] = None /\ committed'[Identity(r)] = r
      BY Zenon, <2>2, <3>2 DEF Commits, PolicyTypeOK
    <3> QED
      BY Zenon, <3>5, <3>6
  <2>3. ASSUME UNCHANGED policies
        PROVE  Spares
    BY Zenon, <2>3
  <2>4. ASSUME NEW t \in Thread, NEW answer \in {"committed", "error"}, Commit(t, answer)
        PROVE  Spares
    BY <2>1, <2>2, <2>4, CommitFacts
  <2>5. ASSUME NEW t \in Thread, Aside(t) \/ Leave(t)
        PROVE  UNCHANGED policies
    BY Zenon, <2>1, <2>5, AsideMoves DEF Leave, PolicyInv
  <2>6. CASE UNCHANGED policyVars
    BY <2>3, <2>6 DEF policyVars
  <2> QED
    BY Zenon, <2>1, <2>3, <2>4, <2>5, <2>6 DEF PolicyNext, Aside
<1> QED
  BY <1>1, PoliciesInductive, PTL DEF PolicySpec, OldRemovalSparesLater

---------------------------------------------------------------------------
(* The learning engine. *)

(* Lists. *)

(* The elements of a list without its n-th. *)
LEMMA RemovedIs ==
  ASSUME NEW S, NEW s \in Seq(S), NEW n \in 1 .. Len(s), NEW r,
         r = [i \in 1 .. Len(s) - 1 |-> IF i < n THEN s[i] ELSE s[i + 1]]
  PROVE  /\ r \in Seq(S) /\ Len(r) = Len(s) - 1
         /\ \A k \in 1 .. Len(s) - 1 : r[k] = IF k < n THEN s[k] ELSE s[k + 1]
<1>1. Len(s) \in Nat /\ Len(s) - 1 \in Nat /\ \A i \in 1 .. Len(s) : s[i] \in S
  OBVIOUS
<1>2. \A i \in 1 .. Len(s) - 1 : i \in 1 .. Len(s) /\ i + 1 \in 1 .. Len(s)
  BY <1>1
<1>3. r \in [1 .. Len(s) - 1 -> S]
  BY Zenon, <1>1, <1>2
<1> QED BY <1>1, <1>3

(* Removing from a list without duplicates removes exactly the element. *)
LEMMA WithoutIs ==
  ASSUME NEW S, NEW s \in Seq(S), NEW e
  PROVE  /\ Without(s, e) \in Seq(S)
         /\ Len(Without(s, e)) <= Len(s)
         /\ Range(Without(s, e)) \subseteq Range(s)
         /\ (\A i, k \in 1 .. Len(s) : s[i] = s[k] => i = k) =>
               /\ \A i, k \in 1 .. Len(Without(s, e)) :
                     Without(s, e)[i] = Without(s, e)[k] => i = k
               /\ Range(Without(s, e)) = Range(s) \ {e}
<1> DEFINE r == Without(s, e)
<1>0. \A q \in Seq(S) : Range(q) = {q[i] : i \in 1 .. Len(q)}
  BY DEF Range
<1>1. CASE e \notin Range(s)
  <2>1. r = s
    BY <1>1 DEF Without
  <2>2. Range(s) = Range(s) \ {e}
    BY Zenon, <1>1
  <2> QED BY <2>1, <2>2
<1>2. CASE e \in Range(s)
  <2> DEFINE n == CHOOSE i \in 1 .. Len(s) : s[i] = e
  <2>1. n \in 1 .. Len(s) /\ s[n] = e
    BY <1>2, <1>0
  <2>2. r = [i \in 1 .. Len(s) - 1 |-> IF i < n THEN s[i] ELSE s[i + 1]]
    BY Zenon, <1>2 DEF Without
  <2> HIDE DEF n, r
  <2>3. /\ r \in Seq(S) /\ Len(r) = Len(s) - 1
        /\ \A k \in 1 .. Len(s) - 1 : r[k] = IF k < n THEN s[k] ELSE s[k + 1]
    BY Zenon, <2>1, <2>2, RemovedIs
  <2>4. Range(r) \subseteq Range(s)
    BY <2>1, <2>3, <1>0
  <2>5. ASSUME \A i, k \in 1 .. Len(s) : s[i] = s[k] => i = k
        PROVE  /\ \A i, k \in 1 .. Len(r) : r[i] = r[k] => i = k
               /\ e \notin Range(r)
               /\ Range(s) \ {e} \subseteq Range(r)
    <3>1. \A i, k \in 1 .. Len(r) : r[i] = r[k] => i = k
      BY <2>1, <2>3, <2>5
    <3>2. e \notin Range(r)
      BY <2>1, <2>3, <2>5, <1>0
    <3>3. ASSUME NEW m \in 1 .. Len(s), s[m] # e PROVE s[m] \in Range(r)
      <4>1. CASE m < n
        BY <4>1, <2>1, <2>3, <1>0
      <4>2. CASE m > n
        <5>1. m - 1 \in 1 .. Len(r) /\ r[m - 1] = s[m]
          BY <4>2, <2>1, <2>3
        <5> QED BY Zenon, <5>1, <2>3, <1>0
      <4> QED BY <4>1, <4>2, <3>3, <2>1
    <3> QED BY <3>1, <3>2, <3>3, <1>0
  <2> QED BY <2>3, <2>4, <2>5 DEF r
<1> QED BY Zenon, <1>1, <1>2

---------------------------------------------------------------------------
(* Types. *)

(* A job as the queue keeps it: a block has a reason, only a lease or a retry  *)
(* delay is held.                                                            *)
WellFormed(job) ==
    /\ job \in JobRecord
    /\ (job.status \in Blocked) = (job.block # "none")
    /\ (job.status = "BlockedCapability") = (job.block = "capability")
    /\ job.held => job.status \in {"Leased", "RetryWaiting"}

(* The part of the type invariant that a committed change of a job affects. *)
QueueOK ==
    /\ jobs \in [Job -> JobRecord]
    /\ \A j \in Job : WellFormed(jobs[j])
    /\ \A j \in Job : jobs[j].held => j \notin Range(later)
    /\ later \in Seq(Job) /\ IsInjective(later)
    /\ fresh \in BOOLEAN /\ owed \subseteq Job

(* What concerns the other variables. *)
RestOK ==
    /\ feedback \in Seq({"due", "dead"})
    /\ lane \in [Worker -> {0, 1}]
    /\ worker \in [Worker -> Cycle]
    /\ \A w \in Worker : worker[w].pc \notin {"idle", "procedural"} => worker[w].job \in Job
    /\ host \in HostRecord
    /\ call \in [pc : {"idle", "visit", "read", "commit", "ok", "err"},
                 op : Operation \cup {NoCall.op}, todo : Seq(Job)]
    /\ receipts \subseteq [job : Job, op : Operation]
    /\ left \in [Event -> Nat]

(* The type invariant is what concerns the queue and what concerns the rest. *)
LEMMA TypeParts == TypeOK <=> QueueOK /\ RestOK
  <1>1. TypeOK => QueueOK
    BY Zenon DEF TypeOK, QueueOK, WellFormed
  <1>2. TypeOK => RestOK
    BY Zenon DEF TypeOK, RestOK
  <1>3. QueueOK /\ RestOK => TypeOK
    BY Zenon DEF TypeOK, QueueOK, RestOK, WellFormed
  <1> QED BY <1>1, <1>2, <1>3

(* A new job is well-formed. *)
LEMMA NewJobIs ==
    ASSUME NEW j, NEW unbound
    PROVE  WellFormed(NewJob(j, unbound)) /\ ~NewJob(j, unbound).held
  <1>1. CASE j \in unbound
    BY <1>1, CycleAssumption DEF NewJob, WellFormed, JobRecord, Blocked, Active, Terminal, Reason
  <1>2. CASE j \notin unbound
    BY <1>2, CycleAssumption DEF NewJob, WellFormed, JobRecord, Blocked, Active, Terminal, Reason
  <1> QED BY Zenon, <1>1, <1>2

(* What Released returns. *)
LEMMA ReleasedIs ==
    ASSUME QueueOK, NEW j \in Job, NEW status \in Active \cup Terminal, NEW block \in Reason,
           NEW gen \in 0 .. Good, (status \in Blocked) = (block # "none"),
           (status = "BlockedCapability") = (block = "capability")
    PROVE  /\ WellFormed(Released(j, status, block, gen))
           /\ ~Released(j, status, block, gen).held
           /\ Released(j, status, block, gen).status = status
           /\ Released(j, status, block, gen).block = block
           /\ Released(j, status, block, gen).gen = gen
           /\ Released(j, status, block, gen).attempts = jobs[j].attempts
           /\ Released(j, status, block, gen).epoch = jobs[j].epoch
           /\ Released(j, status, block, gen).recovered = jobs[j].recovered
  <1>1. jobs[j] \in JobRecord
    BY DEF QueueOK
  <1>2. Released(j, status, block, gen) \in JobRecord
    BY Zenon, <1>1 DEF Released, JobRecord
  <1>3. /\ Released(j, status, block, gen).held = FALSE
        /\ Released(j, status, block, gen).status = status
        /\ Released(j, status, block, gen).block = block
        /\ Released(j, status, block, gen).gen = gen
        /\ Released(j, status, block, gen).attempts = jobs[j].attempts
        /\ Released(j, status, block, gen).epoch = jobs[j].epoch
        /\ Released(j, status, block, gen).recovered = jobs[j].recovered
    BY <1>1 DEF Released, JobRecord
  <1> QED BY Zenon, <1>2, <1>3 DEF WellFormed

(* What it returns for a job that it does not block. *)
LEMMA FreedIs ==
    ASSUME QueueOK, NEW j \in Job,
           NEW status \in {"Pending", "Leased", "RetryWaiting", "Succeeded", "DeadLetter", "Cancelled"}
    PROVE  /\ WellFormed(Released(j, status, "none", 0))
           /\ Released(j, status, "none", 0) \in JobRecord
           /\ ~Released(j, status, "none", 0).held
           /\ Released(j, status, "none", 0).status = status
           /\ Released(j, status, "none", 0).block = "none"
           /\ Released(j, status, "none", 0).attempts = jobs[j].attempts
           /\ Released(j, status, "none", 0).recovered = jobs[j].recovered
  <1>1. status \in Active \cup Terminal /\ status \notin Blocked /\ status # "BlockedCapability"
    BY Zenon DEF Active, Blocked, Terminal
  <1>2. "none" \in Reason /\ 0 \in 0 .. Good
    BY CycleAssumption DEF Reason
  <1>3. (status \in Blocked) = ("none" # "none") /\ (status = "BlockedCapability") = ("none" = "capability")
    BY <1>1
  <1> DEFINE r == Released(j, status, "none", 0)
  <1>4. /\ WellFormed(r) /\ ~r.held /\ r.status = status /\ r.block = "none"
        /\ r.attempts = jobs[j].attempts /\ r.recovered = jobs[j].recovered
    BY <1>1, <1>2, <1>3, ReleasedIs
  <1> HIDE DEF r
  <1>5. r \in JobRecord
    BY Zenon, <1>4 DEF WellFormed
  <1> QED BY Zenon, <1>4, <1>5 DEF r

(* And for one that it blocks for the configuration or a policy. *)
LEMMA StoppedIs ==
    ASSUME QueueOK, NEW j \in Job, NEW status \in {"BlockedConfiguration", "BlockedPolicy"},
           NEW block \in {"binding", "credential", "permission", "authority"}, NEW gen \in 0 .. Good
    PROVE  /\ WellFormed(Released(j, status, block, gen))
           /\ ~Released(j, status, block, gen).held
           /\ Released(j, status, block, gen).block = block
           /\ Released(j, status, block, gen).recovered = jobs[j].recovered
  <1>1. status \in Active \cup Terminal /\ status \in Blocked /\ status # "BlockedCapability"
    BY DEF Active, Blocked, Terminal
  <1>2. block \in Reason /\ block # "none" /\ block # "capability"
    BY DEF Reason
  <1>3. (status \in Blocked) = (block # "none") /\ (status = "BlockedCapability") = (block = "capability")
    BY <1>1, <1>2
  <1> QED BY <1>1, <1>2, <1>3, ReleasedIs

(* A committed change of a well-formed job keeps the queue well-formed. *)
LEMMA PutOK ==
    ASSUME QueueOK, NEW j \in Job, NEW job, WellFormed(job), NEW stamped \in BOOLEAN,
           stamped => ~job.held, Put(j, job, stamped)
    PROVE  /\ QueueOK'
           /\ jobs'[j] = job /\ \A k \in Job \ {j} : jobs'[k] = jobs[k]
           /\ owed' = owed \ {j} /\ fresh' = FALSE
  <1> DEFINE rest == Without(later, j)
  <1>1. /\ rest \in Seq(Job) /\ Range(rest) = Range(later) \ {j}
        /\ \A i, k \in 1 .. Len(rest) : rest[i] = rest[k] => i = k
    <2>1. later \in Seq(Job) /\ \A i, k \in 1 .. Len(later) : later[i] = later[k] => i = k
      BY DEF QueueOK, IsInjective
    <2> QED BY Zenon, <2>1, WithoutIs
  <1>2. /\ jobs' \in [Job -> JobRecord] /\ jobs'[j] = job
        /\ \A k \in Job \ {j} : jobs'[k] = jobs[k]
    BY Zenon DEF Put, QueueOK, WellFormed
  <1>3. \A k \in Job : WellFormed(jobs'[k])
    BY <1>2 DEF QueueOK
  <1>4. later' = IF stamped THEN Append(rest, j) ELSE rest
    BY DEF Put
  <1> HIDE DEF rest
  <1>5. CASE stamped
    <2>1. later' = Append(rest, j)
      BY Zenon, <1>4, <1>5
    <2>2. /\ later' \in Seq(Job) /\ Len(later') = Len(rest) + 1 /\ later'[Len(rest) + 1] = j
          /\ \A i \in 1 .. Len(rest) : later'[i] = rest[i]
      BY <2>1, <1>1
    <2>3. /\ Range(later') \subseteq Range(rest) \cup {j}
          /\ \A i \in 1 .. Len(rest) : rest[i] # j
      <3>1. Range(later') = {later'[i] : i \in 1 .. Len(later')} /\ Range(rest) = {rest[i] : i \in 1 .. Len(rest)}
        BY <2>2, <1>1 DEF Range
      <3>2. \A i \in 1 .. Len(rest) : rest[i] \in Range(rest) /\ rest[i] # j
        BY Zenon, <3>1, <1>1
      <3>3. \A i \in 1 .. Len(later') : later'[i] = j \/ later'[i] \in Range(rest)
        BY <3>2, <2>2, <1>1
      <3> QED BY Zenon, <3>1, <3>2, <3>3
    <2>4. IsInjective(later')
      BY <2>2, <2>3, <1>1 DEF IsInjective
    <2>5. \A k \in Job : jobs'[k].held => k \notin Range(later')
      BY <2>3, <1>1, <1>2, <1>5 DEF QueueOK
    <2> QED BY Zenon, <1>2, <1>3, <2>2, <2>4, <2>5 DEF QueueOK, Put
  <1>6. CASE ~stamped
    <2>1. later' = rest
      BY <1>4, <1>6
    <2>2. IsInjective(later')
      BY <2>1, <1>1 DEF IsInjective
    <2>3. \A k \in Job : jobs'[k].held => k \notin Range(later')
      BY Zenon, <2>1, <1>1, <1>2 DEF QueueOK
    <2> QED BY Zenon, <1>1, <1>2, <1>3, <2>1, <2>2, <2>3 DEF QueueOK, Put
  <1> QED BY Zenon, <1>5, <1>6

(* An ordinary change of a job: it leaves the record of its recoveries alone. *)
Writes(j, job, stamped) ==
    /\ j \in Job /\ stamped \in BOOLEAN
    /\ WellFormed(job) /\ (stamped => ~job.held) /\ job.recovered = jobs[j].recovered
    /\ Put(j, job, stamped)

Authority == {"authority", "permission", "credential"}

(* What a worker's step does to the queue: nothing, or a change of the job it  *)
(* works on that ends a block which needs authority only by a resumption.      *)
WorkerWrites(w) ==
    \E job \in JobRecord, stamped \in BOOLEAN :
        /\ Writes(worker[w].job, job, stamped)
        /\ jobs[worker[w].job].block \in Authority /\ job.block = "none" => worker[w].pc = "resume"

Cycles(w) ==
    /\ NoPut \/ WorkerWrites(w)
    /\ RestOK' /\ UNCHANGED <<call, receipts>>
    /\ \A v \in Worker \ {w} : worker'[v] = worker[v]

(* A worker between two cycles. *)
LEMMA IdleOK == Idle \in Cycle /\ Idle.pc = "idle"
  BY CycleAssumption DEF Idle, Cycle

(* The end of a cycle. *)
LEMMA EndsOK ==
    ASSUME RestOK, NEW w \in Worker, Ends(w)
    PROVE  /\ worker' \in [Worker -> Cycle]
           /\ \A v \in Worker : worker'[v].pc \notin {"idle", "procedural"} => worker'[v].job \in Job
           /\ worker'[w].pc = "idle" /\ \A v \in Worker \ {w} : worker'[v] = worker[v]
  <1>1. Idle \in Cycle /\ Idle.pc = "idle"
    BY Zenon, IdleOK
  <1>2. /\ worker' \in [Worker -> Cycle] /\ worker'[w] = Idle
        /\ \A v \in Worker \ {w} : worker'[v] = worker[v]
    BY <1>1 DEF Ends, RestOK
  <1> QED BY Zenon, <1>1, <1>2 DEF RestOK

(* An event that happens is counted. *)
LEMMA SpendOK ==
    ASSUME left \in [Event -> Nat], NEW what \in Event, Spend(what)
    PROVE  left' \in [Event -> Nat] /\ left'[what] < left[what]
  BY DEF Spend

(* A worker moves on with a record of its cycle. *)
LEMMA CycleOK ==
    ASSUME RestOK, NEW w \in Worker, NEW c \in Cycle, c.pc \notin {"idle", "procedural"} => c.job \in Job,
           worker' = [worker EXCEPT ![w] = c]
    PROVE  /\ worker' \in [Worker -> Cycle]
           /\ \A v \in Worker : worker'[v].pc \notin {"idle", "procedural"} => worker'[v].job \in Job
           /\ worker'[w] = c /\ \A v \in Worker \ {w} : worker'[v] = worker[v]
  <1>1. /\ worker' \in [Worker -> Cycle] /\ worker'[w] = c
        /\ \A v \in Worker \ {w} : worker'[v] = worker[v]
    BY Zenon DEF RestOK
  <1> QED BY <1>1 DEF RestOK

(* Choosing a job writes nothing; only a job blocked for a capability is      *)
(* resumed.                                                                   *)
LEMMA ChooseIs ==
    ASSUME QueueOK, RestOK, NEW w \in Worker, Choose(w)
    PROVE  /\ Cycles(w) /\ NoPut
           /\ worker'[w].pc = "resume" => /\ worker'[w].job \in Job
                                         /\ jobs[worker'[w].job].status = "BlockedCapability"
  <1>1. lane' \in [Worker -> {0, 1}]
    <2>1. lane' = [lane EXCEPT ![w] = 1 - lane[w]]
      BY Zenon DEF Choose
    <2>2. lane \in [Worker -> {0, 1}]
      BY DEF RestOK
    <2> QED BY <2>1, <2>2
  <1>2. NoPut /\ UNCHANGED <<feedback, host, call, receipts, left>>
    BY Zenon DEF Choose, NoPut
  <1> DEFINE good == /\ worker' \in [Worker -> Cycle]
                     /\ \A v \in Worker : worker'[v].pc \notin {"idle", "procedural"} => worker'[v].job \in Job
                     /\ \A v \in Worker \ {w} : worker'[v] = worker[v]
                     /\ worker'[w].pc = "resume" =>
                           worker'[w].job \in Job /\ jobs[worker'[w].job].status = "BlockedCapability"
  <1>0. Idle \in Cycle
    BY CycleAssumption DEF Idle, Cycle
  <1>3. ASSUME worker' = [worker EXCEPT ![w] = [Idle EXCEPT !.pc = "procedural"]]
        PROVE  good
    <2> DEFINE c == [Idle EXCEPT !.pc = "procedural"]
    <2>1. c \in Cycle /\ c.pc = "procedural"
      BY <1>0 DEF Cycle
    <2>2. worker' = [worker EXCEPT ![w] = c]
      BY <1>3
    <2> HIDE DEF c
    <2> QED BY Zenon, <2>1, <2>2, CycleOK
  <1>4. ASSUME NEW j \in Heads,
               worker' = [worker EXCEPT ![w] =
                         [Idle EXCEPT !.job = j, !.seen = jobs[j].status, !.unbound = ~jobs[j].bound,
                            !.pc = IF jobs[j].status = "BlockedCapability" THEN "resume"
                                   ELSE "prepare"]]
        PROVE  good
    <2> DEFINE c == [Idle EXCEPT !.job = j, !.seen = jobs[j].status, !.unbound = ~jobs[j].bound,
                            !.pc = IF jobs[j].status = "BlockedCapability" THEN "resume"
                                   ELSE "prepare"]
    <2>1. j \in Job /\ jobs[j] \in JobRecord
      BY DEF Heads, QueueOK
    <2>2. c \in Cycle
      BY Zenon, <2>1, <1>0 DEF Cycle, JobRecord
    <2>3. c.job = j /\ c.pc = IF jobs[j].status = "BlockedCapability" THEN "resume" ELSE "prepare"
      BY <1>0 DEF Cycle
    <2> HIDE DEF c
    <2>4. worker' = [worker EXCEPT ![w] = c]
      BY <1>4 DEF c
    <2>5. c.pc \notin {"idle", "procedural"} => c.job \in Job
      BY Zenon, <2>1, <2>3
    <2> QED BY Zenon, <2>1, <2>2, <2>3, <2>4, <2>5, CycleOK
  <1>5. ASSUME UNCHANGED worker, worker[w].pc = "idle"
        PROVE  good
    BY <1>5 DEF RestOK
  <1>6. good
    <2>1. worker[w].pc = "idle"
      BY Zenon DEF Choose
    <2>2. \/ worker' = [worker EXCEPT ![w] = [Idle EXCEPT !.pc = "procedural"]]
          \/ UNCHANGED worker
          \/ \E j \in Heads :
                worker' = [worker EXCEPT ![w] =
                         [Idle EXCEPT !.job = j, !.seen = jobs[j].status, !.unbound = ~jobs[j].bound,
                            !.pc = IF jobs[j].status = "BlockedCapability" THEN "resume"
                                   ELSE "prepare"]]
      BY Zenon DEF Choose
    <2> HIDE DEF good
    <2> QED BY Zenon, <1>3, <1>4, <1>5, <2>1, <2>2
  <1> QED BY <1>1, <1>2, <1>6 DEF Cycles, RestOK


(* A cycle on the procedural lane writes no job and ends. *)
LEMMA ProceduralIs ==
    ASSUME QueueOK, RestOK, NEW w \in Worker, Procedural(w)
    PROVE  Cycles(w) /\ worker'[w].pc = "idle"
  <1>1. feedback' \in Seq({"due", "dead"})
    <2>1. feedback \in Seq({"due", "dead"}) /\ (feedback' = feedback \/ (feedback # <<>> /\ feedback' = Tail(feedback)))
      BY Zenon DEF Procedural, RestOK
    <2> QED BY <2>1
  <1>2. Ends(w) /\ NoPut /\ UNCHANGED <<lane, host, call, receipts, left>>
    BY DEF Procedural
  <1> QED BY <1>1, <1>2, EndsOK DEF Cycles, RestOK

(* A worker's change of its own job is a change of the queue. *)
LEMMA WorkerWritesIs ==
    ASSUME QueueOK, NEW w \in Worker, worker[w].job \in Job, NEW job, WellFormed(job),
           NEW stamped \in BOOLEAN, stamped => ~job.held,
           job.recovered = jobs[worker[w].job].recovered,
           jobs[worker[w].job].block \in Authority /\ job.block = "none" => worker[w].pc = "resume",
           Put(worker[w].job, job, stamped)
    PROVE  WorkerWrites(w)
  BY Zenon DEF WorkerWrites, Writes, WellFormed

(* Resuming a blocked job is an ordinary step of a cycle. *)
LEMMA ResumeIs ==
    ASSUME QueueOK, RestOK, NEW w \in Worker, ResumeCapability(w)
    PROVE  Cycles(w) /\ worker'[w].pc \in {"prepare", "idle"}
  <1> DEFINE j == worker[w].job
  <1>1. worker[w].pc = "resume" /\ j \in Job
    BY DEF ResumeCapability, RestOK
  <1>2. UNCHANGED <<feedback, lane, host, call, receipts, left>>
    BY Zenon DEF ResumeCapability
  <1>3. CASE jobs[j].status \in Blocked
    <2>1. /\ Put(j, Released(j, "Pending", "none", 0), TRUE)
          /\ worker' = [worker EXCEPT ![w].pc = "prepare", ![w].seen = "Pending"]
      BY Zenon, <1>3 DEF ResumeCapability
    <2>2. WorkerWrites(w)
      <3> DEFINE job == Released(j, "Pending", "none", 0)
      <3>1. WellFormed(job) /\ ~job.held /\ job.recovered = jobs[j].recovered
        BY Zenon, <1>1, FreedIs
      <3> HIDE DEF job
      <3> QED BY Zenon, <3>1, <1>1, <2>1, WorkerWritesIs DEF job
    <2> DEFINE c == [worker[w] EXCEPT !.pc = "prepare", !.seen = "Pending"]
    <2>3. c \in Cycle /\ c.job = j /\ c.pc = "prepare" /\ worker' = [worker EXCEPT ![w] = c]
      BY Zenon, <2>1 DEF RestOK, Cycle, Active
    <2> HIDE DEF c
    <2> QED BY <1>1, <1>2, <2>2, <2>3, CycleOK DEF Cycles, RestOK
  <1>4. CASE jobs[j].status \notin Blocked
    <2>1. NoPut /\ Ends(w)
      BY <1>4 DEF ResumeCapability
    <2> QED BY Zenon, <1>2, <2>1, EndsOK DEF Cycles, RestOK
  <1> QED BY <1>3, <1>4

(* Blocking a job before its claim is an ordinary write, or none. *)
LEMMA TryBlockIs ==
    ASSUME QueueOK, NEW w \in Worker, worker[w].job \in Job, NEW status \in {"BlockedConfiguration", "BlockedPolicy"},
           NEW block \in {"binding", "authority"}, TryBlock(worker[w].job, status, block)
    PROVE  NoPut \/ WorkerWrites(w)
  <1> DEFINE j == worker[w].job
             job == Released(j, status, block, 0)
  <1>1. /\ WellFormed(job) /\ ~job.held /\ job.recovered = jobs[j].recovered /\ job.block = block
    <2>1. 0 \in 0 .. Good
      BY CycleAssumption
    <2> QED BY <2>1, StoppedIs
  <1>2. NoPut \/ Put(j, job, FALSE)
    BY Zenon DEF TryBlock
  <1> HIDE DEF job
  <1> QED BY Zenon, <1>1, <1>2, WorkerWritesIs

(* Preparing an execution is an ordinary step. *)
LEMMA PrepareIs ==
    ASSUME QueueOK, RestOK, NEW w \in Worker, Prepare(w)
    PROVE  Cycles(w) /\ worker'[w].pc \in {"claim", "idle"}
  <1> DEFINE j == worker[w].job
  <1>1. worker[w].pc = "prepare" /\ j \in Job
    BY Zenon DEF Prepare, RestOK
  <1>2. UNCHANGED <<feedback, lane, host, call, receipts>>
    BY DEF Prepare
  <1>3. left' \in [Event -> Nat]
    <2>1. UNCHANGED left \/ Spend("fault")
      BY Zenon DEF Prepare
    <2>2. left \in [Event -> Nat] /\ "fault" \in Event
      BY Zenon DEF RestOK, Event
    <2> QED BY <2>1, <2>2, SpendOK
  <1>4. \/ /\ NoPut \/ TryBlock(j, "BlockedConfiguration", "binding") \/ TryBlock(j, "BlockedPolicy", "authority")
           /\ Ends(w)
        \/ NoPut /\ Goes(w, "claim")
    BY DEF Prepare
  <1>5. CASE Ends(w) /\ (NoPut \/ TryBlock(j, "BlockedConfiguration", "binding") \/ TryBlock(j, "BlockedPolicy", "authority"))
    <2>1. NoPut \/ WorkerWrites(w)
      BY <1>1, <1>5, TryBlockIs
    <2> QED BY Zenon, <2>1, <1>2, <1>3, <1>5, EndsOK DEF Cycles, RestOK
  <1>6. CASE NoPut /\ Goes(w, "claim")
    <2> DEFINE c == [worker[w] EXCEPT !.pc = "claim"]
    <2>1. c \in Cycle /\ c.job = j /\ c.pc = "claim" /\ worker' = [worker EXCEPT ![w] = c]
      BY Zenon, <1>6 DEF Goes, RestOK, Cycle
    <2> HIDE DEF c
    <2> QED BY Zenon, <2>1, <1>1, <1>2, <1>3, <1>6, CycleOK DEF Cycles, RestOK
  <1> QED BY Zenon, <1>4, <1>5, <1>6

(* So is the claim. *)
LEMMA ClaimIs ==
    ASSUME QueueOK, RestOK, NEW w \in Worker, Claim(w)
    PROVE  Cycles(w) /\ worker'[w].pc \in {"resolve", "idle"}
  <1> DEFINE j == worker[w].job
  <1>1. worker[w].pc = "claim" /\ j \in Job
    BY Zenon DEF Claim, RestOK
  <1>2. UNCHANGED <<feedback, lane, host, call, receipts, left>>
    BY DEF Claim
  <1>3. CASE Claimable(j)
    <2> DEFINE free == Released(j, "Leased", "none", 0)
               job == [free EXCEPT !.held = TRUE, !.bound = TRUE, !.epoch = @ + 1, !.attempts = @ + 1]
               c == [worker[w] EXCEPT !.pc = "resolve", !.epoch = jobs[j].epoch + 1]
    <2>0. jobs[j] \in JobRecord /\ jobs[j].attempts < MaxAttempts /\ jobs[j].block \notin Authority
      BY Zenon, <1>1, <1>3 DEF QueueOK, WellFormed, Claimable, UnboundAdoption, Authority, JobRecord
    <2>1. Put(j, job, FALSE) /\ worker' = [worker EXCEPT ![w] = c]
      BY Zenon, <1>3 DEF Claim, RestOK
    <2>2. /\ free \in JobRecord /\ free.recovered = jobs[j].recovered /\ free.status = "Leased"
          /\ free.block = "none" /\ free.attempts = jobs[j].attempts
      BY Zenon, <1>1, FreedIs
    <2>3. WellFormed(job) /\ job.recovered = jobs[j].recovered
      <3>1. free.attempts + 1 \in 0 .. MaxAttempts
        BY <2>0, <2>2, CycleAssumption DEF JobRecord
      <3>2. free.epoch + 1 \in Nat
        BY <2>2 DEF JobRecord
      <3> DEFINE e == free.epoch + 1
                 a == free.attempts + 1
      <3>3. job = [free EXCEPT !.held = TRUE, !.bound = TRUE, !.epoch = e, !.attempts = a]
        BY <2>2 DEF JobRecord
      <3> HIDE DEF free, e, a, job
      <3>4. /\ job.status = "Leased" /\ job.block = "none" /\ job.recovered = jobs[j].recovered
            /\ job.held = TRUE
        BY <2>2, <3>3 DEF JobRecord
      <3>5. job \in JobRecord
        BY Zenon, <2>2, <3>1, <3>2, <3>3 DEF JobRecord, e, a
      <3> QED BY <3>4, <3>5 DEF WellFormed, Blocked
    <2>4. c \in Cycle /\ c.job = j /\ c.pc = "resolve"
      <3>1. jobs[j].epoch + 1 \in Nat /\ worker[w] \in Cycle
        BY <2>0 DEF JobRecord, RestOK
      <3> QED BY Zenon, <3>1 DEF Cycle
    <2> HIDE DEF job, c
    <2>5. WorkerWrites(w)
      BY Zenon, <2>0, <2>1, <2>3, <1>1, WorkerWritesIs
    <2> QED BY Zenon, <2>1, <2>4, <2>5, <1>1, <1>2, CycleOK DEF Cycles, RestOK
  <1>4. CASE ~Claimable(j)
    <2>1. NoPut /\ Ends(w)
      BY <1>4 DEF Claim
    <2> QED BY Zenon, <1>2, <2>1, EndsOK DEF Cycles, RestOK
  <1> QED BY Zenon, <1>3, <1>4

(* So is taking the credential. *)
LEMMA ResolveIs ==
    ASSUME QueueOK, RestOK, NEW w \in Worker, Resolve(w)
    PROVE  Cycles(w) /\ worker'[w].pc = "execute"
  <1> DEFINE c == [worker[w] EXCEPT !.pc = "execute", !.gen = host.credential]
  <1>1. worker[w].pc = "resolve" /\ worker[w].job \in Job /\ host.credential \in 0 .. Good
    <2>1. worker[w].pc = "resolve" /\ worker[w].job \in Job
      BY DEF Resolve, RestOK
    <2>2. host.credential \in 1 .. Good
      BY Zenon DEF RestOK, HostRecord
    <2> QED BY <2>1, <2>2
  <1>2. NoPut /\ UNCHANGED <<feedback, lane, host, call, receipts, left>>
    BY DEF Resolve
  <1>3. c \in Cycle /\ c.job = worker[w].job /\ c.pc = "execute"
    BY Zenon, <1>1 DEF RestOK, Cycle
  <1>4. worker' = [worker EXCEPT ![w] = c]
    BY Zenon DEF Resolve, RestOK
  <1> HIDE DEF c
  <1> QED BY Zenon, <1>1, <1>2, <1>3, <1>4, CycleOK DEF Cycles, RestOK


(* However an execution ends, its job is well-formed. *)
LEMMA OutcomesAre ==
    ASSUME QueueOK, RestOK, NEW w \in Worker, worker[w].job \in Job, NEW job \in Outcomes(w)
    PROVE  WellFormed(job) /\ job.recovered = jobs[worker[w].job].recovered
  <1> DEFINE j == worker[w].job
             good(x) == WellFormed(x) /\ x.recovered = jobs[j].recovered
  <1>0. /\ jobs[j] \in JobRecord /\ worker[w].gen \in 0 .. Good /\ DeniedGen(j) \in 0 .. Good /\ 0 \in 0 .. Good
    <2>1. jobs[j] \in JobRecord /\ worker[w] \in Cycle
      BY Zenon DEF QueueOK, RestOK
    <2>2. jobs[j].recovered \in 0 .. Good /\ worker[w].gen \in 0 .. Good
      BY Zenon, <2>1 DEF JobRecord, Cycle
    <2> QED BY <2>1, <2>2, CycleAssumption DEF DeniedGen
  <1>1. good(Released(j, "BlockedPolicy", "authority", 0))
    BY <1>0, StoppedIs
  <1>2. good(Released(j, "BlockedCapability", "capability", 0))
    BY <1>0, ReleasedIs DEF Active, Blocked, Terminal, Reason
  <1>3. good(Released(j, "BlockedConfiguration", "credential", 0))
    BY <1>0, StoppedIs
  <1>4. good(Released(j, "BlockedConfiguration", "credential", worker[w].gen))
    BY <1>0, StoppedIs
  <1>5. good(Released(j, "BlockedPolicy", "permission", DeniedGen(j)))
    BY <1>0, StoppedIs
  <1>6. good(Released(j, "DeadLetter", "none", 0)) /\ good(Released(j, "Succeeded", "none", 0))
    BY Zenon, <1>0, FreedIs
  <1>7. good(Retried(j))
    <2> DEFINE free == Released(j, "RetryWaiting", "none", 0)
    <2>1. /\ free \in JobRecord /\ free.recovered = jobs[j].recovered /\ free.status = "RetryWaiting"
          /\ free.block = "none"
      BY Zenon, <1>0, FreedIs
    <2> DEFINE held == [free EXCEPT !.held = TRUE]
    <2>2. Retried(j) = Released(j, "DeadLetter", "none", 0) \/ Retried(j) = held
      BY DEF Retried
    <2> HIDE DEF free
    <2>3. held \in JobRecord /\ held.recovered = jobs[j].recovered /\ held.status = "RetryWaiting" /\ held.block = "none"
      BY Zenon, <2>1 DEF JobRecord
    <2> HIDE DEF held
    <2>4. good(held)
      BY <2>3 DEF WellFormed, Blocked
    <2> QED BY <2>2, <2>4, <1>6
  <1>8. \/ job = Released(j, "BlockedPolicy", "authority", 0)
        \/ job = Released(j, "BlockedCapability", "capability", 0)
        \/ job = Released(j, "BlockedConfiguration", "credential", 0)
        \/ job = Retried(j)
        \/ job = Released(j, "DeadLetter", "none", 0)
        \/ job = Released(j, "BlockedConfiguration", "credential", worker[w].gen)
        \/ job = Released(j, "BlockedPolicy", "permission", DeniedGen(j))
        \/ job = Released(j, "Succeeded", "none", 0)
    BY Zenon DEF Outcomes
  <1> HIDE DEF good
  <1>9. good(job)
    BY <1>1, <1>2, <1>3, <1>4, <1>5, <1>6, <1>7, <1>8
  <1> QED BY Zenon, <1>9 DEF good

(* So is the end of the execution. *)
LEMMA ExecuteIs ==
    ASSUME QueueOK, RestOK, NEW w \in Worker, Execute(w)
    PROVE  Cycles(w) /\ worker'[w].pc = "idle"
  <1> DEFINE j == worker[w].job
  <1>1. worker[w].pc = "execute" /\ j \in Job /\ Ends(w)
    BY Zenon DEF Execute, RestOK
  <1>2. UNCHANGED <<feedback, lane, host, call, receipts>>
    BY Zenon DEF Execute
  <1>3. left' \in [Event -> Nat]
    <2>1. UNCHANGED left \/ Spend("fault")
      BY Zenon DEF Execute
    <2>2. left \in [Event -> Nat] /\ "fault" \in Event
      BY DEF RestOK, Event
    <2> QED BY <2>1, <2>2, SpendOK
  <1>4. NoPut \/ WorkerWrites(w)
    <2>1. ASSUME Holds(w) PROVE jobs[j].block \notin Authority
      BY Zenon, <2>1, <1>1 DEF Holds, QueueOK, WellFormed, Authority, Blocked
    <2>2. ASSUME Holds(w), NEW job \in Outcomes(w), Put(j, job, FALSE) PROVE WorkerWrites(w)
      BY Zenon, <2>1, <2>2, <1>1, OutcomesAre, WorkerWritesIs
    <2>3. ASSUME Holds(w), Put(j, Released(j, "BlockedPolicy", "authority", 0), FALSE) PROVE WorkerWrites(w)
      <3> DEFINE job == Released(j, "BlockedPolicy", "authority", 0)
      <3>1. WellFormed(job) /\ ~job.held /\ job.recovered = jobs[j].recovered
        <4>1. 0 \in 0 .. Good
          BY CycleAssumption
        <4> QED BY <4>1, <1>1, StoppedIs
      <3>2. Put(j, job, FALSE)
        BY Zenon, <2>3
      <3> HIDE DEF job
      <3> QED BY Zenon, <3>1, <3>2, <2>1, <2>3, <1>1, WorkerWritesIs
    <2> QED BY Zenon, <2>2, <2>3 DEF Execute
  <1> QED BY Zenon, <1>1, <1>2, <1>3, <1>4, EndsOK DEF Cycles, RestOK

(* A cycle that fails or crashes leaves its job as it is. *)
LEMMA FaultIs ==
    ASSUME QueueOK, RestOK, NEW w \in Worker, Fault(w) \/ Crash(w)
    PROVE  Cycles(w) /\ worker'[w].pc = "idle"
  <1>1. Ends(w) /\ NoPut /\ UNCHANGED <<feedback, host, call, receipts>>
    BY Zenon DEF Fault, Crash
  <1>2. left' \in [Event -> Nat]
    <2>1. Spend("fault") \/ Spend("crash")
      BY Zenon DEF Fault, Crash
    <2>2. left \in [Event -> Nat] /\ "fault" \in Event /\ "crash" \in Event
      BY DEF RestOK, Event
    <2> QED BY Zenon, <2>1, <2>2, SpendOK
  <1>3. lane' \in [Worker -> {0, 1}]
    BY Zenon DEF Fault, Crash, RestOK
  <1> QED BY Zenon, <1>1, <1>2, <1>3, EndsOK DEF Cycles, RestOK

(* Every step of a worker is an ordinary step of its cycle. *)
LEMMA CyclesAre ==
    ASSUME QueueOK, RestOK, NEW w \in Worker, Works(w) \/ Fault(w) \/ Crash(w)
    PROVE  /\ Cycles(w)
           /\ worker'[w].pc = "resume" => /\ NoPut /\ worker'[w].job \in Job
                                         /\ jobs[worker'[w].job].status = "BlockedCapability"
  BY Zenon, ChooseIs, ProceduralIs, ResumeIs, PrepareIs, ClaimIs, ResolveIs, ExecuteIs, FaultIs DEF Works

(* A deadline passes: the job is no longer held. *)
LEMMA ElapseIs ==
    ASSUME QueueOK, RestOK, NEW j \in Job, Elapse(j)
    PROVE  /\ QueueOK' /\ RestOK' /\ UNCHANGED <<worker, call, fresh, owed, receipts>>
           /\ \A k \in Job : /\ jobs'[k].status = jobs[k].status /\ jobs'[k].block = jobs[k].block
                             /\ jobs'[k].gen = jobs[k].gen /\ jobs'[k].recovered = jobs[k].recovered
  <1>1. jobs[j].held /\ jobs' = [jobs EXCEPT ![j].held = FALSE] /\ jobs \in [Job -> JobRecord]
    BY DEF Elapse, QueueOK
  <1>2. UNCHANGED <<feedback, lane, worker, host, call, fresh, owed, receipts>>
    BY DEF Elapse
  <1>3. left' \in [Event -> Nat]
    <2>1. UNCHANGED left \/ Spend("slow")
      BY Zenon DEF Elapse
    <2>2. left \in [Event -> Nat] /\ "slow" \in Event
      BY DEF RestOK, Event
    <2> QED BY <2>1, <2>2, SpendOK
  <1> DEFINE job == [jobs[j] EXCEPT !.held = FALSE]
  <1>4. jobs[j] \in JobRecord
    BY <1>1
  <1>5. /\ job.status = jobs[j].status /\ job.block = jobs[j].block
        /\ job.gen = jobs[j].gen /\ job.recovered = jobs[j].recovered /\ job.held = FALSE
    BY <1>4 DEF JobRecord
  <1>6. job \in JobRecord
    BY Zenon, <1>4 DEF JobRecord
  <1>7. jobs' \in [Job -> JobRecord] /\ jobs'[j] = job /\ \A k \in Job \ {j} : jobs'[k] = jobs[k]
    BY Zenon, <1>1, <1>6
  <1> HIDE DEF job
  <1>8. \A k \in Job : /\ jobs'[k].status = jobs[k].status /\ jobs'[k].block = jobs[k].block
                       /\ jobs'[k].gen = jobs[k].gen /\ jobs'[k].recovered = jobs[k].recovered
                       /\ jobs'[k].held => jobs[k].held /\ k # j
    BY Zenon, <1>5, <1>7
  <1>9. \A k \in Job : WellFormed(jobs'[k])
    BY <1>7, <1>8 DEF QueueOK, WellFormed
  <1>10. /\ later' \in Seq(Job) /\ IsInjective(later') /\ Range(later') \subseteq Range(later) \cup {j}
    <2>1. later \in Seq(Job) /\ IsInjective(later) /\ j \notin Range(later)
      BY <1>1 DEF QueueOK
    <2>2. CASE later' = later
      BY Zenon, <2>1, <2>2
    <2>3. CASE later' = Append(later, j)
      <3>1. /\ later' \in Seq(Job) /\ Len(later') = Len(later) + 1 /\ later'[Len(later) + 1] = j
            /\ \A i \in 1 .. Len(later) : later'[i] = later[i]
        BY <2>1, <2>3
      <3>2. Range(later') = {later'[i] : i \in 1 .. Len(later')} /\ Range(later) = {later[i] : i \in 1 .. Len(later)}
        BY <2>1, <3>1 DEF Range
      <3>3. \A i \in 1 .. Len(later) : later[i] \in Range(later) /\ later[i] # j
        BY Zenon, <3>2, <2>1
      <3>4. \A i \in 1 .. Len(later') : later'[i] = j \/ later'[i] \in Range(later)
        BY <3>3, <3>1, <2>1
      <3>5. IsInjective(later')
        BY <3>1, <3>3, <2>1 DEF IsInjective
      <3> QED BY Zenon, <3>1, <3>2, <3>4, <3>5
    <2> QED BY <2>2, <2>3 DEF Elapse
  <1>11. QueueOK'
    BY <1>2, <1>7, <1>8, <1>9, <1>10 DEF QueueOK
  <1> QED BY <1>2, <1>3, <1>8, <1>11 DEF RestOK

(* A change of the host writes no job. *)
LEMMA ChangeIs ==
    ASSUME QueueOK, RestOK, Change
    PROVE  NoPut /\ RestOK' /\ UNCHANGED <<worker, call, receipts>>
  <1>1. NoPut /\ UNCHANGED <<feedback, lane, worker, call, receipts>> /\ Spend("change")
    BY Zenon DEF Change
  <1>2. left' \in [Event -> Nat]
    BY <1>1, SpendOK DEF RestOK, Event
  <1>3. host \in HostRecord
    BY Zenon DEF RestOK
  <1>4. CASE host.credential < Good /\ host' = [host EXCEPT !.credential = @ + 1]
    <2>1. host.credential + 1 \in 1 .. Good
      BY <1>3, <1>4, CycleAssumption DEF HostRecord
    <2>2. host' \in HostRecord
      BY <2>1, <1>3, <1>4 DEF HostRecord
    <2> QED BY <1>1, <1>2, <2>2 DEF RestOK
  <1>5. CASE host.permission < Good /\ host' = [host EXCEPT !.permission = @ + 1]
    <2>1. host.permission + 1 \in 1 .. Good
      BY <1>3, <1>5, CycleAssumption DEF HostRecord
    <2>2. host' \in HostRecord
      BY <2>1, <1>3, <1>5 DEF HostRecord
    <2> QED BY <1>1, <1>2, <2>2 DEF RestOK
  <1>6. CASE host' = [host EXCEPT !.capability = TRUE] \/ host' = [host EXCEPT !.binding = TRUE]
    <2>1. host' \in HostRecord
      BY Zenon, <1>3, <1>6 DEF HostRecord
    <2> QED BY <1>1, <1>2, <2>1 DEF RestOK
  <1>7. ASSUME NEW j \in Job, host' = [host EXCEPT !.revoked = IF j \in @ THEN @ \ {j} ELSE @ \cup {j}]
        PROVE  NoPut /\ RestOK' /\ UNCHANGED <<worker, call, receipts>>
    <2>1. (IF j \in host.revoked THEN host.revoked \ {j} ELSE host.revoked \cup {j}) \in SUBSET Job
      BY <1>3 DEF HostRecord
    <2>2. host' \in HostRecord
      BY Zenon, <2>1, <1>3, <1>7 DEF HostRecord
    <2> QED BY Zenon, <1>1, <1>2, <2>2 DEF RestOK
  <1> QED BY <1>4, <1>5, <1>6, <1>7 DEF Change

(* An operator's change of a job is ordinary, and is counted. *)
LEMMA OperatorIs ==
    ASSUME QueueOK, RestOK, NEW j \in Job, OperatorResume(j) \/ OperatorCancel(j)
    PROVE  /\ \E job \in JobRecord, stamped \in BOOLEAN : Writes(j, job, stamped) /\ job.block = "none"
           /\ RestOK' /\ UNCHANGED <<worker, call, receipts>> /\ left'["resume"] < left["resume"]
  <1>1. Spend("resume") /\ UNCHANGED <<feedback, lane, worker, host, call, receipts>>
    BY Zenon DEF OperatorResume, OperatorCancel
  <1>2. left' \in [Event -> Nat] /\ left'["resume"] < left["resume"]
    BY <1>1, SpendOK DEF RestOK, Event
  <1> DEFINE p == Released(j, "Pending", "none", 0)
             c == Released(j, "Cancelled", "none", 0)
  <1>3. /\ WellFormed(p) /\ ~p.held /\ p.recovered = jobs[j].recovered /\ p.block = "none"
        /\ WellFormed(c) /\ ~c.held /\ c.recovered = jobs[j].recovered /\ c.block = "none"
    BY Zenon, FreedIs
  <1>4. Put(j, p, TRUE) \/ Put(j, c, FALSE)
    BY Zenon DEF OperatorResume, OperatorCancel
  <1> HIDE DEF p, c
  <1>5. \E job \in JobRecord, stamped \in BOOLEAN : Writes(j, job, stamped) /\ job.block = "none"
    <2>1. CASE Put(j, p, TRUE)
      <3>1. Writes(j, p, TRUE) /\ p \in JobRecord
        BY Zenon, <2>1, <1>3 DEF Writes, WellFormed
      <3> QED BY Zenon, <3>1, <1>3
    <2>2. CASE Put(j, c, FALSE)
      <3>1. Writes(j, c, FALSE) /\ c \in JobRecord
        BY Zenon, <2>2, <1>3 DEF Writes, WellFormed
      <3> QED BY Zenon, <3>1, <1>3
    <2> QED BY Zenon, <2>1, <2>2, <1>4
  <1> QED BY <1>1, <1>2, <1>5 DEF RestOK


---------------------------------------------------------------------------
(* The recovery call. *)

(* While a recovery runs, a job it owes is still ahead of it, still blocked as  *)
(* the operation asks, and has no receipt of it.                              *)
OwedAreAhead ==
    call.pc \in {"visit", "read", "commit", "ok"} =>
        /\ call.op \in Operation
        /\ call.pc \in {"read", "commit"} => call.todo # <<>>
        /\ call.pc = "ok" => call.todo = <<>>
        /\ \A j \in owed : /\ j \in Range(call.todo) /\ Matches(j, call.op)
                           /\ Receipt(j, call.op) \notin receipts

(* As long as the index is the one it read, what it decided by is true. *)
DecisionHolds ==
    call.pc = "commit" /\ fresh => Matches(Head(call.todo), call.op) /\ Advances(Head(call.todo), call.op)

(* A job remembers the newest permission generation that resumed it. *)
SpentIsRecorded ==
    \A r \in receipts : r.op.kind = "permission" => r.op.gen <= jobs[r.job].recovered

RecoveryInv == OwedAreAhead /\ DecisionHolds /\ SpentIsRecorded /\ GenerationSpentOnce
IInv == TypeOK /\ RecoveryInv

(* What happens beside a recovery call: it may settle owed jobs, and a change   *)
(* of the queue outdates the index the call has read.                         *)
Beside ==
    /\ UNCHANGED <<call, receipts>> /\ owed' \subseteq owed
    /\ \A k \in Job : jobs'[k].recovered = jobs[k].recovered
    /\ \A k \in owed' : jobs'[k].status = jobs[k].status /\ jobs'[k].block = jobs[k].block
    /\ fresh' => /\ fresh
                 /\ \A k \in Job : /\ jobs'[k].status = jobs[k].status
                                   /\ jobs'[k].block = jobs[k].block /\ jobs'[k].gen = jobs[k].gen

(* What happens beside a recovery call keeps its invariant. *)
LEMMA BesideKeeps ==
    ASSUME TypeOK, RecoveryInv, Beside
    PROVE  RecoveryInv'
  <1>0. /\ OwedAreAhead /\ DecisionHolds /\ SpentIsRecorded /\ GenerationSpentOnce
        /\ receipts \subseteq [job : Job, op : Operation] /\ owed \subseteq Job /\ call.todo \in Seq(Job)
        /\ call.todo' = call.todo /\ call' = call /\ receipts' = receipts
    BY Zenon DEF RecoveryInv, TypeOK, Beside
  <1>1. OwedAreAhead'
    BY Zenon, <1>0 DEF OwedAreAhead, Beside, Matches, Receipt
  <1>2. DecisionHolds'
    <2> SUFFICES ASSUME call.pc = "commit", fresh'
                 PROVE  (Matches(Head(call.todo), call.op) /\ Advances(Head(call.todo), call.op))'
      BY Zenon, <1>0 DEF DecisionHolds
    <2>1. fresh /\ Head(call.todo) \in Job
      BY <1>0 DEF Beside, OwedAreAhead
    <2> QED BY Zenon, <2>1, <1>0 DEF DecisionHolds, Matches, Advances, Beside
  <1>3. SpentIsRecorded'
    BY Zenon, <1>0 DEF SpentIsRecorded, Beside
  <1>4. GenerationSpentOnce'
    BY <1>0 DEF GenerationSpentOnce
  <1> QED BY <1>1, <1>2, <1>3, <1>4 DEF RecoveryInv

(* A step that writes no job happens beside the call. *)
LEMMA NoPutIsBeside ==
    ASSUME NoPut, UNCHANGED <<call, receipts>>
    PROVE  Beside
  BY Zenon DEF NoPut, Beside

(* So does an ordinary write. *)
LEMMA WritesIsBeside ==
    ASSUME QueueOK, NEW j, NEW job, NEW stamped, Writes(j, job, stamped), UNCHANGED <<call, receipts>>
    PROVE  Beside /\ QueueOK'
  <1>1. /\ j \in Job /\ job.recovered = jobs[j].recovered
        /\ jobs'[j] = job /\ (\A k \in Job \ {j} : jobs'[k] = jobs[k])
        /\ owed' = owed \ {j} /\ fresh' = FALSE /\ QueueOK'
    BY Zenon, PutOK DEF Writes
  <1>2. owed \subseteq Job
    BY Zenon DEF QueueOK
  <1> QED BY <1>1, <1>2 DEF Beside

(* The queue clauses depend on the queue alone. *)
LEMMA KeptQueue ==
    ASSUME QueueOK, UNCHANGED <<jobs, later, fresh, owed>>
    PROVE  QueueOK'
  BY Zenon DEF QueueOK, WellFormed

(* The start of a recovery call keeps the invariant. *)
LEMMA BeginCallIs ==
    ASSUME QueueOK, RestOK, RecoveryInv, NEW op \in Operation, BeginCall(op)
    PROVE  QueueOK' /\ RestOK' /\ RecoveryInv'
  <1>1. PICK todo \in [Job -> Job] : Listed(todo) /\ call' = [pc |-> "visit", op |-> op, todo |-> todo]
    BY Zenon DEF BeginCall
  <1>2. UNCHANGED <<jobs, later, feedback, lane, worker, host, fresh, receipts>> /\ Spend("call")
    BY Zenon DEF BeginCall
  <1>3. owed' = {j \in Job : Matches(j, op) /\ Advances(j, op) /\ Receipt(j, op) \notin receipts}
    BY Zenon DEF BeginCall
  <1>4. todo \in Seq(Job)
    BY CycleAssumption DEF Job
  <1>5. QueueOK'
    <2>1. owed' \subseteq Job
      BY Zenon, <1>3
    <2> QED BY <1>2, <2>1 DEF QueueOK, WellFormed
  <1>6. RestOK'
    <2>1. left' \in [Event -> Nat]
      BY Zenon, <1>2, SpendOK DEF RestOK, Event
    <2>2. call' \in [pc : {"idle", "visit", "read", "commit", "ok", "err"},
                     op : Operation \cup {NoCall.op}, todo : Seq(Job)]
      BY Zenon, <1>1, <1>4
    <2> QED BY Zenon, <1>2, <2>1, <2>2 DEF RestOK
  <1>7. OwedAreAhead'
    <2>1. call'.op = op /\ call'.pc = "visit" /\ call'.todo = todo /\ Range(todo) = Job
      BY <1>1 DEF Listed
    <2> QED BY Zenon, <2>1, <1>2, <1>3 DEF OwedAreAhead, Matches, Receipt
  <1>8. DecisionHolds'
    BY Zenon, <1>1 DEF DecisionHolds
  <1>9. SpentIsRecorded' /\ GenerationSpentOnce'
    BY Zenon, <1>2 DEF RecoveryInv, SpentIsRecorded, GenerationSpentOnce
  <1> QED BY Zenon, <1>5, <1>6, <1>7, <1>8, <1>9 DEF RecoveryInv

(* The rest of a sequence lists what the sequence lists but its head. *)
LEMMA TailLists ==
    ASSUME NEW s \in Seq(Job), s # <<>>
    PROVE  Tail(s) \in Seq(Job) /\ Head(s) \in Job /\ Range(s) \subseteq Range(Tail(s)) \cup {Head(s)}
  <1>1. Tail(s) \in Seq(Job) /\ Head(s) = s[1] /\ Head(s) \in Job /\ Len(s) >= 1
    OBVIOUS
  <1>2. Len(Tail(s)) = Len(s) - 1 /\ \A i \in 1 .. Len(s) - 1 : Tail(s)[i] = s[i + 1]
    OBVIOUS
  <1>3. Range(s) = {s[i] : i \in 1 .. Len(s)} /\ Range(Tail(s)) = {Tail(s)[i] : i \in 1 .. Len(Tail(s))}
    <2>1. \A q \in Seq(Job) : Range(q) = {q[i] : i \in 1 .. Len(q)}
      BY DEF Range
    <2> QED BY Zenon, <1>1, <2>1
  <1>4. ASSUME NEW i \in 1 .. Len(s) PROVE s[i] = Head(s) \/ s[i] \in Range(Tail(s))
    <2>1. CASE i = 1
      BY Zenon, <2>1, <1>1
    <2>2. CASE i # 1
      <3>1. i - 1 \in 1 .. Len(Tail(s)) /\ Tail(s)[i - 1] = s[i]
        BY <2>2, <1>1, <1>2
      <3> QED BY Zenon, <3>1, <1>3
    <2> QED BY <2>1, <2>2
  <1> QED BY <1>1, <1>3, <1>4

(* So does the choice of the next job to visit. *)
LEMMA VisitIs ==
    ASSUME QueueOK, RestOK, RecoveryInv, Visit
    PROVE  RestOK' /\ RecoveryInv' /\ NoPut
  <1>0. /\ OwedAreAhead /\ call.pc = "visit" /\ NoPut
        /\ UNCHANGED <<feedback, lane, worker, host, receipts, left>>
        /\ call \in [pc : {"idle", "visit", "read", "commit", "ok", "err"},
                     op : Operation \cup {NoCall.op}, todo : Seq(Job)]
    BY Zenon DEF RecoveryInv, Visit, RestOK
  <1>1. SpentIsRecorded' /\ GenerationSpentOnce'
    BY Zenon, <1>0 DEF RecoveryInv, SpentIsRecorded, GenerationSpentOnce, NoPut
  <1>2. CASE call.todo = <<>> /\ call' = [call EXCEPT !.pc = "ok"]
    <2>1. call'.op = call.op /\ call'.todo = call.todo /\ call'.pc = "ok"
      BY <1>0, <1>2
    <2>2. RestOK'
      BY Zenon, <1>0, <1>2 DEF RestOK
    <2>3. OwedAreAhead' /\ DecisionHolds'
      BY <1>0, <1>2, <2>1 DEF OwedAreAhead, DecisionHolds, Matches, Receipt, NoPut
    <2> QED BY <2>2, <2>3, <1>0, <1>1 DEF RecoveryInv
  <1>3. CASE call.todo # <<>> /\ call' = [call EXCEPT !.pc = "read"]
    <2>1. call'.op = call.op /\ call'.todo = call.todo /\ call'.pc = "read"
      BY <1>0, <1>3
    <2>2. RestOK'
      BY Zenon, <1>0, <1>3 DEF RestOK
    <2>3. OwedAreAhead' /\ DecisionHolds'
      BY Zenon, <1>0, <1>3, <2>1 DEF OwedAreAhead, DecisionHolds, Matches, Receipt, NoPut
    <2> QED BY <2>2, <2>3, <1>0, <1>1 DEF RecoveryInv
  <1>4. CASE call.todo # <<>> /\ ~Matches(Head(call.todo), call.op) /\ Passes
    <2>0. call.todo \in Seq(Job)
      BY <1>0
    <2>1. call'.op = call.op /\ call'.todo = Tail(call.todo) /\ call'.pc = "visit"
      BY Zenon, <1>0, <1>4 DEF Passes
    <2>2. /\ Tail(call.todo) \in Seq(Job)
          /\ Range(call.todo) \subseteq Range(Tail(call.todo)) \cup {Head(call.todo)}
      BY <2>0, <1>4, TailLists
    <2>3. call' \in [pc : {"idle", "visit", "read", "commit", "ok", "err"},
                     op : Operation \cup {NoCall.op}, todo : Seq(Job)]
      BY Zenon, <1>0, <1>4, <2>2 DEF Passes
    <2>4. RestOK'
      BY Zenon, <1>0, <2>3 DEF RestOK
    <2>5. OwedAreAhead'
      BY Zenon, <1>0, <1>4, <2>1, <2>2 DEF OwedAreAhead, Matches, Receipt, NoPut
    <2>6. DecisionHolds'
      BY Zenon, <2>1 DEF DecisionHolds
    <2> QED BY Zenon, <2>4, <2>5, <2>6, <1>0, <1>1 DEF RecoveryInv
  <1> QED BY <1>2, <1>3, <1>4 DEF Visit


(* So does the read of the job and the scope index. *)
LEMMA ReadIs ==
    ASSUME QueueOK, RestOK, RecoveryInv, ReadRecovery
    PROVE  QueueOK' /\ RestOK' /\ RecoveryInv' /\ UNCHANGED <<jobs, worker>>
  <1>0. /\ OwedAreAhead /\ call.pc = "read"
        /\ UNCHANGED <<jobs, later, owed, feedback, lane, worker, host, receipts, left>>
        /\ call \in [pc : {"idle", "visit", "read", "commit", "ok", "err"},
                     op : Operation \cup {NoCall.op}, todo : Seq(Job)]
    BY DEF RecoveryInv, ReadRecovery, RestOK
  <1>1. SpentIsRecorded' /\ GenerationSpentOnce'
    BY Zenon, <1>0 DEF RecoveryInv, SpentIsRecorded, GenerationSpentOnce
  <1>2. QueueOK'
    <2>1. fresh' \in BOOLEAN
      BY Zenon DEF ReadRecovery, QueueOK
    <2> QED BY <1>0, <2>1 DEF QueueOK, WellFormed
  <1>3. CASE /\ Matches(Head(call.todo), call.op) /\ Advances(Head(call.todo), call.op)
             /\ call' = [call EXCEPT !.pc = "commit"]
    <2>1. call'.op = call.op /\ call'.todo = call.todo /\ call'.pc = "commit"
      BY <1>0, <1>3
    <2>2. RestOK'
      BY Zenon, <1>0, <1>3 DEF RestOK
    <2>3. OwedAreAhead'
      BY Zenon, <1>0, <2>1 DEF OwedAreAhead, Matches, Receipt
    <2>4. DecisionHolds'
      BY Zenon, <1>0, <1>3, <2>1 DEF DecisionHolds, Matches, Advances
    <2> QED BY <2>2, <2>3, <2>4, <1>0, <1>1, <1>2 DEF RecoveryInv
  <1>4. CASE call' = [call EXCEPT !.pc = "err"]
    <2>1. call'.pc = "err"
      BY <1>0, <1>4
    <2>2. RestOK'
      BY Zenon, <1>0, <1>4 DEF RestOK
    <2>3. OwedAreAhead' /\ DecisionHolds'
      BY Zenon, <2>1 DEF OwedAreAhead, DecisionHolds
    <2> QED BY <2>2, <2>3, <1>0, <1>1, <1>2 DEF RecoveryInv
  <1> QED BY <1>3, <1>4 DEF ReadRecovery

(* A recovery call passes a job it does not owe. *)
LEMMA PassesOK ==
    ASSUME RestOK, OwedAreAhead, call.pc = "commit", Passes,
           owed' \subseteq owed \ {Head(call.todo)},
           \A j \in owed' : jobs'[j].status = jobs[j].status /\ jobs'[j].block = jobs[j].block,
           \A j \in owed' : Receipt(j, call.op) \notin receipts'
    PROVE  /\ OwedAreAhead' /\ DecisionHolds'
           /\ call' \in [pc : {"idle", "visit", "read", "commit", "ok", "err"},
                         op : Operation \cup {NoCall.op}, todo : Seq(Job)]
  <1>0. /\ call \in [pc : {"idle", "visit", "read", "commit", "ok", "err"},
                     op : Operation \cup {NoCall.op}, todo : Seq(Job)]
        /\ call.todo # <<>> /\ call.todo \in Seq(Job)
    BY DEF RestOK, OwedAreAhead
  <1>1. call'.op = call.op /\ call'.todo = Tail(call.todo) /\ call'.pc = "visit"
    BY Zenon, <1>0 DEF Passes
  <1>2. /\ Tail(call.todo) \in Seq(Job)
        /\ Range(call.todo) \subseteq Range(Tail(call.todo)) \cup {Head(call.todo)}
    BY <1>0, TailLists
  <1>3. call' \in [pc : {"idle", "visit", "read", "commit", "ok", "err"},
                   op : Operation \cup {NoCall.op}, todo : Seq(Job)]
    BY Zenon, <1>0, <1>2 DEF Passes
  <1>4. OwedAreAhead'
    <2>1. call.op \in Operation /\ \A j \in owed : j \in Range(call.todo) /\ Matches(j, call.op)
      BY Zenon DEF OwedAreAhead
    <2>2. \A j \in owed' : /\ j \in Range(Tail(call.todo)) /\ Receipt(j, call.op) \notin receipts'
                           /\ jobs'[j].status = BlockOf(call.op.kind) /\ jobs'[j].block = call.op.kind
      BY Zenon, <2>1, <1>2 DEF Matches
    <2> QED BY Zenon, <2>1, <2>2, <1>1 DEF OwedAreAhead, Matches, Receipt
  <1>5. DecisionHolds'
    BY Zenon, <1>1 DEF DecisionHolds
  <1> QED BY Zenon, <1>3, <1>4, <1>5

(* The record a recovery writes. *)
Recovered(j) ==
    [Released(j, "Pending", "none", 0) EXCEPT
        !.recovered = IF call.op.kind = "permission" THEN call.op.gen ELSE @]

(* The job that a recovery writes. *)
LEMMA RecoveredIs ==
    ASSUME QueueOK, NEW j \in Job, call.op \in Operation
    PROVE  /\ WellFormed(Recovered(j)) /\ ~Recovered(j).held /\ Recovered(j).block = "none"
           /\ Recovered(j).recovered = IF call.op.kind = "permission" THEN call.op.gen ELSE jobs[j].recovered
  <1> DEFINE free == Released(j, "Pending", "none", 0)
             gen == IF call.op.kind = "permission" THEN call.op.gen ELSE free.recovered
             job == [free EXCEPT !.recovered = gen]
  <1>1. /\ free \in JobRecord /\ ~free.held /\ free.status = "Pending" /\ free.block = "none"
        /\ free.recovered = jobs[j].recovered
    BY Zenon, FreedIs
  <1>2. gen \in 0 .. Good
    <2>1. call.op.gen \in 1 .. Good
      BY Zenon, CycleAssumption
    <2>2. free.recovered \in 0 .. Good
      BY <1>1 DEF JobRecord
    <2> QED BY <2>1, <2>2
  <1>3. Recovered(j) = job
    BY <1>1 DEF Recovered, JobRecord
  <1> HIDE DEF free, gen
  <1>4. job \in JobRecord /\ ~job.held /\ job.status = "Pending" /\ job.block = "none" /\ job.recovered = gen
    BY Zenon, <1>1, <1>2 DEF JobRecord
  <1>5. gen = IF call.op.kind = "permission" THEN call.op.gen ELSE jobs[j].recovered
    BY Zenon, <1>1 DEF gen
  <1> HIDE DEF job
  <1> QED BY <1>3, <1>4, <1>5 DEF WellFormed, Blocked

(* A recovery that commits matches the block and names a later generation. *)
LEMMA CommitIs ==
    ASSUME QueueOK, RestOK, RecoveryInv, CommitRecovery
    PROVE  /\ QueueOK' /\ RestOK' /\ RecoveryInv' /\ UNCHANGED worker
           /\ \/ UNCHANGED jobs
              \/ /\ Head(call.todo) \in Job /\ Matches(Head(call.todo), call.op)
                 /\ call.op.gen > jobs[Head(call.todo)].gen
                 /\ jobs'[Head(call.todo)].block = "none"
                 /\ \A k \in Job \ {Head(call.todo)} : jobs'[k] = jobs[k]
  <1> DEFINE j == Head(call.todo)
             r == Receipt(j, call.op)
  <1>0. /\ OwedAreAhead /\ DecisionHolds /\ SpentIsRecorded /\ GenerationSpentOnce /\ call.pc = "commit"
        /\ UNCHANGED <<feedback, lane, worker, host, left>> /\ owed \subseteq Job
        /\ receipts \subseteq [job : Job, op : Operation]
        /\ call \in [pc : {"idle", "visit", "read", "commit", "ok", "err"},
                     op : Operation \cup {NoCall.op}, todo : Seq(Job)]
    BY Zenon DEF RecoveryInv, CommitRecovery, RestOK, QueueOK
  <1>1. call.op \in Operation /\ j \in Job
    BY <1>0 DEF OwedAreAhead
  <1>2. CASE r \in receipts
    <2>1. Passes /\ NoPut /\ UNCHANGED receipts
      BY Zenon, <1>2 DEF CommitRecovery
    <2>2. /\ owed' \subseteq owed \ {j}
          /\ \A k \in owed' : jobs'[k].status = jobs[k].status /\ jobs'[k].block = jobs[k].block
          /\ \A k \in owed' : Receipt(k, call.op) \notin receipts'
      BY Zenon, <2>1, <1>0, <1>2 DEF NoPut, OwedAreAhead
    <2>3. /\ OwedAreAhead' /\ DecisionHolds'
          /\ call' \in [pc : {"idle", "visit", "read", "commit", "ok", "err"},
                        op : Operation \cup {NoCall.op}, todo : Seq(Job)]
      BY Zenon, <2>1, <2>2, <1>0, PassesOK
    <2>4. SpentIsRecorded' /\ GenerationSpentOnce'
      BY Zenon, <2>1, <1>0 DEF SpentIsRecorded, GenerationSpentOnce, NoPut
    <2>5. QueueOK' /\ RestOK'
      BY Zenon, <2>1, <2>3, <1>0, KeptQueue DEF RestOK, NoPut
    <2> QED BY Zenon, <2>1, <2>3, <2>4, <2>5, <1>0 DEF RecoveryInv, NoPut
  <1>3. CASE r \notin receipts /\ ~fresh
    <2>1. call' = [call EXCEPT !.pc = "err"] /\ NoPut /\ UNCHANGED receipts
      BY <1>3 DEF CommitRecovery
    <2>2. call'.pc = "err"
      BY <2>1, <1>0
    <2>3. OwedAreAhead' /\ DecisionHolds'
      BY Zenon, <2>2 DEF OwedAreAhead, DecisionHolds
    <2>4. SpentIsRecorded' /\ GenerationSpentOnce'
      BY <2>1, <1>0 DEF SpentIsRecorded, GenerationSpentOnce, NoPut
    <2>5. QueueOK' /\ RestOK'
      BY <2>1, <1>0, KeptQueue DEF RestOK, NoPut
    <2> QED BY <2>1, <2>3, <2>4, <2>5, <1>0 DEF RecoveryInv, NoPut
  <1>4. CASE r \notin receipts /\ fresh
    <2>1. Put(j, Recovered(j), TRUE) /\ receipts' = receipts \cup {r} /\ Passes
      BY Zenon, <1>4 DEF CommitRecovery, Recovered
    <2>2. /\ WellFormed(Recovered(j)) /\ ~Recovered(j).held /\ Recovered(j).block = "none"
          /\ Recovered(j).recovered = IF call.op.kind = "permission" THEN call.op.gen ELSE jobs[j].recovered
      BY <1>1, RecoveredIs
    <2>3. /\ QueueOK' /\ jobs'[j] = Recovered(j) /\ (\A k \in Job \ {j} : jobs'[k] = jobs[k])
          /\ owed' = owed \ {j}
      BY Zenon, <2>1, <2>2, <1>1, PutOK
    <2>4. Matches(j, call.op) /\ Advances(j, call.op)
      BY Zenon, <1>0, <1>4 DEF DecisionHolds
    <2>5. r.job = j /\ r.op = call.op /\ r \in [job : Job, op : Operation]
      BY Zenon, <1>1 DEF Receipt
    <2>6. /\ OwedAreAhead' /\ DecisionHolds'
          /\ call' \in [pc : {"idle", "visit", "read", "commit", "ok", "err"},
                        op : Operation \cup {NoCall.op}, todo : Seq(Job)]
      <3>1. \A k \in owed' : k # j /\ k \in owed /\ k \in Job
        BY Zenon, <2>3, <1>0
      <3>2. \A k \in owed' : jobs'[k].status = jobs[k].status /\ jobs'[k].block = jobs[k].block
        BY Zenon, <3>1, <2>3
      <3>3. \A k \in owed' : Receipt(k, call.op) \notin receipts'
        <4>1. \A k \in owed : Receipt(k, call.op) \notin receipts
          BY <1>0 DEF OwedAreAhead
        <4>2. \A k : Receipt(k, call.op).job = k
          BY Zenon DEF Receipt
        <4> QED BY Zenon, <4>1, <4>2, <3>1, <2>1, <2>5
      <3> QED BY Zenon, <3>2, <3>3, <2>1, <2>3, <1>0, PassesOK
    <2> HIDE DEF r, j
    <2>7. jobs[j].recovered \in Nat /\ jobs'[j].recovered \in Nat /\ call.op.gen \in Nat /\ jobs[j].gen \in Nat
      BY <1>1, <2>3, CycleAssumption DEF QueueOK, JobRecord
    <2>8. call.op.kind = "permission" => call.op.gen > jobs[j].recovered
      BY Zenon, <2>4 DEF Advances
    <2>9. jobs'[j].recovered = IF call.op.kind = "permission" THEN call.op.gen ELSE jobs[j].recovered
      BY Zenon, <2>2, <2>3
    <2>10. \A q \in receipts : /\ q.job \in Job /\ q.op.gen \in Nat /\ jobs[q.job].recovered \in Nat
                               /\ jobs'[q.job].recovered >= jobs[q.job].recovered
      <3>1. \A q \in receipts : q.job \in Job /\ q.op \in Operation
        BY <1>0
      <3>2. \A k \in Job : jobs[k].recovered \in Nat
        <4>1. \A k \in Job : jobs[k] \in JobRecord
          BY Zenon DEF QueueOK
        <4>2. \A x \in JobRecord : x.recovered \in 0 .. Good
          BY Zenon DEF JobRecord
        <4>3. \A n \in 0 .. Good : n \in Nat
          BY CycleAssumption
        <4> QED BY Zenon, <4>1, <4>2, <4>3
      <3>3. \A o \in Operation : o.gen \in Nat
        BY CycleAssumption
      <3>4. \A k \in Job : jobs'[k].recovered >= jobs[k].recovered
        BY <2>3, <2>7, <2>8, <2>9, <3>2
      <3> QED BY Zenon, <3>1, <3>2, <3>3, <3>4
    <2>11. SpentIsRecorded'
      <3>1. \A q \in receipts : q.op.kind = "permission" => q.op.gen <= jobs'[q.job].recovered
        <4>1. \A q \in receipts : q.op.kind = "permission" => q.op.gen <= jobs[q.job].recovered
          BY Zenon, <1>0 DEF SpentIsRecorded
        <4>2. \A q \in receipts : jobs'[q.job].recovered \in Nat
          BY <2>3, <2>10 DEF QueueOK, JobRecord
        <4> QED BY <4>1, <4>2, <2>10
      <3>2. r.op.kind = "permission" => r.op.gen <= jobs'[r.job].recovered
        BY <2>5, <2>7, <2>9
      <3> QED BY Zenon, <3>1, <3>2, <2>1 DEF SpentIsRecorded
    <2>12. GenerationSpentOnce'
      <3>1. ASSUME NEW q \in receipts, q.op.kind = "permission", call.op.kind = "permission", q.job = j,
                   q.op.gen = call.op.gen
            PROVE  FALSE
        BY <3>1, <2>8, <2>10, <1>0 DEF SpentIsRecorded
      <3> QED BY <3>1, <2>1, <2>5, <1>0 DEF GenerationSpentOnce
    <2>13. RestOK'
      <3>1. receipts' \subseteq [job : Job, op : Operation]
        BY Zenon, <2>1, <2>5, <1>0
      <3> QED BY Zenon, <3>1, <2>6, <1>0 DEF RestOK
    <2>14. call.op.gen > jobs[j].gen /\ jobs'[j].block = "none"
      BY <2>2, <2>3, <2>4 DEF Advances
    <2> QED BY Zenon, <2>3, <2>4, <2>6, <2>11, <2>12, <2>13, <2>14, <1>0, <1>1 DEF RecoveryInv, j
  <1> QED BY <1>2, <1>3, <1>4

(* A recovery call that fails writes nothing. *)
LEMMA FaultRecoveryIs ==
    ASSUME QueueOK, RestOK, RecoveryInv, FaultRecovery
    PROVE  NoPut /\ RestOK' /\ RecoveryInv' /\ UNCHANGED worker
  <1>1. /\ Spend("fault") /\ call' = [call EXCEPT !.pc = "err"] /\ NoPut
        /\ UNCHANGED <<feedback, lane, worker, host, receipts>>
        /\ call \in [pc : {"idle", "visit", "read", "commit", "ok", "err"},
                     op : Operation \cup {NoCall.op}, todo : Seq(Job)]
    BY DEF FaultRecovery, RestOK
  <1>2. left' \in [Event -> Nat]
    BY <1>1, SpendOK DEF RestOK, Event
  <1>3. call'.pc = "err"
    BY Zenon, <1>1
  <1>4. OwedAreAhead' /\ DecisionHolds'
    BY Zenon, <1>3 DEF OwedAreAhead, DecisionHolds
  <1>5. SpentIsRecorded' /\ GenerationSpentOnce'
    BY <1>1 DEF RecoveryInv, SpentIsRecorded, GenerationSpentOnce, NoPut
  <1>6. RestOK'
    BY Zenon, <1>1, <1>2 DEF RestOK
  <1> QED BY <1>1, <1>4, <1>5, <1>6 DEF RecoveryInv


---------------------------------------------------------------------------
(* The invariant. *)

LEMMA TypePartsNext == QueueOK' /\ RestOK' => TypeOK'
  BY TypeParts, PTL

(* The invariant holds initially. *)
LEMMA InitInv == Init => IInv
  <1> SUFFICES ASSUME Init PROVE IInv
    OBVIOUS
  <1>1. PICK e \in Environment :
          /\ jobs = [j \in Job |-> NewJob(j, e.unbound)] /\ feedback = e.feedback
          /\ host = [credential |-> 1, permission |-> 1, capability |-> "capability" \notin e.failures,
                     revoked |-> {}, binding |-> "binding" \notin e.failures, failures |-> e.failures]
          /\ left = e.bound
    BY Zenon DEF Init
  <1>2. /\ later = <<>> /\ lane = [w \in Worker |-> 0] /\ worker = [w \in Worker |-> Idle]
        /\ call = NoCall /\ fresh = FALSE /\ owed = {} /\ receipts = {}
    BY Zenon DEF Init
  <1>3. /\ feedback \in Seq({"due", "dead"}) /\ left \in [Event -> Nat] /\ e.failures \in SUBSET Failure
    BY Zenon, <1>1, CycleAssumption
  <1>4. QueueOK
    <2>1. ASSUME NEW j \in Job PROVE WellFormed(jobs[j]) /\ ~jobs[j].held
      <3>1. jobs[j] = NewJob(j, e.unbound)
        BY Zenon, <1>1
      <3> QED BY Zenon, <3>1, NewJobIs
    <2>2. jobs \in [Job -> JobRecord]
      <3>1. jobs = [j \in Job |-> jobs[j]]
        BY Zenon, <1>1
      <3> QED BY Zenon, <3>1, <2>1 DEF WellFormed
    <2>3. later \in Seq(Job) /\ IsInjective(later)
      BY <1>2 DEF IsInjective
    <2> QED BY Zenon, <2>1, <2>2, <2>3, <1>2 DEF QueueOK
  <1>5. RestOK
    <2>1. Idle \in Cycle /\ Idle.pc = "idle"
      BY Zenon, IdleOK
    <2>2. host \in HostRecord
      <3>1. 1 \in 1 .. Good
        BY CycleAssumption
      <3> QED BY Zenon, <1>1, <1>3, <3>1 DEF HostRecord
    <2>3. call \in [pc : {"idle", "visit", "read", "commit", "ok", "err"},
                    op : Operation \cup {NoCall.op}, todo : Seq(Job)]
      BY <1>2 DEF NoCall
    <2> QED BY Zenon, <2>1, <2>2, <2>3, <1>2, <1>3 DEF RestOK
  <1>6. RecoveryInv
    BY Zenon, <1>2 DEF RecoveryInv, OwedAreAhead, DecisionHolds, SpentIsRecorded, GenerationSpentOnce, NoCall
  <1> QED BY <1>4, <1>5, <1>6, TypeParts DEF IInv

(* Every step keeps it. *)
LEMMA NextInv ==
    ASSUME IInv, [Next]_vars
    PROVE  IInv'
  <1>0. QueueOK /\ RestOK /\ RecoveryInv /\ TypeOK
    BY Zenon, TypeParts DEF IInv
  <1>1. ASSUME NoPut, RestOK', UNCHANGED <<call, receipts>> PROVE IInv'
    <2>1. RecoveryInv'
      BY Zenon, <1>0, <1>1, NoPutIsBeside, BesideKeeps
    <2>2. QueueOK'
      BY Zenon, <1>0, <1>1, KeptQueue DEF NoPut
    <2> QED BY Zenon, <2>1, <2>2, <1>1, TypePartsNext DEF IInv
  <1>2. ASSUME NEW j, NEW job, NEW stamped, Writes(j, job, stamped), RestOK', UNCHANGED <<call, receipts>>
        PROVE  IInv'
    <2>1. Beside /\ QueueOK'
      BY Zenon, <1>0, <1>2, WritesIsBeside
    <2>2. RecoveryInv'
      BY <1>0, <2>1, BesideKeeps
    <2> QED BY Zenon, <2>1, <2>2, <1>2, TypePartsNext DEF IInv
  <1>3. ASSUME NEW w \in Worker, Works(w) \/ Fault(w) \/ Crash(w) PROVE IInv'
    <2>1. Cycles(w)
      BY Zenon, <1>0, <1>3, CyclesAre
    <2>2. RestOK' /\ UNCHANGED <<call, receipts>> /\ (NoPut \/ WorkerWrites(w))
      BY Zenon, <2>1 DEF Cycles
    <2>3. CASE WorkerWrites(w)
      <3>1. PICK job \in JobRecord, stamped \in BOOLEAN : Writes(worker[w].job, job, stamped)
        BY Zenon, <2>3 DEF WorkerWrites
      <3> QED BY Zenon, <3>1, <2>2, <1>2
    <2> QED BY Zenon, <2>2, <2>3, <1>1
  <1>4. ASSUME NEW j \in Job, Elapse(j) PROVE IInv'
    <2>1. /\ QueueOK' /\ RestOK' /\ UNCHANGED <<worker, call, fresh, owed, receipts>>
          /\ \A k \in Job : /\ jobs'[k].status = jobs[k].status /\ jobs'[k].block = jobs[k].block
                            /\ jobs'[k].gen = jobs[k].gen /\ jobs'[k].recovered = jobs[k].recovered
      BY Zenon, <1>0, <1>4, ElapseIs
    <2>2. Beside
      BY Zenon, <2>1, <1>0 DEF Beside, QueueOK
    <2> QED BY <2>1, <2>2, <1>0, BesideKeeps, TypePartsNext DEF IInv
  <1>5. ASSUME NEW j \in Job, OperatorResume(j) \/ OperatorCancel(j) PROVE IInv'
    <2>1. PICK job \in JobRecord, stamped \in BOOLEAN : Writes(j, job, stamped)
      BY Zenon, <1>0, <1>5, OperatorIs
    <2> QED BY Zenon, <2>1, <1>0, <1>2, <1>5, OperatorIs
  <1>6. ASSUME Change PROVE IInv'
    BY Zenon, <1>0, <1>1, <1>6, ChangeIs
  <1>7. ASSUME NEW op \in Operation, BeginCall(op) PROVE IInv'
    BY Zenon, <1>0, <1>7, BeginCallIs, TypePartsNext DEF IInv
  <1>8. ASSUME Visit PROVE IInv'
    <2>1. RestOK' /\ RecoveryInv' /\ NoPut
      BY Zenon, <1>0, <1>8, VisitIs
    <2> QED BY <2>1, <1>0, KeptQueue, TypePartsNext DEF IInv, NoPut
  <1>9. ASSUME ReadRecovery PROVE IInv'
    BY <1>0, <1>9, ReadIs, TypePartsNext DEF IInv
  <1>10. ASSUME CommitRecovery PROVE IInv'
    <2>1. QueueOK' /\ RestOK' /\ RecoveryInv'
      BY <1>0, <1>10, CommitIs
    <2> QED BY Zenon, <2>1, TypePartsNext DEF IInv
  <1>11. ASSUME FaultRecovery PROVE IInv'
    <2>1. RestOK' /\ RecoveryInv' /\ NoPut
      BY Zenon, <1>0, <1>11, FaultRecoveryIs
    <2> QED BY <2>1, <1>0, KeptQueue, TypePartsNext DEF IInv, NoPut
  <1>12. ASSUME UNCHANGED vars PROVE IInv'
    BY <1>0, <1>1, <1>12 DEF vars, NoPut, RestOK
  <1> QED
    BY <1>3, <1>4, <1>5, <1>6, <1>7, <1>8, <1>9, <1>10, <1>11, <1>12 DEF Next

(* The inductive invariant of the learning engine holds for any number of      *)
(* jobs, workers, operations and generations (run_due_cycle beside             *)
(* governance_credential_changed and governance_provider_permission_changed).  *)
THEOREM CycleInductive == Spec => []IInv
  BY InitInv, NextInv, PTL DEF Spec

(* Job records, cycles, the host and the recovery call keep their types; a     *)
(* block has a reason and only a lease or a retry delay is held.               *)
THEOREM TypeCorrect == Spec => []TypeOK
  <1>1. IInv => TypeOK
    BY Zenon DEF IInv
  <1> QED BY <1>1, CycleInductive, PTL

(* A recovery that reports success has resumed every job it owed, whatever     *)
(* workers and operators did meanwhile.                                       *)
THEOREM RecoveriesAreComplete == Spec => []RecoveryComplete
  <1>1. IInv => RecoveryComplete
    <2> SUFFICES ASSUME IInv, call.pc = "ok" PROVE owed = {}
      BY Zenon DEF RecoveryComplete
    <2>1. call.todo = <<>> /\ \A j \in owed : j \in Range(call.todo)
      BY Zenon DEF IInv, RecoveryInv, OwedAreAhead
    <2>2. Range(<<>>) = {}
      BY DEF Range
    <2> QED BY <2>1, <2>2
  <1> QED BY <1>1, CycleInductive, PTL

(* One permission generation resumes a job once, however often and under       *)
(* whatever operation it is announced (commit_recovery_job_and_index).         *)
THEOREM GenerationsAreSpentOnce == Spec => []GenerationSpentOnce
  <1>1. IInv => GenerationSpentOnce
    BY DEF IInv, RecoveryInv
  <1> QED BY <1>1, CycleInductive, PTL

---------------------------------------------------------------------------
(* Blocks that need authority, with a single worker.  With two, a resumption    *)
(* decided by one of them meets the block of the other: see the run            *)
(* learning_stale_resume.                                                     *)

(* The only worker resumes a job that is still blocked as it saw it, or not    *)
(* at all.                                                                    *)
ResumesCapability ==
    \A w \in Worker : worker[w].pc = "resume" =>
        /\ worker[w].job \in Job
        /\ jobs[worker[w].job].block \in {"none", "capability"}

EndsWithAuthority ==
    \A j \in Job :
         /\ jobs[j].block \in {"authority", "permission", "credential"}
         /\ jobs'[j].block = "none"
         => \/ left'.resume < left.resume
            \/ /\ call.pc = "commit" /\ Head(call.todo) = j /\ jobs[j].block = call.op.kind
               /\ call.op.gen > jobs[j].gen

(* An ordinary write changes one job. *)
LEMMA WritesIs ==
    ASSUME QueueOK, NEW j, NEW job, NEW stamped, Writes(j, job, stamped)
    PROVE  j \in Job /\ jobs'[j] = job /\ \A k \in Job \ {j} : jobs'[k] = jobs[k]
  BY Zenon, PutOK DEF Writes

(* With one worker, every step ends a block that needs authority only with    *)
(* authority.                                                                 *)
LEMMA AuthorityStep ==
    ASSUME IInv, ResumesCapability, [Next]_vars, \A v, w \in Worker : v = w
    PROVE  ResumesCapability' /\ (EndsWithAuthority \/ UNCHANGED vars)
  <1>0. QueueOK /\ RestOK /\ RecoveryInv /\ TypeOK
    BY Zenon, TypeParts DEF IInv
  <1>1. ASSUME \A k \in Job : jobs'[k].block \in {jobs[k].block, "none"}, UNCHANGED worker
        PROVE  ResumesCapability'
    BY Zenon, <1>1 DEF ResumesCapability
  <1>2. ASSUME \A k \in Job : jobs'[k].block = jobs[k].block
        PROVE  EndsWithAuthority
    BY Zenon, <1>2 DEF EndsWithAuthority
  <1>3. ASSUME NEW w \in Worker, Works(w) \/ Fault(w) \/ Crash(w)
        PROVE  ResumesCapability' /\ EndsWithAuthority
    <2>1. /\ Cycles(w)
          /\ worker'[w].pc = "resume" => /\ NoPut /\ worker'[w].job \in Job
                                         /\ jobs[worker'[w].job].status = "BlockedCapability"
      BY Zenon, <1>0, <1>3, CyclesAre
    <2>2. ResumesCapability'
      <3> SUFFICES ASSUME NEW v \in Worker, worker'[v].pc = "resume"
                   PROVE  worker'[v].job \in Job /\ jobs'[worker'[v].job].block \in {"none", "capability"}
        BY Zenon DEF ResumesCapability
      <3>1. v = w
        BY Zenon
      <3>2. NoPut /\ worker'[w].job \in Job /\ jobs[worker'[w].job].status = "BlockedCapability"
        BY Zenon, <3>1, <2>1
      <3> QED BY Zenon, <3>1, <3>2, <1>0 DEF QueueOK, WellFormed, NoPut
    <2>3. EndsWithAuthority
      <3>1. CASE NoPut
        BY Zenon, <3>1, <1>2 DEF NoPut
      <3>2. CASE WorkerWrites(w)
        <4>1. PICK job \in JobRecord, stamped \in BOOLEAN :
                 /\ Writes(worker[w].job, job, stamped)
                 /\ jobs[worker[w].job].block \in Authority /\ job.block = "none" => worker[w].pc = "resume"
          BY Zenon, <3>2 DEF WorkerWrites
        <4>2. /\ worker[w].job \in Job /\ jobs'[worker[w].job] = job
              /\ \A k \in Job \ {worker[w].job} : jobs'[k] = jobs[k]
          BY Zenon, <4>1, <1>0, WritesIs
        <4>3. ~(jobs[worker[w].job].block \in Authority /\ job.block = "none")
          BY Zenon, <4>1 DEF ResumesCapability, Authority
        <4> QED BY Zenon, <4>2, <4>3 DEF EndsWithAuthority, Authority
      <3> QED BY <3>1, <3>2, <2>1 DEF Cycles
    <2> QED BY Zenon, <2>2, <2>3
  <1>4. ASSUME NEW j \in Job, Elapse(j) PROVE ResumesCapability' /\ EndsWithAuthority
    BY Zenon, <1>0, <1>1, <1>2, <1>4, ElapseIs
  <1>5. ASSUME NEW j \in Job, OperatorResume(j) \/ OperatorCancel(j)
        PROVE  ResumesCapability' /\ EndsWithAuthority
    <2>1. PICK job \in JobRecord, stamped \in BOOLEAN : Writes(j, job, stamped) /\ job.block = "none"
      BY Zenon, <1>0, <1>5, OperatorIs
    <2>2. jobs'[j] = job /\ \A k \in Job \ {j} : jobs'[k] = jobs[k]
      BY Zenon, <2>1, <1>0, WritesIs
    <2>3. UNCHANGED worker /\ left'["resume"] < left["resume"]
      BY Zenon, <1>0, <1>5, OperatorIs
    <2> QED BY Zenon, <2>1, <2>2, <2>3, <1>1 DEF EndsWithAuthority
  <1>6. ASSUME Change PROVE ResumesCapability' /\ EndsWithAuthority
    BY Zenon, <1>0, <1>1, <1>2, <1>6, ChangeIs DEF NoPut
  <1>7. ASSUME NEW op \in Operation, BeginCall(op) PROVE ResumesCapability' /\ EndsWithAuthority
    BY Zenon, <1>1, <1>2, <1>7 DEF BeginCall
  <1>8. ASSUME Visit PROVE ResumesCapability' /\ EndsWithAuthority
    BY <1>1, <1>2, <1>8 DEF Visit, NoPut
  <1>9. ASSUME ReadRecovery PROVE ResumesCapability' /\ EndsWithAuthority
    BY Zenon, <1>1, <1>2, <1>9 DEF ReadRecovery
  <1>10. ASSUME CommitRecovery PROVE ResumesCapability' /\ EndsWithAuthority
    <2>1. /\ UNCHANGED worker
          /\ \/ UNCHANGED jobs
             \/ /\ Head(call.todo) \in Job /\ Matches(Head(call.todo), call.op)
                /\ call.op.gen > jobs[Head(call.todo)].gen
                /\ jobs'[Head(call.todo)].block = "none"
                /\ \A k \in Job \ {Head(call.todo)} : jobs'[k] = jobs[k]
      BY <1>0, <1>10, CommitIs
    <2>2. call.pc = "commit"
      BY Zenon, <1>10 DEF CommitRecovery
    <2>3. \A k \in Job : jobs'[k].block \in {jobs[k].block, "none"}
      BY Zenon, <2>1
    <2>4. EndsWithAuthority
      BY <2>1, <2>2 DEF EndsWithAuthority, Matches
    <2> QED BY Zenon, <2>1, <2>3, <2>4, <1>1
  <1>11. ASSUME FaultRecovery PROVE ResumesCapability' /\ EndsWithAuthority
    BY Zenon, <1>1, <1>2, <1>11 DEF FaultRecovery, NoPut
  <1>12. ASSUME UNCHANGED vars PROVE ResumesCapability' /\ UNCHANGED vars
    BY <1>1, <1>12 DEF vars
  <1> QED
    BY Zenon, <1>3, <1>4, <1>5, <1>6, <1>7, <1>8, <1>9, <1>10, <1>11, <1>12 DEF Next

(* With a single worker, a block that needs authority ends only by a recovery   *)
(* that advances its generation or by an operator: what a cycle saw blocked    *)
(* for a capability is not blocked for anything else when it resumes it.       *)
THEOREM AuthorityIsNeeded ==
    ASSUME \A v, w \in Worker : v = w
    PROVE  Spec => BlocksNeedAuthority
  <1>1. Init => ResumesCapability
    <2>1. Init => \A w \in Worker : worker[w] = Idle
      BY Zenon DEF Init
    <2>2. Idle.pc # "resume"
      BY Zenon DEF Idle
    <2> QED BY Zenon, <2>1, <2>2 DEF ResumesCapability
  <1>2. IInv /\ ResumesCapability /\ [Next]_vars => ResumesCapability'
    BY Zenon, AuthorityStep
  <1>3. IInv /\ ResumesCapability /\ [Next]_vars => [EndsWithAuthority]_vars
    BY AuthorityStep
  <1>4. BlocksNeedAuthority <=> [][EndsWithAuthority]_vars
    BY PTL DEF BlocksNeedAuthority, EndsWithAuthority
  <1> QED BY <1>1, <1>2, <1>3, <1>4, CycleInductive, PTL DEF Spec
=============================================================================

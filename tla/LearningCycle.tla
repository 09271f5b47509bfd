----------------------------- MODULE LearningCycle -----------------------------
(***************************************************************************)
(* The learning engine of one runtime scope: a worker's cycle chooses        *)
(* between the semantic lane (governance jobs) and the procedural one, takes *)
(* the first due job, prepares, claims and runs it, and files every failure  *)
(* (run_due_cycle and the transitions of sdk/src/learning.rs, the order of   *)
(* active_governance_jobs in sdk/src/runtime.rs).  Beside it the host        *)
(* announces a new credential or a new provider permission, and one loop     *)
(* over the scope's jobs resumes those blocked on an older one               *)
(* (governance_credential_changed and governance_provider_permission_changed *)
(* of runtime.rs).                                                           *)
(*                                                                          *)
(* An operation of the queue is one step here: GovernanceJobs shows that it  *)
(* commits against the exact documents it read or fails.  What a cycle read  *)
(* is stale by its next step.  The turns were finalized before the run.      *)
(***************************************************************************)
EXTENDS FiniteSets, Lists

CONSTANTS
    Turns,         \* job j governs turn j; jobs are created in this order
    Worker,
    Operation,     \* the host's recovery operations: [kind, gen, id]
    MaxAttempts,   \* max_attempts of a job (5)
    Good,          \* the first credential and permission generation the provider accepts
    Environment    \* what a run begins with, and what can happen to it

Job == 1 .. Turns
Kind == {"credential", "permission"}
Event == {"crash", "slow", "fault", "call", "resume", "change"}
Failure == {"transient", "fatal", "capability", "missing", "credential", "permission",
            "authority", "binding", "lost"}

ASSUME CycleAssumption ==
    /\ Turns \in Nat
    /\ Operation \subseteq [kind : Kind, gen : 1 .. Good, id : Nat]
    /\ \A o, p \in Operation : o.id = p.id => o = p
    /\ \A e \in Environment :
         /\ e.unbound \subseteq Job             \* jobs created while no binding was installed
         /\ e.feedback \in Seq({"due", "dead"}) \* procedural jobs, oldest first; dead: never claimable
         /\ e.failures \subseteq Failure        \* of an execution, or before it
         /\ e.bound \in [Event -> Nat]          \* how often each event happens
    /\ MaxAttempts \in Nat \ {0} /\ Good \in Nat \ {0}

VARIABLES
    jobs,       \* job -> its record; held: its lease or its retry delay still runs
    later,      \* the jobs with a next_attempt_at that has passed, in the order of it
    feedback,   \* the due procedural jobs that are left
    lane,       \* worker -> next_lane
    worker,
    host,       \* generations, model client, first binding, jobs whose disclosure is withdrawn,
                \* and the failures it is prone to
    call,       \* the recovery call
    fresh,      \* the scope index is the one the recovery call read
    owed,       \* jobs the recovery call has to resume, blocked ever since it began
    receipts,   \* committed recovery operations, by job
    left        \* how often each event may still happen

vars == <<jobs, later, feedback, lane, worker, host, call, fresh, owed, receipts, left>>

Blocked == {"BlockedConfiguration", "BlockedCapability", "BlockedPolicy"}
Active == {"Pending", "Leased", "RetryWaiting"} \cup Blocked
Terminal == {"Succeeded", "Cancelled", "DeadLetter"}
Reason == {"none", "binding", "capability", "credential", "permission", "authority"}

NewJob(j, unbound) ==
    [status |-> IF j \in unbound THEN "BlockedConfiguration" ELSE "Pending",
     block |-> IF j \in unbound THEN "binding" ELSE "none", gen |-> 0,
     bound |-> j \notin unbound, attempts |-> 0, epoch |-> 0, held |-> FALSE, recovered |-> 0]

Idle == [pc |-> "idle", job |-> 0, seen |-> "none", unbound |-> FALSE, epoch |-> 0, gen |-> 0]
NoCall == [pc |-> "idle", op |-> [kind |-> "none", gen |-> 0, id |-> 0], todo |-> <<>>]

JobRecord ==
    [status : Active \cup Terminal, block : Reason, gen : 0 .. Good, bound : BOOLEAN,
     attempts : 0 .. MaxAttempts, epoch : Nat, held : BOOLEAN, recovered : 0 .. Good]

Cycle ==
    [pc : {"idle", "procedural", "resume", "prepare", "claim", "resolve", "execute"},
     job : {0} \cup Job, seen : Active \cup Terminal \cup {"none"}, unbound : BOOLEAN, epoch : Nat,
     gen : 0 .. Good]

HostRecord ==
    [credential : 1 .. Good, permission : 1 .. Good, capability : BOOLEAN, revoked : SUBSET Job,
     binding : BOOLEAN, failures : SUBSET Failure]

TypeOK ==
    /\ jobs \in [Job -> JobRecord]
    /\ \A j \in Job : /\ (jobs[j].status \in Blocked) = (jobs[j].block # "none")
                      /\ (jobs[j].status = "BlockedCapability") = (jobs[j].block = "capability")
                      /\ jobs[j].held => jobs[j].status \in {"Leased", "RetryWaiting"}
                      /\ jobs[j].held => j \notin Range(later)
    /\ later \in Seq(Job) /\ IsInjective(later)
    /\ feedback \in Seq({"due", "dead"})
    /\ lane \in [Worker -> {0, 1}]
    /\ worker \in [Worker -> Cycle]
    /\ \A w \in Worker : worker[w].pc \notin {"idle", "procedural"} => worker[w].job \in Job
    /\ host \in HostRecord
    /\ call \in [pc : {"idle", "visit", "read", "commit", "ok", "err"},
                 op : Operation \cup {NoCall.op}, todo : Seq(Job)]
    /\ fresh \in BOOLEAN /\ owed \subseteq Job
    /\ receipts \subseteq [job : Job, op : Operation]
    /\ left \in [Event -> Nat]

Init ==
    /\ \E e \in Environment :
         /\ jobs = [j \in Job |-> NewJob(j, e.unbound)] /\ feedback = e.feedback
         /\ host = [credential |-> 1, permission |-> 1, capability |-> "capability" \notin e.failures,
                    revoked |-> {}, binding |-> "binding" \notin e.failures, failures |-> e.failures]
         /\ left = e.bound
    /\ later = <<>> /\ lane = [w \in Worker |-> 0] /\ worker = [w \in Worker |-> Idle]
    /\ call = NoCall /\ fresh = FALSE /\ owed = {} /\ receipts = {}

Spend(what) ==
    /\ left[what] > 0
    /\ left' = [left EXCEPT ![what] = @ - 1]

---------------------------------------------------------------------------
(* The queue.  A committed change writes the job and the scope index. *)
Put(j, job, stamped) ==
    /\ jobs' = [jobs EXCEPT ![j] = job]
    /\ later' = IF stamped THEN Append(Without(later, j), j) ELSE Without(later, j)
    /\ fresh' = FALSE /\ owed' = owed \ {j}

NoPut == UNCHANGED <<jobs, later, fresh, owed>>

Released(j, status, block, gen) ==
    [jobs[j] EXCEPT !.status = status, !.block = block, !.gen = gen, !.held = FALSE]

(* The order of active_governance_jobs: priority, then next_attempt_at or    *)
(* created_at.                                                              *)
Priority(j) ==
    CASE jobs[j].status = "BlockedConfiguration" -> 1
      [] jobs[j].status = "BlockedPolicy" -> 2
      [] jobs[j].status = "BlockedCapability" -> 3
      [] OTHER -> IF jobs[j].held THEN 4 ELSE 0

Position(j) == IF j \in Range(later) THEN Turns + CHOOSE i \in 1 .. Len(later) : later[i] = j ELSE j

Before(j, k) == \/ Priority(j) < Priority(k)
                \/ Priority(j) = Priority(k) /\ Position(j) < Position(k)

Due(j) == jobs[j].status \in Active /\ ~jobs[j].held
Heads == {j \in Job : Due(j) /\ \A k \in Job \ {j} : Due(k) => Before(j, k)}

(* claim_governance_job: a blocked job is refused, except one that was never *)
(* bound and waits for its first binding.                                   *)
UnboundAdoption(j) == jobs[j].block = "binding" /\ ~jobs[j].bound

Claimable(j) ==
    /\ jobs[j].status \in Active /\ ~jobs[j].held /\ jobs[j].attempts < MaxAttempts
    /\ jobs[j].status \in Blocked => UnboundAdoption(j)

Holds(w) ==
    LET job == jobs[worker[w].job]
    IN  job.status = "Leased" /\ job.epoch = worker[w].epoch /\ job.held

---------------------------------------------------------------------------
(* The cycle: run_due_cycle. *)
Ends(w) == worker' = [worker EXCEPT ![w] = Idle]
Goes(w, pc) == worker' = [worker EXCEPT ![w].pc = pc]

(* Mutant: a capability block is only reported too. *)
ReportedCapability(j) ==
    \/ jobs[j].status \in {"BlockedPolicy", "BlockedCapability"}
    \/ jobs[j].status = "BlockedConfiguration" /\ jobs[j].block # "binding"

(* A block that the engine only reports. *)
Reported(j) ==
    \/ jobs[j].status = "BlockedPolicy"
    \/ jobs[j].status = "BlockedConfiguration" /\ jobs[j].block # "binding"

(* Mutant: the lane does not alternate. *)
PreferSemantic(w) == FALSE

PreferProcedural(w) == lane[w] = 0

Choose(w) ==
    /\ worker[w].pc = "idle"
    /\ lane' = [lane EXCEPT ![w] = 1 - @]
    /\ \/ /\ feedback # <<>> /\ (PreferProcedural(w) \/ Heads = {})
          /\ worker' = [worker EXCEPT ![w] = [Idle EXCEPT !.pc = "procedural"]]
       \/ /\ feedback = <<>> \/ ~PreferProcedural(w)
          /\ \E j \in Heads :
                IF Reported(j) THEN UNCHANGED worker
                ELSE worker' = [worker EXCEPT ![w] =
                         [Idle EXCEPT !.job = j, !.seen = jobs[j].status, !.unbound = ~jobs[j].bound,
                            !.pc = IF jobs[j].status = "BlockedCapability" THEN "resume"
                                   ELSE "prepare"]]
       \/ feedback = <<>> /\ Heads = {} /\ UNCHANGED worker
    /\ UNCHANGED <<jobs, later, feedback, host, call, fresh, owed, receipts, left>>

(* run_procedural_cycle; a dead head is claimed in vain. *)
Procedural(w) ==
    /\ worker[w].pc = "procedural" /\ Ends(w)
    /\ feedback' = IF feedback # <<>> /\ Head(feedback) = "due" THEN Tail(feedback) ELSE feedback
    /\ NoPut /\ UNCHANGED <<lane, host, call, receipts, left>>

(* resume_governance_job takes any blocked job; otherwise the cycle fails. *)
ResumeCapability(w) ==
    LET j == worker[w].job
    IN  /\ worker[w].pc = "resume"
        /\ IF jobs[j].status \in Blocked
           THEN /\ Put(j, Released(j, "Pending", "none", 0), TRUE)
                /\ worker' = [worker EXCEPT ![w].pc = "prepare", ![w].seen = "Pending"]
           ELSE NoPut /\ Ends(w)
        /\ UNCHANGED <<feedback, lane, host, call, receipts, left>>

(* block_governance_job refuses a leased or ended job. *)
TryBlock(j, status, block) ==
    IF jobs[j].status \in Active \ {"Leased"} /\ jobs[j].block # block
    THEN Put(j, Released(j, status, block, 0), FALSE) ELSE NoPut

(* The execution binding and the disclosure authority, before the claim.    *)
(* An error of the Store while one is read counts as its absence.           *)
Prepare(w) ==
    LET j == worker[w].job
        unavailable == worker[w].unbound /\ ~host.binding
    IN  /\ worker[w].pc = "prepare"
        /\ \E broken \in {"none", "binding", "authority"} :
              /\ IF broken = "none" THEN UNCHANGED left ELSE Spend("fault")
              /\ \/ /\ unavailable \/ broken = "binding"
                    /\ IF worker[w].seen = "BlockedConfiguration" THEN NoPut
                       ELSE TryBlock(j, "BlockedConfiguration", "binding")
                    /\ Ends(w)
                 \/ /\ ~unavailable /\ broken # "binding"
                    /\ j \in host.revoked \/ broken = "authority"
                    /\ TryBlock(j, "BlockedPolicy", "authority") /\ Ends(w)
                 \/ /\ ~unavailable /\ j \notin host.revoked /\ broken = "none"
                    /\ NoPut /\ Goes(w, "claim")
        /\ UNCHANGED <<feedback, lane, host, call, receipts>>

Claim(w) ==
    LET j == worker[w].job
    IN  /\ worker[w].pc = "claim"
        /\ IF Claimable(j)
           THEN /\ Put(j, [Released(j, "Leased", "none", 0) EXCEPT
                              !.held = TRUE, !.bound = TRUE, !.epoch = @ + 1, !.attempts = @ + 1], FALSE)
                /\ worker' = [worker EXCEPT ![w].pc = "resolve", ![w].epoch = jobs[j].epoch + 1]
           ELSE NoPut /\ Ends(w)
        /\ UNCHANGED <<feedback, lane, host, call, receipts, left>>

(* The port takes the credential before it calls the provider. *)
Resolve(w) ==
    /\ worker[w].pc = "resolve"
    /\ worker' = [worker EXCEPT ![w].pc = "execute", ![w].gen = host.credential]
    /\ NoPut /\ UNCHANGED <<feedback, lane, host, call, receipts, left>>

(* ProviderPermissionDenied names the binding's generation, or the one the   *)
(* job was last recovered for.                                              *)
DeniedGen(j) == IF jobs[j].recovered > 1 THEN jobs[j].recovered ELSE 1

(* How an execution ends: run_claimed_governance, transition_execution_      *)
(* failure and transition_classified_failure.                               *)
Retried(j) ==
    IF jobs[j].attempts >= MaxAttempts THEN Released(j, "DeadLetter", "none", 0)
    ELSE [Released(j, "RetryWaiting", "none", 0) EXCEPT !.held = TRUE]

Outcomes(w) ==
    LET j == worker[w].job
    IN  IF j \in host.revoked THEN {Released(j, "BlockedPolicy", "authority", 0)}
        ELSE IF ~host.capability THEN {Released(j, "BlockedCapability", "capability", 0)}
        ELSE (IF "missing" \in host.failures THEN {Released(j, "BlockedConfiguration", "credential", 0)} ELSE {})
             \cup (IF "transient" \in host.failures THEN {Retried(j)} ELSE {})
             \cup (IF "fatal" \in host.failures THEN {Released(j, "DeadLetter", "none", 0)} ELSE {})
             \cup {IF "credential" \in host.failures /\ worker[w].gen < Good
                   THEN Released(j, "BlockedConfiguration", "credential", worker[w].gen)
                   ELSE IF "permission" \in host.failures /\ host.permission < Good
                   THEN Released(j, "BlockedPolicy", "permission", DeniedGen(j))
                   ELSE Released(j, "Succeeded", "none", 0)}

Execute(w) ==
    /\ worker[w].pc = "execute" /\ Ends(w)
    /\ \/ /\ Holds(w) /\ UNCHANGED left
          /\ \E job \in Outcomes(w) : Put(worker[w].job, job, FALSE)
       \/ /\ Holds(w) /\ Spend("fault")         \* the disclosure cannot be read again
          /\ Put(worker[w].job, Released(worker[w].job, "BlockedPolicy", "authority", 0), FALSE)
       \/ ~Holds(w) /\ NoPut /\ UNCHANGED left
       \/ "lost" \in host.failures /\ NoPut /\ UNCHANGED left   \* a lost race for the documents
    /\ UNCHANGED <<feedback, lane, host, call, receipts>>

(* A Store error ends the cycle; a dead process also loses its lane. *)
Fault(w) ==
    /\ worker[w].pc # "idle" /\ Spend("fault") /\ Ends(w)
    /\ NoPut /\ UNCHANGED <<feedback, lane, host, call, receipts>>

Crash(w) ==
    /\ worker[w].pc # "idle" /\ Spend("crash") /\ Ends(w)
    /\ lane' = [lane EXCEPT ![w] = 0]
    /\ NoPut /\ UNCHANGED <<feedback, host, call, receipts>>

(* A retry delay ends, or a lease runs out: its worker died or is slow. *)
Elapse(j) ==
    LET working == \E w \in Worker : worker[w].pc # "idle" /\ worker[w].job = j /\ Holds(w)
    IN  /\ jobs[j].held
        /\ IF working THEN Spend("slow") ELSE UNCHANGED left
        /\ jobs' = [jobs EXCEPT ![j].held = FALSE]
        /\ later' = IF jobs[j].status = "RetryWaiting" THEN Append(later, j) ELSE later
        /\ UNCHANGED <<feedback, lane, worker, host, call, fresh, owed, receipts>>

---------------------------------------------------------------------------
(* The host: new generations, a new build, a withdrawn authority, an         *)
(* installed binding, an operator who resumes or cancels a job.              *)
Change ==
    /\ Spend("change")
    /\ \/ /\ "credential" \in host.failures /\ host.credential < Good
          /\ host' = [host EXCEPT !.credential = @ + 1]
       \/ /\ "permission" \in host.failures /\ host.permission < Good
          /\ host' = [host EXCEPT !.permission = @ + 1]
       \/ ~host.capability /\ host' = [host EXCEPT !.capability = TRUE]
       \/ ~host.binding /\ host' = [host EXCEPT !.binding = TRUE]
       \/ /\ "authority" \in host.failures
          /\ \E j \in Job : host' = [host EXCEPT !.revoked = IF j \in @ THEN @ \ {j} ELSE @ \cup {j}]
    /\ NoPut /\ UNCHANGED <<feedback, lane, worker, call, receipts>>

OperatorResume(j) ==
    /\ Spend("resume") /\ jobs[j].status \in Blocked
    /\ Put(j, Released(j, "Pending", "none", 0), TRUE)
    /\ UNCHANGED <<feedback, lane, worker, host, call, receipts>>

OperatorCancel(j) ==
    /\ Spend("resume") /\ jobs[j].status \in Active
    /\ Put(j, Released(j, "Cancelled", "none", 0), FALSE)
    /\ UNCHANGED <<feedback, lane, worker, host, call, receipts>>

---------------------------------------------------------------------------
(* The recovery call. *)
BlockOf(kind) == IF kind = "credential" THEN "BlockedConfiguration" ELSE "BlockedPolicy"
Matches(j, op) == jobs[j].status = BlockOf(op.kind) /\ jobs[j].block = op.kind

(* Mutant: a generation that is not newer is accepted. *)
AdvancesOrEqual(j, op) == op.gen >= jobs[j].gen

Advances(j, op) ==
    /\ op.gen > jobs[j].gen
    /\ op.kind = "permission" => op.gen > jobs[j].recovered

Receipt(j, op) == [job |-> j, op |-> op]

(* The scope index is read once: active jobs, then retained terminal ones. *)
Ended(j) == jobs[j].status \in Terminal

Listed(todo) ==
    /\ Range(todo) = Job
    /\ \A i, k \in Job : i < k =>
          IF Ended(todo[i]) = Ended(todo[k]) THEN todo[i] < todo[k] ELSE Ended(todo[k])

BeginCall(op) ==
    /\ call.pc \in {"idle", "ok", "err"} /\ Spend("call") /\ op.gen <= host[op.kind]
    /\ \E todo \in [Job -> Job] : Listed(todo) /\ call' = [pc |-> "visit", op |-> op, todo |-> todo]
    /\ owed' = {j \in Job : Matches(j, op) /\ Advances(j, op) /\ Receipt(j, op) \notin receipts}
    /\ UNCHANGED <<jobs, later, feedback, lane, worker, host, fresh, receipts>>

Passes == call' = [call EXCEPT !.pc = "visit", !.todo = Tail(@)]

(* The loop: a job that is not blocked for this is passed over. *)
Visit ==
    /\ call.pc = "visit"
    /\ \/ call.todo = <<>> /\ call' = [call EXCEPT !.pc = "ok"]
       \/ /\ call.todo # <<>>
          /\ IF Matches(Head(call.todo), call.op) THEN call' = [call EXCEPT !.pc = "read"]
             ELSE Passes
    /\ NoPut /\ UNCHANGED <<feedback, lane, worker, host, receipts, left>>

(* resume_governance_job_for_credential and ..._for_provider_permission read *)
(* the job again; one whose generation is not advanced ends the call.        *)
ReadRecovery ==
    /\ call.pc = "read"
    /\ IF Matches(Head(call.todo), call.op) /\ Advances(Head(call.todo), call.op)
       THEN call' = [call EXCEPT !.pc = "commit"] /\ fresh' = TRUE
       ELSE call' = [call EXCEPT !.pc = "err"] /\ UNCHANGED fresh
    /\ UNCHANGED <<jobs, later, owed, feedback, lane, worker, host, receipts, left>>

(* Mutant: a lost race for the documents is passed over. *)
CommitLenient ==
    LET j == Head(call.todo)
        r == Receipt(j, call.op)
    IN  /\ call.pc = "commit" /\ Passes
        /\ IF r \notin receipts /\ fresh
           THEN /\ Put(j, [Released(j, "Pending", "none", 0) EXCEPT
                              !.recovered = IF call.op.kind = "permission" THEN call.op.gen ELSE @], TRUE)
                /\ receipts' = receipts \cup {r}
           ELSE NoPut /\ UNCHANGED receipts
        /\ UNCHANGED <<feedback, lane, worker, host, left>>

(* commit_recovery_job_and_index: an operation that has its receipt is       *)
(* replayed and changes nothing; a lost race ends the call.                  *)
CommitRecovery ==
    LET j == Head(call.todo)
        r == Receipt(j, call.op)
    IN  /\ call.pc = "commit"
        /\ IF r \in receipts THEN Passes /\ NoPut /\ UNCHANGED receipts
           ELSE IF ~fresh THEN call' = [call EXCEPT !.pc = "err"] /\ NoPut /\ UNCHANGED receipts
           ELSE /\ Put(j, [Released(j, "Pending", "none", 0) EXCEPT
                              !.recovered = IF call.op.kind = "permission" THEN call.op.gen ELSE @], TRUE)
                /\ receipts' = receipts \cup {r} /\ Passes
        /\ UNCHANGED <<feedback, lane, worker, host, left>>

(* A Store error ends the call. *)
FaultRecovery ==
    /\ call.pc \in {"visit", "read", "commit"} /\ Spend("fault")
    /\ call' = [call EXCEPT !.pc = "err"]
    /\ NoPut /\ UNCHANGED <<feedback, lane, worker, host, receipts>>

---------------------------------------------------------------------------
Works(w) == \/ Choose(w) \/ Procedural(w) \/ ResumeCapability(w) \/ Prepare(w)
            \/ Claim(w) \/ Resolve(w) \/ Execute(w)

Next ==
    \/ \E w \in Worker : Works(w) \/ Fault(w) \/ Crash(w)
    \/ \E j \in Job : Elapse(j) \/ OperatorResume(j) \/ OperatorCancel(j)
    \/ Change
    \/ \E op \in Operation : BeginCall(op)
    \/ Visit \/ ReadRecovery \/ CommitRecovery \/ FaultRecovery

Spec == Init /\ [][Next]_vars

(* The service's worker keeps running cycles, deadlines pass, calls return. *)
FairSpec ==
    /\ Spec
    /\ \A w \in Worker : WF_vars(Works(w))
    /\ \A j \in Job : WF_vars(Elapse(j))
    /\ WF_vars(Visit \/ ReadRecovery \/ CommitRecovery)

---------------------------------------------------------------------------
(* A recovery that reports success has resumed every job that was blocked on  *)
(* an older generation when it began and stayed so, unless this very          *)
(* operation had resumed it before: nothing is passed over, whatever workers  *)
(* and operators did to the scope meanwhile.                                  *)
RecoveryComplete == call.pc = "ok" => owed = {}

(* A block that needs authority (a policy block, a credential block) ends     *)
(* only by a recovery that advances its generation or by an operator; no      *)
(* cycle of the engine ends it.                                              *)
BlocksNeedAuthority ==
    [][\A j \in Job :
         /\ jobs[j].block \in {"authority", "permission", "credential"}
         /\ jobs'[j].block = "none"
         => \/ left'.resume < left.resume
            \/ /\ call.pc = "commit" /\ Head(call.todo) = j /\ jobs[j].block = call.op.kind
               /\ call.op.gen > jobs[j].gen]_vars

(* One permission generation resumes a job once: denied again, the job waits  *)
(* for a newer one, whatever operation announces the old one again.           *)
GenerationSpentOnce ==
    \A r, q \in receipts :
        /\ r.op.kind = "permission" /\ q.op.kind = "permission"
        /\ r.job = q.job /\ r.op.gen = q.op.gen
        => r = q

(* A due job that no cycle can claim or block: it has no attempt left, or its  *)
(* lease has run out and its disclosure is withdrawn.                        *)
Hopeless == \E j \in Job :
    /\ Due(j) /\ jobs[j].status \notin Blocked
    /\ jobs[j].attempts >= MaxAttempts \/ (jobs[j].status = "Leased" /\ j \in host.revoked)

(* Neither lane starves the other: the procedural one is served whatever      *)
(* state the semantic lane is in, and a pending job whatever state the         *)
(* procedural lane is in and whatever other jobs wait for, unless a hopeless   *)
(* job precedes it (run_due_cycle).                                           *)
LanesServed ==
    /\ \A n \in UNION {1 .. Len(e.feedback) : e \in Environment} :
          Len(feedback) = n /\ feedback[1] = "due" ~> Len(feedback) < n
    /\ \A j \in Job : jobs[j].status = "Pending" ~> jobs[j].status # "Pending" \/ Hopeless

(* A job that found no model client is tried again as long as no block that   *)
(* only a human can end precedes it.                                         *)
CapabilityRetried ==
    \A j \in Job : jobs[j].status = "BlockedCapability" ~>
        \/ jobs[j].status # "BlockedCapability" \/ Hopeless
        \/ \E k \in Job : jobs[k].status \in {"BlockedConfiguration", "BlockedPolicy"}

=============================================================================

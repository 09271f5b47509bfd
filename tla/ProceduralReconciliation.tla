------------------------ MODULE ProceduralReconciliation ------------------------
(***************************************************************************)
(* Procedural learning of one mounted subject: turn feedback is applied to  *)
(* Agent Tool experience, and every change of a producer's authority opens  *)
(* a new validity epoch that fences all learned reads until a paged          *)
(* reconciliation job has proved the whole retained inventory again          *)
(* (core memory/post_turn_learning.rs and its reconciliation.rs, sdk         *)
(* store_internal/procedural_feedback.rs, runtime/procedural.rs and their    *)
(* reconciliation.rs, run_procedural_cycle of sdk/src/learning.rs).          *)
(*                                                                          *)
(* A source is a turn's evidence with the producer binding it came through. *)
(* A tool owner is the sequence of its retained revisions and a revision is *)
(* the set of sources whose execution contributions its body holds.  Every  *)
(* commit is one Store transaction under exact preconditions, so what a     *)
(* worker read counts only through the versions it compares at the commit.  *)
(* The subject has no Runtime Skill, and no turn is masked or deleted.      *)
(***************************************************************************)
EXTENDS Integers, Sequences, FiniteSets, Functions

CONSTANTS
    Source,
    NTools,        \* tool owners, in the order of their owner_ref
    Feeds,         \* source -> the tools its feedback is about
    Worker,
    MaxAttempts,   \* max_attempts of a job (5)
    MaxEpoch,      \* MAX_PROCEDURAL_FEEDBACK_RECENT_TERMINAL_JOBS + 1
    Raised,        \* max_agent_tool_experience_revisions_per_owner once it is raised
    Environment    \* what a run begins with, and what can happen to it

Tool == 1 .. NTools
Epoch == 2 .. MaxEpoch            \* also names the reconciliation job of that epoch
Job == Source \cup Epoch
Skills == NTools + 1              \* Cursor::RuntimeSkill
Complete == NTools + 2            \* Cursor::Complete
Event == {"crash", "fault", "archive", "bind", "resume", "slow", "control"}

ASSUME ReconciliationAssumption ==
    /\ Source \cap (0 .. MaxEpoch) = {}     \* a source is no epoch
    /\ NTools \in Nat \ {0} /\ Feeds \in [Source -> (SUBSET Tool) \ {{}}]
    /\ MaxAttempts \in Nat \ {0} /\ MaxEpoch \in Nat \ {0}
    /\ Raised \in Nat \ {0}
    /\ \A e \in Environment :
         /\ e.active \subseteq Source                \* the producers not yet revoked
         /\ e.workers \in 1 .. Cardinality(Worker)  \* the workers that were started
         /\ e.cap \in 1 .. Raised                   \* the revisions per owner at first
         /\ e.bound \in [Event -> Nat]              \* how often each event happens

VARIABLES
    producer,   \* source -> "active", "narrowed" (a claim withdrawn) or "revoked"
    pin,        \* source -> version of its transcript record and producer head
    tools,      \* tool -> sequence of revisions
    root,       \* the subject validity root: revision, epoch and state
    jobs,       \* job -> its record; held: its lease or its retry delay still runs
    line,       \* the jobs in the order of their creation
    ledger,     \* source -> [epoch, at: tool -> the revision it produced]
    cap, worker,
    asked,      \* the recovery target the governor last read, or NoTarget
    left        \* how often each event may still happen

vars == <<producer, pin, tools, root, jobs, line, ledger, cap, worker, asked, left>>

Active == {"Pending", "ReadyToContinue", "Leased", "RetryWaiting"}
Terminal == {"Succeeded", "Cancelled", "RepairRequired", "DeadLetter"}
NoCkpt == [root |-> 0, tools |-> <<>>, cursor |-> 0, verified |-> {}, deps |-> <<>>]
NoTarget == [job |-> 0, rev |-> 0]
Absent == [status |-> "Absent", attempts |-> 0, rev |-> 0, held |-> FALSE, ckpt |-> NoCkpt]
NoRead == [root |-> 0, tools |-> <<>>, src |-> <<>>, permitted |-> {}]
Idle == [pc |-> "idle", job |-> 0, rev |-> 0, read |-> NoRead, err |-> "none"]

Permitted == {s \in Source : producer[s] = "active"}
Manifest == [t \in Tool |-> Len(tools[t])]
Bindings == UNION {{<<t, i>> : i \in 1 .. Len(tools[t])} : t \in Tool}
Evidence(t) == UNION Range(tools[t])
Last(revisions) == revisions[Len(revisions)]

(* The shapes of the stored records and of what a worker remembers. *)
Pinned == UNION {[S -> Nat] : S \in SUBSET Source}
Applied == UNION {[T -> Nat] : T \in SUBSET Tool}
Manifests == [Tool -> Nat] \cup {<<>>}
Checkpoint == [root : Nat, tools : Manifests, cursor : 0 .. Complete,
               verified : SUBSET [at : Tool \X Nat, visible : BOOLEAN], deps : Pinned]
Root == [rev : Nat, epoch : 1 .. MaxEpoch, state : {"Ready", "Reconciling", "Capacity", "Repair"}]
JobRecord == [status : Active \cup Terminal \cup {"Absent", "BlockedCapacity"},
              attempts : 0 .. MaxAttempts, rev : Nat, held : BOOLEAN, ckpt : Checkpoint]
Read == [root : Nat, tools : Manifests, src : Pinned, permitted : SUBSET Source]
WorkerRecord == [pc : {"absent", "idle", "chosen", "claimed", "planned", "failed"},
                 job : Job \cup {0}, rev : Nat, read : Read,
                 err : {"none", "AuthorityDenied", "BudgetExceeded", "CasConflict",
                        "StoreUnavailable", "ClosureRejected"}]

TypeOK ==
    /\ producer \in [Source -> {"active", "narrowed", "revoked"}] /\ pin \in [Source -> Nat]
    /\ tools \in [Tool -> Seq(SUBSET Source)]
    /\ root \in Root /\ jobs \in [Job -> JobRecord] /\ line \in Seq(Job)
    /\ ledger \in [Source -> [epoch : 0 .. MaxEpoch, at : Applied]]
    /\ cap \in 1 .. Raised /\ worker \in [Worker -> WorkerRecord]
    /\ asked \in [job : Epoch \cup {0}, rev : Nat] /\ left \in [Event -> Nat]

Init ==
    /\ \E e \in Environment :
         /\ producer = [s \in Source |-> IF s \in e.active THEN "active" ELSE "revoked"]
         /\ \E started \in {W \in SUBSET Worker : Cardinality(W) = e.workers} :
               worker = [w \in Worker |->
                           IF w \in started THEN Idle ELSE [Idle EXCEPT !.pc = "absent"]]
         /\ cap = e.cap /\ left = e.bound
    /\ pin = [s \in Source |-> 0]
    /\ tools = [t \in Tool |-> <<>>]
    /\ root = [rev |-> 1, epoch |-> 1, state |-> "Ready"]
    /\ jobs = [j \in Job |-> Absent] /\ line = <<>>
    /\ ledger = [s \in Source |-> [epoch |-> 0, at |-> <<>>]]
    /\ asked = NoTarget

Spend(what) ==
    /\ left[what] > 0
    /\ left' = [left EXCEPT ![what] = @ - 1]

---------------------------------------------------------------------------
(* Reads.  ProceduralReadAuthorityV1::permits_exact: the completed job's    *)
(* proof of a binding decides; a binding it does not list is readable if a  *)
(* feedback application of this very epoch produced it.                     *)
Proofs == IF root.epoch = 1 THEN {} ELSE jobs[root.epoch].ckpt.verified

AppliedNow(b) == \E s \in Source : /\ ledger[s].epoch = root.epoch
                                   /\ b[1] \in DOMAIN ledger[s].at
                                   /\ ledger[s].at[b[1]] = b[2]

PermitsExact(b) ==
    /\ root.state = "Ready"
    /\ IF \E p \in Proofs : p.at = b THEN [at |-> b, visible |-> TRUE] \in Proofs
       ELSE AppliedNow(b)

---------------------------------------------------------------------------
(* Intake: the turn's feedback job is created while its producer may claim. *)
EnsureIntent(s) ==
    /\ jobs[s].status = "Absent" /\ producer[s] = "active"
    /\ jobs' = [jobs EXCEPT ![s].status = "Pending"]
    /\ line' = Append(line, s)
    /\ UNCHANGED <<producer, pin, tools, root, ledger, cap, worker, asked, left>>

(* Mutant: the predecessor of the new epoch keeps its lease. *)
BeginEpochOnly ==
    LET e == root.epoch + 1
    IN  /\ e <= MaxEpoch
        /\ root' = [rev |-> root.rev + 1, epoch |-> e, state |-> "Reconciling"]
        /\ line' = Append(line, e)
        /\ jobs' = [jobs EXCEPT ![e] = [Absent EXCEPT !.status = "Pending"]]

(* plan_subject_reconciliation with root.begin: the new epoch fences reads,  *)
(* its job is created and the previous one is cancelled, in the transaction  *)
(* of the change that causes it.  Refused when the retained proofs are full. *)
BeginEpoch ==
    LET e == root.epoch + 1
    IN  /\ e <= MaxEpoch
        /\ root' = [rev |-> root.rev + 1, epoch |-> e, state |-> "Reconciling"]
        /\ line' = Append(line, e)
        /\ jobs' = [j \in Job |->
                      IF j = e THEN [Absent EXCEPT !.status = "Pending"]
                      ELSE IF j = root.epoch /\ jobs[j].status \notin Terminal
                      THEN [jobs[j] EXCEPT !.status = "Cancelled", !.rev = @ + 1, !.held = FALSE]
                      ELSE jobs[j]]

(* control_procedural_producer on an existing binding.  A revocation is     *)
(* final; a narrowed claim may be granted again.                            *)
Control(s, state) ==
    /\ Spend("control") /\ producer[s] \notin {"revoked", state}
    /\ producer' = [producer EXCEPT ![s] = state] /\ pin' = [pin EXCEPT ![s] = @ + 1]
    /\ BeginEpoch
    /\ UNCHANGED <<tools, ledger, cap, worker, asked>>

(* control_procedural_producer for a producer of a scope the subject's root *)
(* does not list yet: bind_scope advances the root, no epoch begins.        *)
BindScope ==
    /\ Spend("bind")
    /\ root' = [root EXCEPT !.rev = @ + 1]
    /\ UNCHANGED <<producer, pin, tools, jobs, line, ledger, cap, worker, asked>>

(* A turn is archived or restored: still permitted, another state digest. *)
Archive(s) ==
    /\ Spend("archive") /\ jobs[s].status # "Absent"
    /\ pin' = [pin EXCEPT ![s] = @ + 1]
    /\ UNCHANGED <<producer, tools, root, jobs, line, ledger, cap, worker, asked>>

---------------------------------------------------------------------------
Failed(w, class) ==
    worker' = [worker EXCEPT ![w].pc = "failed", ![w].err = class, ![w].read = NoRead]

(* The exact claim is still the job's state (status, owner and lease epoch  *)
(* never change without the state revision).  A cycle that has lost it ends  *)
(* in an error: every later step of it, the retry included, is refused.      *)
Holds(w) == jobs[worker[w].job].rev = worker[w].rev
GivesUp(w) == worker' = [worker EXCEPT ![w] = Idle]

(* Mutant: a page that may continue is not listed as due. *)
DueFresh(j) ==
    /\ jobs[j].status \in Active \ {"ReadyToContinue"} /\ ~jobs[j].held
    /\ j \in Epoch => root.state = "Reconciling" /\ j = root.epoch

(* The worker's cycle: run_procedural_cycle. *)
Due(j) ==
    /\ jobs[j].status \in Active /\ ~jobs[j].held
    /\ j \in Epoch => root.state = "Reconciling" /\ j = root.epoch

(* list_due_procedural_feedback_jobs: the oldest due job. *)
Choose(w) ==
    /\ worker[w].pc = "idle"
    /\ \E i \in 1 .. Len(line) :
          /\ Due(line[i]) /\ \A k \in 1 .. i - 1 : ~Due(line[k])
          /\ worker' = [worker EXCEPT ![w] = [Idle EXCEPT !.pc = "chosen", !.job = line[i]]]
    /\ UNCHANGED <<producer, pin, tools, root, jobs, line, ledger, cap, asked, left>>

(* ProceduralFeedbackJobV2::claim: a continued page keeps its attempt. *)
Claimable(j) ==
    LET continuation == jobs[j].status = "ReadyToContinue"
    IN  /\ jobs[j].status \in Active /\ ~jobs[j].held
        /\ continuation \/ jobs[j].attempts < MaxAttempts

Claim(w) ==
    LET j == worker[w].job
    IN  /\ worker[w].pc = "chosen"
        /\ IF Claimable(j)
           THEN /\ jobs' = [jobs EXCEPT ![j].status = "Leased", ![j].held = TRUE,
                                        ![j].rev = @ + 1,
                                        ![j].attempts = IF jobs[j].status = "ReadyToContinue"
                                                        THEN @ ELSE @ + 1]
                /\ worker' = [worker EXCEPT ![w].pc = "claimed", ![w].rev = jobs[j].rev + 1]
           ELSE /\ GivesUp(w)
                /\ UNCHANGED jobs
        /\ UNCHANGED <<producer, pin, tools, root, line, ledger, cap, asked, left>>

Pins(sources) == [s \in sources |-> pin[s]]

(* What reconcile_tool_material leaves of a body, by what the worker read. *)
Reduced(evidence, permitted) == evidence \cap permitted

NextTools(after) == {t \in Tool : t > after /\ tools[t] # <<>>}
NextTool(after) == CHOOSE t \in NextTools(after) : \A u \in NextTools(after) : t <= u

---------------------------------------------------------------------------
(* One page of a reconciliation: run_claimed_procedural_reconciliation_job. *)
BeginCkpt == [NoCkpt EXCEPT !.root = root.rev, !.tools = Manifest]
Ckpt(e) == IF jobs[e].ckpt = NoCkpt THEN BeginCkpt ELSE jobs[e].ckpt

SnapshotChanged(c) == c.root # root.rev \/ c.tools # Manifest
StaleDeps(c) == {s \in DOMAIN c.deps : c.deps[s] # pin[s]}
Restarts(c) == SnapshotChanged(c) \/ StaleDeps(c) # {}
OnTool(c) == c.cursor <= NTools /\ NextTools(c.cursor) # {}

(* Mutant: only the current revision's own evidence is kept. *)
RebuiltFromCurrent(t, permitted) == Reduced(Last(tools[t]), permitted)

(* The current body is rebuilt from the evidence of every retained revision  *)
(* (complete_applied_tool_body) and reduced to what is permitted now.        *)
Rebuilt(t, permitted) == Reduced(Evidence(t), permitted)
Rewrites(t, permitted) == Rebuilt(t, permitted) # Last(tools[t])

(* The sources whose records the page's conditions pin; refreshing the       *)
(* dependencies stops at the first one that changed.                         *)
PageSources(c) ==
    IF SnapshotChanged(c) THEN {{}}
    ELSE IF StaleDeps(c) # {}
    THEN {R \in SUBSET DOMAIN c.deps : Cardinality(R \cap StaleDeps(c)) = 1}
    ELSE {DOMAIN c.deps \cup IF OnTool(c) THEN Evidence(NextTool(c.cursor)) ELSE {}}

OverCapacity(c) ==
    /\ ~Restarts(c) /\ OnTool(c)
    /\ LET t == NextTool(c.cursor) IN Rewrites(t, Permitted) /\ Len(tools[t]) >= cap

(* Mutant: the revision the page appends is not proved. *)
ToolPageUnproved(c, t, permitted) ==
    LET n == Len(tools[t])
        visible(i) == Reduced(tools[t][i], permitted) = tools[t][i]
    IN  [c EXCEPT !.cursor = t, !.tools[t] = IF Rewrites(t, permitted) THEN n + 1 ELSE n,
                  !.verified = @ \cup {[at |-> <<t, i>>, visible |-> visible(i)] : i \in 1 .. n},
                  !.deps = [s \in DOMAIN @ \cup Evidence(t) |-> pin[s]]]

ToolPage(c, t, permitted) ==
    LET n == Len(tools[t])
        grown == IF Rewrites(t, permitted) THEN n + 1 ELSE n
        visible(i) == i > n \/ Reduced(tools[t][i], permitted) = tools[t][i]
    IN  [c EXCEPT !.cursor = t, !.tools[t] = grown,
                  !.verified = @ \cup {[at |-> <<t, i>>, visible |-> visible(i)] : i \in 1 .. grown},
                  !.deps = [s \in DOMAIN @ \cup Evidence(t) |-> pin[s]]]

(* The page's checkpoint: restarted, one tool further, or past the owners. *)
Page(c, permitted) ==
    IF Restarts(c) THEN BeginCkpt
    ELSE IF OnTool(c) THEN ToolPage(c, NextTool(c.cursor), permitted)
    ELSE [c EXCEPT !.cursor = IF @ <= NTools THEN Skills ELSE Complete]

Publishes(c) == ~Restarts(c) /\ c.cursor = Complete

---------------------------------------------------------------------------
(* Applying a turn's feedback: plan_agent_tool_feedback_application.  The    *)
(* new revision keeps the permitted part of the one the worker read.         *)
Merged(s, t, read) ==
    {s} \cup IF read.tools[t] = 0 THEN {} ELSE Reduced(tools[t][read.tools[t]], read.permitted)

FeedbackSources(s) ==
    {s} \cup UNION {Last(tools[t]) : t \in {u \in Feeds[s] : tools[u] # <<>>}}

Plan(w) ==
    LET j == worker[w].job
        planned(r, sources) ==
            worker' = [worker EXCEPT ![w].pc = "planned",
                          ![w].read = [root |-> r, tools |-> Manifest, src |-> Pins(sources),
                                         permitted |-> Permitted]]
    IN  /\ worker[w].pc = "claimed"
        /\ CASE ~(Holds(w) /\ jobs[j].held) -> GivesUp(w)
             [] j \in Source /\ Holds(w) /\ jobs[j].held ->
                  IF j \notin Permitted THEN Failed(w, "AuthorityDenied")
                  ELSE IF \E t \in Feeds[j] : Len(tools[t]) >= cap THEN Failed(w, "BudgetExceeded")
                  ELSE planned(0, FeedbackSources(j))
             [] j \in Epoch /\ Holds(w) /\ jobs[j].held ->
                  IF OverCapacity(Ckpt(j)) THEN Failed(w, "BudgetExceeded")
                  ELSE \E sources \in PageSources(Ckpt(j)) : planned(root.rev, sources)
        /\ UNCHANGED <<producer, pin, tools, root, jobs, line, ledger, cap, asked, left>>

(* Mutant: the commit compares the claim and nothing else. *)
UnchangedClaim(w) == Holds(w)

(* The exact preconditions of the transaction. *)
Unchanged(w) ==
    /\ Holds(w) /\ worker[w].read.tools = Manifest
    /\ worker[w].read.root \in {0, root.rev}
    /\ \A s \in DOMAIN worker[w].read.src : worker[w].read.src[s] = pin[s]

(* commit_reconciliation_page: publish, restart or continue. *)
CommitPage(e, read) ==
    LET c == Ckpt(e)
        t == NextTool(c.cursor)
    IN  /\ IF Publishes(c)
           THEN /\ jobs' = [jobs EXCEPT ![e].status = "Succeeded", ![e].rev = @ + 1, ![e].held = FALSE]
                /\ root' = [root EXCEPT !.rev = @ + 1, !.state = "Ready"]
           ELSE /\ jobs' = [jobs EXCEPT ![e].status = "ReadyToContinue", ![e].rev = @ + 1,
                                        ![e].held = FALSE, ![e].ckpt = Page(c, read.permitted)]
                /\ UNCHANGED root
        /\ tools' = IF ~Restarts(c) /\ OnTool(c) /\ Rewrites(t, read.permitted)
                    THEN [tools EXCEPT ![t] = Append(@, Rebuilt(t, read.permitted))] ELSE tools
        /\ UNCHANGED ledger

(* complete_procedural_feedback_job; the ledger names the current epoch. *)
CommitFeedback(s, read) ==
    /\ jobs' = [jobs EXCEPT ![s].status = "Succeeded", ![s].rev = @ + 1, ![s].held = FALSE]
    /\ tools' = [t \in Tool |-> IF t \in Feeds[s] THEN Append(tools[t], Merged(s, t, read)) ELSE tools[t]]
    /\ ledger' = [ledger EXCEPT ![s] = [epoch |-> root.epoch,
                                        at |-> [t \in Feeds[s] |-> Len(tools[t]) + 1]]]
    /\ UNCHANGED root

CommitError(w) ==
    LET j == worker[w].job
    IN  IF ~Holds(w) THEN "CasConflict"
        ELSE IF j \in Source /\ j \notin Permitted THEN "AuthorityDenied"
        ELSE IF j \in Source /\ root.state # "Ready" THEN "CasConflict"
        ELSE IF ~Unchanged(w) THEN "CasConflict" ELSE "none"

Commit(w) ==
    LET j == worker[w].job
    IN  /\ worker[w].pc = "planned"
        /\ \/ /\ CommitError(w) = "none"
              /\ IF j \in Epoch THEN CommitPage(j, worker[w].read) ELSE CommitFeedback(j, worker[w].read)
              /\ \/ GivesUp(w) /\ UNCHANGED left
                 \/ Spend("fault") /\ Failed(w, "StoreUnavailable")   \* the answer is lost
           \/ /\ CommitError(w) # "none"
              /\ IF Holds(w) THEN Failed(w, CommitError(w)) ELSE GivesUp(w)
              /\ UNCHANGED <<tools, root, jobs, ledger, left>>
           \/ /\ Holds(w) /\ ~jobs[j].held            \* it ran out before the last look at it
              /\ GivesUp(w) /\ UNCHANGED <<tools, root, jobs, ledger, left>>
        /\ UNCHANGED <<producer, pin, line, cap, asked>>

(* The Store cannot be reached, or what it holds fails its validation. *)
StoreFault(w) ==
    /\ worker[w].pc \in {"claimed", "planned"} /\ Spend("fault")
    /\ \E class \in {"StoreUnavailable", "ClosureRejected"} : Failed(w, class)
    /\ UNCHANGED <<producer, pin, tools, root, jobs, line, ledger, cap, asked>>

(* retry_procedural_feedback_job and terminate_procedural_feedback_job with  *)
(* commit_job_state_transition: a reconciliation that ends unpublished       *)
(* blocks the root.  Without the live lease the cycle ends in an error.      *)
FailedStatus(j, class) ==
    IF class = "AuthorityDenied" /\ j \in Source THEN "Cancelled"
    ELSE IF class \in {"AuthorityDenied", "ClosureRejected"} THEN "RepairRequired"
    ELSE IF j \in Epoch /\ class = "BudgetExceeded" THEN "BlockedCapacity"
    ELSE IF jobs[j].attempts >= MaxAttempts THEN "DeadLetter" ELSE "RetryWaiting"

RootAfter(j, status) ==
    IF j \in Epoch /\ status = "BlockedCapacity" THEN [root EXCEPT !.rev = @ + 1, !.state = "Capacity"]
    ELSE IF j \in Epoch /\ status \in {"RepairRequired", "DeadLetter"}
    THEN [root EXCEPT !.rev = @ + 1, !.state = "Repair"]
    ELSE root

Fail(w) ==
    LET j == worker[w].job
        status == FailedStatus(j, worker[w].err)
    IN  /\ worker[w].pc = "failed"
        /\ GivesUp(w)
        /\ IF Holds(w) /\ jobs[j].held
           THEN /\ jobs' = [jobs EXCEPT ![j].status = status, ![j].rev = @ + 1,
                                        ![j].held = (status = "RetryWaiting")]
                /\ root' = RootAfter(j, status)
           ELSE UNCHANGED <<jobs, root>>
        /\ UNCHANGED <<producer, pin, tools, line, ledger, cap, asked, left>>

Crash(w) ==
    /\ worker[w].pc \notin {"absent", "idle"} /\ Spend("crash")
    /\ GivesUp(w)
    /\ UNCHANGED <<producer, pin, tools, root, jobs, line, ledger, cap, asked>>

(* A retry delay ends, or a lease runs out: its worker died or is slow. *)
Elapse(j) ==
    LET working == \E w \in Worker : worker[w].job = j /\ Holds(w)
    IN  /\ jobs[j].held
        /\ IF working THEN Spend("slow") ELSE UNCHANGED left
        /\ jobs' = [jobs EXCEPT ![j].held = FALSE]
        /\ UNCHANGED <<producer, pin, tools, root, line, ledger, cap, worker, asked>>

---------------------------------------------------------------------------
(* The governor: procedural_reconciliation_status gives a capacity block's   *)
(* recovery target, resume_procedural_reconciliation takes exactly it.       *)
Status ==
    /\ root.state = "Capacity"
    /\ asked' = [job |-> root.epoch, rev |-> jobs[root.epoch].rev]
    /\ asked' # asked
    /\ UNCHANGED <<producer, pin, tools, root, jobs, line, ledger, cap, worker, left>>

(* Mutant: the expected state revision is not compared. *)
ResumableAnyRevision ==
    /\ asked # NoTarget /\ jobs[asked.job].status = "BlockedCapacity"
    /\ root.state = "Capacity" /\ root.epoch = asked.job

Resumable ==
    /\ asked # NoTarget /\ jobs[asked.job].status = "BlockedCapacity"
    /\ root.state = "Capacity" /\ root.epoch = asked.job
    /\ jobs[asked.job].rev = asked.rev

Resume ==
    /\ Resumable /\ Spend("resume")
    /\ root' = [root EXCEPT !.rev = @ + 1, !.state = "Reconciling"]
    /\ jobs' = [jobs EXCEPT ![root.epoch].status = "ReadyToContinue", ![root.epoch].rev = @ + 1,
                            ![root.epoch].ckpt = [BeginCkpt EXCEPT !.root = root.rev + 1]]
    /\ UNCHANGED <<producer, pin, tools, line, ledger, cap, worker, asked>>

RaiseCapacity ==
    /\ cap # Raised /\ cap' = Raised
    /\ UNCHANGED <<producer, pin, tools, root, jobs, line, ledger, worker, asked, left>>

---------------------------------------------------------------------------
WorkerNext == \E w \in Worker :
    Choose(w) \/ Claim(w) \/ Plan(w) \/ Commit(w) \/ Fail(w) \/ StoreFault(w) \/ Crash(w)

SourceNext == \E s \in Source :
    \/ EnsureIntent(s) \/ Archive(s)
    \/ \E state \in {"active", "narrowed", "revoked"} : Control(s, state)

Next ==
    \/ WorkerNext \/ SourceNext \/ BindScope
    \/ \E j \in Job : Elapse(j)
    \/ Status \/ Resume \/ RaiseCapacity

Spec == Init /\ [][Next]_vars

(* The service's worker keeps running cycles; deadlines pass. *)
Works(w) == Choose(w) \/ Claim(w) \/ Plan(w) \/ Commit(w) \/ Fail(w)
FairSpec == Spec /\ (\A w \in Worker : WF_vars(Works(w))) /\ (\A j \in Job : WF_vars(Elapse(j)))

---------------------------------------------------------------------------
(* Withdrawn evidence is never read: whatever permits_exact lets through     *)
(* holds only sources that are permitted at that moment, however workers,    *)
(* retries, pages and producer controls interleave.                         *)
ReadsAreFenced == \A b \in Bindings : PermitsExact(b) => tools[b[1]][b[2]] \subseteq Permitted

(* When reads are open nothing was lost either: the current revision of each *)
(* tool is readable and holds exactly the applied feedback that is permitted *)
(* now, a claim that was granted again included.                             *)
ReadyIsComplete ==
    root.state = "Ready" =>
        \A t \in Tool : tools[t] # <<>> =>
            /\ PermitsExact(<<t, Len(tools[t])>>)
            /\ Last(tools[t]) = {s \in Permitted : ledger[s].epoch > 0 /\ t \in Feeds[s]}

(* The root and the job of its epoch close: validate_subject_reconciliation_ *)
(* job, which status reads and Store admission demand, accepts every state;  *)
(* the jobs of older epochs have ended.                                     *)
RootClosesJob ==
    /\ root.epoch > 1 =>
        LET status == jobs[root.epoch].status
        IN  CASE root.state = "Ready"       -> status = "Succeeded"
              [] root.state = "Reconciling" -> status \in Active
              [] root.state = "Capacity"    -> status = "BlockedCapacity"
              [] root.state = "Repair"      -> status \in {"RepairRequired", "DeadLetter"}
    /\ \A e \in Epoch : e < root.epoch => jobs[e].status \in Terminal

(* A scan that is complete over the current manifests has proved the exact   *)
(* retained inventory: validate_output_inventory never refuses to publish.   *)
ScanCoversInventory ==
    root.state = "Reconciling" =>
        LET c == jobs[root.epoch].ckpt
        IN  c.cursor = Complete /\ ~SnapshotChanged(c) => {p.at : p \in c.verified} = Bindings

(* A capacity block is left only by the governor's resume of that very block *)
(* or by a newer epoch; claims, retries and reopened workers do not clear it. *)
CapacityNeedsResume ==
    [][root.state = "Capacity" /\ root' # root /\ root'.epoch = root.epoch
       => \/ root'.state = "Capacity" /\ jobs' = jobs
          \/ asked = [job |-> root.epoch, rev |-> jobs[root.epoch].rev]]_vars

(* Every epoch comes to an end (published, blocked, or superseded by the     *)
(* next), past the older feedback jobs that are listed first and cannot      *)
(* commit while it lasts, and so does each feedback job; unless a worker      *)
(* died in the last attempt of a job, which then is due and never claimed.   *)
Exhausted(j) ==
    /\ jobs[j].status \in Active \ {"ReadyToContinue"} /\ ~jobs[j].held
    /\ jobs[j].attempts = MaxAttempts
LearningSettles ==
    /\ \A e \in Epoch :
          root.epoch = e /\ root.state = "Reconciling"
              ~> ~(root.epoch = e /\ root.state = "Reconciling") \/ \E j \in Job : Exhausted(j)
    /\ \A s \in Source :
          jobs[s].status # "Absent" ~> jobs[s].status \in Terminal \/ \E j \in Job : Exhausted(j)

=============================================================================

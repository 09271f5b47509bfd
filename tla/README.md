# A verification development for beetles-memory

TLA+ models of the parts of beetles-memory whose correctness depends on the
order in which processes, threads and crashes meet; TLC configurations that check
them on small instances; and TLAPS proofs for every instance. Source paths are
relative to `src/crates/`.

## 1. Inventory of the system

| Part | State | Operations | Talks to |
|---|---|---|---|
| Transaction planner (`sdk/.../store_internal/transaction.rs`, `mutation.rs`, `engine.rs`) | none (pure) | plan preconditions, puts, deletes, events, budgets; scoped replacement | every backend |
| File store (`store_internal/file.rs`) | data and key-index file per address, event log, journal, manifest, process-wide root gate, advisory lock | open, commit, replace scope, consistent read, immutable read session, recover | file system, planner |
| SQLite, in-memory and embedded stores | the same contract over other media | same trait | planner |
| Store platform (`store_internal/platform.rs`, `schema.rs`, `event.rs`, `snapshot.rs`) | schema, mutation receipts | admission fence, post-image closures, mutation | backends |
| Governance queue (`store_internal/post_turn_governance.rs`, core `memory/post_turn_governance.rs`) | job documents, scope index, recovery receipts, execution bindings | ensure, reconcile, claim, renew, retry, dead-letter, block, resume (three ways), cancel, complete | platform |
| Procedural learning (`store_internal/procedural_feedback.rs` and its `reconciliation.rs`, core `memory/post_turn_learning.rs`, `sdk/src/runtime/procedural*`) | feedback jobs, producer control, validity root, tool experience, reconciliation jobs and seals | apply feedback, control a producer, bind a scope, reconcile a page, seal, resume capacity, discover blocks | platform |
| Learning engine (`sdk/src/learning.rs`) | which lane ran last | choose a lane and a due job, prepare, claim, run the model, file failures | both queues, runtime |
| Learning service (`entry/src/learning_service.rs`) | attachments, wake generation, stop and done flags | attach, detach, wake, control, cycle, shutdown | learning engine |
| Entry runtime manager (`entry/src/runtime.rs`) | cache of runtimes, weak references, order of use | request, build, evict, close | learning service |
| Idempotency cache (`entry/src/idempotency.rs`) | keys in flight | reserve, drop | entry runtime |
| Durable mutations and policies (`adapter/src/dispatch.rs`, core `memory/mutation_operation.rs`, `long_term_control.rs`) | operation receipts, policies, audit trail | write, correct, delete, put and remove a policy | platform |
| Network front (`entry/src/network_front.rs`) | permits, channel, deadlines | dispatch, handle, interrupt, shut down | transports |
| Runtime facade (`sdk/src/runtime.rs`, `ops.rs`) | mounted subjects | turns, recovery loops, policies | queues, platform |
| Transports, gateways, core memory algorithms, apps | request-local | I/O, scoring, formatting | entry runtime |

The behaviours that are hard to test:

* a process dies, or one file operation fails, between any two file operations
  of a commit or of a recovery;
* readers, writers and openers of several processes queue on two locks;
* queue operations read two documents, plan, and commit later; leases expire, and
  workers are superseded by workers of the same name in between;
* a commit is reported as failed although it was applied;
* a turn is committed and its intent is not; limits are reached exactly;
* attachments are shared by reference counts while they are detached, attached
  anew and scanned; wake-ups and the stop race the worker going to sleep;
* planning reads lists that are stale by the next read and by the commit;
* a producer's authority changes while a long reconciliation is under way;
* a block ends while another worker is about to block the job for another reason.

What must hold: transactions are atomic, applied at most once and truthfully
answered; reads see one state; nothing is damaged silently; a job's plan reaches
memory once; the index that workers scan agrees with the jobs; leases fence;
recovery never goes backwards and needs its authority; learned reads are fenced
until everything retained is proved again; what is due is served; calls return.

## 2. Modules

| Module | Models |
|---|---|
| `StoreRequests` | requests and the planner's effect on documents and log, its duplicate-id check and its budgets |
| `AtomicStore` | abstract: what a `StoreEngine` promises its clients |
| `FileStore`, `MCFileStore`, `FileStoreProofs` | the file backend, one file operation per step |
| `GovernanceJobs`, `MCGovernanceJobs`, `GovernanceJobProofs` | the governance queue of one runtime scope over an atomic store |
| `LearningService`, `MCLearningService`, `LearningServiceSteps` | the worker thread, its attachments and its callers; the invariant's steps |
| `EntryRuntimes`, `MCEntryRuntimes`, `EntryRuntimeProofs` | the runtime cache composed with the learning service (extends it); the theorems are about both |
| `LearningCycle`, `MCLearningCycle` | the learning engine over both lanes, and the host's recovery loops |
| `ProceduralReconciliation`, `MCProceduralReconciliation`, `ReconciliationSteps`, `ReconciliationProofs` | feedback, validity epochs and their paged reconciliation |
| `MutationOperations`, `MCMutationOperations` | durable mutations from entry to Store |
| `GovernancePolicies`, `MCGovernancePolicies` | long-term policies and their audit trail |
| `NetworkFront`, `MCNetworkFront` | the TCP front |
| `Lists` | removal from a list, for the learning modules |
| `RequestProofs` | the proofs about `MutationOperations` and `NetworkFront` |
| `LearningAndPolicyProofs` | the proofs about `LearningCycle` and `GovernancePolicies` |

### FileStore

`data` and `index` are the two files of an address, `log` the whole lines of the
event log and `torn` whether bytes without their newline follow. `journal` is the
marker file with its state and its two images (`FileTransactionJournal`). `gate[p]`
is the `local_root_gate` mutex of process `p`; `xlock` and `slock` are the advisory
lock. `pc[t]` says where thread `t` is:

    commit/replace:  gate -> lock -> journal -> plan -> restore -> append -> mark -> remove -> return
    read:            gate -> lock -> marker -> reading
                                     \-> gate (exclusive) -> lock -> journal -> ... -> gate (shared)
    open:            preflight -> gate -> lock -> journal
    recovery:        journal -> restore -> append -> remove -> (what the call does next)

Every step is one file operation, because that is where a crash (`Crash`) or an
error (`FileError`) can fall; the scan before the lock and the opening and trying of the
lock file fail in the same way. A put writes the index and then the data; a delete
removes the data and then the index (`restore_transaction_image`). An append is
`set_len` to the prefix followed by bytes and newline for each event. JSON and blob
addresses behave alike and are one set `Key`. An atomic write (temporary file,
sync, rename) is one step. `FenceRejects` is the admission report that expired or
was superseded. `Preflight` is the scan `open_internal` makes before it has the
lock: it may fail while somebody is writing, and the scan under the lock
(`OpenAdmits`) may not.

The refinement mapping reads the store through its journal: `StoredDocs` and
`StoredLog` are the files overlaid with the image recovery would restore, so a
transaction takes effect when the Committed journal is renamed into place.

### GovernanceJobs

An operation is three steps of its caller: read the job and plan its post-image
(`Claim`, `Renew`, ... through `Read`), read the scope index and plan that
(`ReadIndex`), and commit both with the exact documents read as preconditions
(`Commit`). `CommitUnreported` applies and reports an error, `CommitRefused` does
neither, and after either a completion rereads the job (`Reread`). The store under
it is atomic, which is what `FileStore` is shown to implement. `Closed` is the
transaction closure check of `platform.rs`. Lease owners are names, which several
callers may share; epochs are the claims counted. `now` is the caller's clock.
Operations whose conditions fail return an error and change nothing, so they are
simply not enabled.

`withdrawn` is the set of turns whose text was masked or deleted, which nothing undoes:
`permits_post_turn_learning` is false of them from then on. `Withdraw` cancels the active
job that the index lists for the turn in the transaction that withdraws the text
(`plan_transcript_learning_lifecycle`); with none listed the transaction is about the text
alone (`WithdrawUnlisted`, `WithdrawText`). A reconciliation is three steps as well. `ListPage`
reads the cursor and a page of turns behind it, of which only those that may be learned
from get a job (`Readable`). `Reconcile` reads jobs and index and plans, and moves the cursor
to the last turn of the whole page, as `reconcile_governance_intents` in
`sdk/src/runtime.rs` does. A runtime whose subject is not active learns from no turn and
moves the cursor all the same: that is the operation `reconcile_inactive`, and which of the
two a call is, is chosen call by call. A commit that creates a job compares the text of its
turn (`Unchanged`, from `semantic_learning_transcript_precondition`).

### LearningService and EntryRuntimes

An attachment is an `Arc` that the registry, the handles, the worker's snapshot and
the snapshots of control calls share. `detach` decides by the strong count whether
it is the last, so the model keeps exactly those shares (`Shares`, over
`registry`, `handle`, `worker` and `call`) and every step of `detach`, `attach` and a
control call that takes or releases a lock is an action. The count is read without a
lock, so reading it (`Detach`), clearing the flag (`Deactivate`) and leaving the registry
(`Retain`) are three steps, between which the worker may begin a model call for the
attachment or a runtime of the same identity be attached to it. The wake generation is only
compared for equality with what the worker observed; `unseen` keeps the outcome.
A model call carries a cut-off: after a stop it ends as cancelled.

`EntryRuntimes` adds the manager's mutex, the cache, the weak references to evicted
runtimes, and the order of use. A runtime owns one handle, so a `Handle` stands for
both. Requests look up and build under the mutex; evicted runtimes are detached and
closed after it was released. When a close fails the request fails, and the runtimes
behind it are dropped, which detaches them, without being closed (`CloseDrop`). The limit is what a budget report grants and may shrink.

### LearningCycle

A worker's cycle is `Choose` (which lane), then the due job, preparation, claim,
execution and how its outcome is filed, each a step of its own, because what a cycle
read is stale by the next. A queue operation is one step: `GovernanceJobs` shows that
it commits against exactly what it read or fails. The recovery loops of the runtime
(`governance_credential_changed`, `governance_provider_permission_changed`) visit the
scope's jobs one after the other beside the workers. A Store error while a binding or
an authority is read counts as its absence, as in the code. `Hopeless` names the jobs
nothing can serve any more: no attempt left, or a lease that expired while the
disclosure was withdrawn (a block refuses `Leased`).

### ProceduralReconciliation

A source is a turn's evidence with the producer it came through; a tool owner is the
sequence of its revisions, and a revision the set of sources its body holds. Any
change of a producer's authority opens an epoch whose reconciliation job pages over
the tools, then the (empty) skills, then seals. Each commit is one Store transaction
under exact preconditions, so what a worker read counts only through the versions it
compares. A Store error is retried; a document that fails its validation ends the job as
RepairRequired, and so does a reconciliation that lost its authority, and the root then
says Repair. The subject has no Runtime Skill and no turn is masked or deleted.

### MutationOperations and GovernancePolicies

A mutation is: reserve the key in the process, look for the receipt, read and plan,
commit effect and receipt together, and on a failed commit look for the receipt
again. A reservation is local to its process; the receipt in the shared Store decides.
A request is its own intent digest. Policies are planned from two or three lists read
without a lock; `Commit` alone compares. A policy's id is the operation that created
it. Refusals that precede the reservation change nothing and are left out.

### NetworkFront

The counter of permits is read and exchanged in two steps (`compare_exchange`), then
the deadline is armed and the connection sent. Time is which deadlines have passed.
The supervisor waits with a timeout (`wait`) while a deadline is left and without one
(`sleep`) otherwise, when only a notification wakes it.
`shutdown` borrows the front exclusively and so never overlaps a dispatch. A handler
that panics returns (`catch_unwind`).

## 3. Runs

| Run | Instance | Checks |
|---|---|---|
| `file_store` | 2 processes with a thread each, 2 addresses, 2 entries and 2 events allowed | reads see one state, damage is never met, budgets hold, the store implements `AtomicStore`, every open call returns |
| `governance_jobs` | 2 callers of one owner name, 2 turns, 2 attempts, 2 plans, 2 generations, pages of up to two, one terminal place | the plan is applied once and truthfully acknowledged, leases fence, recovery generations advance, the index agrees with the jobs, the cursor leaves no learnable turn behind, withdrawn turns get no job |
| `learning_service` | 2 threads and 1 identity or 1 thread and 2 identities, 1 handle, 2 allocations | calls that a detach or a stop cut do not complete, nothing is admitted after a stop, shutdown means stopped, wake-ups and the done signal are not lost |
| `entry_runtimes` | 2 threads, 2 scopes, 2 runtimes, limit 1 | one runtime per scope in use, closing, the service's registry under the manager, requests return |
| `network_front` | 3 connections, 2 permits, 1 worker | permits are exact, deadlines interrupt, accepted connections are served |
| `mutation_operations` | 2 threads in one process and 1 in another, 1 document, 4 requests, 1 key | effect once, durable success, reservations, no resurrection |
| `governance_policies` | 2 callers, 3 operation ids, 1 rule | the audit trail reconstructs the policies, removals take only what they name |
| `reconciliation` | 2 tools, 2 sources, up to 2 workers, 2 epochs | fenced reads, complete proofs, sealing, inventory, capacity blocks |
| `reconciliation_live` | the same with 1 worker | epochs and feedback settle |
| `learning_cycle` | 2 jobs, 1 worker, 5 host operations, procedural lane | a successful recovery missed no job, blocks end only by authority, neither lane starves the other, capability blocks are retried |

Two more runs reproduce disagreements between the code and what its messages and
tests say; the quotations are in `PROJECT.json`:

| Run | Property | What TLC shows |
|---|---|---|
| `entry_runtimes_served` | `UsableIsServed` | `detach` clears `active` before it takes the lock; a runtime of the same scope built in between shares the attachment and is unregistered with it |
| `learning_stale_resume` | `BlocksNeedAuthority` | with two workers, a cycle that saw a capability block ends the policy block that replaced it |

Behaviour of the code that the models reproduce and a reader may not expect:

* a caller that lost a race for the document is answered as if its operation id were
  committed for another intent (`adapter/src/dispatch.rs:166`), and a rejected
  operation leaves a receipt, so its retry is answered Replayed
  (`sdk/src/runtime.rs:7801`);
* a worker that dies in the last attempt of a reconciliation leaves the root
  Reconciling (core `memory/post_turn_learning.rs:1169`), which `LearningSettles`
  excepts;
* a job that waits for a model client is claimed until no attempt is left and then
  stays Pending (`sdk/src/learning.rs:589`), which `CapabilityRetried` excepts;
* a reconciliation by a runtime whose subject is not active moves the cursor past turns
  that never got a job (`sdk/src/runtime.rs:19940`), and nothing moves it back, which
  `CursorCoversTurns` excepts;
* a job created between the reads of a lifecycle transition that found none and its commit
  stays active for a withdrawn turn. It is refused when it runs
  (`sdk/src/runtime.rs:20188`).

**Bounds.** `file_store` needs two addresses so that one can be restored and the
other not, two events so that an append can stop between them, and requests that
compete (`PutBoth` and `Move` expect the same document), depend on one another
(`Replace` needs `PutBoth`), delete, create, append and replace. Crashes, errors
and calls are unbounded; the state is finite because event ids are not accepted
twice. In `governance_jobs` `MaxRevision` stands for the largest `u64`, where the
code's `checked_add` fails, and `MaxTime` bounds the clock; both leave room for a
lease to expire and the job to be claimed again. The constraint `Explored` goes deep in
four directions: workers that hand a job to one another, operators and recoveries
against workers, two jobs that share the index, and turns that are withdrawn while jobs
are made for them. Pages of up to two let one reconciliation pass a withdrawn turn and a
learnable one. The index agreement needs two
jobs: with one, the job's own precondition already serialises every operation.

`learning_service` has a spare allocation, so that an identity is attached anew while
the old attachment is still referenced; two runtimes of two scopes under a limit of one
evict one another, and a third in `entry_runtimes_served` lets a scope be rebuilt while
its evicted runtime closes. Nothing else in these runs is bounded. The front has one
connection more than permits and a permit more than workers, so that it refuses and
queues. Mutations share one document and the key `k1` names two kinds, so identities
differ where keys agree; `TwoAtATime` lets two calls meet, in one process or only in
the Store. Policies have one rule, where two puts compete, and removals of a right, a
wrong and a future revision.

In `ProceduralReconciliation` and `LearningCycle` the environment is chosen in the
initial state: which workers and sources there are, which failures a model call may
report, the limit of revisions, and how often a crash, fault, slow execution, archived
turn, host call or change happens. Each environment of `MCEnvironment` and `Settling` asks
one question and the comments in the MC modules say which; the first tool is fed by
both sources, so a page removes one contribution and keeps another. `MaxAttempts` is two
where exhaustion matters (the code has five).

Deadlock is not checked where the system really may stop: where bounds on time,
revisions or events end a run, and in the learning service and the network front after
their shutdown.

**Fairness.**

* `FileStore!FairSpec`: weak fairness of each thread's own steps. The operating system
  keeps scheduling a thread that can run, and a poll of the advisory lock either
  succeeds or gives up. Nothing is assumed of calls, errors or crashes. `CallsReturn`
  is conditional on clients ceasing to make new calls: with calls arriving for ever a
  thread may wait for ever, since neither the mutex nor the advisory lock is fair.
* `LearningService!FairSpec`: the worker thread and calls under way continue, and the
  deadline of a shutdown passes; nothing of the poll interval.
* `EntryRuntimes!EntryFairSpec`: requests under way continue.
* `NetworkFront!FairSpec`: threads run, deadlines pass, and a handler whose read half
  was shut down returns (its reads end). A handler that waits for its peer is not
  assumed to return, which is what the deadlines are for.
* `ProceduralReconciliation!FairSpec` and `LearningCycle!FairSpec`: workers run and the
  times jobs wait for come. Crashes and faults need not happen, and host calls only
  continue once begun.

## 4. Proofs

Each proof module shows an inductive invariant (`IInv`; `ServiceInv` and `EntryInv` for
the entry runtimes), with one lemma per action or kind of action, and derives the
invariants and action properties from it. Every safety property of the passing runs is
proved. All theorems hold for any values of the constants that satisfy the named
assumptions of the component's module. Properties that are proved and in no run follow
from the same invariants: the types, `NoSilentDamage` and the locks of the file store,
terminal states and retention in the queue, stable receipts, the unique rule, the truth of
the answers to policy requests (`AnswersAreTrue`), bounded reads and clean shutdown of the front, generations that are spent once, the registry's
distinct attachments, and the cache's lists.

### FileStoreProofs

`Inductive`, `TypeCorrect`, `DamageIsCovered`, `PrefixSurvives`, `ConsistentReads`,
`LocksExclude`, `DamageIsNeverMet`, `EventsAreUnique`, `CapacityHolds`, and `Refinement`:
`FileStore` implements `AtomicStore`. The assumptions: sentinels differ from the
values they are mixed with, requests have their type, a commit drops no event, the set
of addresses is finite, and the initial documents fit the budget.

The safety properties are not inductive. `NoSilentDamage` says that the journal
covers damage, but not that removing the journal is safe; that needs to know that
the thread removing it has restored every address and the whole log. `IInv` adds:

* `JournalCovers`: both images name the same addresses, mode and log prefix, which
  is why a crash in recovery can be followed by another recovery, and why recovery
  to the before image repairs what applying the after image began;
* `RestoreProgress`: how far the exclusive holder has come, so that at `mark` and
  `remove` the files equal the image;
* `AfterImageIsEffect`: until the commit point, the after image is the effect of the
  request on what is stored, and the request is still admissible. This makes
  `MarkCommitted` an `Apply` step of the abstract store;
* `ReadProgress`, `JournalAbsent`, `CallShape`: what a reader has seen, and which call
  a thread can be in at each point.

Frame lemmas (`DiskFrame`, `ThreadFrame`, `OneThread`, `ExclusiveStep`) carry the clauses
of the threads that do not move: nobody else holds a lock while files change.
`CoveredWrites` is the central one: a file the journal covers may change without
changing what is stored.

### GovernanceJobProofs

`InvariantHolds`, `TypeCorrect`, `IndexIsExact`, `PlansApplyOnce`, `AcksAreTrue`,
`LeasesDiffer`, `RetentionHolds`, and the action properties `CursorIsHonest`,
`LeasesAreFenced`, `RecoveriesAdvance`, `EndIsFinal` and `WithdrawnAreLeft`, for any callers, owner names,
turns, generations, attempts and limits (`QueueAssumption`, `NoneAssumption`).

A caller's two reads and its commit are separate steps, so the invariant has to say
what a call remembers. `Planned(c)` does: the post-image is a valid document (`JobOK`),
one that touches a lease was planned by its holder (`Fenced`), a recovery goes past
the generations it read (`Advance`), and the index planned from is the one read. Of a
reconciliation it says (`PageRead`, then `Paged`) that every turn between the cursor it
read and the one it writes is committed and among those it reads the job of, or was
withdrawn already, or the subject is inactive; a turn once withdrawn stays so, and so
what the page saw remains true. At
the commit the exact preconditions make the remembered documents the current ones, and
the facts about them become facts about the store. `HeldOK`, that the epochs callers
hold are no later than the job's, makes the epoch of a new claim new. `Shape` ties
jobs, index and acknowledgements to the turns they exist for. The action properties
then rest on one lemma, `JobsChangeByCommit`: a job changes only by a commit to the
post-image of a call that read exactly the current document.

### RequestProofs: the network front

`PermitsAreExact`, `SendsSucceed`, `ReadsAreBounded`, `ShutdownIsClean`, for any finite
sets of connections and workers and any limit of at least the number of workers.
`InChannel` (the channel holds each queued connection once) and `Owned` (a running
connection has exactly one worker) turn the counter into a bound on the channel's
length, which is why a send by a permit's owner never meets a full channel; `Progress`
says what each stage of the shutdown has already established.

### RequestProofs: durable mutations

`EffectsAreOnce`, `SuccessesAreDurable`, `ReceiptsAreStable`, `NothingIsResurrected`,
`ReservationsAreExact`, for any threads, processes, requests and limit. For the
documents the strengthening is `PlannedOnPresent`: a correction or deletion that will
change its document has seen it, and the exact precondition makes what it saw current.
For the reservations it is `Paired`: the running calls of a process and its reservations
correspond one to one and are equally many, which turns the limit on reservations into
a limit on calls without any assumption on the number of threads.

### LearningAndPolicyProofs: policies

`RulesAreUnique`, `AuditsReconstruct`, `PolicyAnswersAreTrue`, `OldRemovalsSpareLater`. The
lists a planner reads may disagree with one another; `Planned` says only what the
commit will compare, and `Created` that an audited policy has its receipt, so an id is
never used for a second policy.

### ReconciliationSteps, ReconciliationProofs

`Inductive`, `TypeCorrect`, `Fenced` (`ReadsAreFenced`), `ReadyComplete`, `RootCloses`,
`ScanCovers`, `CapacityHolds`, for any sources, tools, workers, attempts, epochs and
environments. None of the properties is inductive: that a Ready root serves only proved
revisions depends on what was proved pages ago, in which epoch, by a worker that may
have lost its lease since. `IInv` says

* `EpochsClose`: the root's state is that of the job of its epoch, and the jobs of later
  epochs do not exist;
* `ClaimsAreExact`: a worker's claim is the newest state of its job or is lost for ever;
* `PlansAreFenced`: what a planned page read is still so, or the versions it will compare
  have moved. The step that opens an epoch raises the state revision of the old job, so
  a page that still holds its claim was planned for what is permitted now;
* `LedgerIsExact`: the ledger says which evidence the revisions hold and in which epoch
  it was applied;
* `CheckpointsCover`, `ProofsAreTrue`, `ScannedIsComplete`: a checkpoint lists every
  revision up to its cursor, what it calls visible is permitted, and every tool it has
  passed is whole.

Sealing then needs only that the cursor has passed every tool and that the tools have
not grown, which is what the commit compares.

### LearningAndPolicyProofs: the learning engine

`CycleInductive`, `TypeCorrect`, `RecoveriesAreComplete` (`RecoveryComplete`),
`GenerationsAreSpentOnce`, for any turns, workers, operations, attempts and environments,
and `AuthorityIsNeeded` (`BlocksNeedAuthority`). A recovery visits a list of jobs that it read
once, beside workers that block, resume and end them. `OwedAreAhead` says that every job
it owes is still ahead of it and still blocked as the operation asks; `DecisionHolds` that
what it decided by is true as long as the index is the one it read, which the commit
compares; `SpentIsRecorded` that a job remembers the newest permission generation that
resumed it, so another operation id cannot spend a generation again.

`AuthorityIsNeeded` has the hypothesis that there is at most one worker, and needs it: the
run `learning_stale_resume` refutes the property for two. One learning service runs one
worker thread, but two processes may serve one Store. The added invariant
`ResumesCapability` says that the only worker resumes a job that is still blocked as it
saw it.

### LearningServiceSteps, EntryRuntimeProofs

About `LearningService` alone, for any identities and attachments and any finite sets of
handles and threads: `ServiceInductive`, `ServiceTypes`, `RegistryStaysDistinct`,
`ActivityIsRegistration`, `CutCallsStop`, `ShutdownStops`, `StopAdmitsNothing`. An attachment
is live when it is counted: `detach` compares the strong count with the shares it knows
of. `SharesIs` ties the number `Shares` to the places that hold a share (`Shared`), for
which handles and threads have to be finite; `HandlesInUse` says that a handle is the
subject of one running call at most, `Detached` and `ActiveInv` that the flag of a shared
attachment says whether it is registered, except while its detacher has cleared it and is
about to take the lock; `CutInv` and `DoneInv` order the stop, the worker's last steps and the shutdown.

About the composition, for any scopes, runtimes and limits: `EntryInductive`, `EntryTypes`,
`ScopesAreNotSplit`, `ClosedRuntimesAreUnused`, `CacheStaysListed`, `EntryActivity`, and
`ManagerIsAClient`: every step of the composition is a step of the learning service or
leaves it alone, so what is proved of the service holds under the manager
(`EntryActivity` is the first consequence). `ManagerInv` has `MutexInv` (who holds the lock is
building), `CacheInv` (the cache, its order of use and its references agree and stay
within the limit), `BuildInv` (the runtime being built belongs to nobody and its scope has
none), `CloseInv` (runtimes to be closed are used by nobody and are closed once), and
`AttachedInv`: a usable runtime has its attachment and no call drops it. That is the part
of `UsableIsServed` that holds; that the attachment is also registered is what
`entry_runtimes_served` refutes.

### Model-checked only

The liveness properties, because liveness under fairness is outside the prover:
`CallsReturn`, `WakeIsFollowedByScan`, `MissedSignalIsNoFailure`, `RequestsReturn`,
`DeadlineInterrupts`, `AcceptedIsServed`, `LearningSettles`, `LanesServed`,
`CapabilityRetried`.

## 5. Not modelled

* Loss of unsynced data or directory entries at a power failure, torn writes inside
  an atomic write, path encoding, legacy file names, manifest migration, poisoned
  mutexes, the snapshot import of the non-production harness.
* SQLite, in-memory and embedded stores: atomicity comes from SQLite or a mutex, and
  the planner they share is modelled.
* Byte budgets of blobs and documents; the entry and event budgets stand for them.
* In the governance queue: execution binding snapshots and their reference counts (a
  refusal they cause is a `CommitRefused`), and transitions that withdraw all turns of a
  conversation at once (single turns are withdrawn). A completion does not compare the
  text of its turn in the model: some commits in the code do, and the model allows both.
* In procedural learning: Runtime Skills, masked or deleted turns, competence counters
  and the selection of methods.
* The other adapter commands, budget leases, ingress and authentication, subject
  soul provisioning.
* Transports, gateways, scoring, recall and prompt construction: I/O or sequential text
  processing.

Hazards no run covers are listed with their reason in `PROJECT.json`: deletes are not
followed by a directory sync; a job may be unable to end when the queue's terminal
list is full (`RetentionHolds` proves the limit itself); and a job without an attempt left
stays at the head of its lane, which is what the code does.

**Extent.** The mapped definitions stand for about 10,100 source lines: the queues, the
learning service, engine and procedural learning, a third of `file.rs`, and the parts of
the planner, platform and runtime facade that they call. That is about three percent of
the Rust code of the repository. Most of the rest is validation of document contents,
text processing, transports and tests inside the source tree, which has no state that
survives a call.

## 6. Plan

1. Execution bindings: reference counts of the bindings jobs share.
2. Subject soul provisioning as a client of the governance completion.
3. Runtime Skills and masked turns in `ProceduralReconciliation`.

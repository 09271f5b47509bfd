------------------------------ MODULE GovernanceJobs ------------------------------
(***************************************************************************)
(* The durable queue of post-turn governance jobs of one runtime scope     *)
(* (store_internal/post_turn_governance.rs).  Every operation reads the    *)
(* job, then the scope index that lists it, plans both post-images from    *)
(* what it read, and commits them in one store transaction whose           *)
(* preconditions are the exact documents it read.  Callers (learning       *)
(* workers, operators, the runtime that finalizes turns) interleave        *)
(* between those three steps, crash between them, and may be told of a     *)
(* failure although the transaction was applied.                           *)
(***************************************************************************)
EXTENDS Integers, FiniteSets, Sequences

CONSTANTS
    Caller,        \* the processes and threads that call the queue
    OwnerOf,       \* the lease owner name a caller uses; names need not differ
    Turns,         \* number of conversation turns; job j governs turn j
    Plan,          \* the memory plans a model run may produce
    Generation,    \* credential and permission generations
    MaxAttempts, LeaseSecs, RetryBase, RetryMax,
    MaxActive, MaxTerminal, PageLimit,
    Ops,           \* the operations the callers use
    MaxRevision,   \* stands for u64::MAX, where checked_add fails
    MaxTime,       \* bound on the clock
    None

ASSUME QueueAssumption ==
    /\ OwnerOf \in [Caller -> STRING]
    /\ Generation \subseteq Nat
    /\ {Turns, MaxAttempts, LeaseSecs, RetryBase, RetryMax, MaxActive, MaxTerminal,
        PageLimit, MaxRevision, MaxTime} \subseteq Nat
    /\ MaxRevision > 0 /\ MaxTime > 0
    /\ None \notin Nat \cup STRING

VARIABLES
    jobs,      \* the job documents
    index,     \* the scope index document; rev = 0 when there is none
    memory,    \* per job, the memory plans that were committed for it
    receipts,  \* receipts of the recovery operations that were committed
    turns,     \* committed conversation turns
    withdrawn, \* turns whose text was masked or deleted
    now,       \* the clock, in seconds
    call,      \* per caller, the operation in progress
    held,      \* per caller, the lease its last successful claim returned
    acked      \* completions that were answered with success

vars == <<jobs, index, memory, receipts, turns, withdrawn, now, call, held, acked>>

Job == 1..Turns
Blocked == {"BlockedConfiguration", "BlockedCapability", "BlockedPolicy"}
Active == {"Pending", "Leased", "RetryWaiting"} \cup Blocked
Terminal == {"Succeeded", "Cancelled", "DeadLetter"}

(* What a block records: the three credential reasons are one here. *)
BlockKind ==
    {[status |-> "BlockedCapability", block |-> None],
     [status |-> "BlockedConfiguration", block |-> [reason |-> "binding", gen |-> None]]}
    \cup {[status |-> "BlockedConfiguration", block |-> [reason |-> "credential", gen |-> g]] :
              g \in Generation \cup {None}}
    \cup {[status |-> "BlockedPolicy", block |-> [reason |-> "permission", gen |-> g]] :
              g \in Generation}

BlockType == {kind.block : kind \in BlockKind}
Receipt == [epoch : Nat, plan : Plan]

JobType ==
    [status : Active \cup Terminal, rev : Nat, attempts : Nat, epoch : Nat,
     owner : {OwnerOf[c] : c \in Caller} \cup {None}, until : Nat \cup {None},
     next : Nat \cup {None}, bound : BOOLEAN, block : BlockType,
     lastPermission : Generation \cup {None}, receipt : Receipt \cup {None}]

ASSUME NoneAssumption ==
    /\ None \notin JobType
    /\ None \notin Receipt
    /\ None \notin [job : Job, epoch : Nat]
    /\ None \notin [reason : STRING, gen : Generation \cup {None}]

(* A new job: without an execution binding it starts blocked. *)
Pending(bound) ==
    [status |-> IF bound THEN "Pending" ELSE "BlockedConfiguration", rev |-> 1,
     attempts |-> 0, epoch |-> 0, owner |-> None, until |-> None,
     next |-> IF bound THEN now ELSE None, bound |-> bound,
     block |-> IF bound THEN None ELSE [reason |-> "binding", gen |-> None],
     lastPermission |-> None, receipt |-> None]

Ref(j, job) ==
    [job |-> j, rev |-> job.rev, status |-> job.status, next |-> job.next, until |-> job.until]

Idle == [pc |-> "idle"]

---------------------------------------------------------------------------
(* The scope index. *)

NoIndex == [rev |-> 0, active |-> {}, terminal |-> {}, cursor |-> 0]

Listed(i, j, rev) == \E ref \in i.active : ref.job = j /\ ref.rev = rev

(* A job that ends moves from the active refs to the retained terminal ones. *)
IndexAfter(i, j, job) ==
    LET others == {ref \in i.active : ref.job # j} IN
    IF job.status \in Terminal
    THEN [i EXCEPT !.rev = @ + 1, !.active = others, !.terminal = @ \cup {Ref(j, job)}]
    ELSE [i EXCEPT !.rev = @ + 1, !.active = others \cup {Ref(j, job)}]

Retains(i, j, job) ==
    job.status \in Terminal =>
        Cardinality(i.terminal) < MaxTerminal /\ \A ref \in i.terminal : ref.job # j

(* What validate() refuses of an index. *)
IndexValid(i) ==
    /\ Cardinality(i.active) <= MaxActive
    /\ \A ref \in i.active : ref.status \in Active
    /\ \A ref \in i.terminal : ref.status \in Terminal
    /\ \A r1, r2 \in i.active \cup i.terminal : r1.job = r2.job => r1 = r2

---------------------------------------------------------------------------
(* An operation on one job reads it and plans its post-image.  One that needs *)
(* the text of the turn reads that too, and the transaction demands that it    *)
(* was not withdrawn since.                                                    *)

Read(c, op, j, after, plan) ==
    /\ op \in Ops
    /\ call[c] = Idle
    /\ after.rev <= MaxRevision
    /\ call' = [call EXCEPT ![c] =
           [pc |-> "index", op |-> op, job |-> j, plan |-> plan,
            read |-> [k \in {j} |-> jobs[j]], write |-> [k \in {j} |-> after],
            sources |-> IF op \in {"ensure", "withdraw"} THEN {j} \ withdrawn ELSE {}]]
    /\ UNCHANGED <<jobs, index, memory, receipts, turns, withdrawn, now, held, acked>>

(* Mutant: the owner's name alone identifies the lease. *)
LeaseWithoutEpoch(c, j) ==
    /\ jobs[j] # None /\ held[c] # None /\ held[c].job = j
    /\ jobs[j].status = "Leased" /\ jobs[j].owner = OwnerOf[c]
    /\ jobs[j].until > now

(* The caller's (owner, epoch) is that of the lease in force. *)
Lease(c, j) ==
    /\ jobs[j] # None /\ held[c] # None /\ held[c].job = j
    /\ jobs[j].status = "Leased" /\ jobs[j].owner = OwnerOf[c]
    /\ jobs[j].epoch = held[c].epoch /\ jobs[j].until > now

(* The fields every transition out of a lease clears. *)
Released(job, status) ==
    [job EXCEPT !.status = status, !.rev = @ + 1, !.owner = None, !.until = None,
                !.next = None, !.block = None]

UnboundAdoption(job) ==
    /\ job.status = "BlockedConfiguration" /\ ~job.bound /\ job.attempts = 0
    /\ job.block.reason = "binding"

Claim(c, j) ==
    /\ jobs[j] # None
    /\ jobs[j].status = "Leased" => jobs[j].until <= now
    /\ jobs[j].status \in Active /\ jobs[j].attempts < MaxAttempts
    /\ jobs[j].status \in Blocked => UnboundAdoption(jobs[j])
    /\ jobs[j].next # None => jobs[j].next <= now
    /\ Read(c, "claim", j,
            [jobs[j] EXCEPT !.status = "Leased", !.rev = @ + 1, !.attempts = @ + 1,
                            !.epoch = @ + 1, !.owner = OwnerOf[c], !.until = now + LeaseSecs,
                            !.next = None, !.bound = TRUE, !.block = None], None)

Renew(c, j) ==
    /\ Lease(c, j) /\ now + LeaseSecs > jobs[j].until
    /\ Read(c, "renew", j, [jobs[j] EXCEPT !.rev = @ + 1, !.until = now + LeaseSecs], None)

RetryDelay(attempts) ==
    LET delay == RetryBase * 2^(attempts - 1) IN
    IF delay \in 0..RetryMax THEN delay ELSE RetryMax

Retry(c, j) ==
    /\ Lease(c, j)
    /\ Read(c, "retry", j,
            IF jobs[j].attempts >= MaxAttempts
            THEN Released(jobs[j], "DeadLetter")
            ELSE [Released(jobs[j], "RetryWaiting")
                      EXCEPT !.next = now + RetryDelay(jobs[j].attempts)], None)

DeadLetter(c, j) ==
    Lease(c, j) /\ Read(c, "dead_letter", j, Released(jobs[j], "DeadLetter"), None)

BlockClaimed(c, j, kind) ==
    /\ Lease(c, j)
    /\ Read(c, "block_claimed", j,
            [Released(jobs[j], kind.status) EXCEPT !.block = kind.block], None)

SameBlock(job, kind) ==
    /\ job.status = kind.status
    /\ kind.block # None => job.block.reason = kind.block.reason

Block(c, j, kind) ==
    /\ jobs[j] # None
    /\ jobs[j].status \in Active \ {"Leased"} /\ ~SameBlock(jobs[j], kind)
    /\ Read(c, "block", j, [Released(jobs[j], kind.status) EXCEPT !.block = kind.block], None)

Unblocked(job) == [Released(job, "Pending") EXCEPT !.next = now]

Resume(c, j) ==
    /\ jobs[j] # None /\ jobs[j].status \in Blocked
    /\ Read(c, "resume", j, Unblocked(jobs[j]), None)

Cancel(c, j) ==
    /\ jobs[j] # None /\ jobs[j].status \in Active
    /\ Read(c, "cancel", j, Released(jobs[j], "Cancelled"), None)

(* A recovery names the generation that replaced the one the job was blocked on. *)
ResumeForCredential(c, j, g) ==
    /\ jobs[j] # None /\ jobs[j].status = "BlockedConfiguration"
    /\ jobs[j].block.reason = "credential"
    /\ jobs[j].block.gen # None => g > jobs[j].block.gen
    /\ Read(c, "credential_resume", j, Unblocked(jobs[j]), g)

(* Mutant: the generation the job was blocked on is good enough. *)
ResumeForPermissionAgain(c, j, g) ==
    /\ jobs[j] # None /\ jobs[j].status = "BlockedPolicy"
    /\ g >= jobs[j].block.gen
    /\ Read(c, "permission_resume", j,
            [Unblocked(jobs[j]) EXCEPT !.lastPermission = g], g)

ResumeForPermission(c, j, g) ==
    /\ jobs[j] # None /\ jobs[j].status = "BlockedPolicy"
    /\ g > jobs[j].block.gen
    /\ jobs[j].lastPermission # None => g > jobs[j].lastPermission
    /\ Read(c, "permission_resume", j,
            [Unblocked(jobs[j]) EXCEPT !.lastPermission = g], g)

(* The intent of a committed turn; an existing job is left as it is. *)
EnsureIntent(c, j, bound) ==
    /\ j \in (1..turns) \ withdrawn /\ jobs[j] = None
    /\ Read(c, "ensure", j, Pending(bound), None)

Complete(c, j, p) ==
    /\ Lease(c, j)
    /\ Read(c, "complete", j,
            [Released(jobs[j], "Succeeded") EXCEPT
                 !.receipt = [epoch |-> jobs[j].epoch, plan |-> p]], p)

(* Mutant: any success counts as this one. *)
AnyReceipt(job, r) == job.status = "Succeeded"

(* The job succeeded with this very result. *)
SameReceipt(job, r) == job.status = "Succeeded" /\ job.receipt = r

(* A completion of a job that already succeeded with the same result. *)
CompleteAgain(c, j, p) ==
    /\ "complete" \in Ops /\ call[c] = Idle
    /\ held[c] # None /\ held[c].job = j /\ jobs[j] # None
    /\ SameReceipt(jobs[j], [epoch |-> held[c].epoch, plan |-> p])
    /\ acked' = acked \cup {[job |-> j, epoch |-> held[c].epoch, plan |-> p]}
    /\ UNCHANGED <<jobs, index, memory, receipts, turns, withdrawn, now, call, held>>

(* The text of a turn is masked or deleted: the active job that the index lists *)
(* for the turn is cancelled in the same transaction.                           *)
Withdraw(c, j) ==
    /\ j <= turns /\ \E ref \in index.active : ref.job = j
    /\ Read(c, "withdraw", j, Released(jobs[j], "Cancelled"), None)

(* When none is listed the transaction is about the text alone. *)
WithdrawUnlisted(c, j) ==
    /\ "withdraw" \in Ops /\ call[c] = Idle
    /\ j <= turns /\ \A ref \in index.active : ref.job # j
    /\ call' = [call EXCEPT ![c] = [pc |-> "text", op |-> "withdraw", job |-> j]]
    /\ UNCHANGED <<jobs, index, memory, receipts, turns, withdrawn, now, held, acked>>

WithdrawText(c) ==
    /\ call[c] # Idle /\ call[c].pc = "text"
    /\ withdrawn' \in {withdrawn, withdrawn \cup {call[c].job}}
    /\ call' = [call EXCEPT ![c] = Idle]
    /\ UNCHANGED <<jobs, index, memory, receipts, turns, now, held, acked>>

---------------------------------------------------------------------------
(* The second read: the scope index, and the plan for it. *)

Plannable(i, t) ==
    LET j == t.job IN
    /\ IF t.op = "ensure"
       THEN Cardinality(i.active) < MaxActive /\ Cardinality(i.terminal) < MaxTerminal
       ELSE Listed(i, j, t.read[j].rev) /\ Retains(i, j, t.write[j])
    /\ IndexValid(IndexAfter(i, j, t.write[j]))

ReadIndex(c) ==
    /\ call[c] # Idle /\ call[c].pc = "index"
    /\ call' = [call EXCEPT ![c] =
           IF Plannable(index, @)
           THEN [pc |-> "commit", op |-> @.op, job |-> @.job, plan |-> @.plan,
                 read |-> @.read, write |-> @.write, sources |-> @.sources, seen |-> index,
                 index |-> IndexAfter(index, @.job, @.write[@.job])]
           ELSE Idle]
    /\ UNCHANGED <<jobs, index, memory, receipts, turns, withdrawn, now, held, acked>>

(* Mutant: the page starts one turn late. *)
ReadableLate(last) == ((index.cursor + 2)..last) \ withdrawn

(* The turns of a page, from the reconciliation cursor on, that may be learned from. *)
Readable(last) == ((index.cursor + 1)..last) \ withdrawn

(* A reconciliation lists a page of turns after the cursor.  A runtime whose    *)
(* subject is not active reconciles as well, but learns from no turn.           *)
ListPage(c, op, last) ==
    /\ op \in Ops /\ call[c] = Idle
    /\ index.cursor < last /\ last <= turns /\ last <= index.cursor + PageLimit
    /\ call' = [call EXCEPT ![c] =
           [pc |-> "page", op |-> op, last |-> last, readable |-> Readable(last)]]
    /\ UNCHANGED <<jobs, index, memory, receipts, turns, withdrawn, now, held, acked>>

Learnable(t) == IF t.op = "reconcile" THEN t.readable ELSE {}

(* It then recreates the jobs that the learnable turns lack, and moves the      *)
(* cursor to the last turn of the page, learnable or not.                       *)
Reconcile(c, bound) ==
    LET t == call[c]
        page == Learnable(t)
        new == {j \in page : jobs[j] = None}
        unlisted == {j \in page \ new : jobs[j].status \in Active
                                        /\ \A ref \in index.active : ref.job # j}
        after == [j \in page |-> IF j \in new THEN Pending(bound) ELSE jobs[j]]
        i == [index EXCEPT !.rev = @ + 1, !.cursor = t.last,
                           !.active = @ \cup {Ref(j, after[j]) : j \in new \cup unlisted}]
        planned ==
            /\ Cardinality(index.terminal) < MaxTerminal
            /\ index.cursor < t.last
            /\ new \cap withdrawn = {}
            /\ \A j \in page \ (new \cup unlisted) :
                   jobs[j].status \in Active =>
                       \E ref \in index.active : ref.job = j /\ ref.rev = jobs[j].rev
                                                 /\ ref.status = jobs[j].status
            /\ IndexValid(i)
    IN  /\ call[c] # Idle /\ call[c].pc = "page"
        /\ call' = [call EXCEPT ![c] =
               IF planned
               THEN [pc |-> "commit", op |-> t.op, job |-> None, plan |-> None,
                     read |-> [j \in page |-> jobs[j]], write |-> after,
                     sources |-> (new \cup {t.last}) \cap t.readable,
                     seen |-> index, index |-> i]
               ELSE Idle]
        /\ UNCHANGED <<jobs, index, memory, receipts, turns, withdrawn, now, held, acked>>

---------------------------------------------------------------------------
(* The transaction: exact preconditions, then the closure of the post-image. *)

(* Mutant: the text of the turn is not among the preconditions. *)
UnchangedRecords(t) == index = t.seen /\ \A j \in DOMAIN t.read : jobs[j] = t.read[j]

Unchanged(t) ==
    /\ index = t.seen
    /\ \A j \in DOMAIN t.read : jobs[j] = t.read[j]
    /\ t.sources \cap withdrawn = {}

Refs(i) == i.active \cup i.terminal

Closed(t) ==
    /\ \A j \in DOMAIN t.write : t.write[j] # jobs[j] =>
           {ref \in Refs(t.index) : ref.job = j} = {Ref(j, t.write[j])}
    /\ \A ref \in Refs(t.index) \ Refs(index) :
           ref.job \in DOMAIN t.write /\ ref = Ref(ref.job, t.write[ref.job])
    /\ \A ref \in Refs(index) : \E r \in Refs(t.index) : r.job = ref.job

(* Mutant: the index is not among the preconditions, nor is the closure checked. *)
AdmittedOnJobs(t) == \A j \in DOMAIN t.read : jobs[j] = t.read[j]

(* Mutant: no preconditions at all. *)
AdmittedOnClosure(t) == Closed(t)

Admitted(t) == Unchanged(t) /\ Closed(t)

Recovery(t) == t.op \in {"credential_resume", "permission_resume"}
Operation(t) == [job |-> t.job, op |-> t.op, gen |-> t.plan]
Completion(t) == [job |-> t.job, epoch |-> t.read[t.job].epoch, plan |-> t.plan]

Apply(t) ==
    /\ Admitted(t)
    /\ Recovery(t) => Operation(t) \notin receipts
    /\ jobs' = [j \in Job |-> IF j \in DOMAIN t.write THEN t.write[j] ELSE jobs[j]]
    /\ index' = t.index
    /\ memory' = IF t.op = "complete"
                 THEN [memory EXCEPT ![t.job] = Append(@, t.write[t.job].receipt)]
                 ELSE memory
    /\ receipts' = IF Recovery(t) THEN receipts \cup {Operation(t)} ELSE receipts
    /\ UNCHANGED <<turns, now>>
    /\ withdrawn' = IF t.op = "withdraw" THEN withdrawn \cup {t.job} ELSE withdrawn

(* The transaction commits and the caller learns so. *)
Commit(c) ==
    LET t == call[c] IN
    /\ t # Idle /\ t.pc = "commit"
    /\ Apply(t)
    /\ call' = [call EXCEPT ![c] = Idle]
    /\ held' = IF t.op = "claim"
               THEN [held EXCEPT ![c] = [job |-> t.job, epoch |-> t.write[t.job].epoch]]
               ELSE held
    /\ acked' = IF t.op = "complete" THEN acked \cup {Completion(t)} ELSE acked

(* After an error a completion looks whether it was applied all the same. *)
Failed(c) ==
    call' = [call EXCEPT ![c] = IF @.op = "complete" THEN [@ EXCEPT !.pc = "reread"] ELSE Idle]

(* The transaction commits and the caller is told of an error. *)
CommitUnreported(c) ==
    /\ call[c] # Idle /\ call[c].pc = "commit"
    /\ Apply(call[c])
    /\ Failed(c)
    /\ UNCHANGED <<held, acked>>

(* The transaction is refused, or fails without effect. *)
CommitRefused(c) ==
    /\ call[c] # Idle /\ call[c].pc = "commit"
    /\ Failed(c)
    /\ UNCHANGED <<jobs, index, memory, receipts, turns, withdrawn, now, held, acked>>

Reread(c) ==
    LET t == call[c] IN
    /\ t # Idle /\ t.pc = "reread"
    /\ acked' = IF SameReceipt(jobs[t.job], t.write[t.job].receipt)
                THEN acked \cup {Completion(t)} ELSE acked
    /\ call' = [call EXCEPT ![c] = Idle]
    /\ UNCHANGED <<jobs, index, memory, receipts, turns, withdrawn, now, held>>

---------------------------------------------------------------------------
FinishTurn ==
    /\ turns < Turns
    /\ turns' = turns + 1
    /\ UNCHANGED <<jobs, index, memory, receipts, withdrawn, now, call, held, acked>>

Tick ==
    /\ now < MaxTime
    /\ now' = now + 1
    /\ UNCHANGED <<jobs, index, memory, receipts, turns, withdrawn, call, held, acked>>

(* A caller's process dies; it forgets the lease it held. *)
Crash(c) ==
    /\ "crash" \in Ops
    /\ call' = [call EXCEPT ![c] = Idle]
    /\ held' = [held EXCEPT ![c] = None]
    /\ UNCHANGED <<jobs, index, memory, receipts, turns, withdrawn, now, acked>>

Init ==
    /\ jobs = [j \in Job |-> None]
    /\ index = NoIndex
    /\ memory = [j \in Job |-> <<>>]
    /\ receipts = {}
    /\ turns = 0
    /\ withdrawn = {}
    /\ now = 1
    /\ call = [c \in Caller |-> Idle]
    /\ held = [c \in Caller |-> None]
    /\ acked = {}

Operate(c, j) ==
    \/ Claim(c, j)
    \/ Renew(c, j)
    \/ Retry(c, j)
    \/ DeadLetter(c, j)
    \/ \E kind \in BlockKind : Block(c, j, kind) \/ BlockClaimed(c, j, kind)
    \/ Resume(c, j)
    \/ Cancel(c, j)
    \/ Withdraw(c, j)
    \/ WithdrawUnlisted(c, j)
    \/ \E g \in Generation : ResumeForCredential(c, j, g) \/ ResumeForPermission(c, j, g)
    \/ \E bound \in BOOLEAN : EnsureIntent(c, j, bound)
    \/ \E p \in Plan : Complete(c, j, p) \/ CompleteAgain(c, j, p)

CallerStep(c) ==
    \/ \E j \in Job : Operate(c, j)
    \/ WithdrawText(c)
    \/ \E op \in {"reconcile", "reconcile_inactive"}, last \in Job : ListPage(c, op, last)
    \/ \E bound \in BOOLEAN : Reconcile(c, bound)
    \/ ReadIndex(c)
    \/ Commit(c)
    \/ CommitUnreported(c)
    \/ CommitRefused(c)
    \/ Reread(c)
    \/ Crash(c)

Next == FinishTurn \/ Tick \/ \E c \in Caller : CallerStep(c)

Spec == Init /\ [][Next]_vars

---------------------------------------------------------------------------
RefType ==
    [job : Job, rev : Nat, status : Active \cup Terminal, next : Nat \cup {None},
     until : Nat \cup {None}]

(* The documents keep the shape validate() demands: a lease names its owner and  *)
(* deadline, a result belongs to success alone, an attempt is counted by every   *)
(* claim and never beyond the limit.                                             *)
TypeOK ==
    /\ \A j \in Job : jobs[j] # None =>
           /\ jobs[j] \in JobType
           /\ jobs[j].rev \in 1..MaxRevision
           /\ jobs[j].attempts <= MaxAttempts /\ jobs[j].epoch = jobs[j].attempts
           /\ (jobs[j].status = "Leased") = (jobs[j].owner # None /\ jobs[j].until # None)
           /\ (jobs[j].status = "Succeeded") = (jobs[j].receipt # None)
           /\ [status |-> jobs[j].status, block |-> jobs[j].block] \in
                  BlockKind \cup [status : (Active \cup Terminal) \ Blocked, block : {None}]
    /\ index \in [rev : Nat, active : SUBSET RefType, terminal : SUBSET RefType, cursor : 0..Turns]
    /\ memory \in [Job -> Seq(Receipt)]
    /\ turns \in 0..Turns /\ withdrawn \subseteq Job /\ now \in 1..MaxTime

(* Job documents and scope index agree: every job is listed exactly once, among *)
(* the active refs or the terminal ones as its status says, by a ref that shows *)
(* its current revision, status and times, and nothing else is listed.          *)
(* (validate_post_turn_governance_transaction_closure; a scan of the index is   *)
(* how workers find due work.)                                                  *)
IndexAgrees ==
    /\ index.active = {Ref(j, jobs[j]) : j \in {k \in Job : jobs[k] # None /\ jobs[k].status \in Active}}
    /\ index.terminal = {Ref(j, jobs[j]) : j \in {k \in Job : jobs[k] # None /\ jobs[k].status \in Terminal}}

(* The memory plan of a job is applied at most once, and exactly when the job *)
(* succeeded, with the result its receipt records, however often workers      *)
(* crash, are superseded, or repeat a completion.                             *)
AppliedOnce ==
    \A j \in Job :
        memory[j] = IF jobs[j] # None /\ jobs[j].status = "Succeeded"
                    THEN <<jobs[j].receipt>> ELSE <<>>

(* A completion that was answered with success is the one that was applied: the *)
(* reread after a failed commit never claims another worker's result.           *)
AcksAreApplied ==
    \A a \in acked : memory[a.job] = <<[epoch |-> a.epoch, plan |-> a.plan]>>

(* No two callers are handed the same lease epoch of a job, although their owner *)
(* names may coincide.                                                           *)
LeasesAreDistinct ==
    \A c, d \in Caller : held[c] # None /\ held[c] = held[d] => c = d

(* The reconciliation cursor leaves no learnable turn behind: it passes a turn   *)
(* only when the turn is committed and has its job, unless the text of the turn  *)
(* is withdrawn or the runtime that moves the cursor mounts an inactive subject  *)
(* (reconcile_governance_intents filters the page and moves the cursor past it). *)
CursorCoversTurns ==
    [][\A j \in Job : index.cursor < j /\ j <= index'.cursor =>
           /\ j <= turns
           /\ \/ jobs'[j] # None
              \/ j \in withdrawn
              \/ \E c \in Caller : /\ call[c] # Idle /\ call[c].op = "reconcile_inactive"
                                   /\ call'[c] # call[c]]_vars

(* No job is created for a turn whose text was withdrawn, although the ordinary  *)
(* intent and the reconciliation read the text long before they commit           *)
(* (semantic_learning_transcript_precondition).                                  *)
WithdrawnGetNoJob ==
    [][\A j \in Job : jobs[j] = None /\ jobs'[j] # None => j <= turns /\ j \notin withdrawn]_vars

(* Admission keeps both lists of the scope index within their limits. *)
WithinRetention ==
    Cardinality(index.active) <= MaxActive /\ Cardinality(index.terminal) <= MaxTerminal

(* A lease in force is changed only by the caller that holds it, or by cancelling *)
(* the job: a worker whose lease was superseded can no longer touch the job.      *)
LeaseFenced ==
    [][\A j \in Job :
           jobs[j] # None /\ jobs'[j] # jobs[j] /\ jobs[j].status = "Leased" /\ jobs[j].until > now
           => \/ jobs'[j].status = "Cancelled"
              \/ \E c \in Caller : /\ call'[c] # call[c]
                                   /\ held[c] = [job |-> j, epoch |-> jobs[j].epoch]]_vars

(* A recovery for a changed permission advances the generation the job is known *)
(* to have been recovered for, and is never older than the one it was blocked   *)
(* on, even when the block it answers was replaced while it was being planned.  *)
RecoveryAdvances ==
    [][\A j \in Job :
           jobs[j] # None /\ jobs'[j].lastPermission # jobs[j].lastPermission
           => /\ jobs[j].status = "BlockedPolicy"
              /\ jobs'[j].lastPermission > jobs[j].block.gen
              /\ jobs[j].lastPermission # None =>
                     jobs'[j].lastPermission > jobs[j].lastPermission]_vars

(* A job that ended stays as it is. *)
TerminalIsFinal ==
    [][\A j \in Job : jobs[j] # None /\ jobs[j].status \in Terminal => jobs'[j] = jobs[j]]_vars
===================================================================================

--------------------------- MODULE GovernanceJobProofs ---------------------------
(***************************************************************************)
(* Proofs about the governance queue for any callers, owner names, turns,   *)
(* plans, generations and limits.  A caller's two reads and its commit are   *)
(* separate steps, so the argument rests on what a call remembers of the     *)
(* documents it read (Planned) and on the exact preconditions under which    *)
(* it may write: at the commit the remembered documents are the current      *)
(* ones.  A lease epoch is handed out once because a claim goes past every   *)
(* epoch a caller can still hold (HeldOK).                                   *)
(***************************************************************************)
EXTENDS GovernanceJobs, TLAPS

JobOK(job) ==
    /\ job \in JobType
    /\ job.rev \in 1..MaxRevision
    /\ job.attempts <= MaxAttempts /\ job.epoch = job.attempts
    /\ (job.status = "Leased") = (job.owner # None /\ job.until # None)
    /\ (job.status = "Succeeded") = (job.receipt # None)
    /\ [status |-> job.status, block |-> job.block] \in
           BlockKind \cup [status : (Active \cup Terminal) \ Blocked, block : {None}]

IndexType ==
    [rev : Nat, active : SUBSET RefType, terminal : SUBSET RefType, cursor : 0..Turns]

Fresh(job) == JobOK(job) /\ job.status \in Active /\ job.lastPermission = None

(* The holder of the lease in force, if there is one, is the caller. *)
Fenced(c, j, r) ==
    \/ r.status # "Leased" \/ r.until <= now
    \/ held[c] = [job |-> j, epoch |-> r.epoch]

Advance(r, w) ==
    w.lastPermission # r.lastPermission =>
        /\ r.status = "BlockedPolicy" /\ w.lastPermission > r.block.gen
        /\ r.lastPermission # None => w.lastPermission > r.lastPermission

(* What an operation on one job remembers: r was read, w is to be written. *)
Transition(c, op, j, p, r, w) ==
    /\ JobOK(w)
    /\ op = "ensure" => r = None /\ Fresh(w) /\ j <= turns
    /\ op # "ensure" => /\ JobOK(r) /\ r.status \in Active /\ r.epoch <= w.epoch
                        /\ w.status = "Cancelled" \/ Fenced(c, j, r)
                        /\ Advance(r, w)
    /\ op = "claim" => w.epoch = r.epoch + 1
    /\ op = "complete" => w.status = "Succeeded" /\ w.receipt = [epoch |-> r.epoch, plan |-> p]
    /\ op # "complete" => w.status # "Succeeded"

OneJob(c, t) ==
    /\ t.job \in Job /\ DOMAIN t.read = {t.job} /\ DOMAIN t.write = {t.job}
    /\ Transition(c, t.op, t.job, t.plan, t.read[t.job], t.write[t.job])

OneIndex(t) ==
    /\ t.index = IndexAfter(t.seen, t.job, t.write[t.job])
    /\ Retains(t.seen, t.job, t.write[t.job])

(* What a reconciliation remembers. *)
New(t) == {j \in DOMAIN t.read : t.read[j] = None}
Unlisted(t) ==
    {j \in DOMAIN t.read \ New(t) : t.read[j].status \in Active
                                    /\ \A ref \in t.seen.active : ref.job # j}

PagedTo(t, last) ==
    t.index = [t.seen EXCEPT !.rev = @ + 1, !.cursor = last,
                  !.active = @ \cup {Ref(j, t.write[j]) : j \in New(t) \cup Unlisted(t)}]

PageIndex(t) ==
    \E last \in 0..Turns :
        /\ last <= turns /\ t.seen.cursor <= last /\ PagedTo(t, last)
        /\ \A j \in Job : t.seen.cursor < j /\ j <= last =>
               j \in DOMAIN t.read \/ j \in withdrawn \/ t.op = "reconcile_inactive"

Paged(t) ==
    /\ DOMAIN t.read \subseteq Job /\ DOMAIN t.write = DOMAIN t.read
    /\ \A j \in DOMAIN t.read :
          j <= turns /\ IF j \in New(t) THEN Fresh(t.write[j]) ELSE t.write[j] = t.read[j]
    /\ New(t) \subseteq t.sources
    /\ PageIndex(t)

Reconciling == {"reconcile", "reconcile_inactive"}

(* What it remembers of the page it listed: a turn before the last that it does *)
(* not take for learnable was withdrawn, or is behind the cursor by now.        *)
PageRead(t) ==
    /\ t.op \in Reconciling /\ t.last \in Job /\ t.last <= turns
    /\ t.readable \subseteq Job /\ \A j \in t.readable : j <= turns
    /\ \A j \in Job : index.cursor < j /\ j <= t.last => j \in t.readable \/ j \in withdrawn

Planned(c) ==
    LET t == call[c] IN
    t # Idle =>
        /\ t.pc \in {"index", "commit", "reread", "page", "text"}
        /\ t.pc = "page" => PageRead(t)
        /\ t.pc = "text" => t.job \in Job
        /\ t.pc \in {"index", "commit", "reread"} =>
              /\ t.op \in Reconciling => t.pc = "commit" /\ Paged(t)
              /\ t.op \notin Reconciling => OneJob(c, t)
              /\ t.pc = "commit" /\ t.op \notin Reconciling => OneIndex(t)
              /\ t.pc = "commit" => IndexValid(t.index)
              /\ t.pc = "reread" => t.op = "complete"
              /\ t.op = "ensure" => t.job \in t.sources
              /\ t.op \notin Reconciling \cup {"ensure"} => jobs[t.job] # None

HeldOK ==
    \A c \in Caller : held[c] # None =>
        /\ held[c] \in [job : Job, epoch : Nat]
        /\ jobs[held[c].job] # None /\ held[c].epoch <= jobs[held[c].job].epoch

Shape ==
    /\ jobs = [j \in Job |-> jobs[j]]
    /\ call = [c \in Caller |-> call[c]]
    /\ held = [c \in Caller |-> held[c]]
    /\ \A a \in acked : a.job \in Job

IInv ==
    /\ TypeOK /\ Shape /\ IndexAgrees /\ AppliedOnce /\ AcksAreApplied /\ HeldOK
    /\ LeasesAreDistinct /\ WithinRetention
    /\ \A c \in Caller : Planned(c)

---------------------------------------------------------------------------
(* What the operations plan. *)

USE DEF Job, Reconciling

(* Every kind of block is a legal block of its status. *)
LEMMA BlockTypes ==
    /\ None \in BlockType
    /\ \A kind \in BlockKind :
          /\ kind.block \in BlockType /\ kind.status \in Blocked
          /\ kind = [status |-> kind.status, block |-> kind.block]
<1> DEFINE k0 == [status |-> "BlockedCapability", block |-> None]
<1>1. k0 \in BlockKind /\ k0.block = None
  BY DEF BlockKind
<1>2. None \in BlockType
  BY <1>1 DEF BlockType
<1>3. ASSUME NEW kind \in BlockKind
      PROVE  kind.block \in BlockType /\ kind.status \in Blocked
             /\ kind = [status |-> kind.status, block |-> kind.block]
  BY DEF BlockType, BlockKind, Blocked
<1> QED
  BY <1>2, <1>3

(* The fields of a job. *)
LEMMA JobFields ==
    ASSUME NEW job, JobOK(job)
    PROVE  /\ job # None
           /\ job.status \in Active \cup Terminal /\ job.rev \in Nat /\ job.attempts \in Nat
           /\ job.epoch \in Nat /\ job.epoch = job.attempts
           /\ job.lastPermission \in Generation \cup {None}
           /\ job.receipt \in Receipt \cup {None}
           /\ job.next \in Nat \cup {None} /\ job.until \in Nat \cup {None}
           /\ job.status = "Leased" => job.until \in Nat
           /\ job.status # "Succeeded" => job.receipt = None
           /\ job.status = "Succeeded" => job.receipt \in Receipt
BY NoneAssumption DEF JobOK, JobType

(* One field of a job at a time. *)
LEMMA Updates ==
    ASSUME NEW job \in JobType
    PROVE  /\ \A x \in Active \cup Terminal : [job EXCEPT !.status = x] \in JobType
           /\ \A x \in Nat : [job EXCEPT !.rev = x] \in JobType
           /\ \A x \in Nat : [job EXCEPT !.attempts = x] \in JobType
           /\ \A x \in Nat : [job EXCEPT !.epoch = x] \in JobType
           /\ \A x \in {OwnerOf[c] : c \in Caller} \cup {None} : [job EXCEPT !.owner = x] \in JobType
           /\ \A x \in Nat \cup {None} : [job EXCEPT !.until = x] \in JobType
           /\ \A x \in Nat \cup {None} : [job EXCEPT !.next = x] \in JobType
           /\ \A x \in BOOLEAN : [job EXCEPT !.bound = x] \in JobType
           /\ \A x \in BlockType : [job EXCEPT !.block = x] \in JobType
           /\ \A x \in Generation \cup {None} : [job EXCEPT !.lastPermission = x] \in JobType
           /\ \A x \in Receipt \cup {None} : [job EXCEPT !.receipt = x] \in JobType
<1>1. \A x \in Active \cup Terminal : [job EXCEPT !.status = x] \in JobType
  BY DEF JobType
<1>2. \A x \in Nat : [job EXCEPT !.rev = x] \in JobType
  BY DEF JobType
<1>3. \A x \in Nat : [job EXCEPT !.attempts = x] \in JobType
  BY DEF JobType
<1>4. \A x \in Nat : [job EXCEPT !.epoch = x] \in JobType
  BY DEF JobType
<1>5. \A x \in {OwnerOf[c] : c \in Caller} \cup {None} : [job EXCEPT !.owner = x] \in JobType
  BY DEF JobType
<1>6. \A x \in Nat \cup {None} : [job EXCEPT !.until = x] \in JobType
  BY DEF JobType
<1>7. \A x \in Nat \cup {None} : [job EXCEPT !.next = x] \in JobType
  BY DEF JobType
<1>8. \A x \in BOOLEAN : [job EXCEPT !.bound = x] \in JobType
  BY DEF JobType
<1>9. \A x \in BlockType : [job EXCEPT !.block = x] \in JobType
  BY DEF JobType
<1>10. \A x \in Generation \cup {None} : [job EXCEPT !.lastPermission = x] \in JobType
  BY DEF JobType
<1>11. \A x \in Receipt \cup {None} : [job EXCEPT !.receipt = x] \in JobType
  BY DEF JobType
<1> QED
  BY <1>1, <1>2, <1>3, <1>4, <1>5, <1>6, <1>7, <1>8, <1>9, <1>10, <1>11

Unblocking == [status : (Active \cup Terminal) \ Blocked, block : {None}]

(* What releasing a job does to each of its fields. *)
LEMMA ReleasedType ==
    ASSUME NEW job, JobOK(job), NEW status \in Active \cup Terminal
    PROVE  LET w == Released(job, status)
           IN  /\ w \in JobType /\ w.status = status /\ w.rev = job.rev + 1
               /\ w.attempts = job.attempts /\ w.epoch = job.epoch /\ w.owner = None
               /\ w.until = None /\ w.block = None
               /\ w.lastPermission = job.lastPermission /\ w.receipt = job.receipt
<1> DEFINE w == Released(job, status)
<1>1. job \in JobType /\ job.rev + 1 \in Nat
  BY JobFields DEF JobOK
<1>2. None \in BlockType
  BY BlockTypes
<1>3. /\ w.status = status /\ w.rev = job.rev + 1
      /\ w.attempts = job.attempts /\ w.epoch = job.epoch /\ w.owner = None
      /\ w.until = None /\ w.block = None
      /\ w.lastPermission = job.lastPermission /\ w.receipt = job.receipt
  BY <1>1 DEF Released, JobType
<1>4. w \in JobType
  <2> DEFINE a == [job EXCEPT !.status = status]
             b == [a EXCEPT !.rev = job.rev + 1]
             c == [b EXCEPT !.owner = None]
             d == [c EXCEPT !.until = None]
             e == [d EXCEPT !.next = None]
             f == [e EXCEPT !.block = None]
  <2>1. a \in JobType BY <1>1, Updates
  <2>2. b \in JobType BY Zenon, <2>1, <1>1, Updates
  <2>3. c \in JobType BY Zenon, <2>2, Updates
  <2>4. d \in JobType BY Zenon, <2>3, Updates
  <2>5. e \in JobType BY Zenon, <2>4, Updates
  <2>6. f \in JobType BY Zenon, <2>5, <1>2, Updates
  <2>7. w = f
    BY DEF Released
  <2> QED
    BY <2>6, <2>7
<1> QED
  BY <1>3, <1>4

(* A job outside a lease. *)
LEMMA OutsideLease ==
    ASSUME NEW r, JobOK(r), NEW w \in JobType, w.rev = r.rev + 1, w.rev <= MaxRevision,
           w.attempts = r.attempts, w.epoch = r.epoch, w.owner = None, w.status # "Leased",
           [status |-> w.status, block |-> w.block] \in BlockKind \cup Unblocking,
           (w.status = "Succeeded") = (w.receipt # None)
    PROVE  JobOK(w)
BY JobFields, QueueAssumption DEF JobOK, Unblocking

Later(job, next) == [job EXCEPT !.next = next]
Recovered(job, gen) == [job EXCEPT !.lastPermission = gen]

(* A job that is released without a block. *)
LEMMA ReleasedOK ==
    ASSUME NEW r, JobOK(r), r.status # "Succeeded", r.rev + 1 <= MaxRevision,
           NEW status \in {"Pending", "RetryWaiting", "Cancelled", "DeadLetter"},
           NEW next \in Nat \cup {None}, NEW gen \in Generation \cup {None}
    PROVE  LET w == Released(r, status)
               v == Later(w, next)
               u == Recovered(v, gen)
           IN  /\ JobOK(w) /\ w.epoch = r.epoch /\ w.lastPermission = r.lastPermission
               /\ JobOK(v) /\ v.epoch = r.epoch /\ v.lastPermission = r.lastPermission
               /\ JobOK(u) /\ u.epoch = r.epoch /\ u.lastPermission = gen
               /\ w.status = status /\ v.status = status /\ u.status = status
<1> DEFINE w == Released(r, status)
           v == Later(w, next)
           u == Recovered(v, gen)
<1>1. status \in Active \cup Terminal /\ status \notin Blocked
  BY DEF Active, Terminal, Blocked
<1>2. /\ w \in JobType /\ w.status = status /\ w.rev = r.rev + 1
      /\ w.attempts = r.attempts /\ w.epoch = r.epoch /\ w.owner = None
      /\ w.block = None /\ w.lastPermission = r.lastPermission /\ w.receipt = r.receipt
  BY <1>1, ReleasedType
<1> HIDE DEF w
<1>3. /\ v \in JobType /\ v.status = status /\ v.rev = r.rev + 1
      /\ v.attempts = r.attempts /\ v.epoch = r.epoch /\ v.owner = None
      /\ v.block = None /\ v.lastPermission = r.lastPermission /\ v.receipt = r.receipt
  <2>1. v \in JobType
    BY <1>2, Updates DEF Later
  <2> QED
    BY <1>2, <2>1 DEF JobType, Later
<1> HIDE DEF v
<1>4. /\ u \in JobType /\ u.status = status /\ u.rev = r.rev + 1
      /\ u.attempts = r.attempts /\ u.epoch = r.epoch /\ u.owner = None
      /\ u.block = None /\ u.lastPermission = gen /\ u.receipt = r.receipt
  <2>1. u \in JobType
    BY <1>3, Updates DEF Recovered
  <2> QED
    BY <1>3, <2>1 DEF JobType, Recovered
<1> HIDE DEF u
<1>5. r.receipt = None
  BY JobFields
<1>6. [status |-> status, block |-> None] \in Unblocking
  BY <1>1 DEF Unblocking
<1>7. JobOK(w) /\ JobOK(v) /\ JobOK(u)
  BY <1>2, <1>3, <1>4, <1>5, <1>6, OutsideLease
<1> QED
  BY <1>2, <1>3, <1>4, <1>7 DEF w, v, u

(* An operation that has read a job and planned what to write. *)
Planning(c, op, j, w, p) ==
    /\ Read(c, op, j, w, p) /\ op \notin Reconciling
    /\ op = "ensure" => j \notin withdrawn
    /\ Transition(c, op, j, p, jobs[j], w)

(* A stored job is well-formed. *)
LEMMA Current ==
    ASSUME TypeOK, NEW j \in Job, jobs[j] # None
    PROVE  JobOK(jobs[j])
BY Zenon DEF TypeOK, JobOK

(* A caller that passes the lease check holds the lease in force. *)
LEMMA Holder ==
    ASSUME TypeOK, HeldOK, NEW c \in Caller, NEW j \in Job, Lease(c, j)
    PROVE  /\ JobOK(jobs[j]) /\ jobs[j].status = "Leased" /\ jobs[j].status \in Active
           /\ held[c] = [job |-> j, epoch |-> jobs[j].epoch]
BY Current DEF Lease, HeldOK, Active

(* The clock is a number. *)
LEMMA Clock == ASSUME TypeOK PROVE now \in Nat
BY DEF TypeOK

(* Operations that release a job without a block. *)
LEMMA ReleasePlans ==
    ASSUME TypeOK, NEW c \in Caller, NEW j \in Job, NEW op, NEW p, NEW w,
           JobOK(jobs[j]), jobs[j].status \in Active,
           NEW status \in {"Pending", "RetryWaiting", "Cancelled", "DeadLetter"},
           NEW next \in Nat \cup {None}, NEW gen \in Generation \cup {None},
           \/ w = Released(jobs[j], status) /\ gen = jobs[j].lastPermission
           \/ w = Later(Released(jobs[j], status), next) /\ gen = jobs[j].lastPermission
           \/ w = Recovered(Later(Released(jobs[j], status), next), gen),
           status = "Cancelled" \/ Fenced(c, j, jobs[j]),
           gen # jobs[j].lastPermission =>
               /\ jobs[j].status = "BlockedPolicy" /\ gen > jobs[j].block.gen
               /\ jobs[j].lastPermission # None => gen > jobs[j].lastPermission,
           op \notin {"ensure", "claim", "complete"}, w.rev <= MaxRevision
    PROVE  Transition(c, op, j, p, jobs[j], w)
<1> DEFINE r == jobs[j]
           x == Released(r, status)
<1>0. /\ JobOK(r) /\ status \in {"Pending", "RetryWaiting", "Cancelled", "DeadLetter"}
      /\ next \in Nat \cup {None} /\ gen \in Generation \cup {None}
  OBVIOUS
<1>1. x \in JobType /\ x.rev = r.rev + 1
  BY ReleasedType DEF Active, Terminal
<1>2. w.rev = r.rev + 1
  BY Zenon, <1>1 DEF JobType, Later, Recovered
<1>3. r.status # "Succeeded" /\ r.epoch \in Nat
  BY JobFields DEF Active, Blocked
<1>4. r.rev + 1 <= MaxRevision
  BY <1>2
<1> HIDE DEF x
<1>5. JobOK(w) /\ w.epoch = r.epoch /\ w.lastPermission = gen /\ w.status = status
  <2> DEFINE y == Later(x, next)
             z == Recovered(y, gen)
  <2>1. /\ JobOK(x) /\ x.epoch = r.epoch /\ x.lastPermission = r.lastPermission
        /\ JobOK(y) /\ y.epoch = r.epoch /\ y.lastPermission = r.lastPermission
        /\ JobOK(z) /\ z.epoch = r.epoch /\ z.lastPermission = gen
        /\ x.status = status /\ y.status = status /\ z.status = status
    <3> HIDE DEF r
    <3>1. r.status # "Succeeded" /\ r.rev + 1 <= MaxRevision
      BY Zenon, <1>3, <1>4
    <3> QED
      BY ONLY <1>0, <3>1, ReleasedOK DEF x
  <2>2. (w = x /\ gen = r.lastPermission) \/ (w = y /\ gen = r.lastPermission) \/ w = z
    BY DEF x
  <2> QED
    BY ONLY Zenon, <2>1, <2>2
<1>6. Advance(r, w)
  BY <1>5 DEF Advance
<1> QED
  BY <1>3, <1>5, <1>6 DEF Transition

(* Retry, dead-lettering, resumption and cancellation plan a legal transition. *)
LEMMA ReleaseOps ==
    ASSUME TypeOK, HeldOK, NEW c \in Caller, NEW j \in Job,
           \/ Retry(c, j) \/ DeadLetter(c, j) \/ Resume(c, j) \/ Cancel(c, j)
           \/ \E g \in Generation : ResumeForCredential(c, j, g) \/ ResumeForPermission(c, j, g)
    PROVE  \E op, w, p : Planning(c, op, j, w, p)
<1> USE Clock
<1> DEFINE r == jobs[j]
<1>1. CASE Retry(c, j)
  <2>1. /\ JobOK(r) /\ r.status \in Active /\ Fenced(c, j, r)
        /\ r.lastPermission \in Generation \cup {None}
    BY <1>1, Holder, JobFields DEF Retry, Fenced
  <2>2. now + RetryDelay(r.attempts) \in Nat
    <3>1. RetryDelay(r.attempts) \in Nat
      BY QueueAssumption DEF RetryDelay
    <3> QED
      BY <3>1
  <2> DEFINE w == IF r.attempts >= MaxAttempts THEN Released(r, "DeadLetter")
                  ELSE Later(Released(r, "RetryWaiting"), now + RetryDelay(r.attempts))
  <2>3. Read(c, "retry", j, w, None)
    BY Zenon, <1>1 DEF Retry, Later
  <2>4. w.rev <= MaxRevision
    BY Zenon, <2>3 DEF Read
  <2> HIDE DEF Later
  <2>5. Transition(c, "retry", j, None, r, w)
    <3>1. CASE r.attempts >= MaxAttempts
      BY Zenon, <2>1, <2>4, <3>1, ReleasePlans
    <3>2. CASE ~(r.attempts >= MaxAttempts)
      BY Zenon, <2>1, <2>2, <2>4, <3>2, ReleasePlans
    <3> QED
      BY <3>1, <3>2
  <2> QED
    BY Zenon, <2>3, <2>5 DEF Planning
<1>2. CASE DeadLetter(c, j)
  <2>1. /\ JobOK(r) /\ r.status \in Active /\ Fenced(c, j, r)
        /\ r.lastPermission \in Generation \cup {None}
    BY <1>2, Holder, JobFields DEF DeadLetter, Fenced
  <2>2. Read(c, "dead_letter", j, Released(r, "DeadLetter"), None)
    BY <1>2 DEF DeadLetter
  <2>3. Transition(c, "dead_letter", j, None, r, Released(r, "DeadLetter"))
    <3>1. Released(r, "DeadLetter").rev <= MaxRevision
      BY <2>2 DEF Read
    <3> QED
      BY Zenon, <2>1, <3>1, ReleasePlans
  <2> QED
    BY Zenon, <2>2, <2>3 DEF Planning
<1>3. CASE Cancel(c, j)
  <2>1. /\ JobOK(r) /\ r.status \in Active /\ r.lastPermission \in Generation \cup {None}
    BY <1>3, Current, JobFields DEF Cancel
  <2>2. Read(c, "cancel", j, Released(r, "Cancelled"), None)
    BY <1>3 DEF Cancel
  <2>3. Transition(c, "cancel", j, None, r, Released(r, "Cancelled"))
    <3>1. Released(r, "Cancelled").rev <= MaxRevision
      BY <2>2 DEF Read
    <3> QED
      BY Zenon, <2>1, <3>1, ReleasePlans
  <2> QED
    BY Zenon, <2>2, <2>3 DEF Planning
<1>4. ASSUME jobs[j] # None, r.status \in Blocked, NEW op \in {"resume", "credential_resume"}, NEW p,
             Read(c, op, j, Unblocked(r), p)
      PROVE  Planning(c, op, j, Unblocked(r), p)
  <2>1. /\ JobOK(r) /\ r.status \in Active /\ r.status # "Leased"
        /\ r.lastPermission \in Generation \cup {None}
    BY <1>4, Current, JobFields DEF Active, Blocked
  <2>2. Unblocked(r) = Later(Released(r, "Pending"), now)
    BY Zenon DEF Unblocked, Later
  <2>3. Fenced(c, j, r)
    BY <2>1 DEF Fenced
  <2>4. Unblocked(r).rev <= MaxRevision
    BY <1>4 DEF Read
  <2>5. Transition(c, op, j, p, r, Unblocked(r))
    BY Zenon, <2>1, <2>2, <2>3, <2>4, ReleasePlans
  <2> QED
    BY Zenon, <1>4, <2>5 DEF Planning
<1>5. CASE Resume(c, j)
  BY Zenon, <1>4, <1>5 DEF Resume
<1>6. ASSUME NEW g \in Generation, ResumeForCredential(c, j, g)
      PROVE  \E op, w, p : Planning(c, op, j, w, p)
  BY <1>4, <1>6 DEF ResumeForCredential, Blocked
<1>7. ASSUME NEW g \in Generation, ResumeForPermission(c, j, g)
      PROVE  \E op, w, p : Planning(c, op, j, w, p)
  <2> DEFINE w == Recovered(Later(Released(r, "Pending"), now), g)
  <2>1. /\ JobOK(r) /\ r.status \in Active /\ r.status = "BlockedPolicy"
        /\ r.lastPermission \in Generation \cup {None} /\ Fenced(c, j, r)
    BY <1>7, Current, JobFields DEF ResumeForPermission, Active, Blocked, Fenced
  <2>2. Read(c, "permission_resume", j, w, g)
    BY Zenon, <1>7 DEF ResumeForPermission, Unblocked, Later, Recovered
  <2>3. w.rev <= MaxRevision
    BY <2>2 DEF Read
  <2>4. g > r.block.gen /\ (r.lastPermission # None => g > r.lastPermission)
    BY <1>7 DEF ResumeForPermission
  <2>5. Transition(c, "permission_resume", j, g, r, w)
    BY Zenon, <2>1, <2>3, <2>4, ReleasePlans
  <2> QED
    BY <2>2, <2>5 DEF Planning
<1> QED
  BY <1>1, <1>2, <1>3, <1>5, <1>6, <1>7

(* So do the two ways to block a job. *)
LEMMA BlockOps ==
    ASSUME TypeOK, HeldOK, NEW c \in Caller, NEW j \in Job, NEW kind \in BlockKind,
           Block(c, j, kind) \/ BlockClaimed(c, j, kind)
    PROVE  \E op, w, p : Planning(c, op, j, w, p)
<1> DEFINE r == jobs[j]
           x == Released(r, kind.status)
           w == [x EXCEPT !.block = kind.block]
<1>1. JobOK(r) /\ r.status \in Active /\ Fenced(c, j, r)
  BY Current, Holder DEF Block, BlockClaimed, Fenced
<1>2. PICK op \in {"block", "block_claimed"} : Read(c, op, j, w, None)
  BY DEF Block, BlockClaimed
<1>3. w.rev <= MaxRevision
  BY <1>2 DEF Read
<1>4. /\ kind.status \in Active \cup Terminal /\ kind.block \in BlockType
      /\ kind.status \notin {"Leased", "Succeeded", "Cancelled"}
      /\ kind = [status |-> kind.status, block |-> kind.block]
  BY Zenon, BlockTypes DEF Active, Blocked, Terminal
<1>5. /\ x \in JobType /\ x.status = kind.status /\ x.rev = r.rev + 1
      /\ x.attempts = r.attempts /\ x.epoch = r.epoch /\ x.owner = None
      /\ x.lastPermission = r.lastPermission /\ x.receipt = r.receipt
  BY <1>1, <1>4, ReleasedType
<1> HIDE DEF x
<1>6. w \in JobType
  BY <1>4, <1>5, Updates
<1>7. /\ w.status = kind.status /\ w.rev = r.rev + 1 /\ w.block = kind.block
      /\ w.attempts = r.attempts /\ w.epoch = r.epoch /\ w.owner = None
      /\ w.lastPermission = r.lastPermission /\ w.receipt = r.receipt
  BY <1>5 DEF JobType
<1> HIDE DEF w
<1>8. r.receipt = None /\ r.epoch \in Nat
  BY <1>1, JobFields DEF Active, Blocked
<1>9. JobOK(w)
  BY <1>1, <1>3, <1>4, <1>6, <1>7, <1>8, OutsideLease
<1>10. Transition(c, op, j, None, r, w)
  BY <1>1, <1>2, <1>4, <1>7, <1>8, <1>9 DEF Transition, Advance
<1> QED
  BY <1>2, <1>10 DEF Planning

(* A completion plans a success with its own receipt. *)
LEMMA CompleteOp ==
    ASSUME TypeOK, HeldOK, NEW c \in Caller, NEW j \in Job, NEW p \in Plan, Complete(c, j, p)
    PROVE  \E op, w, q : Planning(c, op, j, w, q)
<1> DEFINE r == jobs[j]
           x == Released(r, "Succeeded")
           receipt == [epoch |-> r.epoch, plan |-> p]
           w == [x EXCEPT !.receipt = receipt]
<1>1. JobOK(r) /\ r.status \in Active /\ Fenced(c, j, r)
  BY Holder DEF Complete, Fenced
<1>2. Read(c, "complete", j, w, p)
  BY DEF Complete
<1>3. w.rev <= MaxRevision
  BY Zenon, <1>2 DEF Read
<1>4. /\ x \in JobType /\ x.status = "Succeeded" /\ x.rev = r.rev + 1
      /\ x.attempts = r.attempts /\ x.epoch = r.epoch /\ x.owner = None /\ x.block = None
      /\ x.lastPermission = r.lastPermission
  <2>1. "Succeeded" \in Active \cup Terminal
    BY DEF Terminal
  <2> QED
    BY <1>1, <2>1, ReleasedType
<1> HIDE DEF x
<1>5. receipt \in Receipt /\ receipt # None /\ r.epoch \in Nat
  <2>1. r.epoch \in Nat
    BY <1>1, JobFields
  <2>2. receipt \in Receipt
    BY <2>1 DEF Receipt
  <2> QED
    BY Zenon, <2>1, <2>2, NoneAssumption
<1>6. w \in JobType
  BY <1>4, <1>5, Updates
<1>7. /\ w.status = "Succeeded" /\ w.rev = r.rev + 1 /\ w.block = None
      /\ w.attempts = r.attempts /\ w.epoch = r.epoch /\ w.owner = None
      /\ w.lastPermission = r.lastPermission /\ w.receipt = receipt
  BY Zenon, <1>4 DEF JobType
<1> HIDE DEF w
<1>8. [status |-> w.status, block |-> w.block] \in Unblocking
  BY Zenon, <1>7 DEF Unblocking, Terminal, Blocked
<1>9. JobOK(w)
  BY Zenon, <1>1, <1>3, <1>5, <1>6, <1>7, <1>8, OutsideLease
<1>10. Transition(c, "complete", j, p, r, w)
  BY <1>1, <1>5, <1>7, <1>9 DEF Transition, Advance
<1> QED
  BY <1>2, <1>10 DEF Planning

(* A claim plans a lease with the next epoch, over no lease in force. *)
LEMMA ClaimOp ==
    ASSUME TypeOK, NEW c \in Caller, NEW j \in Job, Claim(c, j)
    PROVE  \E op, w, p : Planning(c, op, j, w, p)
<1> DEFINE r == jobs[j]
           w == [r EXCEPT !.status = "Leased", !.rev = @ + 1, !.attempts = @ + 1,
                          !.epoch = @ + 1, !.owner = OwnerOf[c], !.until = now + LeaseSecs,
                          !.next = None, !.bound = TRUE, !.block = None]
<1>1. JobOK(r) /\ r.status \in Active /\ r.attempts < MaxAttempts
  BY Current DEF Claim
<1>2. Read(c, "claim", j, w, None)
  BY DEF Claim
<1>3. w.rev <= MaxRevision
  BY Zenon, <1>2 DEF Read
<1>4. /\ r \in JobType /\ r.rev + 1 \in Nat /\ r.attempts \in Nat /\ r.epoch = r.attempts
      /\ r.attempts + 1 \in Nat /\ r.epoch + 1 \in Nat /\ r.receipt = None
      /\ now + LeaseSecs \in Nat /\ OwnerOf[c] # None /\ now + LeaseSecs # None
  BY <1>1, Clock, JobFields, QueueAssumption DEF JobOK, Active, Blocked
<1>5. r.status = "Leased" => r.until <= now
  BY DEF Claim
<1>6. /\ w.status = "Leased" /\ w.rev = r.rev + 1 /\ w.block = None
      /\ w.attempts = r.attempts + 1 /\ w.epoch = r.epoch + 1 /\ w.owner = OwnerOf[c]
      /\ w.until = now + LeaseSecs /\ w.lastPermission = r.lastPermission
      /\ w.receipt = r.receipt
  BY <1>4 DEF JobType
<1>7. w \in JobType
  <2> DEFINE x1 == [r EXCEPT !.status = "Leased"]
             x2 == [x1 EXCEPT !.rev = r.rev + 1]
             x3 == [x2 EXCEPT !.attempts = r.attempts + 1]
             x4 == [x3 EXCEPT !.epoch = r.epoch + 1]
             x5 == [x4 EXCEPT !.owner = OwnerOf[c]]
             x6 == [x5 EXCEPT !.until = now + LeaseSecs]
             x7 == [x6 EXCEPT !.next = None]
             x8 == [x7 EXCEPT !.bound = TRUE]
             x9 == [x8 EXCEPT !.block = None]
  <2>0. "Leased" \in Active \cup Terminal /\ None \in BlockType
    BY BlockTypes DEF Active
  <2>1. x1 \in JobType BY <1>4, <2>0, Updates
  <2>2. x2 \in JobType BY Zenon, <2>1, <1>4, Updates
  <2>3. x3 \in JobType BY Zenon, <2>2, <1>4, Updates
  <2>4. x4 \in JobType BY Zenon, <2>3, <1>4, Updates
  <2>5. x5 \in JobType BY Zenon, <2>4, Updates
  <2>6. x6 \in JobType BY Zenon, <2>5, <1>4, Updates
  <2>7. x7 \in JobType BY Zenon, <2>6, Updates
  <2>8. x8 \in JobType BY Zenon, <2>7, Updates
  <2>9. x9 \in JobType BY Zenon, <2>8, <2>0, Updates
  <2>10. w = x9
    BY <1>4 DEF JobType
  <2> QED
    BY <2>9, <2>10
<1> HIDE DEF w
<1>8. [status |-> w.status, block |-> w.block] \in Unblocking
  BY Zenon, <1>6 DEF Unblocking, Active, Blocked
<1>9. JobOK(w)
  BY <1>1, <1>3, <1>4, <1>6, <1>7, <1>8, QueueAssumption DEF JobOK, Unblocking
<1>10. Transition(c, "claim", j, None, r, w)
  <2>1. r.epoch <= w.epoch
    BY <1>4, <1>6
  <2> QED
    BY Zenon, <1>1, <1>5, <1>6, <1>9, <2>1 DEF Transition, Advance, Fenced
<1> QED
  BY <1>2, <1>10 DEF Planning

(* A renewal plans the same lease with a later deadline. *)
LEMMA RenewOp ==
    ASSUME TypeOK, HeldOK, NEW c \in Caller, NEW j \in Job, Renew(c, j)
    PROVE  \E op, w, p : Planning(c, op, j, w, p)
<1> DEFINE r == jobs[j]
           x == [r EXCEPT !.rev = @ + 1]
           w == [r EXCEPT !.rev = @ + 1, !.until = now + LeaseSecs]
<1>1. JobOK(r) /\ r.status \in Active /\ r.status = "Leased" /\ Fenced(c, j, r)
  BY Holder DEF Renew, Fenced
<1>2. Read(c, "renew", j, w, None)
  BY DEF Renew
<1>3. w.rev <= MaxRevision
  BY Zenon, <1>2 DEF Read
<1>4. /\ r \in JobType /\ r.rev + 1 \in Nat /\ r.epoch \in Nat
      /\ now + LeaseSecs \in Nat /\ now + LeaseSecs # None
  BY <1>1, Clock, JobFields, QueueAssumption DEF JobOK
<1>5. /\ w.status = "Leased" /\ w.rev = r.rev + 1 /\ w.block = r.block
      /\ w.attempts = r.attempts /\ w.epoch = r.epoch /\ w.owner = r.owner
      /\ w.until = now + LeaseSecs /\ w.lastPermission = r.lastPermission
      /\ w.receipt = r.receipt
  BY <1>1, <1>4 DEF JobType
<1>6. w \in JobType
  <2>1. x \in JobType
    BY <1>4, Updates
  <2>2. [x EXCEPT !.until = now + LeaseSecs] \in JobType
    BY Zenon, <2>1, <1>4, Updates
  <2> QED
    BY <2>2
<1> HIDE DEF w
<1>7. JobOK(w)
  BY <1>1, <1>3, <1>4, <1>5, <1>6, QueueAssumption DEF JobOK
<1>8. Transition(c, "renew", j, None, r, w)
  BY <1>1, <1>4, <1>5, <1>7 DEF Transition, Advance
<1> QED
  BY <1>2, <1>8 DEF Planning

(* A new job is well-formed, with or without a binding. *)
LEMMA PendingOK ==
    ASSUME TypeOK, NEW bound \in BOOLEAN
    PROVE  Fresh(Pending(bound)) /\ Pending(bound).status # "Succeeded"
<1> DEFINE w == Pending(bound)
           block == [reason |-> "binding", gen |-> None]
<1>1. [status |-> "BlockedConfiguration", block |-> block] \in BlockKind
  BY DEF BlockKind
<1>2. None \in BlockType /\ block \in BlockType
  BY Zenon, <1>1, BlockTypes
<1>3. w \in JobType
  BY <1>2, Clock DEF Pending, JobType, Active, Blocked
<1>4. w.rev \in 1..MaxRevision /\ w.attempts <= MaxAttempts /\ w.epoch = w.attempts
  BY QueueAssumption DEF Pending
<1>5. w.owner = None /\ w.receipt = None /\ w.lastPermission = None
      /\ w.status \in {"Pending", "BlockedConfiguration"}
  BY Zenon DEF Pending
<1>6. [status |-> w.status, block |-> w.block] \in BlockKind \cup Unblocking
  BY Zenon, <1>1 DEF Pending, Unblocking, Active, Blocked
<1> HIDE DEF w
<1>7. JobOK(w)
  BY <1>3, <1>4, <1>5, <1>6 DEF JobOK, Unblocking
<1> QED
  BY <1>5, <1>7 DEF w, Fresh, Active, Blocked

(* The intent of a turn plans a new job. *)
LEMMA EnsureOp ==
    ASSUME TypeOK, NEW c \in Caller, NEW j \in Job, NEW bound \in BOOLEAN, EnsureIntent(c, j, bound)
    PROVE  \E op, w, p : Planning(c, op, j, w, p)
<1>1. /\ Read(c, "ensure", j, Pending(bound), None) /\ j \in 1..turns
      /\ j \notin withdrawn /\ jobs[j] = None
  BY Zenon DEF EnsureIntent
<1>2. j <= turns
  BY <1>1 DEF TypeOK
<1>3. Transition(c, "ensure", j, None, jobs[j], Pending(bound))
  BY Zenon, <1>1, <1>2, PendingOK DEF Transition, Fresh
<1> QED
  BY Zenon, <1>1, <1>3 DEF Planning

(* A withdrawal cancels the job that the index lists, which is an active one. *)
LEMMA WithdrawOp ==
    ASSUME IInv, NEW c \in Caller, NEW j \in Job, Withdraw(c, j)
    PROVE  \E op, w, p : Planning(c, op, j, w, p)
<1> DEFINE r == jobs[j]
<1>1. Read(c, "withdraw", j, Released(r, "Cancelled"), None) /\ \E ref \in index.active : ref.job = j
  BY Zenon DEF Withdraw
<1>2. r # None /\ r.status \in Active
  <2>1. PICK k \in Job : jobs[k] # None /\ jobs[k].status \in Active /\ Ref(k, jobs[k]).job = j
    BY Zenon, <1>1 DEF IInv, IndexAgrees
  <2>2. Ref(k, jobs[k]).job = k
    BY Zenon DEF Ref
  <2> QED
    BY Zenon, <2>1, <2>2
<1>3. TypeOK /\ JobOK(r) /\ r.lastPermission \in Generation \cup {None}
  BY Zenon, <1>2, Current, JobFields DEF IInv
<1>4. Released(r, "Cancelled").rev <= MaxRevision
  BY Zenon, <1>1 DEF Read
<1>5. Transition(c, "withdraw", j, None, r, Released(r, "Cancelled"))
  BY Zenon, <1>2, <1>3, <1>4, ReleasePlans
<1> QED
  BY Zenon, <1>1, <1>5 DEF Planning

---------------------------------------------------------------------------
(* Steps that leave the documents alone. *)

(* The plan for one job stays true while the clock and the turns go on. *)
LEMMA OneJobStable ==
    ASSUME NEW c \in Caller, OneJob(c, call[c]), held'[c] = held[c],
           /\ call'[c].op = call[c].op /\ call'[c].job = call[c].job
           /\ call'[c].plan = call[c].plan
           /\ call'[c].read = call[c].read /\ call'[c].write = call[c].write,
           turns \in Nat, turns' \in Nat, turns <= turns',
           now \in Nat, now' \in Nat, now <= now'
    PROVE  OneJob(c, call[c])'
<1> DEFINE t == call[c]  j == t.job  r == t.read[t.job]  w == t.write[t.job]
<1>1. j \in Job /\ Transition(c, t.op, j, t.plan, r, w)
  BY Zenon DEF OneJob
<1>2. t.op # "ensure" /\ Fenced(c, j, r) =>
          r.status # "Leased" \/ r.until <= now' \/ held'[c] = [job |-> j, epoch |-> r.epoch]
  <2>1. t.op # "ensure" => JobOK(r)
    BY Zenon, <1>1 DEF Transition
  <2>2. JobOK(r) /\ r.status = "Leased" => r.until \in Nat
    BY Zenon, JobFields
  <2> HIDE DEF r
  <2>3. JobOK(r) /\ r.status = "Leased" /\ r.until <= now => r.until <= now'
    BY <2>2
  <2> QED
    BY Zenon, <2>1, <2>3 DEF Fenced
<1>3. j <= turns => j <= turns'
  BY <1>1
<1>4. /\ t'.op = t.op /\ t'.job = j /\ t'.plan = t.plan
      /\ t'.read = t.read /\ t'.write = t.write /\ r' = r /\ w' = w
  BY Zenon
<1>5. JobOK(r)' = JobOK(r) /\ JobOK(w)' = JobOK(w) /\ Advance(r, w)' = Advance(r, w)
      /\ Fresh(w)' = Fresh(w)
  BY Zenon, <1>4 DEF JobOK, Advance, Fresh
<1>6. t.op # "ensure" /\ Fenced(c, j, r) => Fenced(c, j, r)'
  BY <1>2, <1>4 DEF Fenced
<1>7. Transition(c, t.op, j, t.plan, r, w)'
  BY Zenon, <1>1, <1>3, <1>4, <1>5, <1>6 DEF Transition
<1> QED
  BY Zenon, <1>1, <1>4, <1>7 DEF OneJob

(* What a call remembers stays true while the clock and the turns go on, texts *)
(* are withdrawn, the cursor moves and no job disappears.                      *)
LEMMA PlannedStable ==
    ASSUME NEW c \in Caller, Planned(c), call'[c] = call[c], held'[c] = held[c],
           turns \in Nat, turns' \in Nat, turns <= turns',
           now \in Nat, now' \in Nat, now <= now', withdrawn \subseteq withdrawn',
           \A j \in Job : index'.cursor < j => index.cursor < j,
           \A j \in Job : jobs[j] # None => jobs'[j] # None
    PROVE  Planned(c)'
<1> DEFINE t == call[c]
<1>0. \A j \in Job : j <= turns => j <= turns'
  OBVIOUS
<1>1. CASE call[c] = Idle
  BY Zenon, <1>1 DEF Planned, Idle
<1>2. CASE call[c] # Idle /\ t.pc = "text"
  BY Zenon, <1>2 DEF Planned
<1>3. CASE call[c] # Idle /\ t.pc = "page"
  <2>1. PageRead(t)
    BY Zenon, <1>3 DEF Planned
  <2>2. PageRead(call[c])'
    BY Zenon, <1>0, <2>1 DEF PageRead
  <2> QED
    BY Zenon, <1>3, <2>2 DEF Planned
<1>4. CASE call[c] # Idle /\ t.pc \in {"index", "commit", "reread"}
  <2>1. ASSUME t.op \in Reconciling PROVE Paged(t) /\ Paged(call[c])'
    <3>1. Paged(t)
      BY Zenon, <1>4, <2>1 DEF Planned
    <3>2. \A last \in 0..Turns : last <= turns => last <= turns'
      OBVIOUS
    <3>3. PageIndex(call[c])'
      <4>1. PICK last \in 0..Turns :
               /\ last <= turns /\ t.seen.cursor <= last /\ PagedTo(t, last)
               /\ \A j \in Job : t.seen.cursor < j /\ j <= last =>
                     j \in DOMAIN t.read \/ j \in withdrawn \/ t.op = "reconcile_inactive"
        BY Zenon, <3>1 DEF Paged, PageIndex
      <4>2. t' = t
        BY Zenon
      <4>3. last <= turns'
        BY Zenon, <3>2, <4>1
      <4> QED
        BY Zenon, <4>1, <4>2, <4>3 DEF PageIndex
    <3> QED
      BY Zenon, <1>0, <3>1, <3>3 DEF Paged, New
  <2>2. ASSUME t.op \notin Reconciling PROVE OneJob(c, t) /\ OneJob(c, call[c])'
    <3>1. OneJob(c, t)
      BY Zenon, <1>4, <2>2 DEF Planned
    <3> QED
      BY Zenon, <3>1, OneJobStable
  <2>3. t.pc = "commit" /\ t.op \notin Reconciling => OneIndex(t) /\ OneIndex(call[c])'
    BY Zenon, <1>4 DEF Planned, OneIndex
  <2>4. t.op \notin Reconciling \cup {"ensure"} => jobs'[t.job] # None
    BY Zenon, <1>4, <2>2 DEF Planned, OneJob
  <2> QED
    BY Zenon, <1>4, <2>1, <2>2, <2>3, <2>4 DEF Planned
<1> QED
  BY Zenon, <1>1, <1>2, <1>3, <1>4 DEF Planned

(* Under the invariant the clock and the number of turns are numbers. *)
LEMMA Clocks ==
    ASSUME IInv
    PROVE  turns \in Nat /\ now \in Nat
<1>1. turns \in 0..Turns /\ now \in 1..MaxTime
  <2>1. TypeOK
    BY Zenon DEF IInv
  <2> QED
    BY <2>1 DEF TypeOK
<1> QED
  BY <1>1, QueueAssumption

(* A step that changes a call, and withdraws texts at most. *)
LEMMA CallsAndTexts ==
    ASSUME IInv, UNCHANGED <<jobs, index, memory, turns, now, held, acked>>,
           withdrawn \subseteq withdrawn', withdrawn' \subseteq Job,
           NEW c \in Caller, NEW x, call' = [call EXCEPT ![c] = x],
           call'[c] = x => Planned(c)'
    PROVE  IInv'
<1>1. TypeOK'
  BY Zenon DEF IInv, TypeOK
<1>2. Shape' /\ call'[c] = x /\ \A d \in Caller \ {c} : call'[d] = call[d]
  BY DEF IInv, Shape
<1>3. IndexAgrees' /\ AppliedOnce' /\ AcksAreApplied'
  BY Zenon DEF IInv, IndexAgrees, AppliedOnce, AcksAreApplied
<1>4. HeldOK' /\ LeasesAreDistinct' /\ WithinRetention'
  BY DEF IInv, HeldOK, LeasesAreDistinct, WithinRetention
<1>5. turns \in Nat /\ now \in Nat /\ turns' \in Nat /\ now' \in Nat /\ turns <= turns' /\ now <= now'
  BY Clocks
<1>6. ASSUME NEW d \in Caller \ {c} PROVE Planned(d)'
  <2>1. /\ Planned(d) /\ call'[d] = call[d] /\ held'[d] = held[d]
        /\ \A j \in Job : index'.cursor < j => index.cursor < j
        /\ \A j \in Job : jobs[j] # None => jobs'[j] # None
    BY Zenon, <1>2 DEF IInv
  <2> QED
    BY Zenon, <1>5, <2>1, PlannedStable
<1> QED
  BY Zenon, <1>1, <1>2, <1>3, <1>4, <1>6 DEF IInv

(* A step that changes calls alone. *)
LEMMA CallsOnly ==
    ASSUME IInv, UNCHANGED <<jobs, index, memory, turns, withdrawn, now, held, acked>>,
           NEW c \in Caller, NEW x, call' = [call EXCEPT ![c] = x],
           call'[c] = x => Planned(c)'
    PROVE  IInv'
<1>1. withdrawn \subseteq withdrawn' /\ withdrawn' \subseteq Job
  BY Zenon DEF IInv, TypeOK
<1> QED
  BY Zenon, <1>1, CallsAndTexts

(* The first read of an operation. *)
LEMMA PlanningKeeps ==
    ASSUME IInv, NEW c \in Caller, NEW j \in Job, NEW op, NEW w, NEW p,
           Planning(c, op, j, w, p)
    PROVE  IInv'
<1> DEFINE x == [pc |-> "index", op |-> op, job |-> j, plan |-> p,
                 read |-> [k \in {j} |-> jobs[j]], write |-> [k \in {j} |-> w],
                 sources |-> IF op \in {"ensure", "withdraw"} THEN {j} \ withdrawn ELSE {}]
<1>1. /\ call' = [call EXCEPT ![c] = x]
      /\ UNCHANGED <<jobs, index, memory, turns, withdrawn, now, held, acked>>
      /\ op \notin Reconciling /\ Transition(c, op, j, p, jobs[j], w)
      /\ op = "ensure" => j \notin withdrawn
  BY Zenon DEF Planning, Read
<1>2. /\ x.pc = "index" /\ x.op = op /\ x.job = j /\ x.plan = p
      /\ DOMAIN x.read = {j} /\ x.read[j] = jobs[j] /\ DOMAIN x.write = {j} /\ x.write[j] = w
      /\ op = "ensure" => j \in x.sources
  BY Zenon, <1>1
<1> HIDE DEF x
<1>3. op # "ensure" => jobs[j] # None
  BY <1>1, JobFields DEF Transition
<1>4. Transition(c, op, j, p, jobs[j], w)'
      <=> (Transition(c, op, j, p, jobs[j], w))
  BY Zenon, <1>1 DEF Transition, Fenced, Fresh, JobOK, Advance
<1>5. call'[c] = x => Planned(c)'
  <2> SUFFICES ASSUME call'[c] = x PROVE Planned(c)'
    BY Zenon
  <2>1. OneJob(c, call[c])'
    <3>1. /\ call'[c].op = op /\ call'[c].job = j /\ call'[c].plan = p
          /\ call'[c].read[j] = jobs'[j] /\ call'[c].write[j] = w
          /\ DOMAIN call'[c].read = {j} /\ DOMAIN call'[c].write = {j}
      BY <1>1, <1>2
    <3> QED
      BY Zenon, <1>1, <1>4, <3>1 DEF OneJob
  <2> QED
    BY Zenon, <1>1, <1>2, <1>3, <2>1 DEF Planned
<1> QED
  BY Zenon, <1>1, <1>5, CallsOnly

(* A call may be given up at any time. *)
LEMMA IdleKeeps ==
    ASSUME IInv, NEW c \in Caller, call' = [call EXCEPT ![c] = Idle],
           UNCHANGED <<jobs, index, memory, turns, withdrawn, now, held, acked>>
    PROVE  IInv'
<1>1. call'[c] = Idle => Planned(c)'
  BY DEF Planned
<1> QED
  BY Zenon, <1>1, CallsOnly

(* The second read. *)
LEMMA ReadIndexKeeps ==
    ASSUME IInv, NEW c \in Caller, ReadIndex(c)
    PROVE  IInv'
<1> DEFINE t == call[c]
           x == [pc |-> "commit", op |-> t.op, job |-> t.job, plan |-> t.plan,
                 read |-> t.read, write |-> t.write, sources |-> t.sources, seen |-> index,
                 index |-> IndexAfter(index, t.job, t.write[t.job])]
<1>1. UNCHANGED <<jobs, index, memory, turns, withdrawn, now, held, acked>>
  BY DEF ReadIndex
<1>2. CASE ~Plannable(index, t)
  <2>1. call' = [call EXCEPT ![c] = Idle]
    BY <1>2 DEF ReadIndex
  <2> QED
    BY Zenon, <1>1, <2>1, IdleKeeps
<1>3. CASE Plannable(index, t)
  <2>1. call' = [call EXCEPT ![c] = x]
    BY Zenon, <1>3 DEF ReadIndex
  <2>2. /\ t # Idle /\ t.pc = "index" /\ t.op \notin Reconciling /\ OneJob(c, t)
        /\ t.op # "ensure" => jobs[t.job] # None
        /\ t.op = "ensure" => t.job \in t.sources
    BY DEF IInv, Planned, ReadIndex
  <2>3. /\ x.pc = "commit" /\ x.op = t.op /\ x.job = t.job /\ x.plan = t.plan
        /\ x.read = t.read /\ x.write = t.write /\ x.seen = index
        /\ x.sources = t.sources
        /\ x.index = IndexAfter(index, t.job, t.write[t.job])
    BY Zenon
  <2> HIDE DEF x
  <2>4. Retains(index, t.job, t.write[t.job])
    BY Zenon, <1>3, <2>2 DEF Plannable, Retains, OneJob, Transition, Fresh, Active, Terminal, Blocked
  <2>5. IndexValid(x.index)
    BY Zenon, <1>3, <2>3 DEF Plannable
  <2>6. call'[c] = x => Planned(c)'
    <3> SUFFICES ASSUME call'[c] = x PROVE Planned(c)'
      BY Zenon
    <3>1. OneJob(c, call[c])'
      BY <1>1, <2>2, <2>3, Clocks, OneJobStable
    <3>2. OneIndex(call[c])'
      BY <2>3, <2>4 DEF OneIndex
    <3> QED
      BY <1>1, <2>2, <2>3, <2>5, <3>1, <3>2 DEF Planned
  <2> QED
    BY Zenon, <1>1, <2>1, <2>6, CallsOnly
<1> QED
  BY Zenon, <1>2, <1>3

(* A commit that did not take place. *)
LEMMA RefusedKeeps ==
    ASSUME IInv, NEW c \in Caller, CommitRefused(c)
    PROVE  IInv'
<1> DEFINE t == call[c]
           x == [t EXCEPT !.pc = "reread"]
<1>1. UNCHANGED <<jobs, index, memory, turns, withdrawn, now, held, acked>> /\ t # Idle /\ t.pc = "commit"
  BY DEF CommitRefused
<1>2. CASE t.op # "complete"
  <2>1. call' = [call EXCEPT ![c] = Idle]
    BY <1>2 DEF CommitRefused, Failed
  <2> QED
    BY Zenon, <1>1, <2>1, IdleKeeps
<1>3. CASE t.op = "complete"
  <2>1. call' = [call EXCEPT ![c] = x]
    BY Zenon, <1>3 DEF CommitRefused, Failed
  <2>2. OneJob(c, t) /\ jobs[t.job] # None
    BY <1>1, <1>3 DEF IInv, Planned
  <2>3. /\ x.pc = "reread" /\ x.op = t.op /\ x.job = t.job /\ x.plan = t.plan
        /\ x.read = t.read /\ x.write = t.write
    OBVIOUS
  <2> HIDE DEF x
  <2>4. call'[c] = x => Planned(c)'
    <3> SUFFICES ASSUME call'[c] = x PROVE Planned(c)'
      OBVIOUS
    <3>1. OneJob(c, call[c])'
      BY <1>1, <2>2, <2>3, Clocks, OneJobStable
    <3> QED
      BY Zenon, <1>1, <1>3, <2>2, <2>3, <3>1 DEF Planned
  <2> QED
    BY Zenon, <1>1, <2>1, <2>4, CallsOnly
<1> QED
  BY Zenon, <1>2, <1>3

(* An answer of success: the job carries the receipt the answer names. *)
LEMMA AckKeeps ==
    ASSUME IInv, NEW c \in Caller, NEW j \in Job, NEW e, NEW p,
           UNCHANGED <<jobs, index, memory, turns, withdrawn, now, held>>,
           \/ call' = [call EXCEPT ![c] = Idle]
           \/ call' = call,
           \/ acked' = acked
           \/ /\ acked' = acked \cup {[job |-> j, epoch |-> e, plan |-> p]}
              /\ jobs[j] # None /\ SameReceipt(jobs[j], [epoch |-> e, plan |-> p])
    PROVE  IInv'
<1>1. TypeOK'
  BY Zenon DEF IInv, TypeOK
<1>2. Shape'
  BY DEF IInv, Shape
<1>3. IndexAgrees' /\ AppliedOnce' 
  BY Zenon DEF IInv, IndexAgrees, AppliedOnce
<1>4. HeldOK' /\ LeasesAreDistinct' /\ WithinRetention'
  BY DEF IInv, HeldOK, LeasesAreDistinct, WithinRetention
<1>5. AcksAreApplied'
  <2> DEFINE Applied(a) == memory[a.job] = <<[epoch |-> a.epoch, plan |-> a.plan]>>
             new == [job |-> j, epoch |-> e, plan |-> p]
             rec == [epoch |-> e, plan |-> p]
  <2>1. \A a \in acked : Applied(a)
    BY Zenon DEF IInv, AcksAreApplied
  <2>2. ASSUME jobs[j] # None, SameReceipt(jobs[j], rec) PROVE Applied(new)
    <3>1. jobs[j].status = "Succeeded" /\ jobs[j].receipt = rec
      BY <2>2 DEF SameReceipt
    <3>2. memory[j] = <<rec>>
      BY Zenon, <2>2, <3>1 DEF IInv, AppliedOnce
    <3>3. new.job = j /\ new.epoch = e /\ new.plan = p
      BY Zenon
    <3> HIDE DEF new
    <3> QED
      BY Zenon, <3>2, <3>3
  <2> HIDE DEF Applied, new, rec
  <2>3. \A a \in acked' : Applied(a)
    BY Zenon, <2>1, <2>2 DEF new, rec
  <2> QED
    BY Zenon, <2>3 DEF AcksAreApplied, Applied
<1>6. ASSUME NEW d \in Caller PROVE Planned(d)'
  <2>1. CASE call'[d] = call[d]
    BY <2>1, Clocks, PlannedStable DEF IInv
  <2>2. CASE call'[d] = Idle
    BY Zenon, <2>2 DEF Planned
  <2> QED
    BY Zenon, <2>1, <2>2 DEF IInv, Shape
<1> QED
  BY Zenon, <1>1, <1>2, <1>3, <1>4, <1>5, <1>6 DEF IInv

(* A repeated completion is answered with the result that was applied. *)
LEMMA CompleteAgainKeeps ==
    ASSUME IInv, NEW c \in Caller, NEW j \in Job, NEW p, CompleteAgain(c, j, p)
    PROVE  IInv'
<1>1. /\ UNCHANGED <<jobs, index, memory, turns, withdrawn, now, call, held>> /\ jobs[j] # None
      /\ SameReceipt(jobs[j], [epoch |-> held[c].epoch, plan |-> p])
      /\ acked' = acked \cup {[job |-> j, epoch |-> held[c].epoch, plan |-> p]}
  BY DEF CompleteAgain
<1> QED
  BY Zenon, <1>1, AckKeeps

(* So is a completion whose commit failed. *)
LEMMA RereadKeeps ==
    ASSUME IInv, NEW c \in Caller, Reread(c)
    PROVE  IInv'
<1> DEFINE t == call[c]  j == t.job  e == t.read[j].epoch  p == t.plan
<1>1. /\ UNCHANGED <<jobs, index, memory, turns, withdrawn, now, held>> /\ t # Idle /\ t.pc = "reread"
      /\ call' = [call EXCEPT ![c] = Idle]
      /\ acked' = IF SameReceipt(jobs[j], t.write[j].receipt)
                  THEN acked \cup {[job |-> j, epoch |-> e, plan |-> p]} ELSE acked
  BY Zenon DEF Reread, Completion
<1>2. t.op = "complete" /\ OneJob(c, t) /\ jobs[j] # None
  BY <1>1 DEF IInv, Planned
<1>3. j \in Job /\ t.write[j].receipt = [epoch |-> e, plan |-> p]
  BY Zenon, <1>2 DEF OneJob, Transition
<1> QED
  BY Zenon, <1>1, <1>2, <1>3, AckKeeps

(* Time and turns go on, callers die. *)
LEMMA EnvironmentKeeps ==
    ASSUME IInv,
           UNCHANGED <<jobs, index, memory, withdrawn, acked>>,
           \/ FinishTurn
           \/ Tick
           \/ \E c \in Caller : Crash(c)
    PROVE  IInv'
<1>1. /\ turns' \in 0..Turns /\ turns <= turns' /\ now' \in 1..MaxTime /\ now <= now'
      /\ turns' \in Nat /\ now' \in Nat
  <2>1. turns \in 0..Turns /\ now \in 1..MaxTime /\ Turns \in Nat /\ MaxTime \in Nat
    BY Zenon, QueueAssumption DEF IInv, TypeOK
  <2>2. CASE FinishTurn
    BY <2>1, <2>2 DEF FinishTurn
  <2>3. CASE Tick
    BY <2>1, <2>3 DEF Tick
  <2>4. CASE \E c \in Caller : Crash(c)
    BY <2>1, <2>4 DEF Crash
  <2> QED
    BY Zenon, <2>2, <2>3, <2>4
<1>2. TypeOK'
  BY Zenon, <1>1 DEF IInv, TypeOK
<1>3. Shape' /\ \A d \in Caller : \/ held'[d] = held[d] /\ call'[d] = call[d]
                                  \/ held'[d] = None /\ call'[d] = Idle
  BY DEF IInv, Shape, FinishTurn, Tick, Crash
<1>4. IndexAgrees' /\ AppliedOnce' /\ AcksAreApplied' /\ WithinRetention'
  BY Zenon DEF IInv, IndexAgrees, AppliedOnce, AcksAreApplied, WithinRetention
<1>5. HeldOK' /\ LeasesAreDistinct'
  BY Zenon, <1>3 DEF IInv, HeldOK, LeasesAreDistinct
<1>6. ASSUME NEW d \in Caller PROVE Planned(d)'
  <2>1. CASE held'[d] = held[d] /\ call'[d] = call[d]
    BY Zenon, <2>1, <1>1, Clocks, PlannedStable DEF IInv
  <2>2. CASE call'[d] = Idle
    BY <2>2 DEF Planned
  <2> QED
    BY Zenon, <2>1, <2>2, <1>3
<1> QED
  BY Zenon, <1>2, <1>3, <1>4, <1>5, <1>6 DEF IInv

(* The step that withdraws a text for which no job is listed, and the one before. *)
LEMMA TextKeeps ==
    ASSUME IInv, NEW c \in Caller,
           WithdrawText(c) \/ \E j \in Job : WithdrawUnlisted(c, j)
    PROVE  IInv'
<1>1. CASE WithdrawText(c)
  <2>1. /\ call[c] # Idle /\ call[c].pc = "text" /\ call' = [call EXCEPT ![c] = Idle]
        /\ withdrawn' \in {withdrawn, withdrawn \cup {call[c].job}}
        /\ UNCHANGED <<jobs, index, memory, turns, now, held, acked>>
    BY Zenon, <1>1 DEF WithdrawText
  <2>2. call[c].job \in Job /\ withdrawn \subseteq Job
    BY Zenon, <2>1 DEF IInv, Planned, TypeOK
  <2>3. withdrawn \subseteq withdrawn' /\ withdrawn' \subseteq Job
    BY Zenon, <2>1, <2>2
  <2>4. call'[c] = Idle => Planned(c)'
    BY Zenon DEF Planned
  <2> QED
    BY Zenon, <2>1, <2>3, <2>4, CallsAndTexts
<1>2. ASSUME NEW j \in Job, WithdrawUnlisted(c, j) PROVE IInv'
  <2> DEFINE x == [pc |-> "text", op |-> "withdraw", job |-> j]
  <2>1. /\ call' = [call EXCEPT ![c] = x]
        /\ UNCHANGED <<jobs, index, memory, turns, withdrawn, now, held, acked>>
    BY Zenon, <1>2 DEF WithdrawUnlisted
  <2>2. x.pc = "text" /\ x.job = j
    BY Zenon
  <2> HIDE DEF x
  <2>3. call'[c] = x => Planned(c)'
    BY <2>2 DEF Planned
  <2> QED
    BY Zenon, <2>1, <2>3, CallsOnly
<1> QED
  BY Zenon, <1>1, <1>2

(* The list of a page. *)
LEMMA ListPageKeeps ==
    ASSUME IInv, NEW c \in Caller, NEW op \in Reconciling, NEW last \in Job, ListPage(c, op, last)
    PROVE  IInv'
<1> DEFINE x == [pc |-> "page", op |-> op, last |-> last, readable |-> Readable(last)]
<1>1. /\ call' = [call EXCEPT ![c] = x] /\ last <= turns
      /\ UNCHANGED <<jobs, index, memory, turns, withdrawn, now, held, acked>>
  BY Zenon DEF ListPage
<1>2. index.cursor \in 0..Turns /\ turns \in 0..Turns /\ Turns \in Nat
  BY Zenon, QueueAssumption DEF IInv, TypeOK
<1>3. /\ Readable(last) \subseteq Job /\ \A j \in Readable(last) : j <= turns
      /\ \A j \in Job : index.cursor < j /\ j <= last => j \in Readable(last) \/ j \in withdrawn
  <2> DEFINE m == index.cursor
  <2> HIDE DEF m
  <2>1. Readable(last) = (m + 1 .. last) \ withdrawn /\ m \in 0..Turns
    BY <1>2 DEF Readable, m
  <2>2. /\ Readable(last) \subseteq Job /\ \A j \in Readable(last) : j <= turns
        /\ \A j \in Job : m < j /\ j <= last => j \in Readable(last) \/ j \in withdrawn
    BY <1>1, <1>2, <2>1
  <2> QED
    BY Zenon, <2>2 DEF m
<1>4. x.pc = "page" /\ x.op = op /\ x.last = last /\ x.readable = Readable(last)
  BY Zenon
<1> HIDE DEF x
<1>5. PageRead(x)
  BY Zenon, <1>1, <1>3, <1>4 DEF PageRead
<1>6. call'[c] = x => Planned(c)'
  <2> SUFFICES ASSUME call'[c] = x PROVE Planned(c)'
    BY Zenon
  <2>1. PageRead(call[c])'
    BY Zenon, <1>1, <1>5 DEF PageRead
  <2> QED
    BY Zenon, <1>4, <2>1 DEF Planned
<1> QED
  BY Zenon, <1>1, <1>6, CallsOnly

(* The plan of a reconciliation remembers what it rests on. *)
LEMMA ReconcileKeeps ==
    ASSUME IInv, NEW c \in Caller, NEW bound \in BOOLEAN, Reconcile(c, bound)
    PROVE  IInv'
<1> DEFINE t == call[c]
           page == Learnable(t)
           new == {j \in page : jobs[j] = None}
           unlisted == {j \in page \ new : jobs[j].status \in Active
                                           /\ \A ref \in index.active : ref.job # j}
           after == [j \in page |-> IF j \in new THEN Pending(bound) ELSE jobs[j]]
           i == [index EXCEPT !.rev = @ + 1, !.cursor = t.last,
                              !.active = @ \cup {Ref(j, after[j]) : j \in new \cup unlisted}]
           x == [pc |-> "commit", op |-> t.op, job |-> None, plan |-> None,
                 read |-> [j \in page |-> jobs[j]], write |-> after,
                 sources |-> (new \cup {t.last}) \cap t.readable, seen |-> index, index |-> i]
<1>1. /\ t # Idle /\ t.pc = "page"
      /\ \/ call' = [call EXCEPT ![c] = Idle]
         \/ index.cursor < t.last /\ IndexValid(i) /\ call' = [call EXCEPT ![c] = x]
      /\ UNCHANGED <<jobs, index, memory, turns, withdrawn, now, held, acked>>
  BY Zenon DEF Reconcile
<1>2. PageRead(t)
  BY Zenon, <1>1 DEF IInv, Planned
<1>3. CASE call' = [call EXCEPT ![c] = Idle]
  BY Zenon, <1>1, <1>3, IdleKeeps
<1>4. CASE index.cursor < t.last /\ IndexValid(i) /\ call' = [call EXCEPT ![c] = x]
  <2>1. /\ page \subseteq Job /\ page \subseteq t.readable /\ \A j \in page : j <= turns
        /\ \A j \in Job : index.cursor < j /\ j <= t.last =>
               j \in page \/ j \in withdrawn \/ t.op = "reconcile_inactive"
    BY Zenon, <1>2 DEF PageRead, Learnable
  <2>2. Fresh(Pending(bound))
    BY Zenon, PendingOK DEF IInv
  <2>3. t.last \in 0..Turns /\ t.last <= turns /\ index.cursor <= t.last
    <3>1. index.cursor \in 0..Turns /\ t.last \in Job /\ t.last <= turns
      BY Zenon, <1>2 DEF PageRead, IInv, TypeOK
    <3> DEFINE m == index.cursor  n == t.last
    <3> HIDE DEF m, n
    <3>2. m \in 0..Turns /\ n \in Job /\ m < n
      BY Zenon, <1>4, <3>1 DEF m, n
    <3>3. n \in 0..Turns /\ m <= n
      BY <3>2, QueueAssumption
    <3> QED
      BY Zenon, <3>1, <3>3 DEF m, n
  <2> HIDE DEF page, t
  <2>4. /\ x.pc = "commit" /\ x.op = t.op /\ x.seen = index /\ x.index = i
        /\ DOMAIN x.read = page /\ DOMAIN x.write = page
        /\ \A j \in page : x.read[j] = jobs[j]
                           /\ x.write[j] = IF j \in new THEN Pending(bound) ELSE jobs[j]
        /\ \A j \in page : x.write[j] = after[j]
        /\ x.sources = (new \cup {t.last}) \cap t.readable
    BY Zenon
  <2> HIDE DEF x
  <2>5. New(x) = new
    BY <2>4 DEF New
  <2>6. Unlisted(x) = unlisted
    BY <2>4, <2>5 DEF Unlisted
  <2> DEFINE S1 == {Ref(j, x.write[j]) : j \in New(x) \cup Unlisted(x)}
             S2 == {Ref(j, after[j]) : j \in new \cup unlisted}
  <2>7. S1 = S2
    <3>1. new \cup unlisted \subseteq page
      OBVIOUS
    <3> HIDE DEF new, unlisted, after
    <3> QED
      BY <2>4, <2>5, <2>6, <3>1
  <2>8. PageIndex(x)
    <3> HIDE DEF S1
    <3>1. x.index = [x.seen EXCEPT !.rev = @ + 1, !.cursor = t.last, !.active = @ \cup S1]
      BY <2>4, <2>7
    <3> QED
      BY Zenon, <2>1, <2>3, <2>4, <3>1 DEF PageIndex, PagedTo, S1
  <2>9. New(x) \subseteq x.sources
    BY Zenon, <2>1, <2>4, <2>5
  <2>10. Paged(x)
    BY <2>1, <2>2, <2>4, <2>5, <2>8, <2>9 DEF Paged
  <2>11. call'[c] = x => Planned(c)'
    <3> SUFFICES ASSUME call'[c] = x PROVE Planned(c)'
      BY Zenon
    <3>1. Paged(call[c])'
      <4>1. turns' = turns /\ withdrawn' = withdrawn
        BY Zenon, <1>1
      <4>2. PageIndex(call[c])'
        BY Zenon, <2>8, <4>1 DEF PageIndex
      <4> QED
        BY Zenon, <2>10, <4>1, <4>2 DEF Paged
    <3>2. x.op \in Reconciling
      BY Zenon, <1>2, <2>4 DEF PageRead
    <3>3. IndexValid(x.index)
      BY Zenon, <1>4, <2>4
    <3> QED
      BY <2>4, <3>1, <3>2, <3>3 DEF Planned
  <2> QED
    BY Zenon, <1>1, <1>4, <2>11, CallsOnly
<1> QED
  BY Zenon, <1>1, <1>3, <1>4

---------------------------------------------------------------------------
(* The transaction. *)

Committing(c) == call[c] # Idle /\ call[c].pc = "commit" /\ Apply(call[c])

(* What it does to a job: the documents read are the current ones. *)
Changed(c, j) ==
    \/ jobs'[j] = jobs[j]
    \/ jobs[j] = None /\ Fresh(jobs'[j]) /\ j <= turns /\ j \notin withdrawn
    \/ /\ call[c].op \notin Reconciling \cup {"ensure"} /\ j = call[c].job
       /\ Transition(c, call[c].op, j, call[c].plan, jobs[j], jobs'[j])

(* A transaction changes no job but the ones its call planned. *)
LEMMA Changes ==
    ASSUME IInv, NEW c \in Caller, Committing(c)
    PROVE  \A j \in Job : Changed(c, j)
<1> DEFINE t == call[c]
<1>1. /\ t # Idle /\ t.pc = "commit" /\ \A j \in DOMAIN t.read : jobs[j] = t.read[j]
      /\ jobs' = [j \in Job |-> IF j \in DOMAIN t.write THEN t.write[j] ELSE jobs[j]]
      /\ \A j \in t.sources : j \notin withdrawn
  BY Zenon DEF Committing, Apply, Admitted, Unchanged
<1>2. CASE t.op \in Reconciling
  <2>1. Paged(t)
    BY <1>1, <1>2 DEF IInv, Planned
  <2> SUFFICES ASSUME NEW j \in Job PROVE Changed(c, j)
    OBVIOUS
  <2>2. CASE j \in DOMAIN t.read
    BY Zenon, <1>1, <2>1, <2>2 DEF Changed, Paged, New
  <2>3. CASE j \notin DOMAIN t.read
    BY Zenon, <1>1, <2>1, <2>3 DEF Changed, Paged
  <2> QED
    BY Zenon, <2>2, <2>3
<1>3. CASE t.op \notin Reconciling
  <2>1. OneJob(c, t) /\ (t.op = "ensure" => t.job \in t.sources)
    BY Zenon, <1>1, <1>3 DEF IInv, Planned
  <2> SUFFICES ASSUME NEW j \in Job PROVE Changed(c, j)
    OBVIOUS
  <2>2. CASE j = t.job
    <3>1. jobs'[j] = t.write[j] /\ jobs[j] = t.read[j]
      BY Zenon, <1>1, <2>1, <2>2 DEF OneJob
    <3>2. Transition(c, t.op, j, t.plan, jobs[j], jobs'[j])
      BY Zenon, <2>1, <2>2, <3>1 DEF OneJob
    <3>3. t.op = "ensure" => jobs[j] = None /\ Fresh(jobs'[j]) /\ j <= turns /\ j \notin withdrawn
      BY Zenon, <1>1, <2>1, <2>2, <3>2 DEF Transition
    <3> QED
      BY Zenon, <1>3, <2>2, <3>2, <3>3 DEF Changed
  <2>3. CASE j # t.job
    BY Zenon, <1>1, <2>1, <2>3 DEF Changed, OneJob
  <2> QED
    BY Zenon, <2>2, <2>3
<1> QED
  BY Zenon, <1>2, <1>3

(* Documents stay well-formed, none disappears, no epoch goes back. *)
LEMMA JobsAfter ==
    ASSUME IInv, NEW c \in Caller, Committing(c)
    PROVE  \A j \in Job : /\ jobs'[j] # None => JobOK(jobs'[j])
                          /\ jobs[j] # None => jobs'[j] # None /\ jobs[j].epoch <= jobs'[j].epoch
<1> SUFFICES ASSUME NEW j \in Job
             PROVE  /\ jobs'[j] # None => JobOK(jobs'[j])
                    /\ jobs[j] # None => jobs'[j] # None /\ jobs[j].epoch <= jobs'[j].epoch
  OBVIOUS
<1>1. Changed(c, j)
  BY Zenon, Changes
<1>2. jobs[j] # None => JobOK(jobs[j]) /\ jobs[j].epoch \in Nat
  BY Zenon, JobFields DEF IInv, TypeOK, JobOK
<1>3. CASE jobs'[j] = jobs[j]
  BY <1>2, <1>3
<1>4. CASE jobs[j] = None /\ Fresh(jobs'[j])
  BY <1>4 DEF Fresh
<1>5. CASE Transition(c, call[c].op, j, call[c].plan, jobs[j], jobs'[j])
           /\ call[c].op # "ensure"
  BY Zenon, <1>5, JobFields DEF Transition
<1> QED
  BY Zenon, <1>1, <1>3, <1>4, <1>5 DEF Changed

(* Success is written by a completion alone, and over a job that had not ended. *)
LEMMA MemoryAfter ==
    ASSUME IInv, NEW c \in Caller, Committing(c)
    PROVE  /\ AppliedOnce' /\ memory' \in [Job -> Seq(Receipt)]
           /\ \A j \in Job : memory[j] # <<>> => memory'[j] = memory[j]
           /\ call[c].op = "complete" => memory'[call[c].job] =
                  <<[epoch |-> call[c].read[call[c].job].epoch, plan |-> call[c].plan]>>
<1> DEFINE t == call[c]
<1>1. /\ t # Idle /\ t.pc = "commit" /\ \A j \in DOMAIN t.read : jobs[j] = t.read[j]
      /\ jobs' = [j \in Job |-> IF j \in DOMAIN t.write THEN t.write[j] ELSE jobs[j]]
      /\ memory' = IF t.op = "complete"
                   THEN [memory EXCEPT ![t.job] = Append(@, t.write[t.job].receipt)]
                   ELSE memory
  BY Zenon DEF Committing, Apply, Admitted, Unchanged
<1>2. memory \in [Job -> Seq(Receipt)] /\ AppliedOnce
  BY DEF IInv, TypeOK
<1>3. ASSUME NEW j \in Job, ~(t.op = "complete" /\ j = t.job)
      PROVE  /\ (jobs'[j] # None /\ jobs'[j].status = "Succeeded")
                = (jobs[j] # None /\ jobs[j].status = "Succeeded")
             /\ jobs[j] # None /\ jobs[j].status = "Succeeded" => jobs'[j] = jobs[j]
  <2>1. Changed(c, j)
    BY Changes
  <2>2. CASE jobs'[j] = jobs[j]
    BY Zenon, <2>2
  <2>3. CASE jobs[j] = None /\ Fresh(jobs'[j])
    BY <2>3 DEF Fresh, Active, Blocked
  <2>4. CASE j = t.job /\ t.op # "ensure" /\ Transition(c, t.op, j, t.plan, jobs[j], jobs'[j])
    BY Zenon, <1>3, <2>4 DEF Transition, Active, Blocked
  <2> QED
    BY Zenon, <2>1, <2>2, <2>3, <2>4 DEF Changed
<1>4. CASE t.op # "complete"
  BY Zenon, <1>1, <1>2, <1>3, <1>4 DEF AppliedOnce
<1>5. CASE t.op = "complete"
  <2> DEFINE j == t.job  rec == t.write[j].receipt
  <2>1. OneJob(c, t) /\ j \in Job
    BY Zenon, <1>1, <1>5 DEF IInv, Planned, OneJob
  <2>2. /\ jobs'[j] = t.write[j] /\ jobs[j] = t.read[j]
        /\ Transition(c, "complete", j, t.plan, t.read[j], t.write[j])
    BY Zenon, <1>1, <1>5, <2>1 DEF OneJob
  <2>3. /\ jobs[j].status \in Active /\ jobs'[j].status = "Succeeded" /\ jobs'[j] # None
        /\ rec = [epoch |-> t.read[j].epoch, plan |-> t.plan] /\ rec \in Receipt
    BY Zenon, <2>2, JobFields DEF Transition
  <2>4. memory[j] = <<>>
    BY Zenon, <1>2, <2>1, <2>3 DEF AppliedOnce, Active, Blocked
  <2>5. memory' = [memory EXCEPT ![j] = <<rec>>]
    <3>1. Append(memory[j], rec) = <<rec>>
      BY <2>4, <2>3
    <3> QED
      BY Zenon, <1>1, <1>5, <3>1
  <2>6. memory'[j] = <<rec>> /\ \A k \in Job \ {j} : memory'[k] = memory[k]
    BY Zenon, <1>2, <2>1, <2>5
  <2>7. memory' \in [Job -> Seq(Receipt)]
    <3>1. <<rec>> \in Seq(Receipt)
      BY <2>3
    <3> QED
      BY Zenon, <1>2, <2>1, <2>5, <3>1
  <2>8. AppliedOnce'
    <3> SUFFICES ASSUME NEW k \in Job
                 PROVE  memory'[k] = IF jobs'[k] # None /\ jobs'[k].status = "Succeeded"
                                     THEN <<jobs'[k].receipt>> ELSE <<>>
      BY Zenon DEF AppliedOnce
    <3>1. CASE k = j
      BY Zenon, <3>1, <2>2, <2>3, <2>6
    <3>2. CASE k # j
      BY Zenon, <1>2, <1>3, <2>6, <3>2 DEF AppliedOnce
    <3> QED
      BY <3>1, <3>2
  <2>9. \A k \in Job : memory[k] # <<>> => memory'[k] = memory[k]
    BY Zenon, <2>4, <2>6
  <2> QED
    BY Zenon, <1>5, <2>3, <2>6, <2>7, <2>8, <2>9
<1> QED
  BY Zenon, <1>4, <1>5

(* The reference to a job is well typed. *)
LEMMA RefTypes ==
    ASSUME NEW j \in Job, NEW job, JobOK(job)
    PROVE  Ref(j, job) \in RefType /\ Ref(j, job).job = j
BY Zenon, JobFields DEF Ref, RefType

(* The three updates of the index. *)
Ending(i, a, b) == [i EXCEPT !.rev = @ + 1, !.active = a, !.terminal = b]
Listing(i, a) == [i EXCEPT !.rev = @ + 1, !.active = a]
Paging(i, last, a) == [i EXCEPT !.rev = @ + 1, !.cursor = last, !.active = a]

(* The index after a job ended. *)
LEMMA EndedRecord ==
    ASSUME NEW i \in IndexType, NEW a \in SUBSET RefType, NEW b \in SUBSET RefType
    PROVE  LET x == Ending(i, a, b) IN x \in IndexType /\ x.active = a /\ x.terminal = b /\ x.cursor = i.cursor
<1> DEFINE x == Ending(i, a, b)
<1>0. x = [i EXCEPT !.rev = @ + 1, !.active = a, !.terminal = b]
  BY DEF Ending
<1> HIDE DEF x
<1>1. i.rev + 1 \in Nat /\ i.active \in SUBSET RefType /\ i.terminal \in SUBSET RefType
      /\ i.cursor \in 0..Turns
  BY DEF IndexType
<1>2. x = [rev |-> i.rev + 1, active |-> a, terminal |-> b,
           cursor |-> i.cursor]
  BY Zenon, <1>0 DEF IndexType
<1>3. x \in IndexType
  BY Zenon, <1>1, <1>2 DEF IndexType
<1>4. x.active = a /\ x.terminal = b /\ x.cursor = i.cursor
  BY Zenon, <1>2
<1> QED
  BY <1>3, <1>4 DEF x

(* The index after a job was listed anew. *)
LEMMA ActiveRecord ==
    ASSUME NEW i \in IndexType, NEW a \in SUBSET RefType
    PROVE  LET x == Listing(i, a) IN x \in IndexType /\ x.active = a /\ x.terminal = i.terminal /\ x.cursor = i.cursor
<1> DEFINE x == Listing(i, a)
<1>0. x = [i EXCEPT !.rev = @ + 1, !.active = a]
  BY DEF Listing
<1> HIDE DEF x
<1>1. i.rev + 1 \in Nat /\ i.active \in SUBSET RefType /\ i.terminal \in SUBSET RefType
      /\ i.cursor \in 0..Turns
  BY DEF IndexType
<1>2. x = [rev |-> i.rev + 1, active |-> a, terminal |-> i.terminal,
           cursor |-> i.cursor]
  BY Zenon, <1>0 DEF IndexType
<1>3. x \in IndexType
  BY Zenon, <1>1, <1>2 DEF IndexType
<1>4. x.active = a /\ x.terminal = i.terminal /\ x.cursor = i.cursor
  BY Zenon, <1>2
<1> QED
  BY <1>3, <1>4 DEF x

(* The index after a reconciled page. *)
LEMMA PageRecord ==
    ASSUME NEW i \in IndexType, NEW a \in SUBSET RefType, NEW last \in 0..Turns
    PROVE  LET x == Paging(i, last, a) IN x \in IndexType /\ x.active = a /\ x.terminal = i.terminal /\ x.cursor = last
<1> DEFINE x == Paging(i, last, a)
<1>0. x = [i EXCEPT !.rev = @ + 1, !.cursor = last, !.active = a]
  BY DEF Paging
<1> HIDE DEF x
<1>1. i.rev + 1 \in Nat /\ i.active \in SUBSET RefType /\ i.terminal \in SUBSET RefType
      /\ i.cursor \in 0..Turns
  BY DEF IndexType
<1>2. x = [rev |-> i.rev + 1, active |-> a, terminal |-> i.terminal,
           cursor |-> last]
  BY Zenon, <1>0 DEF IndexType
<1>3. x \in IndexType
  BY Zenon, <1>1, <1>2 DEF IndexType
<1>4. x.active = a /\ x.terminal = i.terminal /\ x.cursor = last
  BY Zenon, <1>2
<1> QED
  BY <1>3, <1>4 DEF x

ActiveJobs == {k \in Job : jobs[k] # None /\ jobs[k].status \in Active}
EndedJobs == {k \in Job : jobs[k] # None /\ jobs[k].status \in Terminal}
RefsOf(S) == {Ref(j, jobs[j]) : j \in S}

(* The index after an operation on one job. *)
LEMMA IndexAfterOne ==
    ASSUME IInv, NEW j \in Job, NEW w, JobOK(w),
           jobs' = [jobs EXCEPT ![j] = w],
           jobs[j] # None => jobs[j].status \in Active,
           index' = IndexAfter(index, j, w)
    PROVE  IndexAgrees' /\ index' \in IndexType /\ index'.cursor = index.cursor
           /\ index'.terminal = IF w.status \in Terminal
                                THEN index.terminal \cup {Ref(j, w)} ELSE index.terminal
<1> DEFINE others == {ref \in index.active : ref.job # j}
<1>1. /\ index \in IndexType /\ index.active = RefsOf(ActiveJobs)
      /\ index.terminal = RefsOf(EndedJobs)
  BY Zenon DEF IInv, TypeOK, IndexType, IndexAgrees, RefsOf, ActiveJobs, EndedJobs
<1>2. w # None /\ w.status \in Active \cup Terminal /\ Active \cap Terminal = {}
      /\ Ref(j, w) \in RefType
  BY Zenon, JobFields, RefTypes DEF Active, Blocked, Terminal
<1>3. jobs'[j] = w /\ \A k \in Job \ {j} : jobs'[k] = jobs[k]
  BY Zenon DEF IInv, Shape
<1>4. others = RefsOf(ActiveJobs \ {j})
  BY <1>1, SMTT(30) DEF RefsOf, Ref, ActiveJobs
<1>5. EndedJobs' = EndedJobs \cup (IF w.status \in Terminal THEN {j} ELSE {})
      /\ ActiveJobs' = (ActiveJobs \ {j}) \cup (IF w.status \in Terminal THEN {} ELSE {j})
      /\ j \notin EndedJobs
  BY Zenon, <1>2, <1>3 DEF EndedJobs, ActiveJobs
<1>6. \A S \in SUBSET (Job \ {j}) : {Ref(k, jobs'[k]) : k \in S} = RefsOf(S)
      /\ {Ref(k, jobs'[k]) : k \in S \cup {j}} = RefsOf(S) \cup {Ref(j, w)}
  BY Zenon, <1>3 DEF RefsOf
<1>7. EndedJobs \in SUBSET (Job \ {j}) /\ ActiveJobs \ {j} \in SUBSET (Job \ {j})
  BY Zenon, <1>5 DEF EndedJobs, ActiveJobs
<1>8. CASE w.status \in Terminal
  <2>1. /\ index'.active = others /\ index'.terminal = index.terminal \cup {Ref(j, w)}
        /\ index'.cursor = index.cursor /\ index' \in IndexType
    <3>1. index' = Ending(index, others, index.terminal \cup {Ref(j, w)})
      BY Zenon, <1>1, <1>8 DEF IndexAfter, Ending
    <3>2. others \in SUBSET RefType /\ index.terminal \cup {Ref(j, w)} \in SUBSET RefType
      BY Zenon, <1>1, <1>2 DEF IndexType
    <3> HIDE DEF others
    <3> QED
      BY <1>1, <3>1, <3>2, EndedRecord, SMTT(30)
  <2>2. index'.active = RefsOf(ActiveJobs)'
    BY <1>4, <1>5, <1>6, <1>7, <1>8, <2>1 DEF RefsOf
  <2>3. index'.terminal = RefsOf(EndedJobs)'
    BY Zenon, <1>1, <1>5, <1>6, <1>7, <1>8, <2>1 DEF RefsOf
  <2> QED
    BY Zenon, <1>8, <2>1, <2>2, <2>3 DEF IndexAgrees, RefsOf, ActiveJobs, EndedJobs
<1>9. CASE w.status \notin Terminal
  <2>1. /\ index'.active = others \cup {Ref(j, w)} /\ index'.terminal = index.terminal
        /\ index'.cursor = index.cursor /\ index' \in IndexType
    <3>1. index' = Listing(index, others \cup {Ref(j, w)})
      BY Zenon, <1>1, <1>9 DEF IndexAfter, Listing
    <3>2. others \cup {Ref(j, w)} \in SUBSET RefType
      BY <1>1, <1>2 DEF IndexType
    <3> HIDE DEF others
    <3> QED
      BY <1>1, <3>1, <3>2, ActiveRecord, SMTT(30)
  <2>2. index'.active = RefsOf(ActiveJobs)'
    BY Zenon, <1>4, <1>5, <1>6, <1>7, <1>9, <2>1 DEF RefsOf
  <2>3. index'.terminal = RefsOf(EndedJobs)'
    BY Zenon, <1>1, <1>5, <1>6, <1>7, <1>9, <2>1 DEF RefsOf
  <2> QED
    BY Zenon, <1>9, <2>1, <2>2, <2>3 DEF IndexAgrees, RefsOf, ActiveJobs, EndedJobs
<1> QED
  BY Zenon, <1>8, <1>9

(* The index after a reconciliation: no listed job was missed. *)
LEMMA IndexAfterPage ==
    ASSUME IInv, NEW t, Paged(t), index = t.seen, index' = t.index,
           \A j \in DOMAIN t.read : jobs[j] = t.read[j],
           jobs' = [j \in Job |-> IF j \in DOMAIN t.write THEN t.write[j] ELSE jobs[j]]
    PROVE  /\ IndexAgrees' /\ index' \in IndexType /\ index'.terminal = index.terminal
           /\ \A j \in Job : index'.cursor < j => index.cursor < j
           /\ \A j \in Job : index.cursor < j /\ j <= index'.cursor =>
                  j <= turns /\ (jobs'[j] # None \/ j \in withdrawn \/ t.op = "reconcile_inactive")
<1>1. /\ index \in IndexType /\ index.active = RefsOf(ActiveJobs)
      /\ index.terminal = RefsOf(EndedJobs)
  BY Zenon DEF IInv, TypeOK, IndexType, IndexAgrees, RefsOf, ActiveJobs, EndedJobs
<1>2. New(t) \subseteq Job /\ \A j \in New(t) : jobs[j] = None /\ Fresh(t.write[j])
  BY Zenon DEF Paged, New
<1>3. Unlisted(t) = {}
  <2> SUFFICES ASSUME NEW j \in Unlisted(t) PROVE FALSE
    OBVIOUS
  <2>1. j \in Job /\ jobs[j] # None /\ jobs[j].status \in Active
        /\ \A ref \in index.active : ref.job # j
    BY Zenon DEF Unlisted, New, Paged
  <2>2. Ref(j, jobs[j]) \in index.active /\ Ref(j, jobs[j]).job = j
    BY Zenon, <1>1, <2>1 DEF RefsOf, ActiveJobs, Ref
  <2> QED
    BY Zenon, <2>1, <2>2
<1> DEFINE add == {Ref(j, t.write[j]) : j \in New(t)}
<1>4. PICK last \in 0..Turns :
          /\ index' = [index EXCEPT !.rev = @ + 1, !.cursor = last, !.active = @ \cup add]
          /\ last <= turns /\ index.cursor <= last
          /\ \A j \in Job : index.cursor < j /\ j <= last =>
                 j \in DOMAIN t.read \/ j \in withdrawn \/ t.op = "reconcile_inactive"
  <2>1. PageIndex(t)
    BY Zenon DEF Paged
  <2>2. {Ref(j, t.write[j]) : j \in New(t) \cup Unlisted(t)} = add
    BY Zenon, <1>3
  <2> HIDE DEF add
  <2> QED
    BY Zenon, <2>1, <2>2 DEF PageIndex, PagedTo
<1>5. add \subseteq RefType
  BY <1>2, RefTypes DEF Fresh
<1>6. \A j \in Job : jobs'[j] = IF j \in New(t) THEN t.write[j] ELSE jobs[j]
  BY Zenon DEF Paged, New
<1>7. \A j \in New(t) : jobs'[j] # None /\ jobs'[j].status \in Active
                        /\ jobs'[j].status \notin Terminal
  BY Zenon, <1>2, <1>6, JobFields DEF Fresh, Active, Blocked, Terminal
<1> HIDE DEF add
<1>8. /\ index'.active = index.active \cup add /\ index'.terminal = index.terminal
      /\ index'.cursor = last /\ index' \in IndexType
  <2>1. index.active \cup add \in SUBSET RefType
    BY <1>1, <1>5 DEF IndexType
  <2>2. index' = Paging(index, last, index.active \cup add)
    BY Zenon, <1>4 DEF Paging
  <2> QED
    BY <1>1, <2>1, <2>2, PageRecord, SMTT(30)
<1>9. /\ EndedJobs' = EndedJobs /\ ActiveJobs' = ActiveJobs \cup New(t)
      /\ EndedJobs \cap New(t) = {} /\ ActiveJobs \cap New(t) = {}
  BY Zenon, <1>2, <1>6, <1>7 DEF EndedJobs, ActiveJobs
<1>10. \A S \in SUBSET (Job \ New(t)) : {Ref(k, jobs'[k]) : k \in S} = RefsOf(S)
       /\ {Ref(k, jobs'[k]) : k \in S \cup New(t)} = RefsOf(S) \cup add
  BY Zenon, <1>2, <1>6 DEF RefsOf, add
<1>11. EndedJobs \in SUBSET (Job \ New(t)) /\ ActiveJobs \in SUBSET (Job \ New(t))
  BY <1>9 DEF EndedJobs, ActiveJobs
<1>12. IndexAgrees'
  <2>2. index'.active = RefsOf(ActiveJobs)'
    BY Zenon, <1>1, <1>8, <1>9, <1>10, <1>11 DEF RefsOf
  <2>3. index'.terminal = RefsOf(EndedJobs)'
    BY Zenon, <1>1, <1>8, <1>9, <1>10, <1>11 DEF RefsOf
  <2> QED
    BY <2>2, <2>3 DEF IndexAgrees, RefsOf, ActiveJobs, EndedJobs
<1>13. \A j \in Job : last < j => index.cursor < j
  <2> DEFINE m == index.cursor
  <2> HIDE DEF m
  <2>1. m \in 0..Turns /\ m <= last
    BY Zenon, <1>1, <1>4 DEF IndexType, m
  <2>2. \A j \in Job : last < j => m < j
    BY <2>1, QueueAssumption
  <2> QED
    BY Zenon, <2>2 DEF m
<1>14. ASSUME NEW j \in Job, index.cursor < j, j <= last
       PROVE  j <= turns /\ (jobs'[j] # None \/ j \in withdrawn \/ t.op = "reconcile_inactive")
  <2>1. turns \in Nat /\ last \in 0..Turns /\ last <= turns
    BY Zenon, <1>4, Clocks
  <2>2. j <= turns
    BY <1>14, <2>1, QueueAssumption
  <2>3. j \in DOMAIN t.read => jobs'[j] # None
    BY Zenon, <1>6, <1>7 DEF New
  <2> QED
    BY Zenon, <1>4, <1>14, <2>2, <2>3
<1> QED
  BY Zenon, <1>8, <1>12, <1>13, <1>14

FST == INSTANCE FiniteSetTheorems

(* The library counts as the model does. *)
LEMMA SameCount == \A S : Cardinality(S) = FST!Cardinality(S) /\ (IsFiniteSet(S) <=> FST!IsFiniteSet(S))
BY Zenon DEF Cardinality, FST!Cardinality, IsFiniteSet, FST!IsFiniteSet

(* The retained jobs are finitely many. *)
LEMMA FinitelyMany ==
    ASSUME IInv
    PROVE  IsFiniteSet(index.terminal) /\ Cardinality(index.terminal) \in Nat
<1>1. IsFiniteSet(Job)
  BY FST!FS_Interval, QueueAssumption, SameCount
<1>2. IsFiniteSet(EndedJobs)
  BY Zenon, <1>1, FST!FS_Subset, SameCount DEF EndedJobs
<1>3. index.terminal = {Ref(j, jobs[j]) : j \in EndedJobs}
  BY Zenon DEF IInv, IndexAgrees, EndedJobs
<1>4. IsFiniteSet(index.terminal)
  <2> DEFINE f == [j \in EndedJobs |-> Ref(j, jobs[j])]
  <2>1. f \in FST!Surjection(EndedJobs, index.terminal)
    BY Zenon, <1>3 DEF FST!Surjection
  <2> QED
    BY Zenon, <1>2, <2>1, FST!FS_Surjection, SameCount
<1> QED
  BY Zenon, <1>4, FST!FS_CardinalityType, SameCount

(* The turns that the cursor passes in a transaction of the caller. *)
Covered(c) ==
    \A j \in Job : index.cursor < j /\ j <= index'.cursor =>
        j <= turns /\ (jobs'[j] # None \/ j \in withdrawn \/ call[c].op = "reconcile_inactive")

(* The scope index after a transaction. *)
LEMMA IndexCommitted ==
    ASSUME IInv, NEW c \in Caller, Committing(c)
    PROVE  /\ IndexAgrees' /\ index' \in IndexType /\ WithinRetention' /\ Covered(c)
           /\ \A j \in Job : index'.cursor < j => index.cursor < j
<1> DEFINE t == call[c]
<1>1. /\ t # Idle /\ t.pc = "commit" /\ \A j \in DOMAIN t.read : jobs[j] = t.read[j]
      /\ index = t.seen /\ index' = t.index /\ turns' = turns
      /\ jobs' = [j \in Job |-> IF j \in DOMAIN t.write THEN t.write[j] ELSE jobs[j]]
  BY DEF Committing, Apply, Admitted, Unchanged
<1>2. Cardinality(index'.active) <= MaxActive
  BY Zenon, <1>1 DEF IInv, Planned, IndexValid
<1>3. Cardinality(index.terminal) <= MaxTerminal /\ MaxTerminal \in Nat
  BY Zenon, QueueAssumption DEF IInv, WithinRetention
<1>4. CASE t.op \in Reconciling
  <2>1. Paged(t)
    BY Zenon, <1>1, <1>4 DEF IInv, Planned
  <2>2. /\ IndexAgrees' /\ index' \in IndexType /\ index'.terminal = index.terminal
        /\ \A j \in Job : index'.cursor < j => index.cursor < j
        /\ \A j \in Job : index.cursor < j /\ j <= index'.cursor =>
               j <= turns /\ (jobs'[j] # None \/ j \in withdrawn \/ t.op = "reconcile_inactive")
    BY Zenon, <1>1, <2>1, IndexAfterPage
  <2> QED
    BY Zenon, <1>1, <1>2, <1>3, <2>2 DEF Covered, WithinRetention
<1>5. CASE t.op \notin Reconciling
  <2> DEFINE j == t.job  w == t.write[j]
  <2>1. OneJob(c, t) /\ OneIndex(t)
    BY Zenon, <1>1, <1>5 DEF IInv, Planned
  <2>2. j \in Job /\ JobOK(w) /\ jobs' = [jobs EXCEPT ![j] = w]
    BY Zenon, <1>1, <2>1 DEF OneJob, Transition, IInv, Shape
  <2>3. jobs[j] # None => jobs[j].status \in Active
    BY Zenon, <1>1, <2>1 DEF OneJob, Transition
  <2>4. index' = IndexAfter(index, j, w) /\ Retains(index, j, w)
    BY <1>1, <2>1 DEF OneIndex
  <2>5. /\ IndexAgrees' /\ index' \in IndexType /\ index'.cursor = index.cursor
        /\ index'.terminal = IF w.status \in Terminal
                             THEN index.terminal \cup {Ref(j, w)} ELSE index.terminal
    <3> HIDE DEF j, w
    <3> QED
      BY Zenon, <2>2, <2>3, <2>4, IndexAfterOne
  <2>6. Covered(c)
    <3>1. index'.cursor = index.cursor /\ index.cursor \in 0..Turns
      BY Zenon, <2>5 DEF IInv, TypeOK
    <3>2. \A m \in 0..Turns, k \in Job : ~(m < k /\ k <= m)
      BY QueueAssumption
    <3> QED
      BY Zenon, <3>1, <3>2 DEF Covered
  <2>7. Cardinality(index'.terminal) <= MaxTerminal
    <3>1. CASE w.status \notin Terminal
      BY Zenon, <1>3, <2>5, <3>1
    <3>2. CASE w.status \in Terminal
      <4>1. Cardinality(index.terminal) < MaxTerminal
        BY Zenon, <2>4, <3>2 DEF Retains
      <4>2. index'.terminal = index.terminal \cup {Ref(j, w)}
        BY Zenon, <2>5, <3>2
      <4>3. Cardinality(index.terminal \cup {Ref(j, w)})
                \in {Cardinality(index.terminal), Cardinality(index.terminal) + 1}
        BY FinitelyMany, FST!FS_AddElement, SameCount
      <4> HIDE DEF j, w
      <4> QED
        BY <1>3, <4>1, <4>2, <4>3, FinitelyMany
    <3> QED
      BY Zenon, <3>1, <3>2
  <2> QED
    BY Zenon, <1>2, <2>5, <2>6, <2>7 DEF WithinRetention
<1> QED
  BY Zenon, <1>4, <1>5

(* What both outcomes of a transaction leave behind. *)
LEMMA Committed ==
    ASSUME IInv, NEW c \in Caller, Committing(c)
    PROVE  /\ TypeOK' /\ IndexAgrees' /\ AppliedOnce' /\ WithinRetention'
           /\ withdrawn \subseteq withdrawn'
           /\ turns' = turns /\ now' = now /\ jobs' = [j \in Job |-> jobs'[j]]
           /\ \A a \in acked : memory'[a.job] = <<[epoch |-> a.epoch, plan |-> a.plan]>>
           /\ \A h \in [job : Job, epoch : Nat] :
                 jobs[h.job] # None /\ h.epoch <= jobs[h.job].epoch
                 => jobs'[h.job] # None /\ h.epoch <= jobs'[h.job].epoch
<1>1. /\ turns' = turns /\ now' = now
      /\ jobs' = [j \in Job |-> IF j \in DOMAIN call[c].write THEN call[c].write[j] ELSE jobs[j]]
  BY Zenon DEF Committing, Apply
<1>0. withdrawn \subseteq withdrawn' /\ withdrawn' \subseteq Job
  <2>1. /\ call[c] # Idle /\ call[c].pc = "commit"
        /\ withdrawn' = IF call[c].op = "withdraw" THEN withdrawn \cup {call[c].job} ELSE withdrawn
    BY Zenon DEF Committing, Apply
  <2>2. call[c].op = "withdraw" => call[c].job \in Job
    BY Zenon, <2>1 DEF IInv, Planned, OneJob
  <2>3. withdrawn \subseteq Job
    BY Zenon DEF IInv, TypeOK
  <2> QED
    BY Zenon, <2>1, <2>2, <2>3
<1>2. TypeOK'
  BY Zenon, <1>0, <1>1, JobsAfter, IndexCommitted, MemoryAfter DEF IInv, TypeOK, IndexType, JobOK
<1>3. ASSUME NEW a \in acked
      PROVE  memory'[a.job] = <<[epoch |-> a.epoch, plan |-> a.plan]>>
  <2>1. memory[a.job] = <<[epoch |-> a.epoch, plan |-> a.plan]>>
    BY Zenon DEF IInv, AcksAreApplied
  <2>2. memory[a.job] # <<>> /\ a.job \in Job
    BY <2>1 DEF IInv, Shape
  <2>3. memory'[a.job] = memory[a.job]
    BY Zenon, <2>2, MemoryAfter
  <2> QED
    BY Zenon, <2>1, <2>3
<1>4. ASSUME NEW h \in [job : Job, epoch : Nat],
             jobs[h.job] # None, h.epoch <= jobs[h.job].epoch
      PROVE  jobs'[h.job] # None /\ h.epoch <= jobs'[h.job].epoch
  <2>1. h.job \in Job /\ h.epoch \in Nat
    BY Zenon
  <2>2. JobOK(jobs[h.job]) /\ jobs'[h.job] # None /\ JobOK(jobs'[h.job])
        /\ jobs[h.job].epoch <= jobs'[h.job].epoch
    BY Zenon, <1>4, <2>1, JobsAfter DEF IInv, TypeOK, JobOK
  <2>3. jobs[h.job].epoch \in Nat /\ jobs'[h.job].epoch \in Nat
    BY <2>2, JobFields
  <2> QED
    BY <1>4, <2>1, <2>2, <2>3
<1> QED
  BY Zenon, <1>0, <1>1, <1>2, <1>3, <1>4, IndexCommitted, MemoryAfter

(* The other calls are not disturbed. *)
LEMMA OthersPlanned ==
    ASSUME IInv, NEW c \in Caller, Committing(c), NEW d \in Caller,
           call'[d] = call[d], held'[d] = held[d]
    PROVE  Planned(d)'
<1>1. turns' = turns /\ now' = now /\ withdrawn \subseteq withdrawn'
  BY Zenon, Committed
<1>2. /\ \A j \in Job : jobs[j] # None => jobs'[j] # None
      /\ \A j \in Job : index'.cursor < j => index.cursor < j
  BY Zenon, JobsAfter, IndexCommitted
<1>3. Planned(d) /\ turns \in Nat /\ now \in Nat
  BY Zenon, Clocks DEF IInv
<1>4. turns' \in Nat /\ now' \in Nat /\ turns <= turns' /\ now <= now'
  BY <1>1, <1>3
<1> QED
  BY Zenon, <1>1, <1>2, <1>3, <1>4, PlannedStable

(* A commit that is reported keeps the invariant: a claim's epoch is new. *)
LEMMA CommitKeeps ==
    ASSUME IInv, NEW c \in Caller, Commit(c)
    PROVE  IInv'
<1> DEFINE t == call[c]  j == t.job  lease == [job |-> j, epoch |-> t.write[j].epoch]
<1>1. /\ Committing(c) /\ call' = [call EXCEPT ![c] = Idle]
      /\ held' = IF t.op = "claim" THEN [held EXCEPT ![c] = lease] ELSE held
      /\ acked' = IF t.op = "complete" THEN acked \cup {Completion(t)} ELSE acked
  BY DEF Commit, Committing
<1>2. /\ t # Idle /\ t.pc = "commit" /\ \A k \in DOMAIN t.read : jobs[k] = t.read[k]
      /\ jobs' = [k \in Job |-> IF k \in DOMAIN t.write THEN t.write[k] ELSE jobs[k]]
  BY Zenon, <1>1 DEF Committing, Apply, Admitted, Unchanged
<1>3. /\ TypeOK' /\ IndexAgrees' /\ AppliedOnce' /\ WithinRetention'
      /\ jobs' = [k \in Job |-> jobs'[k]]
      /\ \A a \in acked : memory'[a.job] = <<[epoch |-> a.epoch, plan |-> a.plan]>>
  BY Zenon, <1>1, Committed
<1>4. \A h \in [job : Job, epoch : Nat] :
          jobs[h.job] # None /\ h.epoch <= jobs[h.job].epoch
          => jobs'[h.job] # None /\ h.epoch <= jobs'[h.job].epoch
  BY Zenon, <1>1, Committed
<1>5. call'[c] = Idle /\ \A d \in Caller \ {c} : call'[d] = call[d] /\ held'[d] = held[d]
  BY Zenon, <1>1 DEF IInv, Shape
<1>6. \A d \in Caller : Planned(d)'
  <2>1. Planned(c)'
    BY Zenon, <1>5 DEF Planned
  <2> QED
    BY <1>1, <1>5, <2>1, OthersPlanned
<1>7. ASSUME t.op = "complete"
      PROVE  /\ Completion(t).job \in Job
             /\ memory'[Completion(t).job] =
                    <<[epoch |-> Completion(t).epoch, plan |-> Completion(t).plan]>>
  <2>1. j \in Job
    BY Zenon, <1>2, <1>7 DEF IInv, Planned, OneJob
  <2>2. Completion(t).job = j /\ Completion(t).epoch = t.read[j].epoch
        /\ Completion(t).plan = t.plan
    BY DEF Completion
  <2>3. memory'[j] = <<[epoch |-> t.read[j].epoch, plan |-> t.plan]>>
    BY Zenon, <1>1, <1>7, MemoryAfter
  <2> QED
    BY Zenon, <2>1, <2>2, <2>3
<1>8. AcksAreApplied' /\ \A a \in acked' : a.job \in Job
  <2>1. ASSUME NEW a \in acked'
        PROVE  a.job \in Job /\ memory'[a.job] = <<[epoch |-> a.epoch, plan |-> a.plan]>>
    <3>1. CASE a \in acked
      BY Zenon, <1>3, <3>1 DEF IInv, Shape
    <3>2. CASE t.op = "complete" /\ a = Completion(t)
      BY <1>7, <3>2
    <3> QED
      BY Zenon, <1>1, <3>1, <3>2
  <2> QED
    BY Zenon, <2>1 DEF AcksAreApplied
<1>9. Shape'
  BY Zenon, <1>1, <1>3, <1>8 DEF IInv, Shape
<1>10. ASSUME t.op = "claim"
       PROVE  /\ held'[c] = lease /\ lease \in [job : Job, epoch : Nat]
              /\ jobs'[j] # None /\ jobs'[j].epoch = lease.epoch
              /\ jobs[j] # None /\ lease.epoch = jobs[j].epoch + 1 /\ jobs[j].epoch \in Nat
  <2>1. OneJob(c, t)
    BY Zenon, <1>2, <1>10 DEF IInv, Planned
  <2>2. /\ j \in Job /\ jobs'[j] = t.write[j] /\ jobs[j] = t.read[j]
        /\ JobOK(t.write[j]) /\ JobOK(t.read[j]) /\ t.write[j].epoch = t.read[j].epoch + 1
    BY Zenon, <1>2, <1>10, <2>1 DEF OneJob, Transition
  <2>3. held'[c] = lease
    BY <1>1, <1>10 DEF IInv, Shape
  <2> QED
    BY Zenon, <2>2, <2>3, JobFields
<1>11. HeldOK'
  <2> SUFFICES ASSUME NEW d \in Caller, held'[d] # None
               PROVE  /\ held'[d] \in [job : Job, epoch : Nat]
                      /\ jobs'[held'[d].job] # None /\ held'[d].epoch <= jobs'[held'[d].job].epoch
    BY Zenon DEF HeldOK
  <2>1. CASE held'[d] = held[d]
    BY <1>4, <2>1 DEF IInv, HeldOK
  <2>2. CASE t.op = "claim" /\ d = c
    <3>1. /\ held'[d] = lease /\ lease \in [job : Job, epoch : Nat] /\ lease.job = j
          /\ jobs'[j] # None /\ jobs'[j].epoch = lease.epoch
      BY Zenon, <1>10, <2>2
    <3>2. lease.epoch \in Nat
      BY Zenon, <3>1
    <3>3. \A n \in Nat : n <= n
      OBVIOUS
    <3> QED
      BY Zenon, <3>1, <3>2, <3>3
  <2> QED
    BY Zenon, <1>1, <1>5, <2>1, <2>2
<1>12. LeasesAreDistinct'
  <2>1. ASSUME t.op = "claim", NEW d \in Caller \ {c}, held[d] # None
        PROVE  held[d] # lease
    <3>1. held[d] \in [job : Job, epoch : Nat] /\ held[d].epoch <= jobs[held[d].job].epoch
      BY Zenon, <2>1 DEF IInv, HeldOK
    <3>2. lease.job = j /\ jobs[j].epoch \in Nat /\ lease.epoch = jobs[j].epoch + 1
      BY Zenon, <1>10, <2>1
    <3>3. held[d].job = j => held[d].epoch <= jobs[j].epoch /\ held[d].epoch \in Nat
      BY Zenon, <3>1
    <3> HIDE DEF lease
    <3> QED
      BY <3>2, <3>3
  <2> SUFFICES ASSUME NEW d \in Caller, NEW e \in Caller, held'[d] # None, held'[d] = held'[e]
               PROVE  d = e
    BY Zenon DEF LeasesAreDistinct
  <2>2. CASE t.op # "claim"
    <3>1. held' = held /\ LeasesAreDistinct
      BY Zenon, <1>1, <2>2 DEF IInv
    <3> QED
      BY <3>1 DEF LeasesAreDistinct
  <2>3. CASE t.op = "claim"
    <3>1. held'[c] = lease /\ LeasesAreDistinct
      BY Zenon, <1>10, <2>3 DEF IInv
    <3> HIDE DEF lease
    <3> QED
      BY <1>5, <3>1, <2>1, <2>3 DEF LeasesAreDistinct
  <2> QED
    BY Zenon, <2>2, <2>3
<1> QED
  BY Zenon, <1>3, <1>6, <1>8, <1>9, <1>11, <1>12 DEF IInv

(* So does a commit whose caller is told of an error. *)
LEMMA UnreportedKeeps ==
    ASSUME IInv, NEW c \in Caller, CommitUnreported(c)
    PROVE  IInv'
<1> DEFINE t == call[c]  x == [t EXCEPT !.pc = "reread"]
<1>1. Committing(c) /\ Failed(c) /\ held' = held /\ acked' = acked /\ t # Idle /\ t.pc = "commit"
  BY DEF CommitUnreported, Committing
<1>2. call' = [call EXCEPT ![c] = IF t.op = "complete" THEN x ELSE Idle]
  BY Zenon, <1>1 DEF Failed
<1>3. /\ TypeOK' /\ IndexAgrees' /\ AppliedOnce' /\ WithinRetention'
      /\ turns' = turns /\ now' = now
      /\ jobs' = [k \in Job |-> jobs'[k]]
      /\ \A a \in acked : memory'[a.job] = <<[epoch |-> a.epoch, plan |-> a.plan]>>
  BY Zenon, <1>1, Committed
<1>4. \A h \in [job : Job, epoch : Nat] :
          jobs[h.job] # None /\ h.epoch <= jobs[h.job].epoch
          => jobs'[h.job] # None /\ h.epoch <= jobs'[h.job].epoch
  BY Zenon, <1>1, Committed
<1>5. AcksAreApplied' /\ LeasesAreDistinct'
  BY Zenon, <1>1, <1>3 DEF IInv, AcksAreApplied, LeasesAreDistinct
<1>6. HeldOK'
  BY Zenon, <1>1, <1>4 DEF IInv, HeldOK
<1>7. Shape' /\ \A d \in Caller \ {c} : call'[d] = call[d]
  BY Zenon, <1>1, <1>2, <1>3 DEF IInv, Shape
<1>8. Planned(c)'
  <2>1. CASE t.op # "complete"
    BY <1>2, <2>1 DEF IInv, Shape, Planned
  <2>2. CASE t.op = "complete"
    <3>1. call'[c] = x
      BY Zenon, <1>2, <2>2 DEF IInv, Shape
    <3>2. /\ x.pc = "reread" /\ x.op = t.op /\ x.job = t.job /\ x.plan = t.plan
          /\ x.read = t.read /\ x.write = t.write
      OBVIOUS
    <3> HIDE DEF x
    <3>3. OneJob(c, t) /\ jobs[t.job] # None /\ t.job \in Job
      BY Zenon, <1>1, <2>2 DEF IInv, Planned, OneJob
    <3>4. jobs'[t.job] # None
      BY Zenon, <1>1, <3>3, JobsAfter
    <3>5. OneJob(c, call[c])'
      BY <1>1, <1>3, <3>1, <3>2, <3>3, Clocks, OneJobStable
    <3> QED
      BY Zenon, <2>2, <3>1, <3>2, <3>4, <3>5 DEF Planned
  <2> QED
    BY Zenon, <2>1, <2>2
<1>9. \A d \in Caller : Planned(d)'
  BY Zenon, <1>1, <1>7, <1>8, OthersPlanned
<1> QED
  BY Zenon, <1>3, <1>5, <1>6, <1>7, <1>9 DEF IInv

---------------------------------------------------------------------------
(* The invariant, and what follows from it. *)

(* The invariant holds of an empty queue. *)
LEMMA InitIInv == Init => IInv
<1> SUFFICES ASSUME Init PROVE IInv
  BY Zenon
<1>1. TypeOK
  BY QueueAssumption, SMTT(30) DEF Init, TypeOK, NoIndex
<1>2. Shape /\ HeldOK /\ LeasesAreDistinct
  BY DEF Init, Shape, HeldOK, LeasesAreDistinct
<1>3. IndexAgrees /\ AppliedOnce /\ AcksAreApplied
  <2>1. IndexAgrees
    BY Zenon DEF Init, IndexAgrees, NoIndex
  <2>2. AppliedOnce /\ AcksAreApplied
    BY DEF Init, AppliedOnce, AcksAreApplied
  <2> QED
    BY Zenon, <2>1, <2>2
<1>4. WithinRetention
  <2>1. Cardinality({}) = 0
    BY Zenon, FST!FS_EmptySet, SameCount
  <2> QED
    BY <2>1, QueueAssumption, SMTT(30) DEF Init, WithinRetention, NoIndex
<1>5. \A c \in Caller : Planned(c)
  BY Zenon DEF Init, Planned
<1> QED
  BY <1>1, <1>2, <1>3, <1>4, <1>5 DEF IInv

(* The first step of every operation keeps the invariant. *)
LEMMA OperateKeeps ==
    ASSUME IInv, NEW c \in Caller, NEW j \in Job, Operate(c, j)
    PROVE  IInv'
<1>1. TypeOK /\ HeldOK
  BY Zenon DEF IInv
<1>2. CASE \E p \in Plan : CompleteAgain(c, j, p)
  BY Zenon, <1>2, CompleteAgainKeeps
<1>3. CASE \E op, w, p : Planning(c, op, j, w, p)
  BY Zenon, <1>3, PlanningKeeps
<1>4. CASE WithdrawUnlisted(c, j)
  BY Zenon, <1>4, TextKeeps
<1>5. ASSUME ~\E p \in Plan : CompleteAgain(c, j, p), ~WithdrawUnlisted(c, j)
      PROVE  \E op, w, p : Planning(c, op, j, w, p)
  <2>1. CASE Claim(c, j)
    BY Zenon, <1>1, <2>1, ClaimOp
  <2>2. CASE Renew(c, j)
    BY Zenon, <1>1, <2>2, RenewOp
  <2>3. CASE \E kind \in BlockKind : Block(c, j, kind) \/ BlockClaimed(c, j, kind)
    BY Zenon, <1>1, <2>3, BlockOps
  <2>4. CASE \E bound \in BOOLEAN : EnsureIntent(c, j, bound)
    BY Zenon, <1>1, <2>4, EnsureOp
  <2>5. CASE \E p \in Plan : Complete(c, j, p)
    BY Zenon, <1>1, <2>5, CompleteOp
  <2>6. CASE \/ Retry(c, j) \/ DeadLetter(c, j) \/ Resume(c, j) \/ Cancel(c, j)
             \/ \E g \in Generation : ResumeForCredential(c, j, g) \/ ResumeForPermission(c, j, g)
    BY <1>1, <2>6, ReleaseOps
  <2>7. CASE Withdraw(c, j)
    BY Zenon, <2>7, WithdrawOp
  <2> QED
    BY Zenon, <1>5, <2>1, <2>2, <2>3, <2>4, <2>5, <2>6, <2>7 DEF Operate
<1> QED
  BY Zenon, <1>2, <1>3, <1>4, <1>5

(* IInv is inductive. *)
THEOREM InvariantHolds == Spec => []IInv
<1>1. IInv /\ [Next]_vars => IInv'
  <2> SUFFICES ASSUME IInv, [Next]_vars PROVE IInv'
    BY Zenon
  <2>1. CASE UNCHANGED vars
    <3>1. UNCHANGED <<jobs, index, memory, turns, withdrawn, now, call, held, acked>>
      BY Zenon, <2>1 DEF vars
    <3>2. TypeOK' /\ Shape'
      BY <3>1 DEF IInv, TypeOK, Shape
    <3>3. IndexAgrees' /\ AppliedOnce' /\ AcksAreApplied' /\ HeldOK'
      BY Zenon, <3>1 DEF IInv, IndexAgrees, AppliedOnce, AcksAreApplied, HeldOK
    <3>4. LeasesAreDistinct' /\ WithinRetention'
      BY Zenon, <3>1 DEF IInv, LeasesAreDistinct, WithinRetention
    <3>5. ASSUME NEW c \in Caller PROVE Planned(c)'
      <4>1. Planned(c) /\ turns \in Nat /\ now \in Nat
        BY Zenon, Clocks DEF IInv
      <4>2. turns' \in Nat /\ turns <= turns' /\ now' \in Nat /\ now <= now'
        BY <3>1, <4>1
      <4>3. /\ call'[c] = call[c] /\ held'[c] = held[c] /\ withdrawn \subseteq withdrawn'
            /\ \A j \in Job : jobs[j] # None => jobs'[j] # None
            /\ \A j \in Job : index'.cursor < j => index.cursor < j
        BY Zenon, <3>1
      <4> QED
        BY Zenon, <4>1, <4>2, <4>3, PlannedStable
    <3> QED
      BY Zenon, <3>2, <3>3, <3>4, <3>5 DEF IInv
  <2>2. CASE FinishTurn \/ Tick
    BY Zenon, <2>2, EnvironmentKeeps DEF FinishTurn, Tick
  <2>3. ASSUME NEW c \in Caller, CallerStep(c) PROVE IInv'
    <3>1. CASE \E j \in Job : Operate(c, j)
      BY Zenon, <3>1, OperateKeeps
    <3>2. CASE \E bound \in BOOLEAN : Reconcile(c, bound)
      BY Zenon, <3>2, ReconcileKeeps
    <3>3. CASE ReadIndex(c)
      BY Zenon, <3>3, ReadIndexKeeps
    <3>4. CASE Commit(c)
      BY <3>4, CommitKeeps
    <3>5. CASE CommitUnreported(c)
      BY <3>5, UnreportedKeeps
    <3>6. CASE CommitRefused(c)
      BY <3>6, RefusedKeeps
    <3>7. CASE Reread(c)
      BY <3>7, RereadKeeps
    <3>8. CASE Crash(c)
      BY Zenon, <3>8, EnvironmentKeeps DEF Crash
    <3>9. CASE WithdrawText(c)
      BY Zenon, <3>9, TextKeeps
    <3>10. CASE \E op \in {"reconcile", "reconcile_inactive"}, last \in Job : ListPage(c, op, last)
      BY Zenon, <3>10, ListPageKeeps
    <3> QED
      BY Zenon, <2>3, <3>1, <3>2, <3>3, <3>4, <3>5, <3>6, <3>7, <3>8, <3>9, <3>10 DEF CallerStep
  <2> QED
    BY <2>1, <2>2, <2>3 DEF Next
<1> QED
  BY <1>1, InitIInv, PTL DEF Spec

(* The documents keep their shape, and every call's plan fits what it read. *)
THEOREM TypeCorrect == Spec => []TypeOK
<1>1. IInv => TypeOK
  BY DEF IInv
<1> QED
  BY <1>1, InvariantHolds, PTL

(* The scope index lists every job, once, as it is. *)
THEOREM IndexIsExact == Spec => []IndexAgrees
<1>1. IInv => IndexAgrees
  BY DEF IInv
<1> QED
  BY <1>1, InvariantHolds, PTL

(* A memory plan is applied at most once, and for the success that is recorded. *)
THEOREM PlansApplyOnce == Spec => []AppliedOnce
<1>1. IInv => AppliedOnce
  BY DEF IInv
<1> QED
  BY <1>1, InvariantHolds, PTL

(* A completion answered with success is the one that was applied. *)
THEOREM AcksAreTrue == Spec => []AcksAreApplied
<1>1. IInv => AcksAreApplied
  BY DEF IInv
<1> QED
  BY <1>1, InvariantHolds, PTL

(* No lease epoch is handed out twice. *)
THEOREM LeasesDiffer == Spec => []LeasesAreDistinct
<1>1. IInv => LeasesAreDistinct
  BY DEF IInv
<1> QED
  BY <1>1, InvariantHolds, PTL

(* Both lists of the index stay within their limits. *)
THEOREM RetentionHolds == Spec => []WithinRetention
<1>1. IInv => WithinRetention
  BY Zenon DEF IInv
<1> QED
  BY <1>1, InvariantHolds, PTL

(* Jobs and index change only in a transaction, and its caller's call moves on. *)
LEMMA JobsChangeByCommit ==
    ASSUME IInv, [Next]_vars, jobs' # jobs \/ index' # index
    PROVE  \E c \in Caller : Committing(c) /\ call'[c] # call[c]
<1>1. PICK c \in Caller : Commit(c) \/ CommitUnreported(c)
  <2>1. ASSUME NEW c \in Caller, NEW j \in Job, Operate(c, j) PROVE UNCHANGED <<jobs, index>>
    <3>1. CASE \E op, w, p : Read(c, op, j, w, p)
      BY Zenon, <3>1 DEF Read
    <3>2. CASE \E p \in Plan : CompleteAgain(c, j, p)
      BY Zenon, <3>2 DEF CompleteAgain
    <3>3. CASE Claim(c, j) \/ Renew(c, j) \/ Retry(c, j) \/ DeadLetter(c, j)
      BY <3>1, <3>3 DEF Claim, Renew, Retry, DeadLetter
    <3>4. CASE \E kind \in BlockKind : Block(c, j, kind) \/ BlockClaimed(c, j, kind)
      BY Zenon, <3>1, <3>4 DEF Block, BlockClaimed
    <3>5. CASE Resume(c, j) \/ Cancel(c, j) \/ Withdraw(c, j) \/ \E bound \in BOOLEAN : EnsureIntent(c, j, bound)
      BY <3>1, <3>5 DEF Resume, Cancel, Withdraw, EnsureIntent
    <3>6. CASE \E g \in Generation : ResumeForCredential(c, j, g) \/ ResumeForPermission(c, j, g)
      BY <3>1, <3>6 DEF ResumeForCredential, ResumeForPermission
    <3>7. CASE \E p \in Plan : Complete(c, j, p)
      BY <3>1, <3>7 DEF Complete
    <3>8. CASE WithdrawUnlisted(c, j)
      BY Zenon, <3>8 DEF WithdrawUnlisted
    <3> QED
      BY Zenon, <2>1, <3>2, <3>3, <3>4, <3>5, <3>6, <3>7, <3>8 DEF Operate
  <2>2. \A c \in Caller : ReadIndex(c) \/ CommitRefused(c) \/ Reread(c) \/ Crash(c) => UNCHANGED <<jobs, index>>
    BY Zenon DEF ReadIndex, CommitRefused, Reread, Crash
  <2>3. \A c \in Caller, bound \in BOOLEAN : Reconcile(c, bound) => UNCHANGED <<jobs, index>>
    BY Zenon DEF Reconcile
  <2>5. ASSUME NEW c \in Caller,
               \/ WithdrawText(c)
               \/ \E op \in {"reconcile", "reconcile_inactive"}, last \in Job : ListPage(c, op, last)
        PROVE  UNCHANGED <<jobs, index>>
    BY Zenon, <2>5 DEF WithdrawText, ListPage
  <2>4. FinishTurn \/ Tick \/ UNCHANGED vars => UNCHANGED <<jobs, index>>
    BY DEF FinishTurn, Tick, vars
  <2> QED
    BY Zenon, <2>1, <2>2, <2>3, <2>4, <2>5 DEF Next, CallerStep
<1> DEFINE t == call[c]  x == [t EXCEPT !.pc = "reread"]
<1>2. Committing(c) /\ t # Idle /\ t.pc = "commit"
  BY Zenon, <1>1 DEF Commit, CommitUnreported, Committing
<1>3. x.pc = "reread"
  OBVIOUS
<1>4. call'[c] \in {Idle, x}
  BY <1>1 DEF Commit, CommitUnreported, Failed, IInv, Shape
<1> HIDE DEF x
<1> QED
  BY Zenon, <1>2, <1>3, <1>4

(* What a transaction may do to a job that exists. *)
LEMMA OldJobs ==
    ASSUME IInv, NEW c \in Caller, Committing(c), NEW j \in Job,
           jobs[j] # None, jobs'[j] # jobs[j]
    PROVE  /\ JobOK(jobs[j]) /\ jobs[j].status \in Active
           /\ jobs'[j].status = "Cancelled" \/ Fenced(c, j, jobs[j])
           /\ Advance(jobs[j], jobs'[j])
BY Zenon, Changes DEF Changed, Transition

(* A lease in force is changed by its holder or by a cancellation alone. *)
THEOREM LeasesAreFenced == Spec => LeaseFenced
<1>1. ASSUME IInv, [Next]_vars, NEW j \in Job,
             jobs[j] # None, jobs'[j] # jobs[j], jobs[j].status = "Leased", jobs[j].until > now
      PROVE  \/ jobs'[j].status = "Cancelled"
             \/ \E c \in Caller : /\ call'[c] # call[c]
                                  /\ held[c] = [job |-> j, epoch |-> jobs[j].epoch]
  <2>1. PICK c \in Caller : Committing(c) /\ call'[c] # call[c]
    BY Zenon, <1>1, JobsChangeByCommit
  <2>2. JobOK(jobs[j]) /\ (jobs'[j].status = "Cancelled" \/ Fenced(c, j, jobs[j]))
    BY Zenon, <1>1, <2>1, OldJobs
  <2>3. ~(jobs[j].until <= now)
    BY <1>1, <2>2, JobFields, Clocks, SMTT(30)
  <2> QED
    BY Zenon, <1>1, <2>1, <2>2, <2>3 DEF Fenced
<1>2. IInv /\ [Next]_vars =>
        [\A j \in Job :
           jobs[j] # None /\ jobs'[j] # jobs[j] /\ jobs[j].status = "Leased" /\ jobs[j].until > now
           => \/ jobs'[j].status = "Cancelled"
              \/ \E c \in Caller : /\ call'[c] # call[c]
                                   /\ held[c] = [job |-> j, epoch |-> jobs[j].epoch]]_vars
  BY <1>1
<1> QED
  BY <1>2, InvariantHolds, PTL DEF Spec, LeaseFenced

(* A recovery goes past the generation of the block and of the last recovery. *)
THEOREM RecoveriesAdvance == Spec => RecoveryAdvances
<1>1. ASSUME IInv, [Next]_vars, NEW j \in Job,
             jobs[j] # None, jobs'[j].lastPermission # jobs[j].lastPermission
      PROVE  /\ jobs[j].status = "BlockedPolicy"
             /\ jobs'[j].lastPermission > jobs[j].block.gen
             /\ jobs[j].lastPermission # None => jobs'[j].lastPermission > jobs[j].lastPermission
  <2>1. PICK c \in Caller : Committing(c) /\ call'[c] # call[c]
    BY Zenon, <1>1, JobsChangeByCommit
  <2> QED
    BY Zenon, <1>1, <2>1, OldJobs DEF Advance
<1>2. IInv /\ [Next]_vars =>
        [\A j \in Job :
           jobs[j] # None /\ jobs'[j].lastPermission # jobs[j].lastPermission
           => /\ jobs[j].status = "BlockedPolicy"
              /\ jobs'[j].lastPermission > jobs[j].block.gen
              /\ jobs[j].lastPermission # None =>
                     jobs'[j].lastPermission > jobs[j].lastPermission]_vars
  BY <1>1
<1> QED
  BY <1>2, InvariantHolds, PTL DEF Spec, RecoveryAdvances

(* A job that ended is never written again. *)
THEOREM EndIsFinal == Spec => TerminalIsFinal
<1>1. ASSUME IInv, [Next]_vars, NEW j \in Job,
             jobs[j] # None, jobs[j].status \in Terminal, jobs'[j] # jobs[j]
      PROVE  FALSE
  <2>1. PICK c \in Caller : Committing(c) /\ call'[c] # call[c]
    BY Zenon, <1>1, JobsChangeByCommit
  <2> QED
    BY Zenon, <1>1, <2>1, OldJobs DEF Active, Blocked, Terminal
<1>2. IInv /\ [Next]_vars =>
        [\A j \in Job : jobs[j] # None /\ jobs[j].status \in Terminal => jobs'[j] = jobs[j]]_vars
  BY <1>1
<1> QED
  BY <1>2, InvariantHolds, PTL DEF Spec, TerminalIsFinal

(* The cursor passes no learnable turn without its job. *)
THEOREM CursorIsHonest == Spec => CursorCoversTurns
<1>1. ASSUME IInv, [Next]_vars, NEW j \in Job, index.cursor < j, j <= index'.cursor
      PROVE  /\ j <= turns
             /\ \/ jobs'[j] # None
                \/ j \in withdrawn
                \/ \E c \in Caller : /\ call[c] # Idle /\ call[c].op = "reconcile_inactive"
                                     /\ call'[c] # call[c]
  <2>1. index' # index
    <3>1. index.cursor \in 0..Turns
      BY Zenon, <1>1 DEF IInv, TypeOK
    <3>2. \A m \in 0..Turns, k \in Job : ~(m < k /\ k <= m)
      BY QueueAssumption
    <3> QED
      BY Zenon, <1>1, <3>1, <3>2
  <2>2. PICK c \in Caller : Committing(c) /\ call'[c] # call[c]
    BY Zenon, <1>1, <2>1, JobsChangeByCommit
  <2>3. Covered(c) /\ call[c] # Idle
    BY Zenon, <1>1, <2>2, IndexCommitted DEF Committing
  <2> QED
    BY Zenon, <1>1, <2>2, <2>3 DEF Covered
<1>2. IInv /\ [Next]_vars =>
        [\A j \in Job : index.cursor < j /\ j <= index'.cursor =>
           /\ j <= turns
           /\ \/ jobs'[j] # None
              \/ j \in withdrawn
              \/ \E c \in Caller : /\ call[c] # Idle /\ call[c].op = "reconcile_inactive"
                                   /\ call'[c] # call[c]]_vars
  BY Zenon, <1>1
<1> QED
  BY <1>2, InvariantHolds, PTL DEF Spec, CursorCoversTurns

(* A turn whose text was withdrawn gets no job any more. *)
THEOREM WithdrawnAreLeft == Spec => WithdrawnGetNoJob
<1>1. ASSUME IInv, [Next]_vars, NEW j \in Job, jobs[j] = None, jobs'[j] # None
      PROVE  j <= turns /\ j \notin withdrawn
  <2>1. PICK c \in Caller : Committing(c) /\ call'[c] # call[c]
    BY Zenon, <1>1, JobsChangeByCommit
  <2>2. Changed(c, j)
    BY Zenon, <1>1, <2>1, Changes
  <2>3. ~Transition(c, call[c].op, j, call[c].plan, jobs[j], jobs'[j]) \/ call[c].op = "ensure"
    BY Zenon, <1>1, JobFields DEF Transition
  <2> QED
    BY Zenon, <1>1, <2>2, <2>3 DEF Changed
<1>2. IInv /\ [Next]_vars =>
        [\A j \in Job : jobs[j] = None /\ jobs'[j] # None => j <= turns /\ j \notin withdrawn]_vars
  BY Zenon, <1>1
<1> QED
  BY <1>2, InvariantHolds, PTL DEF Spec, WithdrawnGetNoJob
=============================================================================

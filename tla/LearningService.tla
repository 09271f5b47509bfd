------------------------------ MODULE LearningService ------------------------------
(***************************************************************************)
(* The background learning service (entry/src/learning_service.rs): one    *)
(* worker thread that scans the attached runtimes and runs their due jobs, *)
(* and the threads that attach and detach runtimes, wake it, tell it of    *)
(* changed credentials, and shut it down.                                  *)
(*                                                                         *)
(* An attachment is an Arc that the registry, every handle, the worker's   *)
(* snapshot and the snapshots of control calls share; detach() decides by  *)
(* the number of those shares.  The wake generation is only ever compared  *)
(* with the one the worker last observed, so the model keeps the outcome   *)
(* of that comparison.  Identities that do not share the store of the      *)
(* first attachment are refused like a failed binding installation.        *)
(***************************************************************************)
EXTENDS FiniteSets, Lists

CONSTANTS
    Caller,          \* host threads
    Identity,        \* the (subject, channel, chat) a runtime is mounted for
    Handle,          \* MemoryLearningAttachment values a host may hold
    Entry,           \* allocations of an attachment's shared state
    MaxAttachments,
    None

ASSUME ServiceAssumption ==
    /\ MaxAttachments \in Nat \ {0}
    /\ None \notin Entry
    /\ IsFiniteSet(Handle) /\ IsFiniteSet(Caller)

VARIABLES
    registry,  \* the attachments, in the order they were pushed
    of,        \* the identity of an attachment
    active,    \* its shared flag
    handle,    \* the attachment a handle refers to
    holds,     \* the threads that own a handle of the service itself
    work,      \* per identity: no due job, a due job, one that waits to be retried, or no runtime
    stop, done,
    unseen,    \* the wake generation differs from the one the worker observed
    worker,    \* the service thread
    call       \* per thread, the operation in progress

vars == <<registry, of, active, handle, holds, work, stop, done, unseen, worker, call>>

Idle == [pc |-> "idle"]
NoThread == [pc |-> "absent"]
NoSnapshot == <<>>

AttachCall == [pc : {"attach"}, op : {"attach"}, identity : Identity, handle : Handle]
WakeCall == [pc : {"notify"}, op : {"wake", "attach", "close", "shutdown"}]
DetachCall == [pc : {"store", "retain", "notify"}, op : {"detach", "drop"}, handle : Handle]
ControlCall == [pc : {"control"}, op : {"control"}, snapshot : Seq(Entry)]
ShutdownCall ==
    [pc : {"loop", "deadline", "wait", "join", "joining", "ok", "err"}, op : {"shutdown"}, late : BOOLEAN]

CallType == {Idle, NoThread} \cup AttachCall \cup WakeCall \cup DetachCall \cup ControlCall \cup ShutdownCall

WorkerRecord ==
    [pc : {"check", "scan", "each", "fence", "call", "commit", "after",
           "decide", "wait", "woken", "exit", "signal", "gone"},
     snapshot : Seq(Entry), progressed : BOOLEAN, cut : BOOLEAN]

TypeOK ==
    /\ registry \in Seq(Entry)
    /\ of \in [Entry -> Identity] /\ active \in [Entry -> BOOLEAN]
    /\ handle \in [Handle -> Entry \cup {None}]
    /\ holds \in [Caller -> BOOLEAN]
    /\ work \in [Identity -> {"none", "due", "waiting", "unmounted"}]
    /\ stop \in BOOLEAN /\ done \in BOOLEAN /\ unseen \in BOOLEAN
    /\ worker \in WorkerRecord
    /\ call \in [Caller -> CallType]

(* The builder attached the first runtime and spawned the worker.  The host    *)
(* runs some threads and mounts runtimes for some identities.                 *)
Host(threads, identities) ==
    \E e \in Entry, i \in identities, h \in Handle, c \in threads :
        /\ registry = <<e>>
        /\ of = [x \in Entry |-> i]
        /\ active = [x \in Entry |-> x = e]
        /\ handle = [x \in Handle |-> IF x = h THEN e ELSE None]
        /\ holds = [x \in Caller |-> x = c]
        /\ work = [x \in Identity |-> IF x \in identities THEN "none" ELSE "unmounted"]
        /\ stop = FALSE /\ done = FALSE /\ unseen = FALSE
        /\ worker = [pc |-> "check", snapshot |-> NoSnapshot, progressed |-> FALSE, cut |-> FALSE]
        /\ call = [x \in Caller |-> IF x \in threads THEN Idle ELSE NoThread]

Init == \E threads \in SUBSET Caller, identities \in SUBSET Identity : Host(threads, identities)

---------------------------------------------------------------------------
(* Sharing. *)

(* The service's own allocation, and the registry in it, live as long as a    *)
(* service handle or the worker does.                                         *)
Alive ==
    worker.pc # "gone" \/ \E c \in Caller : holds[c] \/ call[c] = [pc |-> "notify", op |-> "close"]

Registered(e) == Alive /\ e \in Range(registry)
Snapshots(e) ==
    {c \in Caller : call[c].pc = "control" /\ e \in Range(call[c].snapshot)}

(* Arc::strong_count of an attachment's report. *)
Shares(e) ==
    (IF Registered(e) THEN 1 ELSE 0)
    + Cardinality({h \in Handle : handle[h] = e})
    + (IF e \in Range(worker.snapshot) THEN 1 ELSE 0)
    + Cardinality(Snapshots(e))

(* The handle is an argument, or the coming result, of a running call. *)
InUse(h) == \E c \in Caller : "handle" \in DOMAIN call[c] /\ call[c].handle = h

Existing(i) == {e \in Range(registry) : of[e] = i}

Return(c) == call' = [call EXCEPT ![c] = Idle]
Goto(c, next) == call' = [call EXCEPT ![c] = next]

(* The call that was in flight when its attachment or the service was stopped. *)
Cut(flag) == worker' = [worker EXCEPT !.cut = @ \/ (flag /\ worker.pc = "call")]

---------------------------------------------------------------------------
(* Attaching a runtime: a first look at stop, then the work under the lock. *)

Attach(c, i, h) ==
    /\ call[c] = Idle /\ holds[c] /\ handle[h] = None /\ ~InUse(h)
    /\ ~stop /\ work[i] # "unmounted"
    /\ Goto(c, [pc |-> "attach", op |-> "attach", identity |-> i, handle |-> h])
    /\ UNCHANGED <<registry, of, active, handle, holds, work, stop, done, unseen, worker>>

(* Mutant: stop is not looked at again under the lock. *)
RefusedOnce(i) ==
    registry = <<>> \/ (Existing(i) = {} /\ Len(registry) >= MaxAttachments)

(* What attach_runtime refuses once it holds the lock. *)
Refused(i) ==
    stop \/ registry = <<>> \/ (Existing(i) = {} /\ Len(registry) >= MaxAttachments)

AttachRefused(c) ==
    /\ call[c].pc = "attach"
    /\ Refused(call[c].identity) \/ Existing(call[c].identity) = {}
    /\ Return(c)
    /\ UNCHANGED <<registry, of, active, handle, holds, work, stop, done, unseen, worker>>

(* An identity that is registered already is shared, whatever its flag says. *)
AttachExisting(c) ==
    /\ call[c].pc = "attach"
    /\ ~Refused(call[c].identity)
    /\ \E e \in Existing(call[c].identity) : handle' = [handle EXCEPT ![call[c].handle] = e]
    /\ Return(c)
    /\ UNCHANGED <<registry, of, active, holds, work, stop, done, unseen, worker>>

AttachNew(c) ==
    /\ call[c].pc = "attach"
    /\ ~Refused(call[c].identity) /\ Existing(call[c].identity) = {}
    /\ \E e \in Entry :
        /\ Shares(e) = 0
        /\ of' = [of EXCEPT ![e] = call[c].identity]
        /\ active' = [active EXCEPT ![e] = TRUE]
        /\ registry' = Append(registry, e)
        /\ handle' = [handle EXCEPT ![call[c].handle] = e]
    /\ Goto(c, [pc |-> "notify", op |-> "attach"])
    /\ UNCHANGED <<holds, work, stop, done, unseen, worker>>

---------------------------------------------------------------------------
(* Detaching: nothing happens while anything else shares the attachment.  The *)
(* count is read without a lock: the worker may take its snapshot, and a      *)
(* runtime of the same identity be attached, before the flag is cleared.      *)

Detach(c, h, op) ==
    /\ call[c] = Idle /\ handle[h] # None /\ ~InUse(h)
    /\ IF Shares(handle[h]) > 2
       THEN /\ handle' = [handle EXCEPT ![h] = IF op = "drop" THEN None ELSE @]
            /\ UNCHANGED call
       ELSE /\ Goto(c, [pc |-> "store", op |-> op, handle |-> h])
            /\ UNCHANGED handle
    /\ UNCHANGED <<registry, of, active, holds, work, stop, done, unseen, worker>>

Deactivate(c) ==
    /\ call[c].pc = "store"
    /\ LET e == handle[call[c].handle] IN
       /\ active' = [active EXCEPT ![e] = FALSE]
       /\ Cut(worker.snapshot # <<>> /\ Head(worker.snapshot) = e)
    /\ Goto(c, [call[c] EXCEPT !.pc = "retain"])
    /\ UNCHANGED <<registry, of, handle, holds, work, stop, done, unseen>>

(* Mutant: detach clears the flag and leaves the attachment in the list. *)
RetainedAll(e) == registry

(* What stays registered when e, which is registered at most once, is removed. *)
Retained(e) == Without(registry, e)

Retain(c) ==
    /\ call[c].pc = "retain"
    /\ IF Alive
       THEN /\ registry' = Retained(handle[call[c].handle])
            /\ Goto(c, [call[c] EXCEPT !.pc = "notify"])
            /\ UNCHANGED handle
       ELSE /\ handle' = [handle EXCEPT ![call[c].handle] =
                              IF call[c].op = "drop" THEN None ELSE @]
            /\ Return(c)
            /\ UNCHANGED registry
    /\ UNCHANGED <<of, active, holds, work, stop, done, unseen, worker>>

---------------------------------------------------------------------------
(* Waking the worker. *)

(* WakeState::notify; then the call it ends returns, or a shutdown goes on. *)
Notify(c) ==
    /\ call[c].pc = "notify"
    /\ unseen' = TRUE
    /\ worker' = [worker EXCEPT !.pc = IF @ = "wait" THEN "woken" ELSE @]
    /\ handle' = IF call[c].op = "drop" THEN [handle EXCEPT ![call[c].handle] = None] ELSE handle
    /\ Goto(c, IF call[c].op = "shutdown"
               THEN [pc |-> "loop", op |-> "shutdown", late |-> FALSE] ELSE Idle)
    /\ UNCHANGED <<registry, of, active, holds, work, stop, done>>

Wake(c) ==
    /\ call[c] = Idle
    /\ holds[c] \/ (~stop /\ \E h \in Handle : handle[h] # None)
    /\ Goto(c, [pc |-> "notify", op |-> "wake"])
    /\ UNCHANGED <<registry, of, active, handle, holds, work, stop, done, unseen, worker>>

(* A runtime commits a turn and its jobs, then wakes the sink it was given. *)
Finalize(c, i) ==
    /\ call[c] = Idle /\ work[i] # "unmounted"
    /\ work' = [work EXCEPT ![i] = "due"]
    /\ Goto(c, [pc |-> "notify", op |-> "wake"])
    /\ UNCHANGED <<registry, of, active, handle, holds, stop, done, unseen, worker>>

(* A job that waits to be retried becomes due; nobody is told. *)
Eligible(i) ==
    /\ work[i] = "waiting"
    /\ work' = [work EXCEPT ![i] = "due"]
    /\ UNCHANGED <<registry, of, active, handle, holds, stop, done, unseen, worker, call>>

(* A credential, configuration or permission change goes to every attachment  *)
(* of a snapshot; the first error ends the call without a wake.               *)
Control(c) ==
    /\ call[c] = Idle /\ holds[c]
    /\ Goto(c, [pc |-> "control", op |-> "control", snapshot |-> registry])
    /\ UNCHANGED <<registry, of, active, handle, holds, work, stop, done, unseen, worker>>

ControlEach(c) ==
    /\ call[c].pc = "control"
    /\ IF call[c].snapshot = <<>>
       THEN Goto(c, [pc |-> "notify", op |-> "wake"]) /\ UNCHANGED work
       ELSE \/ Return(c) /\ UNCHANGED work
            \/ /\ Goto(c, [call[c] EXCEPT !.snapshot = Tail(@)])
               /\ \E w \in {work[of[Head(call[c].snapshot)]], "due"} :
                      work' = [work EXCEPT ![of[Head(call[c].snapshot)]] = w]
    /\ UNCHANGED <<registry, of, active, handle, holds, stop, done, unseen, worker>>

---------------------------------------------------------------------------
(* Stopping. *)

CloneService(c, d) ==
    /\ call[c] = Idle /\ holds[c] /\ ~holds[d] /\ call[d] # NoThread
    /\ holds' = [holds EXCEPT ![d] = TRUE]
    /\ UNCHANGED <<registry, of, active, handle, work, stop, done, unseen, worker, call>>

(* The last service handle stops the worker when it is dropped. *)
DropService(c) ==
    /\ call[c] = Idle /\ holds[c]
    /\ holds' = [holds EXCEPT ![c] = FALSE]
    /\ IF \A d \in Caller : ~holds'[d]
       THEN /\ stop' = TRUE
            /\ Cut(TRUE)
            /\ Goto(c, [pc |-> "notify", op |-> "close"])
       ELSE UNCHANGED <<stop, worker, call>>
    /\ UNCHANGED <<registry, of, active, handle, work, done, unseen>>

Shutdown(c) ==
    /\ call[c] = Idle /\ holds[c]
    /\ stop' = TRUE
    /\ Cut(TRUE)
    /\ Goto(c, [pc |-> "notify", op |-> "shutdown"])
    /\ UNCHANGED <<registry, of, active, handle, holds, work, done, unseen>>

(* The deadline of a shutdown passes. *)
Deadline(c) ==
    /\ call[c].pc \in {"loop", "deadline", "wait"}
    /\ ~call[c].late
    /\ Goto(c, [call[c] EXCEPT !.late = TRUE])
    /\ UNCHANGED <<registry, of, active, handle, holds, work, stop, done, unseen, worker>>

(* Mutant: success is reported without looking at the worker. *)
ShutdownLoopUnchecked(c) ==
    /\ call[c].pc = "loop"
    /\ Goto(c, [call[c] EXCEPT !.pc = "ok"])
    /\ UNCHANGED <<registry, of, active, handle, holds, work, stop, done, unseen, worker>>

ShutdownLoop(c) ==
    /\ call[c].pc = "loop"
    /\ Goto(c, [call[c] EXCEPT !.pc = IF done THEN "join" ELSE "deadline"])
    /\ UNCHANGED <<registry, of, active, handle, holds, work, stop, done, unseen, worker>>

(* Between the look at done and the wait the worker may have signalled. *)
ShutdownWait(c) ==
    /\ call[c].pc = "deadline"
    /\ Goto(c, [call[c] EXCEPT !.pc = IF call[c].late THEN "err" ELSE "wait"])
    /\ UNCHANGED <<registry, of, active, handle, holds, work, stop, done, unseen, worker>>

(* Mutant: an elapsed wait is an error even when the worker has stopped. *)
ShutdownTimeoutFails(c) ==
    /\ call[c].pc = "wait" /\ call[c].late
    /\ Goto(c, [call[c] EXCEPT !.pc = "err"])
    /\ UNCHANGED <<registry, of, active, handle, holds, work, stop, done, unseen, worker>>

ShutdownTimeout(c) ==
    /\ call[c].pc = "wait" /\ call[c].late
    /\ Goto(c, [call[c] EXCEPT !.pc = IF done THEN "loop" ELSE "err"])
    /\ UNCHANGED <<registry, of, active, handle, holds, work, stop, done, unseen, worker>>

(* One shutdown takes the join handle; another one finds none and returns. *)
ShutdownTake(c) ==
    /\ call[c].pc = "join"
    /\ Goto(c, [call[c] EXCEPT !.pc =
                   IF \E d \in Caller : call[d].pc = "joining" THEN "ok" ELSE "joining"])
    /\ UNCHANGED <<registry, of, active, handle, holds, work, stop, done, unseen, worker>>

ShutdownJoin(c) ==
    /\ call[c].pc = "joining" /\ worker.pc = "gone"
    /\ Goto(c, [call[c] EXCEPT !.pc = "ok"])
    /\ UNCHANGED <<registry, of, active, handle, holds, work, stop, done, unseen, worker>>

ShutdownReturn(c) ==
    /\ call[c].pc \in {"ok", "err"}
    /\ Return(c)
    /\ UNCHANGED <<registry, of, active, handle, holds, work, stop, done, unseen, worker>>

---------------------------------------------------------------------------
(* The worker: service_loop and run_attachment_cycle. *)

Step(pc, next) ==
    /\ worker.pc = pc
    /\ worker' = [worker EXCEPT !.pc = next]

WorkerCheck ==
    /\ Step("check", IF stop THEN "exit" ELSE "scan")
    /\ UNCHANGED <<registry, of, active, handle, holds, work, stop, done, unseen, call>>

WorkerScan ==
    /\ worker.pc = "scan"
    /\ worker' = [worker EXCEPT !.pc = "each", !.snapshot = registry, !.progressed = FALSE]
    /\ UNCHANGED <<registry, of, active, handle, holds, work, stop, done, unseen, call>>

(* The cycle of the attachment at the head of the snapshot is over. *)
Next1(progressed) ==
    worker' = [worker EXCEPT !.pc = "each", !.snapshot = Tail(@), !.cut = FALSE,
                             !.progressed = @ \/ progressed]

WorkerEach ==
    /\ worker.pc = "each"
    /\ IF stop \/ worker.snapshot = <<>>
       THEN worker' = [worker EXCEPT !.pc = "after", !.snapshot = NoSnapshot] /\ UNCHANGED work
       ELSE LET e == Head(worker.snapshot) IN
            IF active[e] /\ work[of[e]] = "due"
            THEN /\ worker' = [worker EXCEPT !.pc = "fence"]
                 /\ work' = [work EXCEPT ![of[e]] = "none"]
            ELSE Next1(FALSE) /\ UNCHANGED work
    /\ UNCHANGED <<registry, of, active, handle, holds, stop, done, unseen, call>>

(* Mutant: the fence looks at the service and not at the attachment. *)
FencedByStop == stop

(* ensure_learning_execution_active *)
Fenced == stop \/ ~active[Head(worker.snapshot)]

RetryLater ==
    LET i == of[Head(worker.snapshot)] IN
    work' = [work EXCEPT ![i] = IF @ = "none" THEN "waiting" ELSE @]

WorkerFence ==
    /\ worker.pc = "fence"
    /\ IF Fenced THEN Next1(TRUE) /\ RetryLater
                 ELSE Step("fence", "call") /\ UNCHANGED work
    /\ UNCHANGED <<registry, of, active, handle, holds, stop, done, unseen, call>>

(* The provider answers, or the cycle ends otherwise: with a job to be retried  *)
(* or one that failed or is blocked.  A blocked job and a cycle that returned   *)
(* an error are no progress.                                                    *)
WorkerResponse ==
    /\ worker.pc = "call"
    /\ \/ \E progressed \in BOOLEAN : Next1(progressed) /\ (RetryLater \/ UNCHANGED work)
       \/ ~Fenced /\ Step("call", "commit") /\ UNCHANGED work
    /\ UNCHANGED <<registry, of, active, handle, holds, stop, done, unseen, call>>

(* The job is completed, or the store refuses and its lease has to expire. *)
WorkerCommit ==
    /\ worker.pc = "commit"
    /\ \/ Next1(TRUE) /\ UNCHANGED work
       \/ Next1(FALSE) /\ RetryLater
    /\ UNCHANGED <<registry, of, active, handle, holds, stop, done, unseen, call>>

WorkerAfter ==
    /\ Step("after", IF stop THEN "exit" ELSE "decide")
    /\ UNCHANGED <<registry, of, active, handle, holds, work, stop, done, unseen, call>>

(* Mutant: the worker sleeps after an idle scan whatever happened meanwhile. *)
WorkerDecideBlind ==
    /\ worker.pc = "decide"
    /\ worker' = [worker EXCEPT !.pc = IF worker.progressed THEN "check" ELSE "wait"]
    /\ unseen' = FALSE
    /\ UNCHANGED <<registry, of, active, handle, holds, work, stop, done, call>>

WorkerDecide ==
    /\ worker.pc = "decide"
    /\ IF ~unseen /\ ~worker.progressed
       THEN Step("decide", "wait") /\ UNCHANGED unseen
       ELSE Step("decide", "check") /\ unseen' = FALSE
    /\ UNCHANGED <<registry, of, active, handle, holds, work, stop, done, call>>

WorkerPoll ==
    /\ Step("wait", "woken")
    /\ UNCHANGED <<registry, of, active, handle, holds, work, stop, done, unseen, call>>

WorkerWoken ==
    /\ Step("woken", "check")
    /\ unseen' = FALSE
    /\ UNCHANGED <<registry, of, active, handle, holds, work, stop, done, call>>

WorkerExit ==
    /\ Step("exit", "signal")
    /\ done' = TRUE
    /\ UNCHANGED <<registry, of, active, handle, holds, work, stop, unseen, call>>

(* done_signal.notify_all, without the lock the waiters checked done under. *)
WorkerSignal ==
    /\ Step("signal", "gone")
    /\ call' = [c \in Caller |->
                   IF call[c].pc = "wait" THEN [call[c] EXCEPT !.pc = "loop"] ELSE call[c]]
    /\ UNCHANGED <<registry, of, active, handle, holds, work, stop, done, unseen>>

---------------------------------------------------------------------------

Worker ==
    \/ WorkerCheck \/ WorkerScan \/ WorkerEach \/ WorkerFence \/ WorkerResponse
    \/ WorkerCommit \/ WorkerAfter \/ WorkerDecide \/ WorkerWoken
    \/ WorkerExit \/ WorkerSignal

(* The rest of a call that has begun. *)
Continue(c) ==
    \/ AttachRefused(c) \/ AttachExisting(c) \/ AttachNew(c)
    \/ Deactivate(c) \/ Retain(c) \/ Notify(c) \/ ControlEach(c)
    \/ ShutdownLoop(c) \/ ShutdownWait(c) \/ ShutdownTimeout(c)
    \/ ShutdownTake(c) \/ ShutdownJoin(c) \/ ShutdownReturn(c)

Start(c) ==
    \/ \E i \in Identity, h \in Handle : Attach(c, i, h)
    \/ \E h \in Handle, op \in {"detach", "drop"} : Detach(c, h, op)
    \/ Wake(c) \/ Control(c) \/ Shutdown(c) \/ DropService(c)
    \/ \E i \in Identity : Finalize(c, i)
    \/ \E d \in Caller : CloneService(c, d)

Next ==
    \/ Worker \/ WorkerPoll
    \/ \E i \in Identity : Eligible(i)
    \/ \E c \in Caller : Start(c) \/ Continue(c) \/ Deadline(c)

Spec == Init /\ [][Next]_vars

(* Threads that can run do; a deadline passes.  The poll interval is not      *)
(* needed for anything below, so nothing is assumed of it.                    *)
Fairness ==
    /\ WF_vars(Worker)
    /\ \A c \in Caller : WF_vars(Continue(c)) /\ WF_vars(Deadline(c))

FairSpec == Spec /\ Fairness

---------------------------------------------------------------------------
(* Safety. *)

(* Every identity is registered once, and never more attachments than the     *)
(* limit, however attach calls interleave with detaches (attach_runtime).     *)
RegistryDistinct ==
    /\ Len(registry) <= MaxAttachments
    /\ \A x, y \in 1..Len(registry) : of[registry[x]] = of[registry[y]] => x = y

(* An attachment works exactly while it is registered, except between the     *)
(* clearing of its flag and its removal, the last two steps of a detach: an   *)
(* old handle that is detached late never takes the registration of a newer   *)
(* attachment of the same identity (detach).                                  *)
ActiveIsRegistered ==
    Alive => \A e \in Entry : Shares(e) > 0 =>
        \/ active[e] <=> Registered(e)
        \/ \E c \in Caller : call[c].pc = "retain" /\ handle[call[c].handle] = e

(* A model call that was in flight when its attachment was detached or the    *)
(* service stopped does not complete its job (CredentialInjectingHttpClient). *)
CutCallsDoNotComplete == worker.pc = "commit" => ~worker.cut

(* Once the service is stopping no attachment is admitted or handed out, also *)
(* not by an attach call that had passed its first look at stop               *)
(* (attach_runtime).                                                          *)
NoAdmissionAfterStop ==
    [][stop => /\ Range(registry') \subseteq Range(registry)
               /\ \A h \in Handle : handle[h] = None => handle'[h] = None]_vars

(* When a shutdown reports success no job is completed any more, whichever    *)
(* thread joined the worker (shutdown_during_model_call_prevents_post_...).   *)
ShutdownMeansStopped ==
    (\E c \in Caller : call[c].pc = "ok") => worker.pc \in {"signal", "gone"}

---------------------------------------------------------------------------
(* Liveness. *)

(* What was registered or committed before a wake is seen by a scan that      *)
(* begins after it, by virtue of the wake alone: it is not lost when it falls *)
(* into a running scan or just before the worker sleeps (WakeState).          *)
WakeIsFollowedByScan ==
    \A c \in Caller : call[c].pc = "notify" ~> (worker.pc = "scan" \/ stop)

(* A shutdown that waits when the worker has stopped returns success, also if *)
(* it began to wait after done_signal was raised and so missed it (shutdown). *)
MissedSignalIsNoFailure ==
    \A c \in Caller : (call[c].pc = "wait" /\ done) ~> call[c].pc = "ok"

=============================================================================

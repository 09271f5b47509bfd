------------------------------- MODULE NetworkFront -------------------------------
(***************************************************************************)
(* The TCP front shared by the process entries (entry/src/network_front.rs):*)
(* threads that accept connections dispatch them, through a counter of      *)
(* permits and a bounded channel, to a fixed set of workers; a supervisor   *)
(* thread shuts down the read half of every connection whose absolute       *)
(* deadline has passed; shutdown interrupts all reads, drains the channel   *)
(* and joins every thread.                                                  *)
(*                                                                          *)
(* shutdown borrows the front exclusively, so it never overlaps a dispatch. *)
(* Time is abstracted to which deadlines have passed.                       *)
(***************************************************************************)
EXTENDS Integers, Sequences, FiniteSets

CONSTANTS
    Conn,          \* accepted connections
    Worker,        \* the worker threads
    MaxInFlight,
    Free           \* a worker without a connection

ASSUME FrontAssumption ==
    /\ IsFiniteSet(Conn) /\ Free \notin Conn /\ "gone" \notin Conn \cup {Free}
    /\ IsFiniteSet(Worker) /\ Worker # {}
    /\ MaxInFlight \in Nat /\ MaxInFlight >= Cardinality(Worker)

VARIABLES
    conn,        \* how far a connection's thread or worker has come
    seen,        \* the counter as the connection's thread last read it
    inFlight,    \* the counter of permits
    queue,       \* the channel
    open,        \* the sender exists
    armed,       \* connections with an active read deadline
    due,         \* connections whose deadline has passed
    cut,         \* connections whose read half is shut down
    stopping,    \* the deadlines' own flag
    worker,      \* the connection a worker handles
    supervisor,  \* the deadline thread
    shutdown     \* the call of shutdown

frontVars == <<conn, seen, inFlight, queue, open, armed, due, cut, stopping, worker,
               supervisor, shutdown>>

Permitted == {"permit", "registered", "queued", "running", "lease", "release"}

FrontTypeOK ==
    /\ conn \in [Conn -> {"new", "closed"} \cup {"load"} \cup Permitted]
    /\ seen \in [Conn -> Nat] /\ inFlight \in Int
    /\ queue \in Seq(Conn)
    /\ open \in BOOLEAN /\ stopping \in BOOLEAN
    /\ armed \subseteq Conn /\ due \subseteq Conn /\ cut \subseteq Conn
    /\ worker \in [Worker -> Conn \cup {Free, "gone"}]
    /\ supervisor \in {"check", "wait", "sleep", "gone"}
    /\ shutdown \in {"no", "stop", "workers", "supervisor", "returned"}

FrontInit ==
    /\ conn = [c \in Conn |-> "new"] /\ seen = [c \in Conn |-> 0] /\ inFlight = 0
    /\ queue = <<>> /\ open = TRUE
    /\ armed = {} /\ due = {} /\ cut = {} /\ stopping = FALSE
    /\ worker = [w \in Worker |-> Free]
    /\ supervisor = "check" /\ shutdown = "no"

(* The connection is in the hands of a thread inside try_dispatch. *)
InDispatch(c) ==
    \/ conn[c] \in {"load", "permit", "registered"}
    \/ conn[c] \in {"lease", "release"} /\ \A w \in Worker : worker[w] # c

(* Condvar::notify_one, whose only waiter is the supervisor. *)
Notify == supervisor' = IF supervisor \in {"wait", "sleep"} THEN "check" ELSE supervisor

---------------------------------------------------------------------------
(* try_dispatch *)

LoadCounter(c) ==
    /\ conn[c] = "new"
    /\ conn' = [conn EXCEPT ![c] = IF open THEN "load" ELSE "closed"]
    /\ seen' = [seen EXCEPT ![c] = inFlight]
    /\ shutdown \in {"no", "returned"}
    /\ UNCHANGED <<inFlight, queue, open, armed, due, cut, stopping, worker, supervisor, shutdown>>

Saturated(c) ==
    /\ conn[c] = "load" /\ seen[c] >= MaxInFlight
    /\ conn' = [conn EXCEPT ![c] = "closed"]
    /\ UNCHANGED <<seen, inFlight, queue, open, armed, due, cut, stopping, worker, supervisor,
                   shutdown>>

(* Mutant: the counter is written without comparing it. *)
AcquireBlind(c) ==
    /\ conn[c] = "load" /\ seen[c] < MaxInFlight
    /\ inFlight' = seen[c] + 1
    /\ conn' = [conn EXCEPT ![c] = "permit"]
    /\ UNCHANGED <<seen, queue, open, armed, due, cut, stopping, worker, supervisor, shutdown>>

(* The compare-and-exchange of try_acquire_permit succeeds ... *)
Acquire(c) ==
    /\ conn[c] = "load" /\ seen[c] < MaxInFlight
    /\ inFlight = seen[c]
    /\ inFlight' = inFlight + 1
    /\ conn' = [conn EXCEPT ![c] = "permit"]
    /\ UNCHANGED <<seen, queue, open, armed, due, cut, stopping, worker, supervisor, shutdown>>

(* ... or fails, because the counter has changed or for no reason. *)
ReloadCounter(c) ==
    /\ conn[c] = "load" /\ seen[c] < MaxInFlight
    /\ seen' = [seen EXCEPT ![c] = inFlight]
    /\ UNCHANGED <<conn, inFlight, queue, open, armed, due, cut, stopping, worker, supervisor,
                   shutdown>>

(* Mutant: a new deadline does not wake the supervisor. *)
RegisterSilently(c) ==
    /\ conn[c] = "permit" /\ ~stopping
    /\ armed' = armed \cup {c}
    /\ conn' = [conn EXCEPT ![c] = "registered"]
    /\ UNCHANGED <<seen, inFlight, queue, open, due, cut, stopping, worker, supervisor, shutdown>>

Register(c) ==
    /\ conn[c] = "permit" /\ ~stopping
    /\ armed' = armed \cup {c}
    /\ conn' = [conn EXCEPT ![c] = "registered"]
    /\ Notify
    /\ UNCHANGED <<seen, inFlight, queue, open, due, cut, stopping, worker, shutdown>>

(* The socket cannot be configured or registered; only the permit is held. *)
RegisterFails(c) ==
    /\ conn[c] = "permit"
    /\ conn' = [conn EXCEPT ![c] = "release"]
    /\ UNCHANGED <<seen, inFlight, queue, open, armed, due, cut, stopping, worker, supervisor,
                   shutdown>>

(* The channel takes the job: it is not full, and a worker still receives. *)
Takes == Len(queue) < MaxInFlight /\ \E w \in Worker : worker[w] # "gone"

Send(c) ==
    /\ conn[c] = "registered"
    /\ queue' = IF Takes THEN Append(queue, c) ELSE queue
    /\ conn' = [conn EXCEPT ![c] = IF Takes THEN "queued" ELSE "lease"]
    /\ UNCHANGED <<seen, inFlight, open, armed, due, cut, stopping, worker, supervisor, shutdown>>

---------------------------------------------------------------------------
(* worker_loop *)

Receive(w) ==
    /\ worker[w] = Free /\ queue # <<>>
    /\ worker' = [worker EXCEPT ![w] = Head(queue)]
    /\ conn' = [conn EXCEPT ![Head(queue)] = "running"]
    /\ queue' = Tail(queue)
    /\ UNCHANGED <<seen, inFlight, open, armed, due, cut, stopping, supervisor, shutdown>>

(* Mutant: a worker stops as soon as the sender is gone. *)
LeaveEarly(w) ==
    /\ worker[w] = Free /\ ~open
    /\ worker' = [worker EXCEPT ![w] = "gone"]
    /\ UNCHANGED <<conn, seen, inFlight, queue, open, armed, due, cut, stopping, supervisor,
                   shutdown>>

(* The channel is disconnected, and empty. *)
Leave(w) ==
    /\ worker[w] = Free /\ queue = <<>> /\ ~open
    /\ worker' = [worker EXCEPT ![w] = "gone"]
    /\ UNCHANGED <<conn, seen, inFlight, queue, open, armed, due, cut, stopping, supervisor,
                   shutdown>>

(* The handler returns or panics; then the job is dropped field by field. *)
HandlerReturns(w) ==
    /\ worker[w] \in Conn /\ conn[worker[w]] = "running"
    /\ conn' = [conn EXCEPT ![worker[w]] = "lease"]
    /\ UNCHANGED <<seen, inFlight, queue, open, armed, due, cut, stopping, worker, supervisor,
                   shutdown>>

(* ConnectionReadDeadlineLease::drop *)
DropLease(c) ==
    /\ conn[c] = "lease"
    /\ armed' = armed \ {c}
    /\ conn' = [conn EXCEPT ![c] = "release"]
    /\ Notify
    /\ UNCHANGED <<seen, inFlight, queue, open, due, cut, stopping, worker, shutdown>>

(* InFlightPermit::drop; the worker that owned the job goes on. *)
DropPermit(c) ==
    /\ conn[c] = "release"
    /\ inFlight' = inFlight - 1
    /\ conn' = [conn EXCEPT ![c] = "closed"]
    /\ worker' = [w \in Worker |-> IF worker[w] = c THEN Free ELSE worker[w]]
    /\ UNCHANGED <<seen, queue, open, armed, due, cut, stopping, supervisor, shutdown>>

---------------------------------------------------------------------------
(* Read deadlines. *)

(* Time passes. *)
Expire(c) ==
    /\ c \in armed \ due
    /\ due' = due \cup {c}
    /\ UNCHANGED <<conn, seen, inFlight, queue, open, armed, cut, stopping, worker, supervisor,
                   shutdown>>

(* One round of supervise, which ends in a wait that releases the lock: one  *)
(* with a timeout if a deadline is left, else one that only a notify ends.   *)
Supervise ==
    /\ supervisor = "check"
    /\ supervisor' = IF stopping THEN "gone" ELSE IF armed \subseteq due THEN "sleep" ELSE "wait"
    /\ cut' = IF stopping THEN cut ELSE cut \cup (armed \cap due)
    /\ armed' = IF stopping THEN armed ELSE armed \ due
    /\ UNCHANGED <<conn, seen, inFlight, queue, open, due, stopping, worker, shutdown>>

(* The wait was given the time to the earliest deadline, and as all deadlines *)
(* are equally long none armed since passes before it.                        *)
SupervisorTimeout ==
    /\ supervisor = "wait" /\ armed \cap due # {}
    /\ supervisor' = "check"
    /\ UNCHANGED <<conn, seen, inFlight, queue, open, armed, due, cut, stopping, worker, shutdown>>

---------------------------------------------------------------------------
(* shutdown *)

ShutdownBegin ==
    /\ shutdown = "no" /\ \A c \in Conn : ~InDispatch(c)
    /\ shutdown' = "stop"
    /\ open' = FALSE
    /\ UNCHANGED <<conn, seen, inFlight, queue, armed, due, cut, stopping, worker, supervisor>>

(* stop_and_interrupt_all_reads *)
ShutdownStop ==
    /\ shutdown = "stop"
    /\ shutdown' = "workers"
    /\ stopping' = TRUE
    /\ cut' = cut \cup armed
    /\ armed' = {}
    /\ Notify
    /\ UNCHANGED <<conn, seen, inFlight, queue, open, due, worker>>

ShutdownWorkers ==
    /\ shutdown = "workers" /\ \A w \in Worker : worker[w] = "gone"
    /\ shutdown' = "supervisor"
    /\ UNCHANGED <<conn, seen, inFlight, queue, open, armed, due, cut, stopping, worker,
                   supervisor>>

ShutdownSupervisor ==
    /\ shutdown = "supervisor" /\ supervisor = "gone"
    /\ shutdown' = "returned"
    /\ UNCHANGED <<conn, seen, inFlight, queue, open, armed, due, cut, stopping, worker,
                   supervisor>>

---------------------------------------------------------------------------

Dispatch(c) ==
    \/ Saturated(c) \/ Acquire(c) \/ Register(c) \/ RegisterFails(c) \/ Send(c)
Drops(c) == DropLease(c) \/ DropPermit(c)
Works(w) == Receive(w) \/ Leave(w)
Stopping == ShutdownStop \/ ShutdownWorkers \/ ShutdownSupervisor

FrontNext ==
    \/ \E c \in Conn : LoadCounter(c) \/ Dispatch(c) \/ ReloadCounter(c) \/ Drops(c) \/ Expire(c)
    \/ \E w \in Worker : Works(w) \/ HandlerReturns(w)
    \/ Supervise \/ SupervisorTimeout
    \/ ShutdownBegin \/ Stopping

FrontSpec == FrontInit /\ [][FrontNext]_frontVars

(* Threads that can run do, deadlines pass, and a handler returns once its    *)
(* reads are interrupted; nothing is assumed of other handlers, nor that      *)
(* shutdown is called.                                                        *)
HandlerEnds(w) == worker[w] \in cut /\ HandlerReturns(w)

Fairness ==
    /\ \A c \in Conn : WF_frontVars(Dispatch(c)) /\ WF_frontVars(Drops(c))
                       /\ WF_frontVars(Expire(c))
    /\ \A w \in Worker : WF_frontVars(Works(w)) /\ WF_frontVars(HandlerEnds(w))
    /\ WF_frontVars(Supervise) /\ WF_frontVars(SupervisorTimeout) /\ WF_frontVars(Stopping)

FairSpec == FrontSpec /\ Fairness

---------------------------------------------------------------------------

Holding == {c \in Conn : conn[c] \in Permitted}

(* The counter is the number of queued, executing and half-dispatched         *)
(* connections, and never exceeds the limit, although threads read it first   *)
(* and change it later (in_flight, try_acquire_permit).                       *)
PermitsExact == inFlight = Cardinality(Holding) /\ inFlight <= MaxInFlight

(* A connection that has its permit finds room in the channel and a worker:   *)
(* try_send never refuses it (try_dispatch).                                  *)
SendSucceeds == \A c \in Conn : conn[c] = "registered" => Takes

(* Every accepted connection's reads are bounded: its deadline is active or   *)
(* its read half is shut down, until its handler has returned (try_dispatch,  *)
(* supervise, stop_and_interrupt_all_reads).                                  *)
ReadsBounded == \A c \in Conn : conn[c] \in {"queued", "running"} => c \in armed \cup cut

(* When shutdown returns every accepted connection has been handled and every *)
(* permit is back; nothing is left in the channel (shutdown).                 *)
ShutdownDrains ==
    shutdown \in {"supervisor", "returned"} =>
        inFlight = 0 /\ queue = <<>> /\ \A c \in Conn : conn[c] \in {"new", "closed"}

(* A connection whose deadline passes is interrupted or finished, also while  *)
(* it waits in the channel behind handlers that never end (supervise).        *)
DeadlineInterrupts == \A c \in Conn : c \in armed \cap due ~> c \notin armed

(* Every accepted connection is handled to its end, also when shutdown comes  *)
(* while it is queued.                                                        *)
AcceptedIsServed == \A c \in Conn : conn[c] = "queued" ~> conn[c] = "closed"

=============================================================================

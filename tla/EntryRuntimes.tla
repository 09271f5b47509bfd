------------------------------- MODULE EntryRuntimes -------------------------------
(***************************************************************************)
(* The cache of entry runtimes (entry/src/runtime.rs, EntryRuntimeManager)  *)
(* together with the learning service its runtimes are attached to.  A      *)
(* runtime owns one attachment handle, so the handle of LearningService     *)
(* stands for the runtime as well.  Requests for a scope look the cache up  *)
(* and build a missing runtime under the manager's lock; evicted runtimes   *)
(* are detached and closed after the lock has been released, while other    *)
(* threads already ask for the same scopes again.                           *)
(*                                                                          *)
(* The group in the factory keeps a handle of the service, so the service   *)
(* is never stopped by a dropped runtime; the jobs of the attachments are   *)
(* the subject of LearningService and stay empty here.                      *)
(***************************************************************************)
EXTENDS LearningService

CONSTANTS
    Scope,          \* EntryRuntimeScope values
    IdentityOf,     \* the learning identity a scope is mounted with
    MaxRuntimes     \* the largest limit a budget report grants

ASSUME EntryAssumption ==
    /\ IdentityOf \in [Scope -> Identity]
    /\ MaxRuntimes \in Nat \ {0}
    /\ None \notin Handle \cup Caller

VARIABLES
    cached,   \* scope -> runtime
    evicted,  \* scope -> weak reference to a runtime that was in use
    lru,      \* cached scopes, the oldest first
    mutex,    \* the thread that holds the manager's lock
    refs,     \* the runtimes a thread holds
    mgr       \* per thread, the request in progress

managerVars == <<cached, evicted, lru, mutex, refs, mgr>>
entryVars == <<vars, managerVars>>

NoRequest == [pc |-> "idle"]

LockRequest == [pc : {"lock"}, scope : Scope, limit : 1..MaxRuntimes]
BuildRequest ==
    [pc : {"build"}, scope : Scope, runtime : Handle, limit : 1..MaxRuntimes, close : Seq(Handle)]
CloseRequest == [pc : {"close"}, close : Seq(Handle), stage : {"detach", "close", "failed"}]

RequestType == {NoRequest} \cup LockRequest \cup BuildRequest \cup CloseRequest

EntryTypeOK ==
    /\ cached \in [Scope -> Handle \cup {None}]
    /\ evicted \in [Scope -> Handle \cup {None}]
    /\ lru \in Seq(Scope)
    /\ mutex \in Caller \cup {None}
    /\ refs \in [Caller -> SUBSET Handle]
    /\ mgr \in [Caller -> RequestType]

(* The first request created the group, its service and a runtime, and the    *)
(* thread that asked has dropped it again.                                    *)
EntryInit ==
    \E e \in Entry, h \in Handle, s \in Scope :
        /\ registry = <<e>>
        /\ of = [x \in Entry |-> IdentityOf[s]]
        /\ active = [x \in Entry |-> x = e]
        /\ handle = [x \in Handle |-> IF x = h THEN e ELSE None]
        /\ holds = [c \in Caller |-> TRUE]
        /\ work = [i \in Identity |-> "none"]
        /\ stop = FALSE /\ done = FALSE /\ unseen = FALSE
        /\ worker = [pc |-> "check", snapshot |-> NoSnapshot, progressed |-> FALSE, cut |-> FALSE]
        /\ call = [c \in Caller |-> Idle]
        /\ cached = [x \in Scope |-> IF x = s THEN h ELSE None]
        /\ evicted = [x \in Scope |-> None]
        /\ lru = <<s>>
        /\ mutex = None
        /\ refs = [c \in Caller |-> {}]
        /\ mgr = [c \in Caller |-> NoRequest]

---------------------------------------------------------------------------
(* The cache. *)

Cached == {s \in Scope : cached[s] # None}
Held(h) == \E c \in Caller : h \in refs[c]

(* The scopes that evict_to_limit takes from the front of the list. *)
Excess(limit) == IF Cardinality(Cached) <= limit THEN 0 ELSE Cardinality(Cached) - limit
Victims(limit) == {lru[k] : k \in 1..Excess(limit)}

(* Mutant: a runtime in use is forgotten instead of remembered. *)
WeakAfterForgotten(limit) ==
    [s \in Scope |-> IF s \in Victims(limit) THEN None ELSE evicted[s]]

(* Evicted runtimes that are in use stay known by a weak reference ...        *)
WeakAfter(limit) ==
    [s \in Scope |-> IF s \in Victims(limit) /\ Held(cached[s]) THEN cached[s] ELSE evicted[s]]

(* The enumeration of a set of positions in their order. *)
Ascending(P) ==
    {f \in [1..Cardinality(P) -> P] : \A m, n \in 1..Cardinality(P) : m < n => f[m] < f[n]}

(* Mutant: every evicted runtime is closed, in use or not. *)
UnusedAll(limit) ==
    {[n \in DOMAIN f |-> cached[lru[f[n]]]] : f \in Ascending(1..Excess(limit))}

(* ... and the others are closed once the lock is released, oldest first.     *)
Unused(limit) ==
    {[n \in DOMAIN f |-> cached[lru[f[n]]]] :
        f \in Ascending({k \in 1..Excess(limit) : ~Held(cached[lru[k]])})}

CachedAfter(limit) == [s \in Scope |-> IF s \in Victims(limit) THEN None ELSE cached[s]]
LruAfter(limit) == SubSeq(lru, Excess(limit) + 1, Len(lru))

Touched(list, s) == Append(Without(list, s), s)

(* A weak reference that can be upgraded, after dead ones have been pruned. *)
Upgradable(limit, s) == WeakAfter(limit)[s] # None /\ Held(WeakAfter(limit)[s])

Pruned(limit) ==
    [s \in Scope |-> IF Upgradable(limit, s) THEN WeakAfter(limit)[s] ELSE None]

---------------------------------------------------------------------------
(* runtime_for_scope *)

(* The limit comes from a budget report that is read before the lock. *)
Request(c, s, limit) ==
    /\ mgr[c] = NoRequest /\ call[c] = Idle
    /\ mgr' = [mgr EXCEPT ![c] = [pc |-> "lock", scope |-> s, limit |-> limit]]
    /\ UNCHANGED <<vars, cached, evicted, lru, mutex, refs>>

(* The scope has a runtime, cached or still in use. *)
Hit(c) ==
    /\ mgr[c].pc = "lock" /\ mutex = None
    /\ LET s == mgr[c].scope
           limit == mgr[c].limit
           isCached == CachedAfter(limit)[s] # None IN
       /\ isCached \/ Upgradable(limit, s)
       /\ refs' = [refs EXCEPT ![c] = @ \cup {IF isCached THEN cached[s] ELSE WeakAfter(limit)[s]}]
       /\ lru' = IF isCached THEN Touched(LruAfter(limit), s) ELSE LruAfter(limit)
       /\ cached' = CachedAfter(limit)
       /\ evicted' = Pruned(limit)
       /\ \E list \in Unused(limit) :
             mgr' = [mgr EXCEPT ![c] = [pc |-> "close", close |-> list, stage |-> "detach"]]
    /\ UNCHANGED <<vars, mutex>>

(* It has none: one is built, and attached, while the lock is held. *)
Miss(c, h) ==
    /\ mgr[c].pc = "lock" /\ mutex = None
    /\ LET s == mgr[c].scope
           limit == mgr[c].limit IN
       /\ CachedAfter(limit)[s] = None /\ ~Upgradable(limit, s)
       /\ Attach(c, IdentityOf[s], h)
       /\ lru' = LruAfter(limit)
       /\ cached' = CachedAfter(limit)
       /\ evicted' = Pruned(limit)
       /\ \E list \in Unused(limit) :
             mgr' = [mgr EXCEPT ![c] = [pc |-> "build", scope |-> s, runtime |-> h, limit |-> limit,
                                        close |-> list]]
    /\ mutex' = c
    /\ UNCHANGED refs

(* Mutant: the error path keeps the lock. *)
BuildFailedLocked(c) ==
    /\ mgr[c].pc = "build" /\ call[c] = Idle
    /\ handle[mgr[c].runtime] = None
    /\ mgr' = [mgr EXCEPT ![c] = [pc |-> "close", close |-> mgr[c].close, stage |-> "detach"]]
    /\ UNCHANGED <<vars, cached, evicted, lru, mutex, refs>>

(* The attachment was refused: the request fails, and still closes. *)
BuildFailed(c) ==
    /\ mgr[c].pc = "build" /\ call[c] = Idle
    /\ handle[mgr[c].runtime] = None
    /\ mutex' = None
    /\ mgr' = [mgr EXCEPT ![c] = [pc |-> "close", close |-> mgr[c].close, stage |-> "detach"]]
    /\ UNCHANGED <<vars, cached, evicted, lru, refs>>

Built(c) ==
    /\ mgr[c].pc = "build" /\ call[c] = Idle
    /\ handle[mgr[c].runtime] # None
    /\ LET limit == mgr[c].limit - 1 IN
       /\ cached' = [CachedAfter(limit) EXCEPT ![mgr[c].scope] = mgr[c].runtime]
       /\ evicted' = WeakAfter(limit)
       /\ lru' = Append(LruAfter(limit), mgr[c].scope)
       /\ \E list \in Unused(limit) :
             mgr' = [mgr EXCEPT ![c] = [pc |-> "close", close |-> mgr[c].close \o list,
                                        stage |-> "detach"]]
    /\ refs' = [refs EXCEPT ![c] = @ \cup {mgr[c].runtime}]
    /\ mutex' = None
    /\ UNCHANGED vars

(* close_entry_runtimes: detach, close, and the drop that detaches again.     *)
CloseDetach(c) ==
    /\ mgr[c].pc = "close" /\ mgr[c].close # <<>> /\ mgr[c].stage = "detach"
    /\ Detach(c, Head(mgr[c].close), "detach")
    /\ mgr' = [mgr EXCEPT ![c].stage = "close"]
    /\ UNCHANGED <<cached, evicted, lru, mutex, refs>>

(* Once a close has failed the runtimes behind it are dropped and no more.    *)
CloseDrop(c) ==
    /\ mgr[c].pc = "close" /\ mgr[c].close # <<>> /\ mgr[c].stage # "detach"
    /\ Detach(c, Head(mgr[c].close), "drop")
    /\ \E stage \in {"detach", "failed"} :
          /\ mgr[c].stage = "failed" => stage = "failed"
          /\ mgr' = [mgr EXCEPT ![c].stage = stage, ![c].close = Tail(@)]
    /\ UNCHANGED <<cached, evicted, lru, mutex, refs>>

(* A request that failed gives its runtime back as well, which is a Release.  *)
Answer(c) ==
    /\ mgr[c].pc = "close" /\ mgr[c].close = <<>> /\ call[c] = Idle
    /\ mgr' = [mgr EXCEPT ![c] = NoRequest]
    /\ UNCHANGED <<vars, cached, evicted, lru, mutex, refs>>

(* A thread lets go of a runtime; the last one to do so drops it. *)
Release(c, h) ==
    /\ mgr[c] = NoRequest /\ call[c] = Idle /\ h \in refs[c]
    /\ refs' = [refs EXCEPT ![c] = @ \ {h}]
    /\ IF (\E d \in Caller \ {c} : h \in refs[d]) \/ \E s \in Scope : cached[s] = h
       THEN UNCHANGED vars
       ELSE Detach(c, h, "drop")
    /\ UNCHANGED <<cached, evicted, lru, mutex, mgr>>

---------------------------------------------------------------------------

(* The parts of the service that run without jobs and without a stop. *)
Service ==
    \/ WorkerCheck \/ WorkerScan \/ WorkerEach \/ WorkerAfter \/ WorkerDecide \/ WorkerWoken
Inside(c) == AttachRefused(c) \/ AttachExisting(c) \/ AttachNew(c) \/ Deactivate(c) \/ Retain(c)
             \/ Notify(c)

Finish(c) ==
    \/ Hit(c) \/ \E h \in Handle : Miss(c, h)
    \/ BuildFailed(c) \/ Built(c) \/ CloseDetach(c) \/ CloseDrop(c) \/ Answer(c)

EntryNext ==
    \/ (Service \/ WorkerPoll \/ \E c \in Caller : Inside(c)) /\ UNCHANGED managerVars
    \/ \E c \in Caller :
        \/ Finish(c)
        \/ \E s \in Scope, limit \in 1..MaxRuntimes :
               Request(c, s, limit)
        \/ \E h \in Handle : Release(c, h)

EntrySpec == EntryInit /\ [][EntryNext]_entryVars

(* Threads that can run do. *)
EntryFairSpec ==
    /\ EntrySpec
    /\ \A c \in Caller : WF_entryVars(Finish(c) \/ (Inside(c) /\ UNCHANGED managerVars))

---------------------------------------------------------------------------

(* A runtime somebody can use: cached, or held by a thread. *)
Usable(h) == Held(h) \/ \E s \in Scope : cached[s] = h
ScopesOf(h) ==
    {s \in Scope : cached[s] = h \/ evicted[s] = h}

(* A scope is never served by two runtimes at once: a thread that still holds *)
(* an evicted runtime and one that asks again get the same one, so requests   *)
(* with one idempotency key meet (bounds_cache_without_splitting_active_scope).*)
NoSplitScope ==
    /\ \A s \in Scope : cached[s] # None => ~(evicted[s] # None /\ Held(evicted[s]))
    /\ \A h \in Handle : Held(h) => Cardinality(ScopesOf(h)) = 1

(* The cache never exceeds the granted limit, and the list by which runtimes  *)
(* are evicted names each cached scope once, so none can escape eviction.     *)
CacheIsListed ==
    /\ Cardinality(Cached) <= MaxRuntimes
    /\ Len(lru) = Cardinality(Cached) /\ Range(lru) = Cached

(* A runtime that is closed is used by nobody, and is closed once. *)
ClosedIsUnused ==
    \A c \in Caller : mgr[c].pc \in {"build", "close"} =>
        \A k \in 1..Len(mgr[c].close) :
            /\ ~Usable(mgr[c].close[k])
            /\ \A d \in Caller : mgr[d].pc \in {"build", "close"} =>
                \A m \in 1..Len(mgr[d].close) :
                    mgr[c].close[k] = mgr[d].close[m] => c = d /\ k = m

(* When no call is running, every usable runtime is attached to the service   *)
(* and served by its worker (runtime_contract.rs counts one attachment for    *)
(* every runtime it holds).                                                   *)
UsableIsServed ==
    (\A c \in Caller : mgr[c] = NoRequest /\ call[c] = Idle) =>
        \A h \in Handle : Usable(h) => Registered(handle[h]) /\ active[handle[h]]

(* Every request for a runtime returns, also one that cannot be attached; a   *)
(* thread that waits for the manager's lock gets it unless another request is *)
(* answered instead (runtime_for_scope).                                      *)
RequestsReturn ==
    \A c \in Caller :
        /\ mgr[c].pc \in {"build", "close"} ~> mgr[c].pc = "idle"
        /\ mgr[c].pc = "lock" ~>
               (mgr[c].pc # "lock" \/ \E d \in Caller \ {c} : mgr[d].pc = "close")
=============================================================================

----------------------------- MODULE FileStore -----------------------------
(***************************************************************************)
(* The file backend (store_internal/file.rs).  A document is two files,   *)
(* its data and its key index; the event log is one append-only file.  A  *)
(* transaction writes a Prepared journal holding the before and after     *)
(* images, restores the after image file by file, renames the journal to  *)
(* Committed and removes it.  Whoever next takes the exclusive lock and    *)
(* finds a journal restores the image its state names.  Threads of one    *)
(* process queue on the root gate before they try the advisory lock.  A   *)
(* process may die, and a file operation may fail, between any two steps. *)
(***************************************************************************)
EXTENDS StoreRequests

CONSTANTS
    Process,
    ProcessOf,   \* ProcessOf[t]: the process thread t runs in
    NoThread, NoKey, NoJournal, NoImage

ASSUME ThreadAssumption ==
    /\ ProcessOf \in [Thread -> Process]
    /\ NoThread \notin Thread
    /\ NoKey \notin Key

(* FileTransactionImage; mode tells Append{prefix_len, events} from       *)
(* Replace{events}.                                                       *)
ImageType ==
    [docs : Partial(Key, Image), mode : {"append", "replace"},
     prefix : Nat, events : Seq(Event)]

JournalType ==
    [state : {"Prepared", "Committed"}, before : ImageType, after : ImageType]

ASSUME SentinelAssumption ==
    /\ NoJournal \notin JournalType
    /\ NoImage \notin ImageType

VARIABLES
    data, index,          \* the two files of each address
    log, torn,            \* whole events; is there a partial event after them?
    journal,              \* the transaction marker file
    gate,                 \* gate[p]: the holder of p's local_root_gate
    xlock, slock,         \* the advisory lock: exclusive holder, shared holders
    pc, op, mode, req, want,
    phase, target,        \* restoring in recovery or in apply, and which image
    todo, cur, left,      \* addresses and events still to process
    snap, view, result

disk == <<data, index, log, torn, journal>>
locks == <<gate, xlock, slock>>
work == <<phase, target, todo, cur, left>>
client == <<op, req, want, snap, view, result>>
vars == <<disk, locks, pc, mode, work, client>>

ExclusivePC ==
    {"journal", "plan", "restore", "append", "mark", "remove", "return"}
SharedPC == {"marker", "reading"}
PC == {"idle", "preflight", "gate", "lock"} \cup SharedPC \cup ExclusivePC

Init ==
    /\ data = InitDocs
    /\ index = [k \in Key |-> InitDocs[k] # Absent]
    /\ log = <<>> /\ torn = FALSE /\ journal = NoJournal
    /\ gate = [p \in Process |-> NoThread]
    /\ xlock = NoThread /\ slock = {}
    /\ pc = [t \in Thread |-> "idle"]
    /\ op = [t \in Thread |-> "none"]
    /\ mode = [t \in Thread |-> "shared"]
    /\ req = [t \in Thread |-> NoRequest]
    /\ want = [t \in Thread |-> {}]
    /\ phase = [t \in Thread |-> "recover"]
    /\ target = [t \in Thread |-> NoImage]
    /\ todo = [t \in Thread |-> {}]
    /\ cur = [t \in Thread |-> NoKey]
    /\ left = [t \in Thread |-> <<>>]
    /\ snap = [t \in Thread |-> NoDocs]
    /\ view = [t \in Thread |-> NoDocs]
    /\ result = [t \in Thread |-> "none"]
-----------------------------------------------------------------------------
(* Calls and answers *)

(* FileBackendLock is dropped: advisory lock and gate together. *)
Unlock(D) ==
    /\ gate' = [p \in Process |-> IF gate[p] \in D THEN NoThread ELSE gate[p]]
    /\ xlock' = IF xlock \in D THEN NoThread ELSE xlock
    /\ slock' = slock \ D

ClearWork(D) ==
    /\ phase' = [t \in Thread |-> IF t \in D THEN "recover" ELSE phase[t]]
    /\ target' = [t \in Thread |-> IF t \in D THEN NoImage ELSE target[t]]
    /\ todo' = [t \in Thread |-> IF t \in D THEN {} ELSE todo[t]]
    /\ cur' = [t \in Thread |-> IF t \in D THEN NoKey ELSE cur[t]]
    /\ left' = [t \in Thread |-> IF t \in D THEN <<>> ELSE left[t]]

(* The threads of D leave the engine with answer res and view v. *)
Leave(D, res, v) ==
    /\ Unlock(D) /\ ClearWork(D)
    /\ pc' = [t \in Thread |-> IF t \in D THEN "idle" ELSE pc[t]]
    /\ op' = [t \in Thread |-> IF t \in D THEN "none" ELSE op[t]]
    /\ mode' = [t \in Thread |-> IF t \in D THEN "shared" ELSE mode[t]]
    /\ req' = [t \in Thread |-> IF t \in D THEN NoRequest ELSE req[t]]
    /\ want' = [t \in Thread |-> IF t \in D THEN {} ELSE want[t]]
    /\ snap' = [t \in Thread |-> IF t \in D THEN NoDocs ELSE snap[t]]
    /\ view' = [t \in Thread |-> IF t \in D THEN v ELSE view[t]]
    /\ result' = [t \in Thread |-> IF t \in D THEN res ELSE result[t]]

Call(t, o, r, S, m, p) ==
    /\ pc[t] = "idle"
    /\ pc' = [pc EXCEPT ![t] = p]
    /\ op' = [op EXCEPT ![t] = o]
    /\ req' = [req EXCEPT ![t] = r]
    /\ want' = [want EXCEPT ![t] = S]
    /\ mode' = [mode EXCEPT ![t] = m]
    /\ view' = [view EXCEPT ![t] = NoDocs]
    /\ result' = [result EXCEPT ![t] = "none"]
    /\ UNCHANGED <<disk, locks, work, snap>>

(* commit_transaction_admitted and replace_scoped_projection *)
CallCommit(t, r) == Call(t, "commit", r, {}, "exclusive", "gate")

(* read_consistent_known_keys, and an immutable read session *)
CallRead(t, S) == Call(t, "read", NoRequest, S, "shared", "gate")

CallOpen(t) == Call(t, "open", NoRequest, {}, "exclusive", "preflight")

Answered(t, res) == UNCHANGED disk /\ Leave({t}, res, NoDocs)

Goto(t, p) == pc' = [pc EXCEPT ![t] = p]

(* open_internal checks the manifest and the whole footprint before it    *)
(* takes the lock; files changing under that scan can fail it.            *)
Preflight(t) ==
    /\ pc[t] = "preflight"
    /\ \/ /\ Goto(t, "gate")
          /\ UNCHANGED <<disk, locks, mode, work, client>>
       \/ xlock # NoThread /\ Answered(t, "io")
-----------------------------------------------------------------------------
(* acquire_backend_lock_internal: the gate is kept while polling the lock. *)

TakeGate(t) ==
    /\ pc[t] = "gate" /\ gate[ProcessOf[t]] = NoThread
    /\ gate' = [gate EXCEPT ![ProcessOf[t]] = t]
    /\ Goto(t, "lock")
    /\ UNCHANGED <<disk, xlock, slock, mode, work, client>>

LockFree(t) == xlock = NoThread /\ (mode[t] = "exclusive" => slock = {})

TakeLock(t) ==
    /\ pc[t] = "lock" /\ LockFree(t)
    /\ IF mode[t] = "exclusive"
       THEN xlock' = t /\ UNCHANGED slock /\ Goto(t, "journal")
       ELSE slock' = slock \cup {t} /\ UNCHANGED xlock /\ Goto(t, "marker")
    /\ UNCHANGED <<disk, gate, mode, work, client>>

LockTimeout(t) ==
    /\ pc[t] = "lock" /\ ~LockFree(t)
    /\ Answered(t, "busy")
-----------------------------------------------------------------------------
(* Reading under the shared lock *)

(* Mutant: the reader asks for the next lock while it still has the first. *)
RelockWithoutDrop(t, m) ==
    /\ UNCHANGED locks /\ ClearWork({t})
    /\ mode' = [mode EXCEPT ![t] = m]
    /\ Goto(t, "gate")

(* Drop the lock and queue again for it in mode m. *)
Relock(t, m) ==
    /\ Unlock({t}) /\ ClearWork({t})
    /\ mode' = [mode EXCEPT ![t] = m]
    /\ Goto(t, "gate")

(* Mutant: the reader does not look for a marker. *)
CheckNoMarker(t) ==
    /\ pc[t] = "marker"
    /\ Goto(t, "reading")
    /\ todo' = [todo EXCEPT ![t] = want[t]]
    /\ UNCHANGED <<locks, mode, phase, target, cur, left, disk, client>>

(* with_shared_backend: a marker sends the reader to recovery first. *)
CheckMarker(t) ==
    /\ pc[t] = "marker"
    /\ IF journal = NoJournal
       THEN /\ Goto(t, "reading")
            /\ todo' = [todo EXCEPT ![t] = want[t]]
            /\ UNCHANGED <<locks, mode, phase, target, cur, left>>
       ELSE Relock(t, "exclusive")
    /\ UNCHANGED <<disk, client>>

Paired(k) == index[k] <=> data[k] # Absent

ReadKey(t, k) ==
    /\ pc[t] = "reading" /\ k \in todo[t]
    /\ IF Paired(k)
       THEN /\ snap' = [snap EXCEPT ![t] =
                          [q \in DOMAIN @ \cup {k} |-> IF q = k THEN data[k] ELSE @[q]]]
            /\ todo' = [todo EXCEPT ![t] = @ \ {k}]
            /\ UNCHANGED <<disk, locks, pc, mode, phase, target, cur, left,
                           op, req, want, view, result>>
       ELSE Answered(t, "damaged")

FinishRead(t) ==
    /\ pc[t] = "reading" /\ todo[t] = {}
    /\ UNCHANGED disk
    /\ Leave({t}, "ok", snap[t])
-----------------------------------------------------------------------------
(* Recovery *)

Settled(j) == IF j.state = "Prepared" THEN j.before ELSE j.after

StartRestore(t, ph, img) ==
    /\ Goto(t, "restore")
    /\ phase' = [phase EXCEPT ![t] = ph]
    /\ target' = [target EXCEPT ![t] = img]
    /\ todo' = [todo EXCEPT ![t] = DOMAIN img.docs]
    /\ UNCHANGED <<cur, left>>

(* What the code does next once no journal is left. *)
Recovered(t) ==
    \/ /\ op[t] = "commit"
       /\ Goto(t, "plan") /\ ClearWork({t})
       /\ UNCHANGED <<locks, mode, client>>
    \/ op[t] = "read" /\ Relock(t, "shared") /\ UNCHANGED client
    \/ op[t] = "open" /\ Leave({t}, "ok", NoDocs)

(* Mutant: preflight rejects a torn log although the journal repairs it. *)
OpenAdmitsWholeLog == (\A k \in Key : Paired(k)) /\ ~torn

(* run_open_preflight, repeated under the lock *)
OpenAdmits ==
    IF journal = NoJournal
    THEN (\A k \in Key : Paired(k)) /\ ~torn
    ELSE /\ \A k \in Key \ DOMAIN journal.before.docs : Paired(k)
         /\ IF journal.before.mode = "append"
            THEN journal.before.prefix <= Len(log)
            ELSE ~torn

(* recover_transaction_if_needed, recover_validated_transaction *)
ReadJournal(t) ==
    /\ pc[t] = "journal"
    /\ IF op[t] = "open" /\ ~OpenAdmits
       THEN Leave({t}, "damaged", NoDocs)
       ELSE IF journal = NoJournal
            THEN Recovered(t)
            ELSE /\ StartRestore(t, "recover", Settled(journal))
                 /\ UNCHANGED <<locks, mode, client>>
    /\ UNCHANGED disk
-----------------------------------------------------------------------------
(* restore_transaction_image, one file operation per step *)

(* A put writes the index first; a delete removes the data first. *)
RestoreFirst(t, k) ==
    /\ pc[t] = "restore" /\ cur[t] = NoKey /\ k \in todo[t]
    /\ IF target[t].docs[k] # Absent
       THEN index' = [index EXCEPT ![k] = TRUE] /\ UNCHANGED data
       ELSE data' = [data EXCEPT ![k] = Absent] /\ UNCHANGED index
    /\ cur' = [cur EXCEPT ![t] = k]
    /\ UNCHANGED <<log, torn, journal, locks, pc, mode, phase, target, todo,
                   left, client>>

RestoreSecond(t) ==
    /\ pc[t] = "restore" /\ cur[t] # NoKey
    /\ IF target[t].docs[cur[t]] # Absent
       THEN data' = [data EXCEPT ![cur[t]] = target[t].docs[cur[t]]] /\ UNCHANGED index
       ELSE index' = [index EXCEPT ![cur[t]] = FALSE] /\ UNCHANGED data
    /\ todo' = [todo EXCEPT ![t] = @ \ {cur[t]}]
    /\ cur' = [cur EXCEPT ![t] = NoKey]
    /\ UNCHANGED <<log, torn, journal, locks, pc, mode, phase, target, left,
                   client>>

(* set_len cuts the log back to the prefix, or pads a shorter file with   *)
(* bytes that are no event; a replacement renames a whole new log over it. *)
RestoreEvents(t) ==
    /\ pc[t] = "restore" /\ todo[t] = {}
    /\ IF target[t].mode = "append"
       THEN /\ log' = SubSeq(log, 1, target[t].prefix)
            /\ torn' = (target[t].prefix > Len(log))
            /\ left' = [left EXCEPT ![t] = target[t].events]
       ELSE log' = target[t].events /\ torn' = FALSE /\ UNCHANGED left
    /\ Goto(t, "append")
    /\ UNCHANGED <<data, index, journal, locks, mode, phase, target, todo, cur,
                   client>>

(* append_event_unchecked: the event's bytes, then its newline *)
AppendBytes(t) ==
    /\ pc[t] = "append" /\ left[t] # <<>> /\ ~torn
    /\ torn' = TRUE
    /\ UNCHANGED <<data, index, log, journal, locks, pc, mode, work, client>>

AppendNewline(t) ==
    /\ pc[t] = "append" /\ left[t] # <<>> /\ torn
    /\ log' = Append(log, Head(left[t])) /\ torn' = FALSE
    /\ left' = [left EXCEPT ![t] = Tail(@)]
    /\ UNCHANGED <<data, index, journal, locks, pc, mode, phase, target, todo,
                   cur, client>>

RestoreDone(t) ==
    /\ pc[t] = "append" /\ left[t] = <<>>
    /\ Goto(t, IF phase[t] = "recover" THEN "remove" ELSE "mark")
    /\ UNCHANGED <<disk, locks, mode, work, client>>

(* remove_transaction_journal, at the end of recovery and of a commit *)
RemoveJournal(t) ==
    /\ pc[t] = "remove"
    /\ journal' = NoJournal
    /\ UNCHANGED <<data, index, log, torn>>
    /\ IF phase[t] = "recover"
       THEN Recovered(t)
       ELSE Goto(t, "return") /\ UNCHANGED <<locks, mode, work, client>>
-----------------------------------------------------------------------------
(* Committing *)

Touched(r) ==
    IF r.kind = "commit"
    THEN DOMAIN r.expect \cup DOMAIN r.write
    ELSE {k \in DOMAIN r.write : data[k] # Absent \/ r.write[k] # Absent}

BeforeImage(r) ==
    [docs |-> [k \in Touched(r) |-> data[k]],
     mode |-> IF r.kind = "commit" THEN "append" ELSE "replace",
     prefix |-> IF r.kind = "commit" THEN Len(log) ELSE 0,
     events |-> IF r.kind = "commit" THEN <<>> ELSE log]

AfterImage(r) ==
    [BeforeImage(r) EXCEPT
        !.docs = [k \in Touched(r) |-> DocsAfter(r, data)[k]],
        !.events = IF r.kind = "commit" THEN r.events ELSE LogAfter(r, log)]

(* load_transaction_context reads every touched address and the log. *)
ContextReadable(r) == (\A k \in Touched(r) : Paired(k)) /\ ~torn

(* validate_inside_engine_fence: the admission report may have expired or *)
(* been superseded since it was issued.                                   *)
FenceRejects(t) == pc[t] = "plan" /\ Answered(t, "rejected")

(* Mutant: the preconditions are not compared again under the lock. *)
PrepareUnchecked(t) ==
    /\ pc[t] = "plan"
    /\ IF ~ContextReadable(req[t])
       THEN Answered(t, "damaged")
       ELSE IF ~Fits(req[t], data, log)
       THEN Answered(t, "rejected")
       ELSE /\ journal' = [state |-> "Prepared", before |-> BeforeImage(req[t]),
                           after |-> AfterImage(req[t])]
            /\ StartRestore(t, "apply", AfterImage(req[t]))
            /\ UNCHANGED <<data, index, log, torn, locks, mode, client>>

(* load_transaction_context, apply_transaction, and the Prepared journal  *)
Prepare(t) ==
    /\ pc[t] = "plan"
    /\ IF ~ContextReadable(req[t])
       THEN Answered(t, "damaged")
       ELSE IF ~Matches(req[t], data)
       THEN Answered(t, "conflict")
       ELSE IF ~Fits(req[t], data, log)
       THEN Answered(t, "rejected")
       ELSE /\ journal' = [state |-> "Prepared", before |-> BeforeImage(req[t]),
                           after |-> AfterImage(req[t])]
            /\ StartRestore(t, "apply", AfterImage(req[t]))
            /\ UNCHANGED <<data, index, log, torn, locks, mode, client>>

(* The rename of the Committed journal is the commit point. *)
MarkCommitted(t) ==
    /\ pc[t] = "mark"
    /\ journal' = [journal EXCEPT !.state = "Committed"]
    /\ Goto(t, "remove")
    /\ UNCHANGED <<data, index, log, torn, locks, mode, work, client>>

CommitReturns(t) == pc[t] = "return" /\ Answered(t, "ok")
-----------------------------------------------------------------------------
(* Faults *)

(* A file operation of t fails, the scan before the lock and the opening or *)
(* trying of the lock file included; what it had already changed stays.     *)
FileError(t) ==
    /\ pc[t] \in {"preflight", "lock"} \cup SharedPC \cup ExclusivePC
    /\ Answered(t, "io")

(* The process dies and the system drops its locks. *)
Crash(p) ==
    /\ UNCHANGED disk
    /\ Leave({t \in Thread : ProcessOf[t] = p}, "none", NoDocs)

ThreadStep(t) ==
    \/ Preflight(t) \/ TakeGate(t) \/ TakeLock(t) \/ LockTimeout(t)
    \/ CheckMarker(t) \/ (\E k \in Key : ReadKey(t, k)) \/ FinishRead(t)
    \/ ReadJournal(t) \/ (\E k \in Key : RestoreFirst(t, k)) \/ RestoreSecond(t)
    \/ RestoreEvents(t) \/ AppendBytes(t) \/ AppendNewline(t) \/ RestoreDone(t)
    \/ RemoveJournal(t) \/ FenceRejects(t) \/ Prepare(t) \/ MarkCommitted(t)
    \/ CommitReturns(t)

Next ==
    \/ \E t \in Thread :
          \/ \E r \in Request : CallCommit(t, r)
          \/ \E S \in SUBSET Key : CallRead(t, S)
          \/ CallOpen(t)
          \/ ThreadStep(t)
          \/ FileError(t)
    \/ \E p \in Process : Crash(p)

Spec == Init /\ [][Next]_vars

(* The system keeps scheduling every thread that can take its next step;  *)
(* a mutex that stays free is granted, a poll that can end ends.          *)
FairSpec == Spec /\ \A t \in Thread : WF_vars(ThreadStep(t))
-----------------------------------------------------------------------------
(* What the store holds: the files, overlaid with the image recovery      *)
(* would restore.                                                         *)
StoredDocs ==
    IF journal = NoJournal THEN data
    ELSE [k \in Key |-> IF k \in DOMAIN Settled(journal).docs
                        THEN Settled(journal).docs[k] ELSE data[k]]

StoredLog ==
    IF journal = NoJournal THEN log
    ELSE IF Settled(journal).mode = "append"
         THEN SubSeq(log, 1, Settled(journal).prefix) \o Settled(journal).events
         ELSE Settled(journal).events

TookEffect(t) ==
    op[t] = "commit" /\ phase[t] = "apply" /\ pc[t] \in {"remove", "return"}

Atomic ==
    INSTANCE AtomicStore WITH
        docs <- StoredDocs, elog <- StoredLog, pend <- req,
        applied <- [t \in Thread |-> TookEffect(t)]

DiskType ==
    /\ data \in [Key -> Image] /\ index \in [Key -> BOOLEAN]
    /\ log \in Seq(Event) /\ torn \in BOOLEAN
    /\ journal \in JournalType \cup {NoJournal}

LockType ==
    /\ gate \in [Process -> Thread \cup {NoThread}]
    /\ xlock \in Thread \cup {NoThread} /\ slock \in SUBSET Thread

CallType ==
    /\ pc \in [Thread -> PC]
    /\ op \in [Thread -> {"none", "commit", "read", "open"}]
    /\ mode \in [Thread -> {"shared", "exclusive"}]
    /\ req \in [Thread -> Request \cup {NoRequest}]
    /\ want \in [Thread -> SUBSET Key]

WorkType ==
    /\ phase \in [Thread -> {"recover", "apply"}]
    /\ target \in [Thread -> ImageType \cup {NoImage}]
    /\ todo \in [Thread -> SUBSET Key]
    /\ cur \in [Thread -> Key \cup {NoKey}]
    /\ left \in [Thread -> Seq(Event)]

Answers == {"none", "ok", "conflict", "rejected", "busy", "io", "damaged"}

AnswerType ==
    /\ snap \in [Thread -> Partial(Key, Image)]
    /\ view \in [Thread -> Partial(Key, Image)]
    /\ result \in [Thread -> Answers]

TypeOK == DiskType /\ LockType /\ CallType /\ WorkType /\ AnswerType

(* A thread that changes files holds the exclusive lock, nobody reads     *)
(* beside it, and each lock holder also holds its process's gate.         *)
LockDiscipline ==
    /\ \A t \in Thread : xlock = t <=> pc[t] \in ExclusivePC
    /\ \A t \in Thread : t \in slock <=> pc[t] \in SharedPC
    /\ xlock # NoThread => slock = {}
    /\ \A t \in Thread : gate[ProcessOf[t]] = t
                            <=> pc[t] \in {"lock"} \cup SharedPC \cup ExclusivePC

(* Whatever step a process dies at, the files are whole again once no     *)
(* journal is left, and a journal names every address that is not whole:  *)
(* no crash leaves an index without data, data without an index or half   *)
(* an event that recovery would not repair.                               *)
NoSilentDamage ==
    IF journal = NoJournal
    THEN (\A k \in Key : Paired(k)) /\ ~torn
    ELSE \A k \in Key : Paired(k) \/ k \in DOMAIN Settled(journal).docs

(* Recovery never lengthens the log with padding: the prefix both images  *)
(* keep is still on disk, however often recovery itself was interrupted.  *)
PrefixOnDisk ==
    journal # NoJournal =>
        /\ journal.before.mode = journal.after.mode
        /\ journal.before.mode = "append" =>
              /\ journal.before.prefix = journal.after.prefix
              /\ journal.before.prefix <= Len(log)

(* A reader holding the shared lock has only seen documents of one        *)
(* committed state, although it reads them one file at a time.            *)
ReadsOneState ==
    \A t \in Thread : pc[t] = "reading" =>
        /\ journal = NoJournal
        /\ \A k \in DOMAIN snap[t] : snap[t][k] = StoredDocs[k]

(* No operation ever finds the store damaged: a read or a transaction     *)
(* meets paired files, and an open's preflight admits every state a crash *)
(* can leave.                                                             *)
NeverDamaged == \A t \in Thread : result[t] # "damaged"

(* A transaction whose outcome was lost (an I/O error after the commit    *)
(* point, or a crash) and which is submitted again is not applied twice:  *)
(* the event log never holds one event id twice.                          *)
NoDuplicateEvents == Distinct(StoredLog)

(* The entry and event budgets hold for what recovery would restore too.  *)
WithinCapacity ==
    /\ Cardinality(Present(StoredDocs)) <= KvMaxEntries
    /\ Len(StoredLog) <= EventLogMaxItems

(* The journal protocol implements the atomic store: transactions take    *)
(* effect at the rename of the Committed journal, crash and recovery      *)
(* included, and every answer is truthful.                                *)
ImplementsAtomicStore == Atomic!Spec

(* Nobody waits for ever on the gate, the advisory lock or a recovery     *)
(* somebody else left behind: when clients stop calling, every call that  *)
(* is open returns, whatever fails or dies meanwhile.                     *)
CallsReturn ==
    <>[][\A t \in Thread : pc[t] = "idle" => pc'[t] = "idle"]_vars
        => \A t \in Thread : <>[](pc[t] = "idle")
-----------------------------------------------------------------------------
(* The inductive invariant *)

RestorePC == {"restore", "append", "mark", "remove"}

(* Which operation and which lock mode a thread can be in at each point. *)
CallShape(t) ==
    /\ pc[t] = "idle" <=> op[t] = "none"
    /\ op[t] = "commit" <=> req[t] # NoRequest
    /\ pc[t] = "preflight" => op[t] = "open"
    /\ pc[t] \in SharedPC => op[t] = "read"
    /\ pc[t] \in {"plan", "mark", "return"} => op[t] = "commit"
    /\ mode[t] = "shared" => op[t] \in {"none", "read"}
    /\ pc[t] \in {"mark", "return"} => phase[t] = "apply"
    /\ phase[t] = "apply" => op[t] = "commit" /\ pc[t] \in RestorePC \cup {"return"}
    /\ pc[t] # "restore" => cur[t] = NoKey
    /\ pc[t] # "append" => left[t] = <<>>
    /\ pc[t] # "reading" => snap[t] = NoDocs

(* The two images of a journal cover the same addresses and the same part *)
(* of the log, and every damaged file is one they cover.                  *)
JournalCovers ==
    journal # NoJournal =>
        /\ DOMAIN journal.before.docs = DOMAIN journal.after.docs
        /\ journal.before.mode = journal.after.mode
        /\ journal.before.mode = "append" =>
              /\ journal.before.prefix = journal.after.prefix
              /\ journal.before.prefix <= Len(log)
              /\ journal.before.events = <<>>
        /\ journal.before.mode = "replace" => ~torn
        /\ \A k \in Key : Paired(k) \/ k \in DOMAIN journal.before.docs

CleanWithoutJournal ==
    journal = NoJournal => (\A k \in Key : Paired(k)) /\ ~torn

ImageLog(img) ==
    IF img.mode = "append"
    THEN SubSeq(log, 1, img.prefix) \o img.events ELSE img.events

(* Every address t has dealt with holds what the image says. *)
Restored(t) ==
    \A k \in DOMAIN target[t].docs \ todo[t] :
        data[k] = target[t].docs[k] /\ (index[k] <=> data[k] # Absent)

(* How far the holder of the exclusive lock has come. *)
RestoreProgress(t) ==
    pc[t] \in RestorePC =>
        /\ journal # NoJournal
        /\ target[t] = IF phase[t] = "recover" THEN Settled(journal) ELSE journal.after
        /\ phase[t] = "apply" =>
              journal.state = IF pc[t] = "remove" THEN "Committed" ELSE "Prepared"
        /\ Restored(t)
        /\ todo[t] \subseteq DOMAIN target[t].docs
        /\ cur[t] # NoKey =>
              /\ cur[t] \in todo[t]
              /\ IF target[t].docs[cur[t]] # Absent
                 THEN index[cur[t]] ELSE data[cur[t]] = Absent
        /\ pc[t] # "restore" => todo[t] = {}
        /\ pc[t] = "append" => /\ log \o left[t] = ImageLog(target[t])
                               /\ left[t] = <<>> => ~torn
                               /\ left[t] # <<>> => target[t].mode = "append"
        /\ pc[t] \in {"mark", "remove"} => log = ImageLog(target[t]) /\ ~torn

JournalAbsent(t) ==
    pc[t] \in {"plan", "return", "reading"} => journal = NoJournal

(* Until the commit point the after image is the request's effect on what *)
(* is stored, and the request is still admissible.                        *)
AfterImageIsEffect(t) ==
    phase[t] = "apply" /\ pc[t] \in {"restore", "append", "mark"} =>
        /\ Matches(req[t], StoredDocs)
        /\ Fits(req[t], StoredDocs, StoredLog)
        /\ \A k \in Key :
              DocsAfter(req[t], StoredDocs)[k] =
                 IF k \in DOMAIN journal.after.docs THEN journal.after.docs[k] ELSE data[k]
        /\ LogAfter(req[t], StoredLog) = ImageLog(journal.after)

ReadProgress(t) ==
    pc[t] = "reading" =>
        /\ todo[t] \subseteq want[t]
        /\ DOMAIN snap[t] = want[t] \ todo[t]
        /\ \A k \in DOMAIN snap[t] : snap[t][k] = data[k]

ThreadInv(t) ==
    /\ CallShape(t) /\ RestoreProgress(t) /\ JournalAbsent(t)
    /\ AfterImageIsEffect(t) /\ ReadProgress(t)

IInv ==
    /\ TypeOK /\ LockDiscipline
    /\ JournalCovers /\ CleanWithoutJournal
    /\ \A t \in Thread : ThreadInv(t)
    /\ NeverDamaged /\ NoDuplicateEvents /\ WithinCapacity
=============================================================================

-------------------------- MODULE FileStoreProofs --------------------------
EXTENDS FileStore, TLAPS

(* A log cut back to a prefix it has can be cut back there again. *)
LEMMA CutTwice ==
    ASSUME NEW s \in Seq(Event), NEW n \in Nat, n <= Len(s)
    PROVE  /\ SubSeq(s, 1, n) \in Seq(Event)
           /\ Len(SubSeq(s, 1, n)) = n
           /\ SubSeq(SubSeq(s, 1, n), 1, n) = SubSeq(s, 1, n)
           /\ SubSeq(s, 1, Len(s)) = s
  OBVIOUS

(* An appended event does not show in a prefix of the old log. *)
LEMMA CutOfAppend ==
    ASSUME NEW s \in Seq(Event), NEW e \in Event, NEW n \in Nat, n <= Len(s)
    PROVE  SubSeq(Append(s, e), 1, n) = SubSeq(s, 1, n)
  OBVIOUS

(* Cutting back what was appended gives the old log. *)
LEMMA CutOfConcat ==
    ASSUME NEW s \in Seq(Event), NEW u \in Seq(Event)
    PROVE  SubSeq(s \o u, 1, Len(s)) = s
  OBVIOUS

(* Moving the next event from the work list to the log. *)
LEMMA ShiftHead ==
    ASSUME NEW s \in Seq(Event), NEW u \in Seq(Event), u # <<>>
    PROVE  /\ Head(u) \in Event /\ Tail(u) \in Seq(Event)
           /\ Append(s, Head(u)) \o Tail(u) = s \o u
  OBVIOUS

(* Appending nothing leaves a log as it is. *)
LEMMA EmptyConcat ==
    ASSUME NEW s \in Seq(Event)
    PROVE  s \o <<>> = s /\ <<>> \in Seq(Event)
  OBVIOUS

(* The empty set of documents is well typed. *)
LEMMA NoDocsType == NoDocs \in Partial(Key, Image) /\ DOMAIN NoDocs = {}
  BY DEF NoDocs, Partial

(* The journal and the image recovery restores are well typed. *)
LEMMA SettledType ==
    ASSUME TypeOK, journal # NoJournal
    PROVE  /\ journal \in JournalType
           /\ Settled(journal) \in ImageType
           /\ \A img \in ImageType :
                 DOMAIN img.docs \subseteq Key /\ \A k \in DOMAIN img.docs : img.docs[k] \in Image
  <1>1. journal \in JournalType
    BY DEF TypeOK, DiskType
  <1>2. Settled(journal) \in ImageType
    BY <1>1 DEF Settled, JournalType
  <1>3. \A img \in ImageType :
           DOMAIN img.docs \subseteq Key /\ \A k \in DOMAIN img.docs : img.docs[k] \in Image
    BY DEF ImageType, Partial
  <1> QED
    BY <1>1, <1>2, <1>3

(* The parts of a request are well typed. *)
LEMMA RequestTyping ==
    ASSUME NEW r \in Request
    PROVE  /\ DOMAIN r.expect \subseteq Key /\ DOMAIN r.write \subseteq Key
           /\ \A k \in DOMAIN r.write : r.write[k] \in Image
           /\ r.kind \in {"commit", "replace"}
           /\ r.events \in Seq(Event)
  BY RequestAssumption DEF RequestType, Partial

(* The images a transaction journals are well typed. *)
LEMMA ImagesType ==
    ASSUME TypeOK, NEW r \in Request, LogAfter(r, log) \in Seq(Event)
    PROVE  /\ Touched(r) \subseteq Key
           /\ BeforeImage(r) \in ImageType /\ AfterImage(r) \in ImageType
  <1>1. Touched(r) \subseteq Key
    BY RequestTyping DEF Touched
  <1>2. [k \in Touched(r) |-> data[k]] \in Partial(Key, Image)
    BY <1>1 DEF Partial, TypeOK, DiskType
  <1>3. [k \in Touched(r) |-> DocsAfter(r, data)[k]] \in Partial(Key, Image)
    BY <1>1, RequestTyping DEF Partial, TypeOK, DiskType, DocsAfter
  <1>4. BeforeImage(r) \in ImageType
    BY <1>2, EmptyConcat DEF BeforeImage, ImageType, TypeOK, DiskType
  <1>5. AfterImage(r) \in ImageType
    BY <1>3, <1>4, RequestTyping, Zenon DEF AfterImage, ImageType, TypeOK, DiskType, BeforeImage
  <1> QED
    BY <1>1, <1>4, <1>5


-----------------------------------------------------------------------------
(* Steps that leave the files alone *)

(* Conjuncts that speak of the files only *)
DiskOK ==
    /\ DiskType /\ JournalCovers /\ CleanWithoutJournal
    /\ NoDuplicateEvents /\ WithinCapacity

StoredSame == StoredDocs' = StoredDocs /\ StoredLog' = StoredLog

(* What is stored and whether it is damaged depend on the files alone. *)
LEMMA DiskFrame ==
    ASSUME UNCHANGED disk
    PROVE  /\ DiskOK => DiskOK'
           /\ StoredSame
           /\ \A img : ImageLog(img)' = ImageLog(img)
  BY Zenon DEF disk, DiskOK, DiskType, JournalCovers, CleanWithoutJournal, Paired,
         NoDuplicateEvents, WithinCapacity, StoredDocs, StoredLog, StoredSame, ImageLog

(* A thread's clauses survive a step that changes neither the files nor   *)
(* that thread.                                                           *)
LocalsSame(t) ==
    /\ pc'[t] = pc[t] /\ op'[t] = op[t] /\ mode'[t] = mode[t] /\ req'[t] = req[t]
    /\ want'[t] = want[t] /\ phase'[t] = phase[t] /\ target'[t] = target[t]
    /\ todo'[t] = todo[t] /\ cur'[t] = cur[t] /\ left'[t] = left[t]
    /\ snap'[t] = snap[t]

(* A thread's clauses depend on the files and its own state alone. *)
LEMMA ThreadFrame ==
    ASSUME NEW t \in Thread, ThreadInv(t), LocalsSame(t),
           UNCHANGED disk \/ pc[t] \notin SharedPC \cup ExclusivePC
    PROVE  ThreadInv(t)'
  <1>1. CallShape(t)'
    BY Zenon DEF ThreadInv, CallShape, LocalsSame
  <1>2. CASE pc[t] \notin SharedPC \cup ExclusivePC
    BY <1>1, <1>2 DEF ThreadInv, LocalsSame, RestoreProgress, JournalAbsent,
       AfterImageIsEffect, ReadProgress, RestorePC, SharedPC, ExclusivePC
  <1>3. CASE UNCHANGED disk
    <2>1. RestoreProgress(t)'
      BY <1>3, DiskFrame DEF ThreadInv, LocalsSame, RestoreProgress, Restored, disk, Settled
    <2>2. AfterImageIsEffect(t)'
      BY Zenon, <1>3, DiskFrame DEF ThreadInv, LocalsSame, AfterImageIsEffect, disk, StoredSame,
         Matches, Fits, DocsAfter
    <2>3. JournalAbsent(t)' /\ ReadProgress(t)'
      BY Zenon, <1>3 DEF ThreadInv, LocalsSame, JournalAbsent, ReadProgress, disk
    <2> QED
      BY Zenon, <1>1, <2>1, <2>2, <2>3 DEF ThreadInv
  <1> QED
    BY <1>2, <1>3

(* A thread that is not between taking and dropping the lock *)
LEMMA OutsideInv ==
    ASSUME NEW t \in Thread, pc'[t] \in {"idle", "preflight", "gate", "lock", "marker", "journal"},
           CallShape(t)'
    PROVE  ThreadInv(t)'
  BY Zenon DEF ThreadInv, RestoreProgress, JournalAbsent, AfterImageIsEffect, ReadProgress, RestorePC

(* Threads that leave give back the lock and the gate they held. *)
LEMMA LeaveLocks ==
    ASSUME LockType, CallType, LockDiscipline, NEW D \in SUBSET Thread, Unlock(D),
           pc' = [t \in Thread |-> IF t \in D THEN "idle" ELSE pc[t]]
    PROVE  LockDiscipline'
  BY ThreadAssumption DEF LockType, CallType, LockDiscipline, Unlock, PC, ExclusivePC, SharedPC

(* Leaving the engine, by an answer or by a crash, keeps the invariant. *)
LEMMA LeaveStep ==
    ASSUME IInv, NEW D \in SUBSET Thread, UNCHANGED disk,
           NEW res \in Answers \ {"damaged"}, NEW v \in Partial(Key, Image),
           Leave(D, res, v)
    PROVE  IInv'
  <1> USE DEF Leave
  <1>1. DiskOK'
    BY Zenon, DiskFrame DEF IInv, DiskOK, TypeOK
  <1>2. LockType' /\ CallType'
    BY Zenon DEF IInv, TypeOK, LockType, CallType, Unlock, PC
  <1>3. WorkType' /\ AnswerType'
    BY NoDocsType, EmptyConcat DEF IInv, TypeOK, WorkType, AnswerType, ClearWork
  <1>4. LockDiscipline'
    BY LeaveLocks, Zenon DEF IInv, TypeOK
  <1>5. NeverDamaged'
    BY Zenon DEF IInv, NeverDamaged
  <1>6. ASSUME NEW u \in Thread PROVE ThreadInv(u)'
    <2>1. CASE u \in D
      BY Zenon, <2>1, OutsideInv DEF CallShape, ClearWork, SharedPC, RestorePC
    <2>2. CASE u \notin D
      BY <2>2, ThreadFrame DEF LocalsSame, ClearWork, IInv
    <2> QED
      BY Zenon, <2>1, <2>2
  <1> QED
    BY Zenon, <1>1, <1>2, <1>3, <1>4, <1>5, <1>6 DEF IInv, TypeOK, DiskOK

(* A step of thread t alone, which touches the files only under the       *)
(* exclusive lock, leaves every other thread's clauses standing.          *)
LEMMA OneThread ==
    ASSUME IInv, NEW t \in Thread, \A u \in Thread \ {t} : LocalsSame(u),
           UNCHANGED disk \/ xlock = t,
           DiskOK', LockType', CallType', WorkType', AnswerType',
           LockDiscipline', NeverDamaged', ThreadInv(t)'
    PROVE  IInv'
  <1>1. ASSUME NEW u \in Thread \ {t} PROVE ThreadInv(u)'
    <2>1. xlock = t => pc[u] \notin SharedPC \cup ExclusivePC
      BY ThreadAssumption DEF IInv, LockDiscipline
    <2> QED
      BY Zenon, <2>1, ThreadFrame DEF IInv
  <1> QED
    BY <1>1 DEF IInv, TypeOK, DiskOK

(* Starting a call keeps the invariant. *)
LEMMA CallStep ==
    ASSUME IInv, NEW t \in Thread, NEW o \in {"commit", "read", "open"},
           NEW r \in Request \cup {NoRequest}, NEW S \in SUBSET Key,
           NEW m \in {"shared", "exclusive"}, NEW p \in {"gate", "preflight"},
           o = "commit" <=> r # NoRequest, m = "shared" => o = "read",
           p = "preflight" => o = "open", Call(t, o, r, S, m, p)
    PROVE  IInv'
  <1> USE DEF Call, disk, locks, work
  <1>1. DiskOK'
    BY Zenon, DiskFrame DEF IInv, DiskOK, TypeOK
  <1>2. LockType' /\ CallType'
    BY Zenon DEF IInv, TypeOK, LockType, CallType, PC
  <1>3. WorkType' /\ AnswerType' /\ NeverDamaged'
    BY Zenon, NoDocsType DEF IInv, TypeOK, WorkType, AnswerType, Answers, NeverDamaged
  <1>4. LockDiscipline'
    BY DEF IInv, TypeOK, CallType, LockDiscipline, ExclusivePC, SharedPC
  <1>5. ThreadInv(t)'
    BY OutsideInv DEF IInv, TypeOK, CallType, WorkType, ThreadInv, CallShape, SharedPC, RestorePC
  <1>6. \A u \in Thread \ {t} : LocalsSame(u)
    BY DEF IInv, TypeOK, CallType, LocalsSame
  <1> QED
    BY <1>1, <1>2, <1>3, <1>4, <1>5, <1>6, OneThread

(* The unlocked scan of open keeps the invariant. *)
LEMMA PreflightStep ==
    ASSUME IInv, NEW t \in Thread, pc[t] = "preflight", Goto(t, "gate"),
           UNCHANGED <<disk, locks, mode, work, client>>
    PROVE  IInv'
  <1> USE DEF Goto, disk, locks, work, client
  <1>1. DiskOK'
    BY Zenon, DiskFrame DEF IInv, DiskOK, TypeOK
  <1>2. LockType' /\ CallType'
    BY Zenon, ThreadAssumption DEF IInv, TypeOK, LockType, CallType, PC, ExclusivePC, SharedPC
  <1>3. WorkType' /\ AnswerType' /\ NeverDamaged'
    BY Zenon DEF IInv, TypeOK, WorkType, AnswerType, NeverDamaged, CallType
  <1>4. LockDiscipline'
    BY ThreadAssumption DEF IInv, TypeOK, LockType, CallType, LockDiscipline, ExclusivePC, SharedPC
  <1>5. ThreadInv(t)'
    BY Zenon, OutsideInv DEF IInv, TypeOK, CallType, ThreadInv, CallShape, SharedPC, ExclusivePC, RestorePC
  <1>6. \A u \in Thread \ {t} : LocalsSame(u)
    BY DEF IInv, TypeOK, CallType, WorkType, LocalsSame
  <1> QED
    BY Zenon, <1>1, <1>2, <1>3, <1>4, <1>5, <1>6, OneThread

(* Taking the process's gate keeps the invariant. *)
LEMMA TakeGateStep ==
    ASSUME IInv, NEW t \in Thread, TakeGate(t)
    PROVE  IInv'
  <1> USE DEF TakeGate, Goto, disk, work, client
  <1>1. DiskOK'
    BY DiskFrame DEF IInv, DiskOK, TypeOK
  <1>2. LockType' /\ CallType'
    BY ThreadAssumption, Zenon DEF IInv, TypeOK, LockType, CallType, PC, ExclusivePC, SharedPC
  <1>3. WorkType' /\ AnswerType' /\ NeverDamaged'
    BY DEF IInv, TypeOK, WorkType, AnswerType, NeverDamaged, CallType
  <1>4. LockDiscipline'
    <2>1. ASSUME NEW u \in Thread
          PROVE  gate'[ProcessOf[u]] = u
                   <=> pc'[u] \in {"lock"} \cup SharedPC \cup ExclusivePC
      <3>1. CASE u = t
        BY <3>1, ThreadAssumption, Zenon DEF IInv, TypeOK, LockType, CallType
      <3>2. CASE u # t
        BY <3>2, ThreadAssumption DEF IInv, TypeOK, LockType, CallType, LockDiscipline
      <3> QED
        BY <3>1, <3>2
    <2>2. \A u \in Thread : pc'[u] \in ExclusivePC <=> pc[u] \in ExclusivePC
      BY Zenon DEF IInv, TypeOK, CallType, ExclusivePC
    <2>3. \A u \in Thread : pc'[u] \in SharedPC <=> pc[u] \in SharedPC
      BY DEF IInv, TypeOK, CallType, SharedPC
    <2> QED
      BY <2>1, <2>2, <2>3, Zenon DEF IInv, LockDiscipline
  <1>5. ThreadInv(t)'
    BY OutsideInv, Zenon DEF IInv, TypeOK, CallType, ThreadInv, CallShape, SharedPC, ExclusivePC, RestorePC
  <1>6. \A u \in Thread \ {t} : LocalsSame(u)
    BY Zenon DEF IInv, TypeOK, CallType, WorkType, LocalsSame
  <1> QED
    BY <1>1, <1>2, <1>3, <1>4, <1>5, <1>6, OneThread, Zenon

(* Taking the exclusive lock keeps the invariant: no reader is left. *)
LEMMA TakeExclusiveStep ==
    ASSUME IInv, NEW t \in Thread, TakeLock(t), mode[t] = "exclusive"
    PROVE  IInv'
  <1> USE DEF TakeLock, LockFree, Goto, disk, work, client
  <1>1. DiskOK'
    BY Zenon, DiskFrame DEF IInv, DiskOK, TypeOK
  <1>2. LockType' /\ CallType'
    BY Zenon, ThreadAssumption DEF IInv, TypeOK, LockType, CallType, PC, ExclusivePC, SharedPC
  <1>3. WorkType' /\ AnswerType' /\ NeverDamaged'
    BY Zenon DEF IInv, TypeOK, WorkType, AnswerType, NeverDamaged, CallType
  <1>4. LockDiscipline'
    BY ThreadAssumption DEF IInv, TypeOK, LockType, CallType, LockDiscipline, ExclusivePC, SharedPC
  <1>5. ThreadInv(t)'
    BY OutsideInv, Zenon DEF IInv, TypeOK, CallType, ThreadInv, CallShape, SharedPC, ExclusivePC, RestorePC
  <1>6. \A u \in Thread \ {t} : LocalsSame(u)
    BY Zenon DEF IInv, TypeOK, CallType, WorkType, LocalsSame
  <1> QED
    BY Zenon, <1>1, <1>2, <1>3, <1>4, <1>5, <1>6, OneThread

(* Taking the shared lock keeps the invariant: no writer is left. *)
LEMMA TakeSharedStep ==
    ASSUME IInv, NEW t \in Thread, TakeLock(t), mode[t] # "exclusive"
    PROVE  IInv'
  <1> USE DEF TakeLock, LockFree, Goto, disk, work, client
  <1>1. DiskOK'
    BY Zenon, DiskFrame DEF IInv, DiskOK, TypeOK
  <1>2. LockType' /\ CallType'
    BY Zenon, ThreadAssumption DEF IInv, TypeOK, LockType, CallType, PC, ExclusivePC, SharedPC
  <1>3. WorkType' /\ AnswerType' /\ NeverDamaged'
    BY Zenon DEF IInv, TypeOK, WorkType, AnswerType, NeverDamaged, CallType
  <1>4. LockDiscipline'
    BY ThreadAssumption DEF IInv, TypeOK, LockType, CallType, LockDiscipline, ExclusivePC, SharedPC
  <1>5. ThreadInv(t)'
    BY OutsideInv, Zenon DEF IInv, TypeOK, CallType, ThreadInv, CallShape, SharedPC, ExclusivePC, RestorePC
  <1>6. \A u \in Thread \ {t} : LocalsSame(u)
    BY Zenon DEF IInv, TypeOK, CallType, WorkType, LocalsSame
  <1> QED
    BY Zenon, <1>1, <1>2, <1>3, <1>4, <1>5, <1>6, OneThread

(* A reader that finds no marker starts reading. *)
LEMMA NoMarkerStep ==
    ASSUME IInv, NEW t \in Thread, CheckMarker(t), journal = NoJournal
    PROVE  IInv'
  <1>0. /\ pc[t] = "marker" /\ pc' = [pc EXCEPT ![t] = "reading"]
        /\ todo' = [todo EXCEPT ![t] = want[t]]
        /\ UNCHANGED <<disk, locks, mode, phase, target, cur, left, client>>
    BY DEF CheckMarker, Goto
  <1> USE <1>0 DEF disk, locks, client
  <1>1. DiskOK'
    BY Zenon, DiskFrame DEF IInv, DiskOK, TypeOK
  <1>2. LockType' /\ CallType'
    BY Zenon, ThreadAssumption DEF IInv, TypeOK, LockType, CallType, PC, ExclusivePC, SharedPC
  <1>3. WorkType' /\ AnswerType' /\ NeverDamaged'
    BY Zenon DEF IInv, TypeOK, WorkType, AnswerType, NeverDamaged, CallType
  <1>4. LockDiscipline'
    BY ThreadAssumption DEF IInv, TypeOK, LockType, CallType, LockDiscipline, ExclusivePC, SharedPC
  <1>5. ThreadInv(t)'
    BY NoDocsType, Zenon DEF IInv, TypeOK, CallType, ThreadInv, CallShape, SharedPC, RestorePC,
       RestoreProgress, JournalAbsent, AfterImageIsEffect, ReadProgress, WorkType, AnswerType
  <1>6. \A u \in Thread \ {t} : LocalsSame(u)
    BY Zenon DEF IInv, TypeOK, CallType, WorkType, LocalsSame
  <1> QED
    BY Zenon, <1>1, <1>2, <1>3, <1>4, <1>5, <1>6, OneThread

(* Reading one address keeps the invariant and finds its files paired. *)
LEMMA ReadKeyStep ==
    ASSUME IInv, NEW t \in Thread, NEW k \in Key, ReadKey(t, k)
    PROVE  IInv'
  <1>0. pc[t] = "reading" /\ k \in todo[t] /\ Paired(k)
    BY Zenon DEF IInv, ThreadInv, JournalAbsent, CleanWithoutJournal, ReadKey
  <1> DEFINE seen == [q \in DOMAIN snap[t] \cup {k} |-> IF q = k THEN data[k] ELSE snap[t][q]]
  <1>1. /\ snap' = [snap EXCEPT ![t] = seen]
        /\ todo' = [todo EXCEPT ![t] = @ \ {k}]
        /\ UNCHANGED <<disk, locks, pc, mode, phase, target, cur, left, op, req, want, view, result>>
    BY <1>0 DEF ReadKey
  <1>2. seen \in Partial(Key, Image)
    <2>1. PICK S \in SUBSET Key : snap[t] \in [S -> Image]
      BY DEF IInv, TypeOK, AnswerType, Partial
    <2>2. data[k] \in Image
      BY Zenon DEF IInv, TypeOK, DiskType
    <2>3. seen \in [S \cup {k} -> Image]
      BY Zenon, <2>1, <2>2
    <2> QED
      BY <2>3, Zenon DEF Partial
  <1>3. DiskOK'
    BY Zenon, <1>1, DiskFrame DEF IInv, DiskOK, TypeOK
  <1>4. LockType' /\ CallType' /\ LockDiscipline'
    BY Zenon, <1>1 DEF IInv, TypeOK, LockType, CallType, LockDiscipline, locks
  <1>5. WorkType' /\ AnswerType' /\ NeverDamaged'
    BY Zenon, <1>1, <1>2 DEF IInv, TypeOK, WorkType, AnswerType, NeverDamaged
  <1>6. ThreadInv(t)'
    <2>1. /\ snap'[t] = seen /\ todo'[t] = todo[t] \ {k}
          /\ pc'[t] = "reading" /\ want'[t] = want[t] /\ data' = data
      BY <1>0, <1>1 DEF IInv, TypeOK, AnswerType, WorkType, disk
    <2>2. ReadProgress(t)'
      BY <1>0, <2>1, ZenonT(40) DEF IInv, ThreadInv, ReadProgress
    <2>3. CallShape(t)'
      BY Zenon, <1>0, <1>1, <2>1 DEF IInv, ThreadInv, CallShape, SharedPC
    <2> QED
      BY Zenon, <1>0, <1>1, <2>1, <2>2, <2>3 DEF IInv, ThreadInv, RestoreProgress, JournalAbsent,
         AfterImageIsEffect, RestorePC, disk
  <1>7. \A u \in Thread \ {t} : LocalsSame(u)
    BY Zenon, <1>1 DEF IInv, TypeOK, AnswerType, WorkType, LocalsSame
  <1> QED
    BY <1>1, <1>3, <1>4, <1>5, <1>6, <1>7, OneThread

(* Thread t drops the lock and queues again. *)
LEMMA RelockStep ==
    ASSUME IInv, NEW t \in Thread, NEW m \in {"shared", "exclusive"}, Relock(t, m),
           pc[t] \in {"marker", "journal", "remove"},
           UNCHANGED client, op[t] = "read", DiskOK', UNCHANGED disk \/ xlock = t
    PROVE  IInv'
  <1> USE DEF Relock, Goto
  <1>1. LockType' /\ CallType'
    BY Zenon DEF IInv, TypeOK, LockType, CallType, Unlock, PC, client
  <1>2. WorkType' /\ AnswerType' /\ NeverDamaged'
    BY Zenon, EmptyConcat DEF IInv, TypeOK, WorkType, AnswerType, NeverDamaged, ClearWork, client
  <1>3. LockDiscipline'
    <2>1. \A u \in Thread : pc'[u] = IF u = t THEN "gate" ELSE pc[u]
      BY Zenon DEF IInv, TypeOK, CallType
    <2>2. \A u \in Thread : xlock' = u <=> pc'[u] \in ExclusivePC
      BY <2>1, ThreadAssumption, SMTT(30) DEF IInv, LockDiscipline, Unlock, ExclusivePC
    <2>3. \A u \in Thread : u \in slock' <=> pc'[u] \in SharedPC
      BY <2>1 DEF IInv, LockDiscipline, Unlock, SharedPC
    <2>4. xlock' # NoThread => slock' = {}
      BY Zenon DEF IInv, LockDiscipline, Unlock
    <2>5. ASSUME NEW u \in Thread
          PROVE  gate'[ProcessOf[u]] = u
                   <=> pc'[u] \in {"lock"} \cup SharedPC \cup ExclusivePC
      <3>1. gate'[ProcessOf[u]] = IF gate[ProcessOf[u]] = t THEN NoThread ELSE gate[ProcessOf[u]]
        BY Zenon, ThreadAssumption DEF Unlock
      <3>2. gate[ProcessOf[u]] = u <=> pc[u] \in {"lock"} \cup SharedPC \cup ExclusivePC
        BY DEF IInv, LockDiscipline
      <3> QED
        BY <2>1, <3>1, <3>2, ThreadAssumption DEF SharedPC, ExclusivePC
    <2> QED
      BY Zenon, <2>2, <2>3, <2>4, <2>5 DEF LockDiscipline
  <1>4. ThreadInv(t)'
    BY OutsideInv, Zenon DEF IInv, TypeOK, CallType, ThreadInv, CallShape, SharedPC, RestorePC,
       ClearWork, client
  <1>5. \A u \in Thread \ {t} : LocalsSame(u)
    BY Zenon DEF IInv, TypeOK, CallType, LocalsSame, ClearWork, client
  <1> QED
    BY <1>1, <1>2, <1>3, <1>4, <1>5, OneThread, Zenon

(* A reader that finds a marker queues for the exclusive lock. *)
LEMMA MarkerStep ==
    ASSUME IInv, NEW t \in Thread, CheckMarker(t), journal # NoJournal
    PROVE  IInv'
  <1>1. op[t] = "read"
    BY Zenon DEF IInv, ThreadInv, CallShape, CheckMarker, SharedPC
  <1>2. DiskOK'
    BY DiskFrame DEF IInv, DiskOK, TypeOK, CheckMarker
  <1> QED
    BY <1>1, <1>2, RelockStep, Zenon DEF CheckMarker

-----------------------------------------------------------------------------
(* Steps under the exclusive lock *)

(* The holder of the exclusive lock moves on and keeps it. *)
LEMMA ExclusiveStep ==
    ASSUME IInv, NEW t \in Thread, pc[t] \in ExclusivePC, NEW p \in ExclusivePC, Goto(t, p),
           UNCHANGED <<locks, mode, client>>, DiskOK', WorkType',
           \A u \in Thread \ {t} :
              /\ phase'[u] = phase[u] /\ target'[u] = target[u] /\ todo'[u] = todo[u]
              /\ cur'[u] = cur[u] /\ left'[u] = left[u],
           ThreadInv(t)'
    PROVE  IInv'
  <1>1. \A u \in Thread : pc'[u] = IF u = t THEN p ELSE pc[u]
    BY Zenon DEF IInv, TypeOK, CallType, Goto
  <1>2. LockType' /\ CallType'
    BY Zenon DEF IInv, TypeOK, LockType, CallType, PC, Goto, locks, client
  <1>3. AnswerType' /\ NeverDamaged'
    BY Zenon DEF IInv, TypeOK, AnswerType, NeverDamaged, client
  <1>4. LockDiscipline'
    BY <1>1, Zenon DEF IInv, LockDiscipline, locks, ExclusivePC, SharedPC
  <1>5. xlock = t
    BY Zenon DEF IInv, LockDiscipline
  <1>6. \A u \in Thread \ {t} : LocalsSame(u)
    BY <1>1, Zenon DEF LocalsSame, client
  <1> QED
    BY <1>2, <1>3, <1>4, <1>5, <1>6, OneThread, Zenon

(* Once no journal is left, a commit plans, a reader queues again and an  *)
(* open returns.                                                          *)
LEMMA RecoveredStep ==
    ASSUME IInv, NEW t \in Thread, pc[t] \in {"journal", "remove"}, Recovered(t),
           phase[t] = "recover", journal' = NoJournal, DiskOK'
    PROVE  IInv'
  <1>0. xlock = t
    BY Zenon DEF IInv, LockDiscipline, ExclusivePC
  <1>1. CASE /\ op[t] = "commit"
             /\ Goto(t, "plan") /\ ClearWork({t})
             /\ UNCHANGED <<locks, mode, client>>
    <2>1. WorkType'
      BY Zenon, <1>1, EmptyConcat DEF IInv, TypeOK, WorkType, ClearWork
    <2>2. \A u \in Thread \ {t} :
              /\ phase'[u] = phase[u] /\ target'[u] = target[u] /\ todo'[u] = todo[u]
              /\ cur'[u] = cur[u] /\ left'[u] = left[u]
      BY <1>1 DEF ClearWork
    <2>3. /\ pc'[t] = "plan" /\ op'[t] = op[t] /\ mode'[t] = mode[t] /\ req'[t] = req[t]
          /\ phase'[t] = "recover" /\ cur'[t] = NoKey /\ left'[t] = <<>> /\ snap'[t] = snap[t]
      BY <1>1, Zenon DEF IInv, TypeOK, CallType, Goto, ClearWork, client
    <2>4. CallShape(t)'
      BY <1>1, <2>3, Zenon DEF IInv, ThreadInv, CallShape, SharedPC, RestorePC
    <2>5. ThreadInv(t)'
      BY <2>3, <2>4, Zenon DEF ThreadInv, RestoreProgress, JournalAbsent, AfterImageIsEffect,
         ReadProgress, RestorePC
    <2> QED
      BY Zenon, <1>1, <2>1, <2>2, <2>5, ExclusiveStep DEF ExclusivePC
  <1>2. CASE op[t] = "read" /\ Relock(t, "shared") /\ UNCHANGED client
    BY <1>0, <1>2, RelockStep, Zenon
  <1>3. CASE op[t] = "open" /\ Leave({t}, "ok", NoDocs)
    <2> USE <1>3 DEF Leave
    <2>1. LockType' /\ CallType'
      BY Zenon DEF IInv, TypeOK, LockType, CallType, Unlock, PC
    <2>2. WorkType' /\ AnswerType' /\ NeverDamaged'
      BY NoDocsType, EmptyConcat, Zenon DEF IInv, TypeOK, WorkType, AnswerType, ClearWork,
         Answers, NeverDamaged
    <2>3. LockDiscipline'
      BY LeaveLocks, Zenon DEF IInv, TypeOK
    <2>4. ThreadInv(t)'
      BY OutsideInv, Zenon DEF CallShape, ClearWork, SharedPC, RestorePC
    <2>5. \A u \in Thread \ {t} : LocalsSame(u)
      BY Zenon DEF LocalsSame, ClearWork
    <2> QED
      BY <1>0, <2>1, <2>2, <2>3, <2>4, <2>5, OneThread, Zenon
  <1> QED
    BY <1>1, <1>2, <1>3, Zenon DEF Recovered

(* Looking for a journal under the exclusive lock keeps the invariant. *)
LEMMA ReadJournalStep ==
    ASSUME IInv, NEW t \in Thread, ReadJournal(t)
    PROVE  IInv'
  <1>1. OpenAdmits
    BY SettledType DEF IInv, OpenAdmits, JournalCovers, CleanWithoutJournal, JournalType, ImageType
  <1>2. DiskOK'
    BY DiskFrame, Zenon DEF IInv, DiskOK, TypeOK, ReadJournal
  <1>3. pc[t] = "journal" /\ phase[t] = "recover"
    BY Zenon DEF ReadJournal, IInv, ThreadInv, CallShape, RestorePC, TypeOK, WorkType
  <1>4. CASE journal = NoJournal
    BY <1>1, <1>2, <1>3, <1>4, RecoveredStep, Zenon DEF ReadJournal, disk
  <1>5. CASE journal # NoJournal
    <2>1. /\ StartRestore(t, "recover", Settled(journal))
          /\ UNCHANGED <<disk, locks, mode, client>>
      BY <1>1, <1>5 DEF ReadJournal
    <2>2. /\ Settled(journal) \in ImageType
          /\ DOMAIN Settled(journal).docs \subseteq Key
      BY Zenon, <1>5, SettledType DEF IInv
    <2>3. WorkType'
      BY Zenon, <2>1, <2>2 DEF IInv, TypeOK, WorkType, StartRestore
    <2>4. /\ pc'[t] = "restore" /\ op'[t] = op[t] /\ mode'[t] = mode[t] /\ req'[t] = req[t]
          /\ phase'[t] = "recover" /\ target'[t] = Settled(journal)
          /\ todo'[t] = DOMAIN target'[t].docs
          /\ cur'[t] = cur[t] /\ left'[t] = left[t] /\ snap'[t] = snap[t]
      BY <2>1 DEF IInv, TypeOK, CallType, WorkType, StartRestore, Goto, client
    <2>5. CallShape(t)'
      BY <1>3, <2>4, Zenon DEF IInv, ThreadInv, CallShape, SharedPC, RestorePC
    <2>6. RestoreProgress(t)'
      BY <1>3, <1>5, <2>1, <2>4, Zenon DEF IInv, ThreadInv, CallShape, RestoreProgress, Restored,
         disk, Settled
    <2>7. ThreadInv(t)'
      BY <2>4, <2>5, <2>6, Zenon DEF ThreadInv, JournalAbsent, AfterImageIsEffect, ReadProgress
    <2>8. \A u \in Thread \ {t} :
              /\ phase'[u] = phase[u] /\ target'[u] = target[u] /\ todo'[u] = todo[u]
              /\ cur'[u] = cur[u] /\ left'[u] = left[u]
      BY <2>1 DEF StartRestore, IInv, TypeOK, WorkType
    <2> QED
      BY <1>2, <1>3, <2>1, <2>3, <2>7, <2>8, ExclusiveStep, Zenon DEF ExclusivePC, StartRestore
  <1> QED
    BY Zenon, <1>4, <1>5

(* File writes the journal covers change nothing that is stored. *)
LEMMA CoveredWrites ==
    ASSUME IInv, journal # NoJournal, journal' = journal,
           data' \in [Key -> Image], index' \in [Key -> BOOLEAN],
           log' \in Seq(Event), torn' \in BOOLEAN,
           \A k \in Key \ DOMAIN journal.before.docs : data'[k] = data[k] /\ index'[k] = index[k],
           journal.before.mode = "append" =>
              /\ journal.before.prefix <= Len(log')
              /\ SubSeq(log', 1, journal.before.prefix) = SubSeq(log, 1, journal.before.prefix),
           journal.before.mode = "replace" => ~torn'
    PROVE  /\ DiskOK' /\ StoredSame
           /\ ImageLog(journal.before)' = ImageLog(journal.before)
           /\ ImageLog(journal.after)' = ImageLog(journal.after)
  <1>1. /\ journal \in JournalType
        /\ DOMAIN journal.before.docs = DOMAIN journal.after.docs
        /\ journal.before.mode = journal.after.mode
        /\ journal.before.mode = "append" => journal.before.prefix = journal.after.prefix
    BY Zenon, SettledType DEF IInv, JournalCovers
  <1>2. /\ Settled(journal)' = Settled(journal)
        /\ DOMAIN Settled(journal).docs = DOMAIN journal.before.docs
        /\ Settled(journal).mode = journal.before.mode
        /\ journal.before.mode = "append" => Settled(journal).prefix = journal.before.prefix
    BY Zenon, <1>1 DEF Settled
  <1>3. StoredDocs' = StoredDocs
    BY <1>2 DEF StoredDocs
  <1>4. StoredLog' = StoredLog
    BY <1>2, Zenon DEF StoredLog
  <1>5. DiskType' /\ JournalCovers' /\ CleanWithoutJournal'
    BY Zenon, <1>1 DEF IInv, TypeOK, DiskType, JournalCovers, CleanWithoutJournal, Paired
  <1>6. NoDuplicateEvents' /\ WithinCapacity'
    BY <1>3, <1>4 DEF IInv, NoDuplicateEvents, WithinCapacity
  <1>7. /\ ImageLog(journal.before)' = ImageLog(journal.before)
        /\ ImageLog(journal.after)' = ImageLog(journal.after)
    BY <1>1, Zenon DEF ImageLog
  <1> QED
    BY <1>3, <1>4, <1>5, <1>6, <1>7, Zenon DEF DiskOK, StoredSame

(* They leave the planned effect of the transaction in place too. *)
LEMMA EffectFrame ==
    ASSUME NEW t \in Thread, AfterImageIsEffect(t), StoredSame, journal' = journal,
           ImageLog(journal.after)' = ImageLog(journal.after),
           \A k \in Key \ DOMAIN journal.after.docs : data'[k] = data[k],
           req'[t] = req[t], phase'[t] = phase[t],
           pc[t] \in {"restore", "append", "mark"}
    PROVE  AfterImageIsEffect(t)'
  <1> SUFFICES ASSUME phase[t] = "apply" PROVE AfterImageIsEffect(t)'
    BY Zenon DEF AfterImageIsEffect
  <1>1. Matches(req[t], StoredDocs)' /\ Fits(req[t], StoredDocs, StoredLog)'
    BY Zenon DEF AfterImageIsEffect, StoredSame, Matches, Fits, DocsAfter
  <1>2. \A k \in Key :
           DocsAfter(req[t], StoredDocs)'[k] = DocsAfter(req[t], StoredDocs)[k]
    BY Zenon DEF StoredSame, DocsAfter
  <1>3. LogAfter(req[t], StoredLog)' = LogAfter(req[t], StoredLog)
    BY Zenon DEF StoredSame
  <1> QED
    BY <1>1, <1>2, <1>3, Zenon DEF AfterImageIsEffect

(* The image a thread restores, and the journal it comes from. *)
LEMMA TargetFacts ==
    ASSUME IInv, NEW t \in Thread, pc[t] \in RestorePC
    PROVE  /\ journal # NoJournal /\ journal \in JournalType
           /\ target[t] \in ImageType
           /\ target[t] \in {journal.before, journal.after}
           /\ DOMAIN target[t].docs = DOMAIN journal.before.docs
           /\ DOMAIN journal.after.docs = DOMAIN journal.before.docs
           /\ DOMAIN target[t].docs \subseteq Key
           /\ \A k \in DOMAIN target[t].docs : target[t].docs[k] \in Image
           /\ target[t].mode = journal.before.mode
           /\ target[t].mode \in {"append", "replace"}
           /\ target[t].mode = "append" =>
                 /\ target[t].prefix = journal.before.prefix
                 /\ target[t].prefix \in Nat /\ target[t].prefix <= Len(log)
           /\ target[t].events \in Seq(Event)
           /\ log \in Seq(Event)
  <1>1. journal # NoJournal
    BY Zenon DEF IInv, ThreadInv, RestoreProgress
  <1>2. journal \in JournalType
    BY <1>1, SettledType DEF IInv
  <1>3. target[t] \in {journal.before, journal.after}
    BY Zenon DEF IInv, ThreadInv, RestoreProgress, Settled
  <1>4. target[t] \in ImageType
    BY Zenon, <1>2, <1>3 DEF JournalType
  <1>5. /\ DOMAIN target[t].docs \subseteq Key
        /\ \A k \in DOMAIN target[t].docs : target[t].docs[k] \in Image
    BY Zenon, <1>1, <1>4, SettledType DEF IInv
  <1>6. /\ target[t].mode \in {"append", "replace"} /\ target[t].prefix \in Nat
        /\ target[t].events \in Seq(Event)
    BY <1>4 DEF ImageType
  <1>7. log \in Seq(Event)
    BY DEF IInv, TypeOK, DiskType
  <1> QED
    BY <1>1, <1>2, <1>3, <1>4, <1>5, <1>6, <1>7 DEF IInv, JournalCovers

(* The first file operation on an address keeps the invariant. *)
LEMMA RestoreFirstStep ==
    ASSUME IInv, NEW t \in Thread, NEW k \in Key, RestoreFirst(t, k)
    PROVE  IInv' /\ StoredSame
  <1>0. pc[t] = "restore" /\ cur[t] = NoKey /\ k \in todo[t]
    BY Zenon DEF RestoreFirst
  <1>1. /\ UNCHANGED <<log, torn, journal, locks, pc, mode, phase, target, todo, left, client>>
        /\ cur' = [cur EXCEPT ![t] = k]
    BY Zenon DEF RestoreFirst
  <1>2. k \in DOMAIN target[t].docs
    BY <1>0, Zenon DEF IInv, ThreadInv, RestoreProgress, RestorePC
  <1>3. /\ data' \in [Key -> Image] /\ index' \in [Key -> BOOLEAN]
        /\ \A q \in Key \ {k} : data'[q] = data[q] /\ index'[q] = index[q]
        /\ IF target[t].docs[k] # Absent THEN index'[k] ELSE data'[k] = Absent
    BY Zenon DEF RestoreFirst, IInv, TypeOK, DiskType, Image
  <1>4. /\ DiskOK' /\ StoredSame
        /\ ImageLog(journal.before)' = ImageLog(journal.before)
        /\ ImageLog(journal.after)' = ImageLog(journal.after)
    BY <1>0, <1>1, <1>2, <1>3, TargetFacts, CoveredWrites, Zenon DEF RestorePC, IInv, TypeOK, DiskType,
       JournalCovers
  <1>5. WorkType'
    BY <1>1 DEF IInv, TypeOK, WorkType
  <1>6. CallShape(t)'
    BY <1>0, <1>1, Zenon DEF IInv, ThreadInv, CallShape, client
  <1>7. RestoreProgress(t)'
    <2>1. cur'[t] = k
      BY <1>1 DEF IInv, TypeOK, WorkType
    <2>2. Restored(t)'
      <3>1. Restored(t) /\ DOMAIN target[t].docs \subseteq Key
        BY <1>0, TargetFacts, Zenon DEF IInv, ThreadInv, RestoreProgress, RestorePC
      <3>2. \A q \in DOMAIN target[t].docs \ todo[t] : data'[q] = data[q] /\ index'[q] = index[q]
        BY <1>0, <1>3, <3>1, Zenon
      <3> QED
        BY <1>1, <3>1, <3>2, Zenon DEF Restored
    <2> QED
      BY <1>0, <1>1, <1>3, <2>1, <2>2, Zenon DEF IInv, ThreadInv, RestoreProgress, RestorePC, Settled
  <1>8. AfterImageIsEffect(t)'
    BY <1>0, <1>1, <1>2, <1>3, <1>4, TargetFacts, EffectFrame, Zenon DEF IInv, ThreadInv, client, RestorePC
  <1>9. ThreadInv(t)'
    BY <1>0, <1>1, <1>6, <1>7, <1>8, Zenon DEF ThreadInv, JournalAbsent, ReadProgress
  <1>10. Goto(t, "restore")
    BY <1>0, <1>1 DEF Goto, IInv, TypeOK, CallType
  <1> QED
    BY <1>0, <1>1, <1>4, <1>5, <1>9, <1>10, ExclusiveStep, Zenon DEF ExclusivePC, IInv, TypeOK, WorkType

(* The second one does, and the address then holds the image's value. *)
LEMMA RestoreSecondStep ==
    ASSUME IInv, NEW t \in Thread, RestoreSecond(t)
    PROVE  IInv' /\ StoredSame
  <1> DEFINE k == cur[t]
  <1>0. pc[t] = "restore" /\ k # NoKey
    BY Zenon DEF RestoreSecond
  <1>1. /\ UNCHANGED <<log, torn, journal, locks, pc, mode, phase, target, left, client>>
        /\ cur' = [cur EXCEPT ![t] = NoKey] /\ todo' = [todo EXCEPT ![t] = @ \ {k}]
    BY DEF RestoreSecond
  <1>2. /\ k \in todo[t] /\ k \in DOMAIN target[t].docs /\ k \in Key
        /\ IF target[t].docs[k] # Absent THEN index[k] ELSE data[k] = Absent
    BY <1>0, TargetFacts, Zenon DEF IInv, ThreadInv, RestoreProgress, RestorePC
  <1>3. /\ data' \in [Key -> Image] /\ index' \in [Key -> BOOLEAN]
        /\ \A q \in Key \ {k} : data'[q] = data[q] /\ index'[q] = index[q]
        /\ data'[k] = target[t].docs[k] /\ (index'[k] <=> data'[k] # Absent)
    BY <1>0, <1>2, TargetFacts, Zenon DEF RestoreSecond, IInv, TypeOK, DiskType, RestorePC
  <1> HIDE DEF k
  <1>4. /\ DiskOK' /\ StoredSame
        /\ ImageLog(journal.before)' = ImageLog(journal.before)
        /\ ImageLog(journal.after)' = ImageLog(journal.after)
    BY <1>0, <1>1, <1>2, <1>3, TargetFacts, CoveredWrites, Zenon DEF RestorePC, IInv, TypeOK, DiskType,
       JournalCovers
  <1>5. WorkType'
    BY <1>1 DEF IInv, TypeOK, WorkType
  <1>6. CallShape(t)'
    BY <1>0, <1>1, Zenon DEF IInv, ThreadInv, CallShape, client
  <1>7. RestoreProgress(t)'
    <2>1. cur'[t] = NoKey /\ todo'[t] = todo[t] \ {k}
      BY Zenon, <1>1 DEF IInv, TypeOK, WorkType
    <2>2. Restored(t)'
      <3>1. Restored(t) /\ DOMAIN target[t].docs \subseteq Key
        BY <1>0, TargetFacts, Zenon DEF IInv, ThreadInv, RestoreProgress, RestorePC
      <3> SUFFICES ASSUME NEW q \in DOMAIN target[t].docs \ (todo[t] \ {k})
                   PROVE  data'[q] = target[t].docs[q] /\ (index'[q] <=> data'[q] # Absent)
        BY <1>1, <2>1, Zenon DEF Restored
      <3>2. CASE q = k
        BY <1>3, <3>2, Zenon
      <3>3. CASE q # k
        <4>1. q \in DOMAIN target[t].docs \ todo[t] /\ q \in Key \ {k}
          BY <3>1, <3>3, Zenon
        <4> QED
          BY <1>3, <3>1, <4>1, Zenon DEF Restored
      <3> QED
        BY <3>2, <3>3
    <2> QED
      BY <1>0, <1>1, <1>3, <2>1, <2>2, Zenon DEF IInv, ThreadInv, RestoreProgress, RestorePC, Settled
  <1>8. AfterImageIsEffect(t)'
    BY <1>0, <1>1, <1>2, <1>3, <1>4, TargetFacts, EffectFrame, Zenon DEF IInv, ThreadInv, client, RestorePC
  <1>9. ThreadInv(t)'
    BY <1>0, <1>1, <1>6, <1>7, <1>8, Zenon DEF ThreadInv, JournalAbsent, ReadProgress
  <1>10. Goto(t, "restore")
    BY <1>0, <1>1 DEF Goto, IInv, TypeOK, CallType
  <1> QED
    BY <1>0, <1>1, <1>4, <1>5, <1>9, <1>10, ExclusiveStep, Zenon DEF ExclusivePC, IInv, TypeOK, WorkType

(* Cutting or replacing the log keeps the invariant. *)
LEMMA RestoreEventsStep ==
    ASSUME IInv, NEW t \in Thread, RestoreEvents(t)
    PROVE  IInv' /\ StoredSame
  <1>0. pc[t] = "restore" /\ todo[t] = {}
    BY Zenon DEF RestoreEvents
  <1>1. /\ UNCHANGED <<data, index, journal, locks, mode, phase, target, todo, cur, client>>
        /\ Goto(t, "append")
    BY Zenon DEF RestoreEvents
  <1>2. left[t] = <<>> /\ cur[t] = NoKey
    BY <1>0, Zenon DEF IInv, ThreadInv, CallShape, RestoreProgress, RestorePC
  <1>3. /\ log' \in Seq(Event) /\ torn' \in BOOLEAN /\ ~torn'
        /\ left' \in [Thread -> Seq(Event)] /\ \A u \in Thread \ {t} : left'[u] = left[u]
        /\ log' \o left'[t] = ImageLog(target[t])
        /\ left'[t] # <<>> => target[t].mode = "append"
        /\ target[t].mode = "append" =>
              /\ target[t].prefix <= Len(log')
              /\ SubSeq(log', 1, target[t].prefix) = SubSeq(log, 1, target[t].prefix)
    <2>1. CASE target[t].mode = "append"
      <3>1. /\ log' = SubSeq(log, 1, target[t].prefix) /\ torn' = (target[t].prefix > Len(log))
            /\ left' = [left EXCEPT ![t] = target[t].events]
        BY Zenon, <2>1 DEF RestoreEvents
      <3>2. /\ log \in Seq(Event) /\ target[t].events \in Seq(Event)
            /\ target[t].prefix \in Nat /\ target[t].prefix <= Len(log)
        BY Zenon, <1>0, <2>1, TargetFacts DEF RestorePC
      <3>3. /\ left' \in [Thread -> Seq(Event)] /\ left'[t] = target[t].events
            /\ \A u \in Thread \ {t} : left'[u] = left[u]
        BY <3>1, <3>2 DEF IInv, TypeOK, WorkType
      <3>4. torn' \in BOOLEAN /\ ~torn'
        <4>1. Len(log) \in Nat
          BY <3>2
        <4>2. (target[t].prefix > Len(log)) = FALSE
          BY <3>2, <4>1
        <4>3. torn' = FALSE
          BY <3>1, <4>2, Zenon
        <4> QED
          BY <4>3, Zenon
      <3>5. /\ log' \in Seq(Event) /\ Len(log') = target[t].prefix
            /\ SubSeq(log', 1, target[t].prefix) = SubSeq(log, 1, target[t].prefix)
        BY <3>1, <3>2, CutTwice
      <3>6. log' \o left'[t] = ImageLog(target[t])
        BY <2>1, <3>1, <3>3, Zenon DEF ImageLog
      <3>7. target[t].prefix <= Len(log')
        BY <3>2, <3>5
      <3> QED
        BY Zenon, <2>1, <3>3, <3>4, <3>5, <3>6, <3>7
    <2>2. CASE target[t].mode # "append"
      BY <1>0, <1>2, <2>2, TargetFacts, EmptyConcat, Zenon DEF RestoreEvents, IInv, TypeOK, WorkType,
         RestorePC, ImageLog
    <2> QED
      BY <2>1, <2>2, Zenon
  <1>4. /\ DiskOK' /\ StoredSame
        /\ ImageLog(journal.before)' = ImageLog(journal.before)
        /\ ImageLog(journal.after)' = ImageLog(journal.after)
    BY <1>0, <1>1, <1>3, TargetFacts, CoveredWrites, Zenon DEF RestorePC, IInv, TypeOK, DiskType
  <1>5. WorkType'
    BY Zenon, <1>1, <1>3 DEF IInv, TypeOK, WorkType
  <1>6. pc'[t] = "append"
    BY <1>1 DEF Goto, IInv, TypeOK, CallType
  <1>7. CallShape(t)'
    BY <1>0, <1>1, <1>2, <1>6, Zenon DEF IInv, ThreadInv, CallShape, client, SharedPC, RestorePC
  <1>8. RestoreProgress(t)'
    <2>1. ImageLog(target[t])' = ImageLog(target[t])
      BY <1>1, <1>3, Zenon DEF ImageLog
    <2>2. Restored(t)'
      BY <1>0, <1>1, ZenonT(40) DEF IInv, ThreadInv, RestoreProgress, Restored, RestorePC
    <2>3. journal # NoJournal
      BY <1>0, TargetFacts, Zenon DEF RestorePC
    <2> QED
      BY <1>0, <1>1, <1>2, <1>3, <1>6, <2>1, <2>2, <2>3, Zenon
      DEF IInv, ThreadInv, RestoreProgress, RestorePC, Settled
  <1>9. AfterImageIsEffect(t)'
    BY <1>0, <1>1, <1>4, EffectFrame, Zenon DEF IInv, ThreadInv, client
  <1>10. ThreadInv(t)'
    BY <1>6, <1>7, <1>8, <1>9, Zenon DEF ThreadInv, JournalAbsent, ReadProgress
  <1> QED
    BY <1>0, <1>1, <1>3, <1>4, <1>5, <1>10, ExclusiveStep, Zenon DEF ExclusivePC

(* One more event, or half of one, behind the prefix *)
LEMMA AppendStep ==
    ASSUME IInv, NEW t \in Thread, AppendBytes(t) \/ AppendNewline(t)
    PROVE  IInv' /\ StoredSame
  <1>0. pc[t] = "append" /\ left[t] # <<>> /\ left[t] \in Seq(Event) /\ target[t].mode = "append"
    BY Zenon DEF AppendBytes, AppendNewline, IInv, TypeOK, WorkType, ThreadInv, RestoreProgress, RestorePC
  <1>1. UNCHANGED <<data, index, journal, locks, pc, mode, phase, target, todo, cur, client>>
    BY Zenon DEF AppendBytes, AppendNewline, work
  <1>2. /\ log' \in Seq(Event) /\ torn' \in BOOLEAN
        /\ left' \in [Thread -> Seq(Event)] /\ \A u \in Thread \ {t} : left'[u] = left[u]
        /\ log' \o left'[t] = log \o left[t]
        /\ left'[t] = <<>> => ~torn'
        /\ target[t].prefix <= Len(log')
        /\ SubSeq(log', 1, target[t].prefix) = SubSeq(log, 1, target[t].prefix)
    <2>1. CASE AppendBytes(t)
      BY <1>0, <2>1, TargetFacts, Zenon DEF AppendBytes, work, IInv, TypeOK, WorkType, RestorePC
    <2>2. CASE AppendNewline(t)
      <3>1. /\ log' = Append(log, Head(left[t])) /\ torn' = FALSE
            /\ left' = [left EXCEPT ![t] = Tail(@)]
        BY <2>2 DEF AppendNewline
      <3>2. /\ Head(left[t]) \in Event /\ Tail(left[t]) \in Seq(Event) /\ log \in Seq(Event)
            /\ Append(log, Head(left[t])) \o Tail(left[t]) = log \o left[t]
        BY <1>0, ShiftHead, TargetFacts, Zenon DEF RestorePC
      <3>3. /\ target[t].prefix \in Nat /\ target[t].prefix <= Len(log)
        BY Zenon, <1>0, TargetFacts DEF RestorePC
      <3>4. left' \in [Thread -> Seq(Event)] /\ \A u \in Thread \ {t} : left'[u] = left[u]
        BY Zenon, <3>1, <3>2 DEF IInv, TypeOK, WorkType
      <3>5. left'[t] = Tail(left[t])
        BY <3>1 DEF IInv, TypeOK, WorkType
      <3>6. log' \in Seq(Event) /\ Len(log') = Len(log) + 1
        BY <3>1, <3>2
      <3>7. target[t].prefix <= Len(log')
        BY <3>2, <3>3, <3>6
      <3>8. SubSeq(log', 1, target[t].prefix) = SubSeq(log, 1, target[t].prefix)
        BY <3>1, <3>2, <3>3, CutOfAppend
      <3>9. log' \o left'[t] = log \o left[t]
        BY <3>1, <3>2, <3>5, Zenon
      <3> QED
        BY <3>1, <3>4, <3>6, <3>7, <3>8, <3>9, Zenon
    <2> QED
      BY <2>1, <2>2, Zenon
  <1>3. /\ DiskOK' /\ StoredSame
        /\ ImageLog(journal.before)' = ImageLog(journal.before)
        /\ ImageLog(journal.after)' = ImageLog(journal.after)
    BY <1>0, <1>1, <1>2, TargetFacts, CoveredWrites, Zenon DEF RestorePC, IInv, TypeOK, DiskType
  <1>4. WorkType'
    BY Zenon, <1>1, <1>2 DEF IInv, TypeOK, WorkType
  <1>5. CallShape(t)'
    BY <1>0, <1>1, Zenon DEF IInv, ThreadInv, CallShape, client
  <1>6. RestoreProgress(t)'
    <2>1. ImageLog(target[t])' = ImageLog(target[t])
      BY <1>0, <1>1, <1>2, Zenon DEF ImageLog
    <2>2. Restored(t)'
      <3>1. Restored(t)
        BY <1>0, Zenon DEF IInv, ThreadInv, RestoreProgress, RestorePC
      <3> QED
        BY <1>1, <3>1, Zenon DEF Restored
    <2> QED
      BY <1>0, <1>1, <1>2, <2>1, <2>2, Zenon DEF IInv, ThreadInv, RestoreProgress, RestorePC, Settled
  <1>7. AfterImageIsEffect(t)'
    BY <1>0, <1>1, <1>3, EffectFrame, Zenon DEF IInv, ThreadInv, client
  <1>8. ThreadInv(t)'
    BY <1>0, <1>1, <1>5, <1>6, <1>7, Zenon DEF ThreadInv, JournalAbsent, ReadProgress
  <1>9. Goto(t, "append")
    BY <1>0, <1>1, Zenon DEF Goto, IInv, TypeOK, CallType
  <1> QED
    BY <1>0, <1>1, <1>2, <1>3, <1>4, <1>8, <1>9, ExclusiveStep, Zenon DEF ExclusivePC

(* After the last event the log is the image's log. *)
LEMMA RestoreDoneStep ==
    ASSUME IInv, NEW t \in Thread, RestoreDone(t)
    PROVE  IInv'
  <1>0. pc[t] = "append" /\ left[t] = <<>> /\ todo[t] = {} /\ cur[t] = NoKey
    BY Zenon DEF RestoreDone, IInv, ThreadInv, RestoreProgress, RestorePC, CallShape
  <1>1. /\ UNCHANGED <<disk, locks, mode, work, client>>
        /\ pc'[t] = IF phase[t] = "recover" THEN "remove" ELSE "mark"
        /\ Goto(t, pc'[t])
    BY DEF RestoreDone, Goto, IInv, TypeOK, CallType
  <1>2. DiskOK' /\ StoredSame /\ \A img : ImageLog(img)' = ImageLog(img)
    BY <1>1, DiskFrame, Zenon DEF IInv, DiskOK, TypeOK
  <1>3. WorkType'
    BY Zenon, <1>1 DEF IInv, TypeOK, WorkType, work
  <1>4. phase[t] \in {"recover", "apply"} /\ log \in Seq(Event)
    BY DEF IInv, TypeOK, WorkType, DiskType
  <1>5. CallShape(t)'
    BY <1>0, <1>1, <1>4, Zenon DEF IInv, ThreadInv, CallShape, client, work, SharedPC, RestorePC
  <1>6. RestoreProgress(t)'
    <2>1. log = ImageLog(target[t]) /\ ~torn
      BY <1>0, <1>4, EmptyConcat, Zenon DEF IInv, ThreadInv, RestoreProgress, RestorePC
    <2>2. Restored(t)'
      <3>1. Restored(t)
        BY <1>0, Zenon DEF IInv, ThreadInv, RestoreProgress, RestorePC
      <3> QED
        BY <1>1, <3>1, Zenon DEF Restored, disk, work
    <2> QED
      BY <1>0, <1>1, <1>2, <1>4, <2>1, <2>2, Zenon
      DEF IInv, ThreadInv, RestoreProgress, RestorePC, Settled, disk, work
  <1>7. AfterImageIsEffect(t)'
    BY <1>0, <1>1, <1>2, EffectFrame, Zenon DEF IInv, ThreadInv, client, disk, work
  <1>8. ThreadInv(t)'
    BY <1>1, <1>5, <1>6, <1>7, Zenon DEF ThreadInv, JournalAbsent, ReadProgress
  <1> QED
    BY <1>0, <1>1, <1>2, <1>3, <1>8, ExclusiveStep, Zenon DEF ExclusivePC, work

(* When the journal goes, the files hold what it would have restored. *)
LEMMA RemoveJournalStep ==
    ASSUME IInv, NEW t \in Thread, RemoveJournal(t)
    PROVE  IInv' /\ StoredSame
  <1>0. /\ pc[t] = "remove" /\ journal # NoJournal /\ todo[t] = {} /\ journal' = NoJournal
        /\ UNCHANGED <<data, index, log, torn>>
    BY Zenon DEF RemoveJournal, IInv, ThreadInv, RestoreProgress, RestorePC
  <1>1. target[t] = Settled(journal) /\ log = ImageLog(target[t]) /\ ~torn /\ Restored(t)
    BY <1>0, Zenon DEF IInv, ThreadInv, RestoreProgress, RestorePC, Settled, TypeOK, WorkType
  <1>2. /\ DOMAIN target[t].docs = DOMAIN journal.before.docs
        /\ \A k \in DOMAIN target[t].docs : data[k] = target[t].docs[k] /\ Paired(k)
    BY <1>0, <1>1, TargetFacts, Zenon DEF Restored, Paired, RestorePC
  <1>3. \A k \in Key : Paired(k)
    BY <1>0, <1>2 DEF IInv, JournalCovers
  <1>4. StoredDocs' = StoredDocs
    <2>1. data = [k \in Key |-> data[k]]
      BY Zenon DEF IInv, TypeOK, DiskType
    <2>2. \A k \in Key : data[k] = IF k \in DOMAIN Settled(journal).docs
                                   THEN Settled(journal).docs[k] ELSE data[k]
      BY Zenon, <1>1, <1>2
    <2>3. StoredDocs' = data
      BY Zenon, <1>0 DEF StoredDocs
    <2>4. StoredDocs = data
      BY <1>0, <2>1, <2>2 DEF StoredDocs
    <2> QED
      BY <2>3, <2>4
  <1>5. StoredLog' = StoredLog
    BY <1>0, <1>1, Zenon DEF StoredLog, ImageLog
  <1>6. DiskOK'
    <2>1. DiskType' /\ JournalCovers' /\ CleanWithoutJournal'
      BY <1>0, <1>1, <1>3, Zenon DEF IInv, TypeOK, DiskType, JournalCovers, CleanWithoutJournal, Paired
    <2> QED
      BY <1>4, <1>5, <2>1 DEF DiskOK, IInv, NoDuplicateEvents, WithinCapacity
  <1>7. CASE phase[t] = "recover"
    BY <1>0, <1>4, <1>5, <1>6, <1>7, RecoveredStep, Zenon DEF RemoveJournal, StoredSame
  <1>8. CASE phase[t] # "recover"
    <2>1. Goto(t, "return") /\ UNCHANGED <<locks, mode, work, client>>
      BY Zenon, <1>8 DEF RemoveJournal
    <2>2. pc'[t] = "return"
      BY Zenon, <2>1 DEF Goto, IInv, TypeOK, CallType
    <2>3. phase[t] = "apply"
      BY Zenon, <1>8 DEF IInv, TypeOK, WorkType
    <2>4. CallShape(t)'
      BY <1>0, <2>1, <2>2, <2>3, Zenon DEF IInv, ThreadInv, CallShape, work, client, RestorePC, SharedPC
    <2>5. ThreadInv(t)'
      BY <1>0, <2>2, <2>4, Zenon DEF ThreadInv, RestoreProgress, JournalAbsent, AfterImageIsEffect,
         ReadProgress, RestorePC
    <2>6. WorkType'
      BY Zenon, <2>1 DEF IInv, TypeOK, WorkType, work
    <2> QED
      BY Zenon, <1>0, <1>4, <1>5, <1>6, <2>1, <2>5, <2>6, ExclusiveStep DEF ExclusivePC, work, StoredSame
  <1> QED
    BY <1>4, <1>5, <1>7, <1>8 DEF StoredSame

(* The rename of the Committed journal switches what is stored from the   *)
(* before image to the after image: the effect of the request.            *)
LEMMA MarkCommittedStep ==
    ASSUME IInv, NEW t \in Thread, MarkCommitted(t)
    PROVE  /\ IInv'
           /\ StoredDocs' = DocsAfter(req[t], StoredDocs)
           /\ StoredLog' = LogAfter(req[t], StoredLog)
  <1>0. /\ pc[t] = "mark" /\ Goto(t, "remove")
        /\ UNCHANGED <<data, index, log, torn, locks, mode, work, client>>
        /\ journal' = [journal EXCEPT !.state = "Committed"]
    BY Zenon DEF MarkCommitted
  <1>1. /\ phase[t] = "apply" /\ op[t] = "commit" /\ target[t] = journal.after
        /\ journal \in JournalType /\ journal # NoJournal
    BY <1>0, TargetFacts DEF IInv, ThreadInv, CallShape, RestoreProgress, RestorePC
  <1>2. /\ journal' \in JournalType /\ journal' # NoJournal
        /\ journal'.before = journal.before /\ journal'.after = journal.after
        /\ journal'.state = "Committed" /\ Settled(journal') = journal.after
    BY <1>0, <1>1, SentinelAssumption DEF JournalType, Settled
  <1>3. StoredDocs' = [k \in Key |-> IF k \in DOMAIN journal.after.docs
                                     THEN journal.after.docs[k] ELSE data[k]]
    BY <1>0, <1>2 DEF StoredDocs
  <1>4. StoredLog' = ImageLog(journal.after)
    BY Zenon, <1>0, <1>2 DEF StoredLog, ImageLog
  <1>5. StoredDocs' = DocsAfter(req[t], StoredDocs)
    <2>1. \A k \in Key : DocsAfter(req[t], StoredDocs)[k] =
             IF k \in DOMAIN journal.after.docs THEN journal.after.docs[k] ELSE data[k]
      BY Zenon, <1>0, <1>1 DEF IInv, ThreadInv, AfterImageIsEffect
    <2>2. DocsAfter(req[t], StoredDocs) = [k \in Key |-> DocsAfter(req[t], StoredDocs)[k]]
      BY Zenon DEF DocsAfter
    <2> HIDE DEF DocsAfter
    <2> QED
      BY <1>3, <2>1, <2>2
  <1>6. StoredLog' = LogAfter(req[t], StoredLog)
    BY Zenon, <1>0, <1>1, <1>4 DEF IInv, ThreadInv, AfterImageIsEffect
  <1>7. NoDuplicateEvents' /\ WithinCapacity'
    <2>1. Fits(req[t], StoredDocs, StoredLog)
      BY <1>0, <1>1 DEF IInv, ThreadInv, AfterImageIsEffect
    <2> QED
      BY Zenon, <1>5, <1>6, <2>1 DEF Fits, NoDuplicateEvents, WithinCapacity
  <1>8. DiskOK'
    <2>1. DiskType' /\ JournalCovers' /\ CleanWithoutJournal'
      BY <1>0, <1>1, <1>2 DEF IInv, TypeOK, DiskType, JournalCovers, CleanWithoutJournal, Paired
    <2> QED
      BY Zenon, <1>7, <2>1 DEF DiskOK
  <1>9. pc'[t] = "remove"
    BY Zenon, <1>0 DEF Goto, IInv, TypeOK, CallType
  <1>10. CallShape(t)'
    BY Zenon, <1>0, <1>1, <1>9 DEF IInv, ThreadInv, CallShape, work, client, RestorePC, SharedPC
  <1>11. RestoreProgress(t)'
    <2>1. Restored(t)'
      BY <1>0 DEF IInv, ThreadInv, RestoreProgress, Restored, RestorePC, work
    <2>2. ImageLog(target[t])' = ImageLog(target[t])
      BY <1>0 DEF ImageLog, work
    <2> QED
      BY <1>0, <1>1, <1>2, <1>9, <2>1, <2>2 DEF IInv, ThreadInv, CallShape, RestoreProgress, RestorePC, work
  <1>12. ThreadInv(t)'
    BY <1>9, <1>10, <1>11, Zenon DEF ThreadInv, JournalAbsent, AfterImageIsEffect, ReadProgress
  <1>13. WorkType'
    BY <1>0 DEF IInv, TypeOK, WorkType, work
  <1>14. IInv'
    BY Zenon, <1>0, <1>8, <1>12, <1>13, ExclusiveStep DEF ExclusivePC, work
  <1> QED
    BY <1>5, <1>6, <1>14

(* The Prepared journal changes nothing that is stored, and its after     *)
(* image is the effect of the request.                                    *)
LEMMA PrepareStep ==
    ASSUME IInv, NEW t \in Thread, Prepare(t),
           ContextReadable(req[t]), Matches(req[t], data), Fits(req[t], data, log)
    PROVE  IInv' /\ StoredSame
  <1> DEFINE r == req[t]
  <1>0. /\ pc[t] = "plan" /\ StartRestore(t, "apply", AfterImage(r))
        /\ journal' = [state |-> "Prepared", before |-> BeforeImage(r), after |-> AfterImage(r)]
        /\ UNCHANGED <<data, index, log, torn, locks, mode, client>>
    BY Zenon DEF Prepare
  <1>1. /\ op[t] = "commit" /\ r \in Request /\ journal = NoJournal /\ cur[t] = NoKey
        /\ left[t] = <<>> /\ snap[t] = NoDocs
    BY <1>0, Zenon DEF IInv, TypeOK, CallType, ThreadInv, CallShape, JournalAbsent
  <1>2. log \in Seq(Event) /\ data \in [Key -> Image]
    BY DEF IInv, TypeOK, DiskType
  <1>3. /\ Touched(r) \subseteq Key
        /\ BeforeImage(r) \in ImageType /\ AfterImage(r) \in ImageType
    BY <1>1, ImagesType, Zenon DEF IInv, Fits
  <1>4. /\ BeforeImage(r).docs = [k \in Touched(r) |-> data[k]]
        /\ AfterImage(r).docs = [k \in Touched(r) |-> DocsAfter(r, data)[k]]
        /\ BeforeImage(r).mode = AfterImage(r).mode /\ BeforeImage(r).prefix = AfterImage(r).prefix
        /\ r.kind = "commit" =>
              /\ BeforeImage(r).mode = "append" /\ BeforeImage(r).prefix = Len(log)
              /\ BeforeImage(r).events = <<>> /\ AfterImage(r).events = r.events
        /\ r.kind = "replace" =>
              /\ BeforeImage(r).mode = "replace"
              /\ BeforeImage(r).events = log /\ AfterImage(r).events = LogAfter(r, log)
    BY DEF BeforeImage, AfterImage
  <1>5. /\ journal' \in JournalType /\ journal' # NoJournal
        /\ journal'.before = BeforeImage(r) /\ journal'.after = AfterImage(r)
        /\ journal'.state = "Prepared" /\ Settled(journal') = BeforeImage(r)
    <2> DEFINE b == BeforeImage(r)  a == AfterImage(r)
    <2>1. b \in ImageType /\ a \in ImageType
      BY <1>3
    <2>2. journal' = [state |-> "Prepared", before |-> b, after |-> a]
      BY <1>0, Zenon
    <2> HIDE DEF b, a
    <2>3. journal' \in JournalType /\ journal'.before = b /\ journal'.after = a
          /\ journal'.state = "Prepared"
      BY <2>1, <2>2 DEF JournalType
    <2>4. journal' # NoJournal
      BY <2>3, SentinelAssumption, Zenon
    <2>5. Settled(journal') = b
      BY <2>3, Zenon DEF Settled
    <2> QED
      BY <2>3, <2>4, <2>5, Zenon DEF b, a
  <1>6. r.kind \in {"commit", "replace"} /\ r.events \in Seq(Event)
    BY <1>1, RequestTyping, Zenon
  <1>7. StoredDocs = data /\ StoredLog = log
    BY <1>1, Zenon DEF StoredDocs, StoredLog
  <1>8. StoredDocs' = data
    <2>1. StoredDocs' = [k \in Key |-> IF k \in DOMAIN BeforeImage(r).docs
                                       THEN BeforeImage(r).docs[k] ELSE data[k]]
      BY <1>0, <1>5, Zenon DEF StoredDocs
    <2> QED
      BY <1>2, <1>4, <2>1, Zenon
  <1>9. StoredLog' = log
    <2>1. StoredLog' = IF BeforeImage(r).mode = "append"
                       THEN SubSeq(log, 1, BeforeImage(r).prefix) \o BeforeImage(r).events
                       ELSE BeforeImage(r).events
      BY <1>0, <1>5, Zenon DEF StoredLog
    <2>2. SubSeq(log, 1, Len(log)) = log /\ log \o <<>> = log
      BY <1>2, CutTwice, EmptyConcat
    <2> QED
      BY <1>4, <1>6, <2>1, <2>2, Zenon
  <1>10. StoredSame
    BY Zenon, <1>7, <1>8, <1>9 DEF StoredSame
  <1>11. DiskOK'
    <2>1. JournalCovers'
      <3>1. (\A k \in Key : Paired(k)) /\ ~torn
        BY <1>1, Zenon DEF IInv, CleanWithoutJournal
      <3>2. Len(log) \in Nat
        BY <1>2
      <3> QED
        <4>1. \A k \in Key : Paired(k)'
          BY <1>0, <3>1, Zenon DEF Paired
        <4>2. DOMAIN BeforeImage(r).docs = DOMAIN AfterImage(r).docs
          BY <1>4, Zenon
        <4>3. Len(log) <= Len(log)
          BY <3>2
        <4>4. BeforeImage(r).mode = "append" =>
                 BeforeImage(r).prefix <= Len(log) /\ BeforeImage(r).events = <<>>
          BY <1>4, <1>6, <4>3, Zenon
        <4> QED
          BY <1>0, <1>4, <1>5, <3>1, <4>1, <4>2, <4>4, Zenon DEF JournalCovers
    <2>2. DiskType' /\ CleanWithoutJournal'
      BY <1>0, <1>5, Zenon DEF IInv, TypeOK, DiskType, CleanWithoutJournal
    <2> QED
      BY <1>10, <2>1, <2>2 DEF DiskOK, StoredSame, IInv, NoDuplicateEvents, WithinCapacity
  <1>12. /\ pc'[t] = "restore" /\ op'[t] = "commit" /\ mode'[t] = mode[t] /\ req'[t] = r
         /\ phase'[t] = "apply" /\ target'[t] = AfterImage(r)
         /\ todo'[t] = DOMAIN AfterImage(r).docs /\ cur'[t] = NoKey /\ left'[t] = <<>>
         /\ snap'[t] = NoDocs
    BY <1>0, <1>1 DEF StartRestore, Goto, IInv, TypeOK, CallType, WorkType, client
  <1>13. WorkType'
    BY <1>0, <1>3, <1>4, Zenon DEF IInv, TypeOK, WorkType, StartRestore
  <1>14. CallShape(t)'
    BY <1>1, <1>12, Zenon DEF IInv, ThreadInv, CallShape, SharedPC, RestorePC
  <1>15. RestoreProgress(t)'
    BY <1>5, <1>12, Zenon DEF RestoreProgress, Restored
  <1>16. AfterImageIsEffect(t)'
    <2>1. Matches(req[t], StoredDocs)' /\ Fits(req[t], StoredDocs, StoredLog)'
      BY <1>8, <1>9, <1>12, Zenon DEF Matches, Fits, DocsAfter
    <2>2. DocsAfter(req[t], StoredDocs)' = DocsAfter(r, data)
      BY <1>8, <1>12, Zenon DEF DocsAfter
    <2>3. \A k \in Key : DocsAfter(r, data)[k] =
             IF k \in DOMAIN AfterImage(r).docs THEN AfterImage(r).docs[k] ELSE data[k]
      BY <1>4, <1>6, Zenon DEF DocsAfter, Touched
    <2>4. LogAfter(req[t], StoredLog)' = LogAfter(r, log)
      BY <1>9, <1>12, Zenon
    <2>5. ImageLog(AfterImage(r)) = LogAfter(r, log)
      <3>1. SubSeq(log, 1, Len(log)) = log
        BY <1>2, CutTwice
      <3>2. r.kind = "commit" => LogAfter(r, log) = log \o r.events
        BY DEF LogAfter
      <3>3. CASE r.kind = "commit"
        <4>1. ImageLog(AfterImage(r)) = SubSeq(log, 1, Len(log)) \o r.events
          BY <1>4, <3>3, Zenon DEF ImageLog
        <4> QED
          BY <3>1, <3>2, <3>3, <4>1, Zenon
      <3>4. CASE r.kind = "replace"
        BY <1>4, <3>4, Zenon DEF ImageLog
      <3> QED
        BY <1>6, <3>3, <3>4, Zenon
    <2>6. ImageLog(journal.after)' = ImageLog(AfterImage(r))
      BY <1>0, <1>5, Zenon DEF ImageLog
    <2> HIDE DEF r
    <2> QED
      BY <1>0, <1>5, <2>1, <2>2, <2>3, <2>4, <2>5, <2>6, Zenon DEF AfterImageIsEffect
  <1>17. ThreadInv(t)'
    BY <1>12, <1>14, <1>15, <1>16, Zenon DEF ThreadInv, JournalAbsent, ReadProgress
  <1>18. \A u \in Thread \ {t} :
            /\ phase'[u] = phase[u] /\ target'[u] = target[u] /\ todo'[u] = todo[u]
            /\ cur'[u] = cur[u] /\ left'[u] = left[u]
    BY <1>0, Zenon DEF StartRestore, IInv, TypeOK, WorkType
  <1>19. IInv'
    BY <1>0, <1>11, <1>13, <1>17, <1>18, ExclusiveStep, Zenon DEF ExclusivePC, StartRestore
  <1> QED
    BY <1>10, <1>19

-----------------------------------------------------------------------------
(* The invariant holds of every behaviour *)

(* The invariant holds in a store that was just initialised. *)
LEMMA InitInv == Init => IInv
  <1> SUFFICES ASSUME Init PROVE IInv
    OBVIOUS
  <1> USE DEF Init
  <1>0. index \in [Key -> BOOLEAN] /\ log \in Seq(Event) /\ torn \in BOOLEAN
    <2>1. index \in [Key -> BOOLEAN]
      BY Zenon
    <2>2. log \in Seq(Event)
      OBVIOUS
    <2> QED
      BY <2>1, <2>2, Zenon
  <1>1. DiskType /\ LockType /\ CallType
    BY <1>0, RequestAssumption, Zenon DEF DiskType, LockType, CallType, PC
  <1>2. WorkType /\ AnswerType
    BY NoDocsType, EmptyConcat DEF WorkType, AnswerType, Answers
  <1>3. LockDiscipline
    BY ThreadAssumption DEF LockDiscipline, ExclusivePC, SharedPC
  <1>4. JournalCovers /\ CleanWithoutJournal /\ NeverDamaged
    BY RequestAssumption, Zenon DEF JournalCovers, CleanWithoutJournal, NeverDamaged, Paired
  <1>5. NoDuplicateEvents /\ WithinCapacity
    BY CapacityAssumption DEF NoDuplicateEvents, WithinCapacity, StoredDocs, StoredLog, Distinct
  <1>6. \A t \in Thread : ThreadInv(t)
    BY Zenon DEF ThreadInv, CallShape, RestoreProgress, JournalAbsent, AfterImageIsEffect, ReadProgress,
       RestorePC, SharedPC
  <1> QED
    BY <1>1, <1>2, <1>3, <1>4, <1>5, <1>6 DEF IInv, TypeOK

(* An answer that changes no file keeps the invariant. *)
LEMMA AnsweredStep ==
    ASSUME IInv, NEW t \in Thread, NEW res \in Answers \ {"damaged"}, Answered(t, res)
    PROVE  IInv'
  BY LeaveStep, NoDocsType DEF Answered

(* Planning finds every address paired and the log whole. *)
LEMMA PlanReadsClean ==
    ASSUME IInv, NEW t \in Thread, pc[t] = "plan"
    PROVE  ContextReadable(req[t])
  <1>1. journal = NoJournal /\ req[t] \in Request
    BY Zenon DEF IInv, ThreadInv, JournalAbsent, CallShape, TypeOK, CallType
  <1>2. Touched(req[t]) \subseteq Key
    BY <1>1, RequestTyping, Zenon DEF Touched
  <1> QED
    BY <1>1, <1>2, Zenon DEF IInv, CleanWithoutJournal, ContextReadable

(* Every step of a thread keeps the invariant. *)
LEMMA ThreadStepInv ==
    ASSUME IInv, NEW t \in Thread, ThreadStep(t)
    PROVE  IInv'
  <1> USE DEF Answers
  <1>1. CASE Preflight(t)
    BY <1>1, PreflightStep, AnsweredStep DEF Preflight
  <1>2. CASE TakeGate(t)
    BY Zenon, <1>2, TakeGateStep
  <1>3. CASE TakeLock(t)
    BY Zenon, <1>3, TakeExclusiveStep, TakeSharedStep
  <1>4. CASE LockTimeout(t)
    BY Zenon, <1>4, AnsweredStep DEF LockTimeout
  <1>5. CASE CheckMarker(t)
    BY Zenon, <1>5, MarkerStep, NoMarkerStep
  <1>6. CASE \E k \in Key : ReadKey(t, k)
    BY <1>6, ReadKeyStep
  <1>7. CASE FinishRead(t)
    BY <1>7, LeaveStep, Zenon DEF FinishRead, IInv, TypeOK, AnswerType
  <1>8. CASE ReadJournal(t)
    BY <1>8, ReadJournalStep
  <1>9. CASE \E k \in Key : RestoreFirst(t, k)
    BY Zenon, <1>9, RestoreFirstStep
  <1>10. CASE RestoreSecond(t)
    BY <1>10, RestoreSecondStep
  <1>11. CASE RestoreEvents(t)
    BY Zenon, <1>11, RestoreEventsStep
  <1>12. CASE AppendBytes(t) \/ AppendNewline(t)
    BY Zenon, <1>12, AppendStep
  <1>13. CASE RestoreDone(t)
    BY <1>13, RestoreDoneStep
  <1>14. CASE RemoveJournal(t)
    BY <1>14, RemoveJournalStep
  <1>15. CASE FenceRejects(t)
    BY Zenon, <1>15, AnsweredStep DEF FenceRejects
  <1>16. CASE Prepare(t)
    <2>1. ContextReadable(req[t])
      BY <1>16, PlanReadsClean, Zenon DEF Prepare
    <2>2. CASE ~Matches(req[t], data) \/ ~Fits(req[t], data, log)
      BY <1>16, <2>1, <2>2, AnsweredStep, Zenon DEF Prepare
    <2>3. CASE Matches(req[t], data) /\ Fits(req[t], data, log)
      BY Zenon, <1>16, <2>1, <2>3, PrepareStep
    <2> QED
      BY <2>2, <2>3
  <1>17. CASE MarkCommitted(t)
    BY Zenon, <1>17, MarkCommittedStep
  <1>18. CASE CommitReturns(t)
    BY Zenon, <1>18, AnsweredStep DEF CommitReturns
  <1> QED
    BY Zenon, <1>1, <1>2, <1>3, <1>4, <1>5, <1>6, <1>7, <1>8, <1>9, <1>10, <1>11, <1>12, <1>13, <1>14,
       <1>15, <1>16, <1>17, <1>18 DEF ThreadStep

(* The invariant is inductive. *)
LEMMA NextInv == IInv /\ [Next]_vars => IInv'
  <1> SUFFICES ASSUME IInv, [Next]_vars PROVE IInv'
    BY Zenon
  <1>1. CASE UNCHANGED vars
    <2>1. DiskOK'
      BY Zenon, <1>1, DiskFrame DEF vars, IInv, DiskOK, TypeOK
    <2>2. LockType' /\ CallType' /\ LockDiscipline'
      BY Zenon, <1>1 DEF IInv, TypeOK, LockType, CallType, LockDiscipline, vars, locks, client
    <2>3. WorkType' /\ AnswerType' /\ NeverDamaged'
      BY <1>1 DEF IInv, TypeOK, WorkType, AnswerType, NeverDamaged, vars, work, client
    <2>4. \A t \in Thread : ThreadInv(t)'
      BY <1>1, ThreadFrame, Zenon DEF IInv, LocalsSame, vars, work, client
    <2> QED
      BY Zenon, <2>1, <2>2, <2>3, <2>4 DEF IInv, TypeOK, DiskOK
  <1>2. ASSUME NEW t \in Thread, NEW r \in Request, CallCommit(t, r) PROVE IInv'
    BY <1>2, CallStep, RequestAssumption, Zenon DEF CallCommit
  <1>3. ASSUME NEW t \in Thread, NEW S \in SUBSET Key, CallRead(t, S) PROVE IInv'
    BY Zenon, <1>3, CallStep DEF CallRead
  <1>4. ASSUME NEW t \in Thread, CallOpen(t) PROVE IInv'
    BY Zenon, <1>4, CallStep DEF CallOpen
  <1>5. ASSUME NEW t \in Thread, FileError(t) PROVE IInv'
    BY Zenon, <1>5, AnsweredStep DEF FileError, Answers
  <1>6. ASSUME NEW p \in Process, Crash(p) PROVE IInv'
    BY <1>6, LeaveStep, NoDocsType DEF Crash, Answers
  <1> QED
    BY <1>1, <1>2, <1>3, <1>4, <1>5, <1>6, ThreadStepInv DEF Next

(* The inductive invariant holds in every reachable state. *)
THEOREM Inductive == Spec => []IInv
  BY InitInv, NextInv, PTL DEF Spec

(* Every variable of the file backend keeps its type. *)
THEOREM TypeCorrect == Spec => []TypeOK
  <1>1. IInv => TypeOK
    BY Zenon DEF IInv
  <1> QED
    BY <1>1, Inductive, PTL

-----------------------------------------------------------------------------
(* The file backend implements the atomic store *)

(* The abstract store and the file store mean the same by a request. *)
LEMMA SameRequests ==
    ASSUME NEW r, NEW d, NEW l
    PROVE  /\ Atomic!Matches(r, d) <=> Matches(r, d)
           /\ Atomic!DocsAfter(r, d) = DocsAfter(r, d)
           /\ Atomic!LogAfter(r, l) = LogAfter(r, l)
           /\ Atomic!Fits(r, d, l) <=> Fits(r, d, l)
           /\ Atomic!NoDocs = NoDocs
  <1>1. Atomic!Matches(r, d) <=> Matches(r, d)
    BY Zenon DEF Atomic!Matches, Matches
  <1>2. Atomic!DocsAfter(r, d) = DocsAfter(r, d)
    BY DEF Atomic!DocsAfter, DocsAfter
  <1>3. Atomic!LogAfter(r, l) = LogAfter(r, l)
    BY Zenon DEF Atomic!LogAfter, LogAfter, Atomic!Surviving, Surviving
  <1>4. Atomic!Fits(r, d, l) <=> Fits(r, d, l)
    <2>1. Atomic!Distinct(Atomic!LogAfter(r, l)) <=> Distinct(LogAfter(r, l))
      BY Zenon, <1>3 DEF Atomic!Distinct, Distinct
    <2>2. Atomic!Present(Atomic!DocsAfter(r, d)) = Present(DocsAfter(r, d))
      BY Zenon, <1>2 DEF Atomic!Present, Present
    <2>3. \A S : Atomic!Cardinality(S) = Cardinality(S)
      BY Zenon DEF Atomic!Cardinality, Cardinality
    <2> QED
      BY Zenon, <1>2, <1>3, <2>1, <2>2, <2>3 DEF Atomic!Fits, Fits
  <1>5. Atomic!NoDocs = NoDocs
    BY Zenon DEF Atomic!NoDocs, NoDocs
  <1> QED
    BY Zenon, <1>1, <1>2, <1>3, <1>4, <1>5

(* A step of thread t inside a call: no request, answer or view changes. *)
LEMMA SilentStep ==
    ASSUME IInv, NEW t \in Thread, StoredSame, UNCHANGED client,
           \A u \in Thread \ {t} : pc'[u] = pc[u] /\ phase'[u] = phase[u],
           TookEffect(t)' <=> TookEffect(t)
    PROVE  UNCHANGED Atomic!vars
  <1>1. \A u \in Thread : TookEffect(u)' <=> TookEffect(u)
    BY Zenon DEF TookEffect, client
  <1>2. [u \in Thread |-> TookEffect(u)]' = [u \in Thread |-> TookEffect(u)]
    BY <1>1 DEF TookEffect
  <1> QED
    BY Zenon, <1>2 DEF Atomic!vars, StoredSame, client

(* Initial states map to initial states. *)
LEMMA InitRefines == Init => Atomic!Init
  BY Zenon DEF Init, Atomic!Init, Atomic!NoDocs, NoDocs, StoredDocs, StoredLog, TookEffect

(* A transaction is answered. *)
LEMMA RespondRefines ==
    ASSUME IInv, NEW t \in Thread, UNCHANGED disk,
           NEW res \in {"ok", "io"} \cup Atomic!Refusals, Leave({t}, res, NoDocs),
           req[t] # NoRequest, res = "ok" => TookEffect(t),
           res \in Atomic!Refusals => ~TookEffect(t)
    PROVE  Atomic!Next
  <1>1. StoredSame
    BY DiskFrame
  <1>2. /\ req' = [req EXCEPT ![t] = NoRequest] /\ result' = [result EXCEPT ![t] = res]
        /\ view' = [view EXCEPT ![t] = Atomic!NoDocs]
    BY SameRequests, Zenon DEF Leave, IInv, TypeOK, CallType, AnswerType
  <1>3. \A u \in Thread : TookEffect(u)' = IF u = t THEN FALSE ELSE TookEffect(u)
    BY Zenon DEF Leave, TookEffect, ClearWork
  <1>4. [u \in Thread |-> TookEffect(u)]' =
           [[u \in Thread |-> TookEffect(u)] EXCEPT ![t] = FALSE]
    BY <1>3, Zenon
  <1>5. Atomic!Respond(t, res)
    BY Zenon, <1>1, <1>2, <1>4 DEF Atomic!Respond, StoredSame
  <1> QED
    BY Zenon, <1>5 DEF Atomic!Next

(* A read or an open is answered without documents. *)
LEMMA AnswerRefines ==
    ASSUME IInv, NEW t \in Thread, StoredSame,
           NEW res \in {"ok", "busy", "io"}, Leave({t}, res, NoDocs), req[t] = NoRequest
    PROVE  Atomic!Next
  <1>1. op[t] # "commit"
    BY Zenon DEF IInv, ThreadInv, CallShape
  <1>2. /\ req' = req /\ result' = [result EXCEPT ![t] = res]
        /\ view' = [view EXCEPT ![t] = Atomic!NoDocs]
    BY SameRequests, Zenon DEF Leave, IInv, TypeOK, CallType, AnswerType
  <1>3. \A u \in Thread : TookEffect(u)' = TookEffect(u)
    BY <1>1, Zenon DEF Leave, TookEffect, ClearWork
  <1>4. [u \in Thread |-> TookEffect(u)]' = [u \in Thread |-> TookEffect(u)]
    BY Zenon, <1>3
  <1>5. Atomic!Answer(t, res)
    BY Zenon, <1>2, <1>4 DEF Atomic!Answer, StoredSame
  <1> QED
    BY Zenon, <1>5 DEF Atomic!Next

(* Starting a call maps to a submission or the start of a read. *)
LEMMA CallRefines ==
    ASSUME IInv, NEW t \in Thread, NEW o, NEW r \in Request \cup {NoRequest}, NEW S, NEW m,
           NEW p \in {"gate", "preflight"}, Call(t, o, r, S, m, p)
    PROVE  Atomic!Next
  <1>1. StoredSame
    BY DiskFrame DEF Call
  <1>2. req[t] = NoRequest
    BY Zenon DEF IInv, ThreadInv, CallShape, Call
  <1>3. /\ req' = [req EXCEPT ![t] = r] /\ result' = [result EXCEPT ![t] = "none"]
        /\ view' = [view EXCEPT ![t] = Atomic!NoDocs]
    BY SameRequests, Zenon DEF Call
  <1>4. \A u \in Thread : TookEffect(u)' <=> TookEffect(u)
    BY Zenon DEF Call, TookEffect, work, IInv, TypeOK, CallType
  <1>5. [u \in Thread |-> TookEffect(u)]' = [u \in Thread |-> TookEffect(u)]
    BY <1>4 DEF TookEffect
  <1>6. CASE r \in Request
    BY <1>1, <1>2, <1>3, <1>5, <1>6, Zenon DEF Atomic!Next, Atomic!Submit, StoredSame
  <1>7. CASE r = NoRequest
    <2>1. req' = req
      BY <1>2, <1>3, <1>7 DEF IInv, TypeOK, CallType
    <2> QED
      BY <1>1, <1>2, <1>3, <1>5, <2>1, Zenon DEF Atomic!Next, Atomic!StartRead, StoredSame
  <1> QED
    BY Zenon, <1>6, <1>7

(* A finished read maps to an atomic read. *)
LEMMA FinishReadRefines ==
    ASSUME IInv, NEW t \in Thread, FinishRead(t)
    PROVE  Atomic!Next
  <1>1. StoredSame
    BY DiskFrame, Zenon DEF FinishRead
  <1>2. pc[t] = "reading" /\ todo[t] = {} /\ journal = NoJournal /\ op[t] = "read" /\ req[t] = NoRequest
    BY Zenon DEF FinishRead, IInv, ThreadInv, JournalAbsent, CallShape, SharedPC
  <1>3. snap[t] = [k \in want[t] |-> StoredDocs[k]]
    <2>1. DOMAIN snap[t] = want[t] /\ \A k \in want[t] : snap[t][k] = StoredDocs[k]
      BY <1>2, Zenon DEF IInv, ThreadInv, ReadProgress, StoredDocs
    <2>2. snap[t] \in Partial(Key, Image)
      BY DEF IInv, TypeOK, AnswerType
    <2>3. PICK D \in SUBSET Key : snap[t] \in [D -> Image]
      BY <2>2, Zenon DEF Partial
    <2>4. snap[t] = [k \in DOMAIN snap[t] |-> snap[t][k]]
      BY <2>3, Zenon
    <2> QED
      BY <2>1, <2>4, Zenon
  <1>4. /\ req' = req /\ result' = [result EXCEPT ![t] = "ok"]
        /\ view' = [view EXCEPT ![t] = snap[t]]
    BY <1>2, Zenon DEF FinishRead, Leave, IInv, TypeOK, CallType, AnswerType
  <1>5. \A u \in Thread : TookEffect(u)' = TookEffect(u)
    BY <1>2, Zenon DEF FinishRead, Leave, TookEffect, ClearWork
  <1>6. [u \in Thread |-> TookEffect(u)]' = [u \in Thread |-> TookEffect(u)]
    BY Zenon, <1>5
  <1>7. want[t] \in SUBSET Key
    BY Zenon DEF IInv, TypeOK, CallType
  <1>8. Atomic!Read(t, want[t])
    BY Zenon, <1>1, <1>2, <1>3, <1>4, <1>6 DEF Atomic!Read, StoredSame
  <1> QED
    BY <1>7, <1>8, Zenon DEF Atomic!Next

(* The death of a process maps to the death of its clients. *)
LEMMA CrashRefines ==
    ASSUME IInv, NEW p \in Process, Crash(p)
    PROVE  Atomic!Next
  <1> DEFINE D == {t \in Thread : ProcessOf[t] = p}
  <1>1. StoredSame /\ Leave(D, "none", NoDocs)
    BY DiskFrame DEF Crash
  <1> HIDE DEF D
  <1>2. \A u \in Thread : TookEffect(u)' = IF u \in D THEN FALSE ELSE TookEffect(u)
    BY <1>1, Zenon DEF Leave, TookEffect, ClearWork
  <1>3. [u \in Thread |-> TookEffect(u)]' =
           [u \in Thread |-> IF u \in D THEN FALSE ELSE [v \in Thread |-> TookEffect(v)][u]]
    BY <1>2, Zenon
  <1>4. Atomic!Die(D)
    BY <1>1, <1>3, SameRequests, Zenon DEF Atomic!Die, Leave, StoredSame
  <1>5. D \in SUBSET Thread
    BY Zenon DEF D
  <1> QED
    BY Zenon, <1>4, <1>5 DEF Atomic!Next

(* The rename of the Committed journal maps to Apply. *)
LEMMA MarkCommittedRefines ==
    ASSUME IInv, NEW t \in Thread, MarkCommitted(t)
    PROVE  Atomic!Next
  <1>1. StoredDocs' = DocsAfter(req[t], StoredDocs) /\ StoredLog' = LogAfter(req[t], StoredLog)
    BY Zenon, MarkCommittedStep
  <1>2. /\ pc[t] = "mark" /\ op[t] = "commit" /\ phase[t] = "apply" /\ req[t] # NoRequest
        /\ UNCHANGED <<work, client>> /\ Goto(t, "remove")
    BY DEF MarkCommitted, IInv, ThreadInv, CallShape
  <1>3. Matches(req[t], StoredDocs) /\ Fits(req[t], StoredDocs, StoredLog)
    BY <1>2, Zenon DEF IInv, ThreadInv, AfterImageIsEffect
  <1>4. \A u \in Thread : TookEffect(u)' <=> IF u = t THEN TRUE ELSE TookEffect(u)
    BY <1>2 DEF TookEffect, work, client, Goto, IInv, TypeOK, CallType
  <1>5. [u \in Thread |-> TookEffect(u)]' = [[u \in Thread |-> TookEffect(u)] EXCEPT ![t] = TRUE]
    BY <1>4, Zenon DEF TookEffect
  <1>6. ~TookEffect(t)
    BY <1>2 DEF TookEffect
  <1>7. Atomic!Apply(t)
    BY <1>1, <1>2, <1>3, <1>5, <1>6, SameRequests, Zenon DEF Atomic!Apply, client
  <1> QED
    BY Zenon, <1>7 DEF Atomic!Next

(* Refusals and I/O errors of thread t, whatever it was doing *)
LEMMA AnsweredRefines ==
    ASSUME IInv, NEW t \in Thread, NEW res \in {"io", "busy", "rejected", "conflict"},
           Answered(t, res), res \in {"rejected", "conflict"} => pc[t] = "plan",
           res = "busy" => pc[t] = "lock"
    PROVE  Atomic!Next
  <1>1. CASE req[t] # NoRequest
    <2>1. res \in Atomic!Refusals => ~TookEffect(t)
      BY Zenon DEF Atomic!Refusals, TookEffect
    <2>2. res \in {"ok", "io"} \cup Atomic!Refusals
      BY DEF Atomic!Refusals
    <2> QED
      BY <1>1, <2>1, <2>2, RespondRefines, Zenon DEF Answered
  <1>2. CASE req[t] = NoRequest
    <2>1. res \in {"ok", "busy", "io"}
      BY <1>2, Zenon DEF IInv, ThreadInv, CallShape
    <2> QED
      BY <1>2, <2>1, AnswerRefines, DiskFrame, Zenon DEF Answered
  <1> QED
    BY <1>1, <1>2

(* The end of recovery maps to a stutter or an answer to open. *)
LEMMA RecoveredRefines ==
    ASSUME IInv, NEW t \in Thread, StoredSame, Recovered(t), phase[t] = "recover"
    PROVE  [Atomic!Next]_(Atomic!vars)
  <1>1. CASE op[t] = "open" /\ Leave({t}, "ok", NoDocs)
    BY <1>1, AnswerRefines, Zenon DEF IInv, ThreadInv, CallShape
  <1>2. CASE ~(op[t] = "open" /\ Leave({t}, "ok", NoDocs))
    <2>1. /\ UNCHANGED client /\ ClearWork({t})
          /\ \A u \in Thread \ {t} : pc'[u] = pc[u]
      BY <1>2 DEF Recovered, Relock, Goto, IInv, TypeOK, CallType
    <2>2. TookEffect(t)' <=> TookEffect(t)
      BY <2>1, Zenon DEF TookEffect, ClearWork
    <2> QED
      BY <2>1, <2>2, SilentStep, Zenon DEF ClearWork
  <1> QED
    BY Zenon, <1>1, <1>2

(* Every step of a thread maps to an abstract step or a stutter. *)
LEMMA ThreadStepRefines ==
    ASSUME IInv, NEW t \in Thread, ThreadStep(t)
    PROVE  [Atomic!Next]_(Atomic!vars)
  <1> USE DEF Goto
  <1>0. pc \in [Thread -> PC] /\ phase \in [Thread -> {"recover", "apply"}]
    BY Zenon DEF IInv, TypeOK, CallType, WorkType
  <1>1. CASE Preflight(t)
    <2>1. CASE Goto(t, "gate") /\ UNCHANGED <<disk, locks, mode, work, client>>
      BY Zenon, <1>0, <1>1, <2>1, DiskFrame, SilentStep DEF Preflight, TookEffect, work, client
    <2>2. CASE Answered(t, "io")
      BY <2>2, AnsweredRefines
    <2> QED
      BY Zenon, <1>1, <2>1, <2>2 DEF Preflight
  <1>2. CASE TakeGate(t)
    BY <1>0, <1>2, DiskFrame, SilentStep, Zenon DEF TakeGate, TookEffect, work, client
  <1>3. CASE TakeLock(t)
    BY <1>0, <1>3, DiskFrame, SilentStep, Zenon DEF TakeLock, TookEffect, work, client
  <1>4. CASE LockTimeout(t)
    BY <1>4, AnsweredRefines DEF LockTimeout
  <1>5. CASE CheckMarker(t)
    <2>1. /\ pc[t] = "marker" /\ UNCHANGED <<disk, client>>
          /\ pc'[t] \in {"reading", "gate"}
          /\ \A u \in Thread \ {t} : pc'[u] = pc[u] /\ phase'[u] = phase[u]
      BY Zenon, <1>0, <1>5 DEF CheckMarker, Relock, ClearWork
    <2> QED
      BY <2>1, DiskFrame, SilentStep, Zenon DEF TookEffect, client
  <1>6. ASSUME NEW k \in Key, ReadKey(t, k) PROVE [Atomic!Next]_(Atomic!vars)
    <2>1. Paired(k)
      BY Zenon, <1>6 DEF IInv, ThreadInv, JournalAbsent, CleanWithoutJournal, ReadKey
    <2>2. UNCHANGED <<disk, pc, phase, op, req, view, result>>
      BY Zenon, <1>6, <2>1 DEF ReadKey
    <2>3. [u \in Thread |-> TookEffect(u)]' = [u \in Thread |-> TookEffect(u)]
      BY Zenon, <2>2 DEF TookEffect
    <2> QED
      BY Zenon, <2>2, <2>3, DiskFrame DEF Atomic!vars, StoredSame
  <1>7. CASE FinishRead(t)
    BY Zenon, <1>7, FinishReadRefines
  <1>8. CASE ReadJournal(t)
    <2>1. StoredSame /\ phase[t] = "recover" /\ pc[t] = "journal"
      BY <1>8, DiskFrame, Zenon DEF ReadJournal, IInv, ThreadInv, CallShape, RestorePC, TypeOK, WorkType
    <2>2. OpenAdmits
      BY SettledType DEF IInv, OpenAdmits, JournalCovers, CleanWithoutJournal, JournalType, ImageType
    <2>3. CASE journal = NoJournal
      BY <1>8, <2>1, <2>2, <2>3, RecoveredRefines, Zenon DEF ReadJournal
    <2>4. CASE journal # NoJournal
      <3>1. StartRestore(t, "recover", Settled(journal)) /\ UNCHANGED client
        BY Zenon, <1>8, <2>2, <2>4 DEF ReadJournal
      <3>2. TookEffect(t)' <=> TookEffect(t)
        BY <1>0, <2>1, <3>1, Zenon DEF StartRestore, TookEffect
      <3> QED
        BY Zenon, <1>0, <2>1, <3>1, <3>2, SilentStep DEF StartRestore
    <2> QED
      BY Zenon, <2>3, <2>4
  <1>9. ASSUME NEW k \in Key, RestoreFirst(t, k) PROVE [Atomic!Next]_(Atomic!vars)
    BY <1>0, <1>9, RestoreFirstStep, SilentStep, Zenon DEF RestoreFirst, TookEffect, client
  <1>10. CASE RestoreSecond(t)
    BY <1>0, <1>10, RestoreSecondStep, SilentStep, Zenon DEF RestoreSecond, TookEffect, client
  <1>11. CASE RestoreEvents(t)
    BY <1>0, <1>11, RestoreEventsStep, SilentStep, Zenon DEF RestoreEvents, TookEffect, client
  <1>12. CASE AppendBytes(t) \/ AppendNewline(t)
    BY <1>0, <1>12, AppendStep, SilentStep, Zenon DEF AppendBytes, AppendNewline, TookEffect, client, work
  <1>13. CASE RestoreDone(t)
    BY <1>0, <1>13, DiskFrame, SilentStep, Zenon DEF RestoreDone, TookEffect, client, work
  <1>14. CASE RemoveJournal(t)
    <2>1. StoredSame /\ pc[t] = "remove"
      BY Zenon, <1>14, RemoveJournalStep DEF RemoveJournal
    <2>2. CASE phase[t] = "recover"
      BY Zenon, <1>14, <2>1, <2>2, RecoveredRefines DEF RemoveJournal
    <2>3. CASE phase[t] # "recover"
      BY Zenon, <1>0, <1>14, <2>1, <2>3, SilentStep DEF RemoveJournal, TookEffect, client, work
    <2> QED
      BY Zenon, <2>2, <2>3
  <1>15. CASE FenceRejects(t)
    BY Zenon, <1>15, AnsweredRefines DEF FenceRejects
  <1>16. CASE Prepare(t)
    <2>1. ContextReadable(req[t])
      BY <1>16, PlanReadsClean, Zenon DEF Prepare
    <2>2. CASE ~Matches(req[t], data) \/ ~Fits(req[t], data, log)
      BY <1>16, <2>1, <2>2, AnsweredRefines, Zenon DEF Prepare
    <2>3. CASE Matches(req[t], data) /\ Fits(req[t], data, log)
      <3>1. StartRestore(t, "apply", AfterImage(req[t])) /\ UNCHANGED client /\ pc[t] = "plan"
        BY <1>16, <2>1, <2>3, Zenon DEF Prepare
      <3>2. StoredSame
        BY Zenon, <1>16, <2>1, <2>3, PrepareStep
      <3>3. TookEffect(t)' <=> TookEffect(t)
        BY <1>0, <3>1 DEF StartRestore, TookEffect
      <3> QED
        BY <1>0, <3>1, <3>2, <3>3, SilentStep DEF StartRestore
    <2> QED
      BY <2>2, <2>3
  <1>17. CASE MarkCommitted(t)
    BY <1>17, MarkCommittedRefines
  <1>18. CASE CommitReturns(t)
    <2>1. TookEffect(t) /\ req[t] # NoRequest
      BY <1>18, Zenon DEF CommitReturns, TookEffect, IInv, ThreadInv, CallShape
    <2> QED
      BY <1>18, <2>1, RespondRefines, Zenon DEF CommitReturns, Answered, Atomic!Refusals
  <1> QED
    BY Zenon, <1>1, <1>2, <1>3, <1>4, <1>5, <1>6, <1>7, <1>8, <1>9, <1>10, <1>11, <1>12, <1>13, <1>14,
       <1>15, <1>16, <1>17, <1>18 DEF ThreadStep

(* Every step maps to an abstract step or a stutter. *)
LEMMA NextRefines == IInv /\ [Next]_vars => [Atomic!Next]_(Atomic!vars)
  <1> SUFFICES ASSUME IInv, [Next]_vars PROVE [Atomic!Next]_(Atomic!vars)
    BY Zenon
  <1>1. CASE UNCHANGED vars
    <2>1. [u \in Thread |-> TookEffect(u)]' = [u \in Thread |-> TookEffect(u)]
      BY Zenon, <1>1 DEF vars, work, client, TookEffect
    <2> QED
      BY Zenon, <1>1, <2>1, DiskFrame DEF vars, client, Atomic!vars, StoredSame
  <1>2. ASSUME NEW t \in Thread, NEW r \in Request, CallCommit(t, r) PROVE Atomic!Next
    BY Zenon, <1>2, CallRefines DEF CallCommit
  <1>3. ASSUME NEW t \in Thread, NEW S \in SUBSET Key, CallRead(t, S) PROVE Atomic!Next
    BY Zenon, <1>3, CallRefines DEF CallRead
  <1>4. ASSUME NEW t \in Thread, CallOpen(t) PROVE Atomic!Next
    BY Zenon, <1>4, CallRefines DEF CallOpen
  <1>5. ASSUME NEW t \in Thread, FileError(t) PROVE Atomic!Next
    BY <1>5, AnsweredRefines DEF FileError
  <1> QED
    BY <1>1, <1>2, <1>3, <1>4, <1>5, ThreadStepRefines, CrashRefines DEF Next

(* The journal protocol implements the atomic store, for any number of    *)
(* threads, processes, addresses and transactions.                        *)
THEOREM Refinement == Spec => ImplementsAtomicStore
  BY InitRefines, NextRefines, Inductive, PTL DEF Spec, ImplementsAtomicStore, Atomic!Spec

(* Every crash leaves files that are whole or that the journal covers.    *)
THEOREM DamageIsCovered == Spec => []NoSilentDamage
  <1>1. IInv => NoSilentDamage
    <2> SUFFICES ASSUME IInv PROVE NoSilentDamage
      BY Zenon
    <2>1. CASE journal = NoJournal
      BY Zenon, <2>1 DEF IInv, CleanWithoutJournal, NoSilentDamage
    <2>2. CASE journal # NoJournal
      <3>1. DOMAIN Settled(journal).docs = DOMAIN journal.before.docs
        BY Zenon, <2>2 DEF IInv, JournalCovers, Settled
      <3> QED
        BY Zenon, <2>2, <3>1 DEF IInv, JournalCovers, NoSilentDamage
    <2> QED
      BY <2>1, <2>2
  <1> QED
    BY <1>1, Inductive, PTL

(* Recovery always finds the log prefix it cuts back to.                  *)
THEOREM PrefixSurvives == Spec => []PrefixOnDisk
  <1>1. IInv => PrefixOnDisk
    BY Zenon DEF IInv, JournalCovers, PrefixOnDisk
  <1> QED
    BY <1>1, Inductive, PTL

(* A reader under the shared lock sees documents of one committed state.  *)
THEOREM ConsistentReads == Spec => []ReadsOneState
  <1>1. IInv => ReadsOneState
    BY DEF IInv, ThreadInv, JournalAbsent, ReadProgress, ReadsOneState, StoredDocs
  <1> QED
    BY <1>1, Inductive, PTL

(* An exclusive lock excludes every other holder, in every process, and a     *)
(* thread that works on the files holds a lock (acquire_backend_lock_internal). *)
THEOREM LocksExclude == Spec => []LockDiscipline
  <1>1. IInv => LockDiscipline
    BY Zenon DEF IInv
  <1> QED
    BY <1>1, Inductive, PTL

(* No operation ever finds damage in the files: what a crash leaves half      *)
(* written is always repaired from the journal first (recover_transaction_...). *)
THEOREM DamageIsNeverMet == Spec => []NeverDamaged
  <1>1. IInv => NeverDamaged
    BY Zenon DEF IInv
  <1> QED
    BY <1>1, Inductive, PTL

(* No event id is stored twice, whatever is retried after a crash or an error *)
(* (transaction_event_usage). *)
THEOREM EventsAreUnique == Spec => []NoDuplicateEvents
  <1>1. IInv => NoDuplicateEvents
    BY DEF IInv
  <1> QED
    BY <1>1, Inductive, PTL

(* The entry and event budgets hold at every step (apply_transaction). *)
THEOREM CapacityHolds == Spec => []WithinCapacity
  <1>1. IInv => WithinCapacity
    BY DEF IInv
  <1> QED
    BY <1>1, Inductive, PTL
=============================================================================

--------------------------- MODULE LearningServiceSteps ---------------------------
(***************************************************************************)
(* The steps of the learning service keep its inductive invariant, for any    *)
(* threads, identities, handles, attachments and limit. The theorems that     *)
(* follow are in EntryRuntimeProofs, with those about the cache of entry      *)
(* runtimes, where sets are counted.                                         *)
(***************************************************************************)
EXTENDS LearningService, TLAPS

(* Lists. *)

(* The elements of a list without its n-th. *)
LEMMA RemovedIs ==
  ASSUME NEW S, NEW s \in Seq(S), NEW n \in 1 .. Len(s), NEW r,
         r = [i \in 1 .. Len(s) - 1 |-> IF i < n THEN s[i] ELSE s[i + 1]]
  PROVE  /\ r \in Seq(S) /\ Len(r) = Len(s) - 1
         /\ \A k \in 1 .. Len(s) - 1 : r[k] = IF k < n THEN s[k] ELSE s[k + 1]
<1>1. Len(s) \in Nat /\ Len(s) - 1 \in Nat /\ \A i \in 1 .. Len(s) : s[i] \in S
  OBVIOUS
<1>2. \A i \in 1 .. Len(s) - 1 : i \in 1 .. Len(s) /\ i + 1 \in 1 .. Len(s)
  BY <1>1
<1>3. r \in [1 .. Len(s) - 1 -> S]
  BY <1>1, <1>2
<1> QED BY <1>1, <1>3

(* Removing from a list without duplicates removes exactly the element. *)
LEMMA WithoutIs ==
  ASSUME NEW S, NEW s \in Seq(S), NEW e
  PROVE  /\ Without(s, e) \in Seq(S)
         /\ Len(Without(s, e)) <= Len(s)
         /\ e \in Range(s) => Len(Without(s, e)) = Len(s) - 1
         /\ Range(Without(s, e)) \subseteq Range(s)
         /\ (\A i, k \in 1 .. Len(s) : s[i] = s[k] => i = k) =>
               /\ \A i, k \in 1 .. Len(Without(s, e)) :
                     Without(s, e)[i] = Without(s, e)[k] => i = k
               /\ Range(Without(s, e)) = Range(s) \ {e}
<1> DEFINE r == Without(s, e)
<1>0. \A q \in Seq(S) : Range(q) = {q[i] : i \in 1 .. Len(q)}
  BY DEF Range
<1>1. CASE e \notin Range(s)
  <2>1. r = s
    BY <1>1 DEF Without
  <2>2. Range(s) = Range(s) \ {e}
    BY <1>1
  <2> QED BY <2>1, <2>2
<1>2. CASE e \in Range(s)
  <2> DEFINE n == CHOOSE i \in 1 .. Len(s) : s[i] = e
  <2>1. n \in 1 .. Len(s) /\ s[n] = e
    BY <1>2, <1>0
  <2>2. r = [i \in 1 .. Len(s) - 1 |-> IF i < n THEN s[i] ELSE s[i + 1]]
    BY <1>2 DEF Without
  <2> HIDE DEF n, r
  <2>3. /\ r \in Seq(S) /\ Len(r) = Len(s) - 1
        /\ \A k \in 1 .. Len(s) - 1 : r[k] = IF k < n THEN s[k] ELSE s[k + 1]
    BY <2>1, <2>2, RemovedIs
  <2>4. Range(r) \subseteq Range(s)
    BY <2>1, <2>3, <1>0
  <2>5. ASSUME \A i, k \in 1 .. Len(s) : s[i] = s[k] => i = k
        PROVE  /\ \A i, k \in 1 .. Len(r) : r[i] = r[k] => i = k
               /\ e \notin Range(r)
               /\ Range(s) \ {e} \subseteq Range(r)
    <3>1. \A i, k \in 1 .. Len(r) : r[i] = r[k] => i = k
      BY <2>1, <2>3, <2>5
    <3>2. e \notin Range(r)
      BY <2>1, <2>3, <2>5, <1>0
    <3>3. ASSUME NEW m \in 1 .. Len(s), s[m] # e PROVE s[m] \in Range(r)
      <4>1. CASE m < n
        BY <4>1, <2>1, <2>3, <1>0
      <4>2. CASE m > n
        <5>1. m - 1 \in 1 .. Len(r) /\ r[m - 1] = s[m]
          BY <4>2, <2>1, <2>3
        <5> QED BY <5>1, <2>3, <1>0
      <4> QED BY <4>1, <4>2, <3>3, <2>1
    <3> QED BY <3>1, <3>2, <3>3, <1>0
  <2> QED BY <2>3, <2>4, <2>5 DEF r
<1> QED BY <1>1, <1>2

---------------------------------------------------------------------------
(* Calls. *)

(* What the program counter of a call says of its record. *)
LEMMA CallShape ==
    ASSUME NEW r \in CallType
    PROVE  /\ r.pc \in {"idle", "absent", "attach", "notify", "store", "retain", "control", "loop",
                        "deadline", "wait", "join", "joining", "ok", "err"}
           /\ r.pc = "idle" => r = Idle
           /\ r.pc = "attach" => r \in AttachCall
           /\ r.pc \in {"store", "retain"} => r \in DetachCall
           /\ r.pc = "notify" => r \in WakeCall \/ r \in DetachCall
           /\ r.pc = "control" => r \in ControlCall
           /\ r.pc \in {"loop", "deadline", "wait", "join", "joining", "ok", "err"} => r \in ShutdownCall
           /\ "handle" \in DOMAIN r <=> r \in AttachCall \/ r \in DetachCall
  <1>1. CASE r = Idle \/ r = NoThread
    BY <1>1 DEF Idle, NoThread, AttachCall, DetachCall
  <1>2. CASE r \in AttachCall
    BY <1>2 DEF AttachCall
  <1>3. CASE r \in WakeCall
    BY <1>3 DEF WakeCall, AttachCall, DetachCall
  <1>4. CASE r \in DetachCall
    BY <1>4 DEF DetachCall
  <1>5. CASE r \in ControlCall
    BY <1>5 DEF ControlCall, AttachCall, DetachCall
  <1>6. CASE r \in ShutdownCall
    BY <1>6 DEF ShutdownCall, AttachCall, DetachCall
  <1> QED BY <1>1, <1>2, <1>3, <1>4, <1>5, <1>6 DEF CallType

(* A thread that moves its call leaves the other calls alone. *)
LEMMA CallGoes ==
    ASSUME TypeOK, NEW c \in Caller, NEW r \in CallType, call' = [call EXCEPT ![c] = r]
    PROVE  call' \in [Caller -> CallType] /\ call'[c] = r /\ \A d \in Caller \ {c} : call'[d] = call[d]
  BY DEF TypeOK

(* The records of a call. *)
LEMMA SimpleCalls ==
    /\ Idle \in CallType /\ NoThread \in CallType
    /\ \A op \in {"wake", "attach", "close", "shutdown"} : [pc |-> "notify", op |-> op] \in WakeCall
    /\ WakeCall \subseteq CallType /\ AttachCall \subseteq CallType /\ DetachCall \subseteq CallType
    /\ ControlCall \subseteq CallType /\ ShutdownCall \subseteq CallType
  BY DEF CallType, WakeCall

(* A call that returns. *)
LEMMA ReturnOK ==
    ASSUME TypeOK, NEW c \in Caller, Return(c)
    PROVE  call' \in [Caller -> CallType] /\ call'[c] = Idle /\ \A d \in Caller \ {c} : call'[d] = call[d]
  BY Zenon, CallGoes, SimpleCalls DEF Return

(* A call that goes on. *)
LEMMA GotoOK ==
    ASSUME TypeOK, NEW c \in Caller, NEW r \in CallType, Goto(c, r)
    PROVE  call' \in [Caller -> CallType] /\ call'[c] = r /\ \A d \in Caller \ {c} : call'[d] = call[d]
  BY Zenon, CallGoes DEF Goto

(* Cutting a call of the worker changes nothing else of it. *)
LEMMA CutOK ==
    ASSUME TypeOK, NEW flag \in BOOLEAN, Cut(flag)
    PROVE  /\ worker' \in WorkerRecord /\ worker'.pc = worker.pc /\ worker'.snapshot = worker.snapshot
           /\ worker'.cut = (worker.cut \/ (flag /\ worker.pc = "call"))
  <1>1. worker \in WorkerRecord
    BY DEF TypeOK
  <1> DEFINE b == worker.cut \/ (flag /\ worker.pc = "call")
  <1>2. b \in BOOLEAN /\ worker' = [worker EXCEPT !.cut = b]
    BY <1>1 DEF Cut, WorkerRecord
  <1> HIDE DEF b
  <1>3. /\ worker' \in WorkerRecord /\ worker'.pc = worker.pc /\ worker'.snapshot = worker.snapshot
        /\ worker'.cut = b
    BY <1>1, <1>2 DEF WorkerRecord
  <1> QED BY <1>3 DEF b

(* A refused attachment only returns. *)
LEMMA RefusedType ==
    ASSUME TypeOK, NEW c \in Caller, AttachRefused(c)
    PROVE  TypeOK' /\ call'[c] = Idle /\ \A d \in Caller \ {c} : call'[d] = call[d]
  BY ReturnOK DEF AttachRefused, TypeOK

(* An entry found for an identity is registered. *)
LEMMA ExistingIs ==
    ASSUME TypeOK, NEW i, NEW e \in Existing(i)
    PROVE  e \in Entry /\ e \in Range(registry)
  BY DEF Existing, Range, TypeOK

(* What sharing a registered entry changes. *)
LEMMA AttachExistingType ==
    ASSUME TypeOK, NEW c \in Caller, AttachExisting(c)
    PROVE  /\ TypeOK' /\ call'[c] = Idle /\ \A d \in Caller \ {c} : call'[d] = call[d]
           /\ \E e \in Entry : e \in Range(registry) /\ handle' = [handle EXCEPT ![call[c].handle] = e]
           /\ ~stop /\ UNCHANGED <<registry, of, active, holds, work, stop, done, unseen, worker>>
  <1>1. PICK e \in Existing(call[c].identity) : handle' = [handle EXCEPT ![call[c].handle] = e]
    BY Zenon DEF AttachExisting
  <1>2. e \in Entry /\ e \in Range(registry)
    BY ExistingIs
  <1>3. handle' \in [Handle -> Entry \cup {None}]
    BY Zenon, <1>1, <1>2 DEF TypeOK
  <1>4. /\ Return(c) /\ ~stop
        /\ UNCHANGED <<registry, of, active, holds, work, stop, done, unseen, worker>>
    BY DEF AttachExisting, Refused
  <1>5. call' \in [Caller -> CallType] /\ call'[c] = Idle /\ \A d \in Caller \ {c} : call'[d] = call[d]
    BY <1>4, ReturnOK
  <1> QED BY Zenon, <1>1, <1>2, <1>3, <1>4, <1>5 DEF TypeOK

(* What registering a new entry changes. *)
LEMMA AttachNewType ==
    ASSUME TypeOK, NEW c \in Caller, AttachNew(c)
    PROVE  /\ TypeOK' /\ call[c] \in AttachCall /\ call'[c] = [pc |-> "notify", op |-> "attach"]
           /\ \A d \in Caller \ {c} : call'[d] = call[d]
           /\ \E e \in Entry :
                /\ Shares(e) = 0
                /\ of' = [of EXCEPT ![e] = call[c].identity]
                /\ active' = [active EXCEPT ![e] = TRUE]
                /\ registry' = Append(registry, e)
                /\ handle' = [handle EXCEPT ![call[c].handle] = e]
           /\ ~stop /\ Existing(call[c].identity) = {} /\ Len(registry) < MaxAttachments
           /\ UNCHANGED <<holds, work, stop, done, unseen, worker>>
  <1>1. PICK e \in Entry :
                /\ Shares(e) = 0
                /\ of' = [of EXCEPT ![e] = call[c].identity]
                /\ active' = [active EXCEPT ![e] = TRUE]
                /\ registry' = Append(registry, e)
                /\ handle' = [handle EXCEPT ![call[c].handle] = e]
    BY Zenon DEF AttachNew
  <1>2. /\ ~stop /\ Existing(call[c].identity) = {} /\ ~(Len(registry) >= MaxAttachments)
        /\ Goto(c, [pc |-> "notify", op |-> "attach"])
        /\ UNCHANGED <<holds, work, stop, done, unseen, worker>>
    BY DEF AttachNew, Refused
  <1>3. call[c] \in AttachCall
    BY CallShape DEF AttachNew, TypeOK
  <1>4. call[c].identity \in Identity
    BY <1>3 DEF AttachCall
  <1>5. call' \in [Caller -> CallType] /\ call'[c] = [pc |-> "notify", op |-> "attach"]
        /\ \A d \in Caller \ {c} : call'[d] = call[d]
    BY <1>2, GotoOK, SimpleCalls
  <1>6. /\ of' \in [Entry -> Identity] /\ active' \in [Entry -> BOOLEAN] /\ registry' \in Seq(Entry)
        /\ handle' \in [Handle -> Entry \cup {None}]
    <2>1. /\ of \in [Entry -> Identity] /\ active \in [Entry -> BOOLEAN] /\ registry \in Seq(Entry)
          /\ handle \in [Handle -> Entry \cup {None}]
      BY DEF TypeOK
    <2>2. of' \in [Entry -> Identity]
      BY <1>1, <1>4, <2>1
    <2>3. active' \in [Entry -> BOOLEAN] /\ registry' \in Seq(Entry)
      BY <1>1, <2>1
    <2>4. handle' \in [Handle -> Entry \cup {None}]
      BY Zenon, <1>1, <2>1
    <2> QED BY <2>2, <2>3, <2>4
  <1>7. Len(registry) < MaxAttachments
    BY <1>2, ServiceAssumption DEF TypeOK
  <1> QED BY Zenon, <1>1, <1>2, <1>3, <1>5, <1>6, <1>7 DEF TypeOK

DetachEffect(c, h, op) ==
    /\ UNCHANGED <<registry, of, active, holds, work, stop, done, unseen, worker>>
    /\ call[c] = Idle /\ handle[h] # None /\ ~InUse(h) /\ handle[h] \in Entry
    /\ \/ /\ handle' = [handle EXCEPT ![h] = IF op = "drop" THEN None ELSE @]
          /\ UNCHANGED call
       \/ /\ call'[c] = [pc |-> "store", op |-> op, handle |-> h]
          /\ \A d \in Caller \ {c} : call'[d] = call[d]
          /\ UNCHANGED handle

(* What the start of a detachment changes. *)
LEMMA DetachType ==
    ASSUME TypeOK, NEW c \in Caller, NEW h \in Handle, NEW op \in {"detach", "drop"}, Detach(c, h, op)
    PROVE  TypeOK' /\ DetachEffect(c, h, op)
  <1>1. /\ UNCHANGED <<registry, of, active, holds, work, stop, done, unseen, worker>>
        /\ call[c] = Idle /\ handle[h] # None /\ ~InUse(h)
    BY DEF Detach
  <1>2. handle[h] \in Entry
    BY <1>1 DEF TypeOK
  <1>3. CASE Shares(handle[h]) > 2
    <2>1. /\ handle' = [handle EXCEPT ![h] = IF op = "drop" THEN None ELSE @]
          /\ UNCHANGED call
      BY <1>3 DEF Detach
    <2>2. handle' \in [Handle -> Entry \cup {None}]
      BY <2>1 DEF TypeOK
    <2>3. TypeOK'
      BY Zenon, <1>1, <2>1, <2>2 DEF TypeOK
    <2> QED BY <1>1, <1>2, <2>1, <2>3 DEF DetachEffect
  <1>4. CASE ~(Shares(handle[h]) > 2)
    <2> DEFINE r == [pc |-> "store", op |-> op, handle |-> h]
    <2>1. Goto(c, r) /\ UNCHANGED handle
      BY <1>4 DEF Detach
    <2>2. r \in CallType
      BY DEF CallType, DetachCall
    <2> HIDE DEF r
    <2>3. call' \in [Caller -> CallType] /\ call'[c] = r /\ \A d \in Caller \ {c} : call'[d] = call[d]
      BY <2>1, <2>2, GotoOK
    <2>4. TypeOK'
      BY Zenon, <1>1, <2>1, <2>3 DEF TypeOK
    <2> QED BY Zenon, <1>1, <1>2, <2>1, <2>3, <2>4 DEF r, DetachEffect
  <1> QED BY <1>3, <1>4

(* What clearing the flag of an entry changes. *)
LEMMA DeactivateType ==
    ASSUME TypeOK, NEW c \in Caller, Deactivate(c)
    PROVE  /\ TypeOK' /\ UNCHANGED <<registry, of, handle, holds, work, stop, done, unseen>>
           /\ call[c].pc = "store" /\ call[c] \in DetachCall /\ \A d \in Caller \ {c} : call'[d] = call[d]
           /\ call'[c] \in DetachCall /\ call'[c].pc = "retain"
           /\ call'[c].handle = call[c].handle /\ call'[c].op = call[c].op
           /\ active' = [active EXCEPT ![handle[call[c].handle]] = FALSE]
           /\ worker'.pc = worker.pc /\ worker'.snapshot = worker.snapshot
           /\ worker'.cut = (worker.cut \/ (/\ worker.snapshot # <<>>
                                            /\ Head(worker.snapshot) = handle[call[c].handle]
                                            /\ worker.pc = "call"))
  <1> DEFINE r == [call[c] EXCEPT !.pc = "retain"]
             flag == worker.snapshot # <<>> /\ Head(worker.snapshot) = handle[call[c].handle]
  <1>1. /\ UNCHANGED <<registry, of, handle, holds, work, stop, done, unseen>> /\ call[c].pc = "store"
        /\ active' = [active EXCEPT ![handle[call[c].handle]] = FALSE] /\ Goto(c, r) /\ Cut(flag)
    BY Zenon DEF Deactivate
  <1>2. call[c] \in DetachCall
    BY <1>1, CallShape DEF TypeOK
  <1>3. r \in DetachCall /\ r.pc = "retain" /\ r.handle = call[c].handle /\ r.op = call[c].op
    BY Zenon, <1>2 DEF DetachCall
  <1>4. flag \in BOOLEAN
    BY Zenon
  <1> HIDE DEF r, flag
  <1>5. call' \in [Caller -> CallType] /\ call'[c] = r /\ \A d \in Caller \ {c} : call'[d] = call[d]
    BY <1>1, <1>3, GotoOK, SimpleCalls
  <1>6. /\ worker' \in WorkerRecord /\ worker'.pc = worker.pc /\ worker'.snapshot = worker.snapshot
        /\ worker'.cut = (worker.cut \/ (flag /\ worker.pc = "call"))
    BY <1>1, <1>4, CutOK
  <1>7. active' \in [Entry -> BOOLEAN]
    BY Zenon, <1>1 DEF TypeOK
  <1>8. TypeOK'
    BY Zenon, <1>1, <1>5, <1>6, <1>7 DEF TypeOK
  <1>9. worker'.cut = (worker.cut \/ (/\ worker.snapshot # <<>>
                                      /\ Head(worker.snapshot) = handle[call[c].handle]
                                      /\ worker.pc = "call"))
    BY Zenon, <1>6 DEF flag
  <1> QED BY Zenon, <1>1, <1>2, <1>3, <1>5, <1>6, <1>8, <1>9

(* What taking a detached entry off the registry changes. *)
LEMMA RetainType ==
    ASSUME TypeOK, NEW c \in Caller, Retain(c)
    PROVE  /\ TypeOK' /\ UNCHANGED <<of, active, holds, work, stop, done, unseen, worker>>
           /\ call[c].pc = "retain" /\ call[c] \in DetachCall /\ \A d \in Caller \ {c} : call'[d] = call[d]
           /\ \/ /\ Alive /\ registry' = Without(registry, handle[call[c].handle])
                 /\ call'[c] \in DetachCall /\ call'[c].pc = "notify"
                 /\ call'[c].handle = call[c].handle /\ call'[c].op = call[c].op /\ UNCHANGED handle
              \/ /\ ~Alive /\ call'[c] = Idle /\ UNCHANGED registry
                 /\ handle' = [handle EXCEPT ![call[c].handle] = IF call[c].op = "drop" THEN None ELSE @]
  <1>1. /\ UNCHANGED <<of, active, holds, work, stop, done, unseen, worker>> /\ call[c].pc = "retain"
    BY DEF Retain
  <1>2. call[c] \in DetachCall
    BY <1>1, CallShape DEF TypeOK
  <1>3. CASE Alive
    <2> DEFINE r == [call[c] EXCEPT !.pc = "notify"]
    <2>1. registry' = Without(registry, handle[call[c].handle]) /\ Goto(c, r) /\ UNCHANGED handle
      BY <1>3 DEF Retain, Retained
    <2>2. r \in DetachCall /\ r.pc = "notify" /\ r.handle = call[c].handle /\ r.op = call[c].op
      BY Zenon, <1>2 DEF DetachCall
    <2> HIDE DEF r
    <2>3. call' \in [Caller -> CallType] /\ call'[c] = r /\ \A d \in Caller \ {c} : call'[d] = call[d]
      BY <2>1, <2>2, GotoOK, SimpleCalls
    <2>4. registry' \in Seq(Entry)
      BY <2>1, WithoutIs DEF TypeOK
    <2>5. TypeOK'
      BY Zenon, <1>1, <2>1, <2>3, <2>4 DEF TypeOK
    <2> QED BY <1>1, <1>2, <1>3, <2>1, <2>2, <2>3, <2>5
  <1>4. CASE ~Alive
    <2>1. /\ handle' = [handle EXCEPT ![call[c].handle] = IF call[c].op = "drop" THEN None ELSE @]
          /\ Return(c) /\ UNCHANGED registry
      BY <1>4 DEF Retain
    <2>2. call' \in [Caller -> CallType] /\ call'[c] = Idle /\ \A d \in Caller \ {c} : call'[d] = call[d]
      BY <2>1, ReturnOK
    <2>3. handle' \in [Handle -> Entry \cup {None}]
      BY Zenon, <2>1 DEF TypeOK
    <2>4. TypeOK'
      BY Zenon, <1>1, <2>1, <2>2, <2>3 DEF TypeOK
    <2> QED BY <1>1, <1>2, <1>4, <2>1, <2>2, <2>4
  <1> QED BY <1>3, <1>4

(* What waking the worker changes. *)
LEMMA NotifyType ==
    ASSUME TypeOK, NEW c \in Caller, Notify(c)
    PROVE  /\ TypeOK' /\ UNCHANGED <<registry, of, active, holds, work, stop, done>>
           /\ call[c].pc = "notify" /\ \A d \in Caller \ {c} : call'[d] = call[d]
           /\ \/ call[c].op # "shutdown" /\ call'[c] = Idle
              \/ call[c].op = "shutdown" /\ call'[c] = [pc |-> "loop", op |-> "shutdown", late |-> FALSE]
           /\ handle' = IF call[c].op = "drop" THEN [handle EXCEPT ![call[c].handle] = None] ELSE handle
           /\ worker'.pc = (IF worker.pc = "wait" THEN "woken" ELSE worker.pc)
           /\ worker'.snapshot = worker.snapshot /\ worker'.cut = worker.cut
  <1> DEFINE r == IF call[c].op = "shutdown" THEN [pc |-> "loop", op |-> "shutdown", late |-> FALSE] ELSE Idle
             pc == IF worker.pc = "wait" THEN "woken" ELSE worker.pc
  <1>1. /\ UNCHANGED <<registry, of, active, holds, work, stop, done>> /\ call[c].pc = "notify"
        /\ unseen' = TRUE /\ Goto(c, r)
        /\ handle' = IF call[c].op = "drop" THEN [handle EXCEPT ![call[c].handle] = None] ELSE handle
    BY DEF Notify
  <1>2. worker \in WorkerRecord /\ worker' = [worker EXCEPT !.pc = pc]
    BY DEF Notify, TypeOK
  <1>3. pc \in {"check", "scan", "each", "fence", "call", "commit", "after",
                "decide", "wait", "woken", "exit", "signal", "gone"}
    BY <1>2 DEF WorkerRecord
  <1>4. r \in CallType
    BY DEF CallType, ShutdownCall
  <1>5. call' \in [Caller -> CallType] /\ call'[c] = r /\ \A d \in Caller \ {c} : call'[d] = call[d]
    <2> HIDE DEF r
    <2> QED BY <1>1, <1>4, GotoOK
  <1>6. /\ worker' \in WorkerRecord /\ worker'.pc = pc /\ worker'.snapshot = worker.snapshot
        /\ worker'.cut = worker.cut
    <2> HIDE DEF pc
    <2> QED BY <1>2, <1>3 DEF WorkerRecord
  <1>7. handle' \in [Handle -> Entry \cup {None}]
    BY Zenon, <1>1 DEF TypeOK
  <1>8. TypeOK'
    BY <1>1, <1>5, <1>6, <1>7 DEF TypeOK
  <1> QED BY <1>1, <1>5, <1>6, <1>8

(* The steps of a shutdown after its notification. *)
LEMMA WaitingGoes ==
    ASSUME NEW q \in ShutdownCall, NEW b \in BOOLEAN,
           NEW p \in {"loop", "deadline", "wait", "join", "joining", "ok", "err"}
    PROVE  /\ [q EXCEPT !.pc = p] \in ShutdownCall /\ [q EXCEPT !.pc = p].pc = p
           /\ [q EXCEPT !.late = b] \in ShutdownCall /\ [q EXCEPT !.late = b].pc = q.pc
  BY Zenon DEF ShutdownCall

Waiting(c) ==
    \/ ShutdownLoop(c) \/ ShutdownWait(c) \/ ShutdownTimeout(c) \/ ShutdownTake(c)
    \/ ShutdownJoin(c) \/ ShutdownReturn(c) \/ Deadline(c)

(* What a thread that waits for the worker changes. *)
LEMMA WaitingType ==
    ASSUME TypeOK, NEW c \in Caller, Waiting(c)
    PROVE  /\ TypeOK' /\ UNCHANGED <<registry, of, active, handle, holds, stop, done, worker>>
           /\ call[c] \in ShutdownCall /\ call'[c] \in ShutdownCall \cup {Idle}
           /\ \A d \in Caller \ {c} : call'[d] = call[d]
           /\ call'[c].pc \in {"join", "joining", "ok"} => done \/ call[c].pc \in {"join", "joining"}
  <1> DEFINE q == call[c]
  <1>1. UNCHANGED <<registry, of, active, handle, holds, work, stop, done, unseen, worker>>
    BY DEF Waiting, ShutdownLoop, ShutdownWait, ShutdownTimeout, ShutdownTake, ShutdownJoin, ShutdownReturn,
           Deadline
  <1>2. q \in ShutdownCall
    <2>1. call[c] \in CallType
      BY DEF TypeOK
    <2>2. call[c].pc \in {"loop", "deadline", "wait", "join", "joining", "ok", "err"}
      BY DEF Waiting, ShutdownLoop, ShutdownWait, ShutdownTimeout, ShutdownTake, ShutdownJoin,
             ShutdownReturn, Deadline
    <2> QED BY <2>1, <2>2, CallShape
  <1>3. \/ Return(c)
        \/ Goto(c, [q EXCEPT !.late = TRUE]) /\ q.pc \in {"loop", "deadline", "wait"}
        \/ \E p \in {"loop", "deadline", "wait", "join", "joining", "ok", "err"} :
              /\ Goto(c, [q EXCEPT !.pc = p])
              /\ p \in {"join", "joining", "ok"} => done \/ q.pc \in {"join", "joining"}
    BY DEF Waiting, ShutdownLoop, ShutdownWait, ShutdownTimeout, ShutdownTake, ShutdownJoin, ShutdownReturn,
           Deadline
  <1> HIDE DEF q
  <1>4. CASE Return(c)
    <2>1. call' \in [Caller -> CallType] /\ call'[c] = Idle /\ \A d \in Caller \ {c} : call'[d] = call[d]
      BY <1>4, ReturnOK
    <2>2. call'[c].pc = "idle"
      BY <2>1 DEF Idle
    <2> QED BY <1>1, <1>2, <2>1, <2>2 DEF TypeOK, q
  <1>5. CASE Goto(c, [q EXCEPT !.late = TRUE]) /\ q.pc \in {"loop", "deadline", "wait"}
    <2>1. [q EXCEPT !.late = TRUE] \in ShutdownCall /\ [q EXCEPT !.late = TRUE].pc = q.pc
      BY Zenon, <1>2, WaitingGoes
    <2>2. /\ call' \in [Caller -> CallType] /\ call'[c] = [q EXCEPT !.late = TRUE]
          /\ \A d \in Caller \ {c} : call'[d] = call[d]
      BY <1>5, <2>1, GotoOK, SimpleCalls
    <2> QED BY <1>1, <1>2, <1>5, <2>1, <2>2 DEF TypeOK, q
  <1>6. ASSUME NEW p \in {"loop", "deadline", "wait", "join", "joining", "ok", "err"},
               Goto(c, [q EXCEPT !.pc = p]),
               p \in {"join", "joining", "ok"} => done \/ q.pc \in {"join", "joining"}
        PROVE  /\ TypeOK' /\ call'[c] \in ShutdownCall /\ \A d \in Caller \ {c} : call'[d] = call[d]
               /\ call'[c].pc \in {"join", "joining", "ok"} => done \/ q.pc \in {"join", "joining"}
    <2>1. [q EXCEPT !.pc = p] \in ShutdownCall /\ [q EXCEPT !.pc = p].pc = p
      BY Zenon, <1>2, WaitingGoes
    <2>2. /\ call' \in [Caller -> CallType] /\ call'[c] = [q EXCEPT !.pc = p]
          /\ \A d \in Caller \ {c} : call'[d] = call[d]
      BY <1>6, <2>1, GotoOK, SimpleCalls
    <2> QED BY <1>1, <1>6, <2>1, <2>2 DEF TypeOK
  <1> QED BY <1>1, <1>2, <1>3, <1>4, <1>5, <1>6 DEF q

---------------------------------------------------------------------------
(* The worker. *)

(* A cycle works on the attachment at the head of its snapshot. *)
Busy == worker.pc \in {"fence", "call", "commit"} => worker.snapshot # <<>>

WorkerPC == {"check", "scan", "each", "fence", "call", "commit", "after",
             "decide", "wait", "woken", "exit", "signal", "gone"}

(* What the steps of the worker, but for its last, have in common. *)
WorkerMoves ==
    /\ worker' \in WorkerRecord
    /\ work' \in [Identity -> {"none", "due", "waiting", "unmounted"}] /\ unseen' \in BOOLEAN
    /\ Busy'
    /\ worker.pc \notin {"signal", "gone"} /\ worker'.pc # "gone"
    /\ worker'.cut => worker.cut /\ (worker.pc = "call" => ~Fenced)
    /\ \/ worker'.snapshot \in {worker.snapshot, registry, <<>>}
       \/ worker.snapshot # <<>> /\ worker'.snapshot = Tail(worker.snapshot)

---------------------------------------------------------------------------
(* The inductive invariant of the service. *)

Handed(r) == r \in AttachCall \/ r \in DetachCall

(* A handle is the subject of one running call at most; a call that detaches  *)
(* it finds it attached, and one that attaches it finds it free and holds the *)
(* service.                                                                   *)
HandlesInUse ==
    \A c \in Caller :
        /\ call[c] \in DetachCall => handle[call[c].handle] # None
        /\ call[c] \in AttachCall => handle[call[c].handle] = None /\ holds[c]
        /\ \A d \in Caller : Handed(call[c]) /\ Handed(call[d]) /\ call[c].handle = call[d].handle => c = d

(* An attachment that is about to leave the registry no longer works. *)
Detached == \A c \in Caller : call[c].pc = "retain" => ~active[handle[call[c].handle]]

(* Somebody has a share of an attachment. *)
Shared(e) ==
    \/ Registered(e)
    \/ \E h \in Handle : handle[h] = e
    \/ e \in Range(worker.snapshot)
    \/ \E c \in Caller : call[c].pc = "control" /\ e \in Range(call[c].snapshot)

Retaining(e) == \E c \in Caller : call[c].pc = "retain" /\ handle[call[c].handle] = e

ActiveInv == Alive => \A e \in Entry : Shared(e) => (active[e] <=> e \in Range(registry)) \/ Retaining(e)

(* A call that was cut is in flight still, behind a fence that is down. *)
CutInv == worker.cut => worker.pc = "call" /\ Fenced

(* done is raised by the worker's last steps, and a shutdown goes past it only *)
(* when it is.                                                                *)
DoneInv ==
    /\ done => worker.pc \in {"signal", "gone"}
    /\ \A c \in Caller : call[c].pc \in {"join", "joining", "ok"} => done

Attachments == RegistryDistinct /\ HandlesInUse /\ Detached /\ ActiveInv

ServiceInv == TypeOK /\ Busy /\ Attachments /\ CutInv /\ DoneInv

(* Shares counts what Shared names (proved as SharesIs in EntryRuntimeProofs). *)
SharesCounted ==
    \A e \in Entry : (Shares(e) = 0 => ~Shared(e)) /\ (Shares(e) > 0 => Shared(e))

(* The elements of a list with one more. *)
LEMMA AppendRange ==
    ASSUME NEW S, NEW q \in Seq(S), NEW e \in S
    PROVE  /\ Append(q, e) \in Seq(S) /\ Len(Append(q, e)) = Len(q) + 1 /\ Len(q) \in Nat
           /\ \A i \in 1 .. Len(q) : Append(q, e)[i] = q[i] /\ q[i] \in Range(q)
           /\ Append(q, e)[Len(q) + 1] = e
           /\ Range(Append(q, e)) = Range(q) \cup {e}
  <1>1. \A s \in Seq(S) : Range(s) = {s[i] : i \in 1 .. Len(s)}
    BY DEF Range
  <1>2. /\ Append(q, e) \in Seq(S) /\ Len(Append(q, e)) = Len(q) + 1 /\ Len(q) \in Nat
        /\ \A i \in 1 .. Len(q) : Append(q, e)[i] = q[i]
        /\ Append(q, e)[Len(q) + 1] = e
    <2>1. Append(q, e) \in Seq(S)
      OBVIOUS
    <2>2. Len(Append(q, e)) = Len(q) + 1 /\ Len(q) \in Nat
      OBVIOUS
    <2>3. \A i \in 1 .. Len(q) : Append(q, e)[i] = q[i]
      OBVIOUS
    <2>4. Append(q, e)[Len(q) + 1] = e
      OBVIOUS
    <2> QED BY <2>1, <2>2, <2>3, <2>4
  <1>3. Range(q) = {q[i] : i \in 1 .. Len(q)}
        /\ Range(Append(q, e)) = {Append(q, e)[i] : i \in 1 .. Len(Append(q, e))}
    BY Zenon, <1>1, <1>2
  <1>4. Range(Append(q, e)) = Range(q) \cup {e}
    BY <1>2, <1>3
  <1> QED BY <1>2, <1>3, <1>4

(* The worker's part of the invariant. *)
Progress == Busy /\ CutInv /\ DoneInv

---------------------------------------------------------------------------
(* Every step of the service keeps the invariant.  First what the steps do,   *)
(* then that each of them keeps Attachments and Progress.                     *)
LEMMA ServiceStep == ServiceInv /\ SharesCounted /\ [Next]_vars => ServiceInv'

  (* The steps of a call that has an attachment for a handle as its subject. *)
  <1>AttachType.
      ASSUME TypeOK, NEW c \in Caller, NEW i \in Identity, NEW h \in Handle, Attach(c, i, h)
      PROVE  /\ TypeOK' /\ call'[c] = [pc |-> "attach", op |-> "attach", identity |-> i, handle |-> h]
             /\ \A d \in Caller \ {c} : call'[d] = call[d]
    <2> USE <1>AttachType
    <2> DEFINE r == [pc |-> "attach", op |-> "attach", identity |-> i, handle |-> h]
    <2>1. r \in CallType
      BY DEF CallType, AttachCall
    <2>2. Goto(c, r) /\ UNCHANGED <<registry, of, active, handle, holds, work, stop, done, unseen, worker>>
      BY Zenon DEF Attach
    <2> HIDE DEF r
    <2>3. call' \in [Caller -> CallType] /\ call'[c] = r /\ \A d \in Caller \ {c} : call'[d] = call[d]
      BY Zenon, <2>1, <2>2, GotoOK
    <2> QED BY <2>2, <2>3 DEF TypeOK, r

  (* Steps of calls that leave registry, attachments and handles alone. *)
  <1>WakeType.
      ASSUME TypeOK, NEW c \in Caller, Wake(c) \/ (\E i \in Identity : Finalize(c, i))
      PROVE  /\ TypeOK' /\ UNCHANGED <<registry, of, active, handle, holds, stop, done, worker>>
             /\ call[c] = Idle /\ call'[c] = [pc |-> "notify", op |-> "wake"]
             /\ \A d \in Caller \ {c} : call'[d] = call[d]
    <2> USE <1>WakeType
    <2>1. /\ Goto(c, [pc |-> "notify", op |-> "wake"]) /\ call[c] = Idle
          /\ UNCHANGED <<registry, of, active, handle, holds, stop, done, unseen, worker>>
      BY DEF Wake, Finalize
    <2>2. work' \in [Identity -> {"none", "due", "waiting", "unmounted"}]
      BY DEF Wake, Finalize, TypeOK
    <2>3. /\ call' \in [Caller -> CallType] /\ call'[c] = [pc |-> "notify", op |-> "wake"]
          /\ \A d \in Caller \ {c} : call'[d] = call[d]
      BY Zenon, <2>1, GotoOK, SimpleCalls
    <2> QED BY Zenon, <2>1, <2>2, <2>3 DEF TypeOK

  <1>ControlType.
      ASSUME TypeOK, NEW c \in Caller, Control(c)
      PROVE  /\ TypeOK' /\ UNCHANGED <<registry, of, active, handle, holds, stop, done, worker>>
             /\ call[c] = Idle /\ holds[c] /\ call'[c].pc = "control" /\ call'[c].snapshot = registry
             /\ call'[c] \in ControlCall /\ \A d \in Caller \ {c} : call'[d] = call[d]
    <2> USE <1>ControlType
    <2> DEFINE r == [pc |-> "control", op |-> "control", snapshot |-> registry]
    <2>1. /\ Goto(c, r) /\ call[c] = Idle /\ holds[c]
          /\ UNCHANGED <<registry, of, active, handle, holds, work, stop, done, unseen, worker>>
      BY DEF Control
    <2>2. r \in ControlCall /\ r.pc = "control" /\ r.snapshot = registry
      BY Zenon DEF ControlCall, TypeOK
    <2> HIDE DEF r
    <2>3. call' \in [Caller -> CallType] /\ call'[c] = r /\ \A d \in Caller \ {c} : call'[d] = call[d]
      BY <2>1, <2>2, GotoOK, SimpleCalls
    <2> QED BY Zenon, <2>1, <2>2, <2>3 DEF TypeOK

  <1>ControlGoes.
      ASSUME NEW q \in ControlCall, q.snapshot # <<>>
      PROVE  /\ [q EXCEPT !.snapshot = Tail(@)] \in ControlCall
             /\ [q EXCEPT !.snapshot = Tail(@)].snapshot = Tail(q.snapshot)
    <2> USE <1>ControlGoes
    <2> DEFINE t == Tail(q.snapshot)
    <2>1. t \in Seq(Entry)
      BY DEF ControlCall
    <2>2. [q EXCEPT !.snapshot = Tail(@)] = [q EXCEPT !.snapshot = t]
      OBVIOUS
    <2> HIDE DEF t
    <2>3. [q EXCEPT !.snapshot = t] \in ControlCall /\ [q EXCEPT !.snapshot = t].snapshot = t
      BY Zenon, <2>1 DEF ControlCall
    <2> QED BY <2>2, <2>3 DEF t

  <1>ControlEachType.
      ASSUME TypeOK, NEW c \in Caller, ControlEach(c)
      PROVE  /\ TypeOK' /\ UNCHANGED <<registry, of, active, handle, holds, stop, done, worker>>
             /\ call[c].pc = "control" /\ \A d \in Caller \ {c} : call'[d] = call[d]
             /\ \/ call'[c] \in {Idle, [pc |-> "notify", op |-> "wake"]}
                \/ /\ call'[c] \in ControlCall /\ call[c] \in ControlCall /\ call[c].snapshot # <<>>
                   /\ call'[c].snapshot = Tail(call[c].snapshot)
    <2> USE <1>ControlEachType
    <2>1. /\ UNCHANGED <<registry, of, active, handle, holds, stop, done, unseen, worker>>
          /\ call[c].pc = "control"
      BY DEF ControlEach
    <2>2. call[c] \in ControlCall
      BY Zenon, <2>1, CallShape DEF TypeOK
    <2>3. CASE Goto(c, [pc |-> "notify", op |-> "wake"]) /\ UNCHANGED work
      <3>1. /\ call' \in [Caller -> CallType] /\ call'[c] = [pc |-> "notify", op |-> "wake"]
            /\ \A d \in Caller \ {c} : call'[d] = call[d]
        BY Zenon, <2>3, GotoOK, SimpleCalls
      <3> QED BY Zenon, <3>1, <2>1, <2>3 DEF TypeOK
    <2>4. CASE Return(c) /\ UNCHANGED work
      <3>1. /\ call' \in [Caller -> CallType] /\ call'[c] = Idle /\ \A d \in Caller \ {c} : call'[d] = call[d]
        BY Zenon, <2>4, ReturnOK
      <3> QED BY <3>1, <2>1, <2>4 DEF TypeOK
    <2>5. ASSUME call[c].snapshot # <<>>, Goto(c, [call[c] EXCEPT !.snapshot = Tail(@)]),
                 NEW w \in {work[of[Head(call[c].snapshot)]], "due"},
                 work' = [work EXCEPT ![of[Head(call[c].snapshot)]] = w]
          PROVE  /\ TypeOK' /\ \A d \in Caller \ {c} : call'[d] = call[d]
                 /\ call'[c] \in ControlCall /\ call'[c].snapshot = Tail(call[c].snapshot)
      <3> DEFINE r == [call[c] EXCEPT !.snapshot = Tail(@)]
      <3>1. r \in ControlCall /\ r.snapshot = Tail(call[c].snapshot)
        BY <2>2, <2>5, <1>ControlGoes
      <3> HIDE DEF r
      <3>2. call' \in [Caller -> CallType] /\ call'[c] = r /\ \A d \in Caller \ {c} : call'[d] = call[d]
        BY <3>1, <2>5, GotoOK, SimpleCalls DEF r
      <3>3. of[Head(call[c].snapshot)] \in Identity
        <4>1. Head(call[c].snapshot) \in Entry
          BY <2>2, <2>5 DEF ControlCall
        <4> QED BY <4>1 DEF TypeOK
      <3>4. work' \in [Identity -> {"none", "due", "waiting", "unmounted"}]
        BY Zenon, <3>3, <2>5 DEF TypeOK
      <3> QED BY Zenon, <3>1, <3>2, <3>4, <2>1 DEF TypeOK
    <2>6. \/ Goto(c, [pc |-> "notify", op |-> "wake"]) /\ UNCHANGED work
          \/ Return(c) /\ UNCHANGED work
          \/ /\ call[c].snapshot # <<>> /\ Goto(c, [call[c] EXCEPT !.snapshot = Tail(@)])
             /\ \E w \in {work[of[Head(call[c].snapshot)]], "due"} :
                   work' = [work EXCEPT ![of[Head(call[c].snapshot)]] = w]
      BY Zenon DEF ControlEach
    <2>7. CASE Goto(c, [pc |-> "notify", op |-> "wake"]) \/ Return(c)
      <3>1. /\ call'[c] \in {Idle, [pc |-> "notify", op |-> "wake"]}
            /\ \A d \in Caller \ {c} : call'[d] = call[d]
        BY <2>7, ReturnOK, GotoOK, SimpleCalls
      <3> QED BY <3>1, <2>1, <2>2, <2>3, <2>4, <2>5, <2>6
    <2> QED BY Zenon, <2>1, <2>2, <2>5, <2>6, <2>7

  <1>EligibleType.
      ASSUME TypeOK, NEW i \in Identity, Eligible(i)
      PROVE  TypeOK' /\ UNCHANGED <<registry, of, active, handle, holds, stop, done, worker, call>>
    BY <1>EligibleType DEF Eligible, TypeOK

  <1>CloneType.
      ASSUME TypeOK, NEW c \in Caller, NEW d \in Caller, CloneService(c, d)
      PROVE  /\ TypeOK' /\ UNCHANGED <<registry, of, active, handle, stop, done, worker, call>>
             /\ holds[c] /\ \A x \in Caller : holds[x] => holds'[x]
    BY <1>CloneType DEF CloneService, TypeOK

  <1>DropServiceType.
      ASSUME TypeOK, NEW c \in Caller, DropService(c)
      PROVE  /\ TypeOK' /\ UNCHANGED <<registry, of, active, handle, done>>
             /\ call[c] = Idle /\ holds[c] /\ (\A d \in Caller \ {c} : call'[d] = call[d] /\ holds'[d] = holds[d])
             /\ worker'.pc = worker.pc /\ worker'.snapshot = worker.snapshot
             /\ \/ UNCHANGED <<stop, worker, call>>
                \/ /\ stop' = TRUE /\ call'[c] = [pc |-> "notify", op |-> "close"]
                   /\ worker'.cut = (worker.cut \/ worker.pc = "call")
    <2> USE <1>DropServiceType
    <2>1. /\ call[c] = Idle /\ holds[c] /\ holds' = [holds EXCEPT ![c] = FALSE]
          /\ UNCHANGED <<registry, of, active, handle, work, done, unseen>>
          /\ \/ UNCHANGED <<stop, worker, call>>
             \/ stop' = TRUE /\ Cut(TRUE) /\ Goto(c, [pc |-> "notify", op |-> "close"])
      BY Zenon DEF DropService
    <2>2. holds' \in [Caller -> BOOLEAN] /\ \A d \in Caller \ {c} : holds'[d] = holds[d]
      BY Zenon, <2>1 DEF TypeOK
    <2>3. CASE UNCHANGED <<stop, worker, call>>
      BY Zenon, <2>1, <2>2, <2>3 DEF TypeOK
    <2>4. CASE stop' = TRUE /\ Cut(TRUE) /\ Goto(c, [pc |-> "notify", op |-> "close"])
      <3>1. /\ call' \in [Caller -> CallType] /\ call'[c] = [pc |-> "notify", op |-> "close"]
            /\ \A d \in Caller \ {c} : call'[d] = call[d]
        BY <2>4, GotoOK, SimpleCalls
      <3>2. /\ worker' \in WorkerRecord /\ worker'.pc = worker.pc /\ worker'.snapshot = worker.snapshot
            /\ worker'.cut = (worker.cut \/ (TRUE /\ worker.pc = "call"))
        BY Zenon, <2>4, CutOK
      <3>3. TypeOK'
        BY Zenon, <2>1, <2>2, <2>4, <3>1, <3>2 DEF TypeOK
      <3> QED BY Zenon, <2>1, <2>2, <2>4, <3>1, <3>2, <3>3
    <2> QED BY Zenon, <2>1, <2>3, <2>4

  <1>ShutdownType.
      ASSUME TypeOK, NEW c \in Caller, Shutdown(c)
      PROVE  /\ TypeOK' /\ UNCHANGED <<registry, of, active, handle, holds, done>>
             /\ call[c] = Idle /\ \A d \in Caller \ {c} : call'[d] = call[d]
             /\ worker'.pc = worker.pc /\ worker'.snapshot = worker.snapshot
             /\ stop' = TRUE /\ call'[c] = [pc |-> "notify", op |-> "shutdown"] /\ holds[c]
             /\ worker'.cut = (worker.cut \/ worker.pc = "call")
    <2> USE <1>ShutdownType
    <2>1. /\ call[c] = Idle /\ holds[c] /\ UNCHANGED <<registry, of, active, handle, holds, work, done, unseen>>
          /\ stop' = TRUE /\ Cut(TRUE) /\ Goto(c, [pc |-> "notify", op |-> "shutdown"])
      BY Zenon DEF Shutdown
    <2>2. /\ call' \in [Caller -> CallType] /\ call'[c] = [pc |-> "notify", op |-> "shutdown"]
          /\ \A d \in Caller \ {c} : call'[d] = call[d]
      BY <2>1, GotoOK, SimpleCalls
    <2>3. /\ worker' \in WorkerRecord /\ worker'.pc = worker.pc /\ worker'.snapshot = worker.snapshot
          /\ worker'.cut = (worker.cut \/ (TRUE /\ worker.pc = "call"))
      BY Zenon, <2>1, CutOK
    <2>4. TypeOK'
      BY <2>1, <2>2, <2>3 DEF TypeOK
    <2> QED BY <2>1, <2>2, <2>3, <2>4

  <1>WorkerGoes.
      ASSUME NEW w \in WorkerRecord, NEW p \in WorkerPC
      PROVE  /\ [w EXCEPT !.pc = p] \in WorkerRecord /\ [w EXCEPT !.pc = p].pc = p
             /\ [w EXCEPT !.pc = p].snapshot = w.snapshot /\ [w EXCEPT !.pc = p].cut = w.cut
    BY <1>WorkerGoes DEF WorkerRecord, WorkerPC

  <1>Next1Goes.
      ASSUME TypeOK, NEW b \in BOOLEAN, worker.snapshot # <<>>, Next1(b)
      PROVE  /\ worker' \in WorkerRecord /\ worker'.pc = "each" /\ worker'.snapshot = Tail(worker.snapshot)
             /\ worker'.cut = FALSE
    <2> USE <1>Next1Goes
    <2> DEFINE q == Tail(worker.snapshot)
               x == worker.progressed \/ b
    <2>1. worker \in WorkerRecord
      BY DEF TypeOK
    <2>2. q \in Seq(Entry) /\ x \in BOOLEAN
      BY <2>1 DEF WorkerRecord
    <2>3. worker' = [worker EXCEPT !.pc = "each", !.snapshot = q, !.cut = FALSE, !.progressed = x]
      BY <2>1 DEF Next1, WorkerRecord
    <2> HIDE DEF q, x
    <2>4. worker' \in WorkerRecord /\ worker'.pc = "each" /\ worker'.snapshot = q /\ worker'.cut = FALSE
      BY Zenon, <2>1, <2>2, <2>3 DEF WorkerRecord
    <2> QED BY <2>4 DEF q

  <1>StepGoes.
      ASSUME TypeOK, NEW p \in WorkerPC, NEW n \in WorkerPC, Step(p, n)
      PROVE  /\ worker.pc = p /\ worker' \in WorkerRecord /\ worker'.pc = n
             /\ worker'.snapshot = worker.snapshot /\ worker'.cut = worker.cut
    BY <1>StepGoes, <1>WorkerGoes DEF Step, TypeOK

  <1>RetryLaterType.
      ASSUME TypeOK, RetryLater
      PROVE  work' \in [Identity -> {"none", "due", "waiting", "unmounted"}]
    BY Zenon, <1>RetryLaterType DEF RetryLater, TypeOK

  (* Steps that only move the program counter. *)
  <1>WorkerStepMoves.
      ASSUME TypeOK, Busy,
             WorkerCheck \/ WorkerAfter \/ WorkerDecide \/ WorkerPoll \/ WorkerWoken \/ WorkerExit
      PROVE  WorkerMoves /\ UNCHANGED <<registry, of, active, handle, holds, stop, call>>
    <2> USE <1>WorkerStepMoves
    <2>1. /\ UNCHANGED <<registry, of, active, handle, holds, work, stop, call>> /\ unseen' \in BOOLEAN
      BY Zenon DEF WorkerCheck, WorkerAfter, WorkerDecide, WorkerPoll, WorkerWoken, WorkerExit, TypeOK
    <2>2. \E p \in {"check", "after", "decide", "wait", "woken", "exit"},
            n \in {"exit", "scan", "decide", "wait", "check", "woken", "signal"} : Step(p, n)
      BY DEF WorkerCheck, WorkerAfter, WorkerDecide, WorkerPoll, WorkerWoken, WorkerExit
    <2>3. PICK p \in {"check", "after", "decide", "wait", "woken", "exit"},
               n \in {"exit", "scan", "decide", "wait", "check", "woken", "signal"} : Step(p, n)
      BY <2>2
    <2>4. p \in WorkerPC /\ n \in WorkerPC
      BY DEF WorkerPC
    <2>5. /\ worker.pc = p /\ worker' \in WorkerRecord /\ worker'.pc = n
          /\ worker'.snapshot = worker.snapshot /\ worker'.cut = worker.cut
      BY <2>3, <2>4, <1>StepGoes
    <2> QED BY <2>1, <2>5 DEF WorkerMoves, Busy, TypeOK

  <1>ScanMoves.
      ASSUME TypeOK, Busy, WorkerScan
      PROVE  WorkerMoves
    <2> USE <1>ScanMoves
    <2>1. worker.pc = "scan" /\ UNCHANGED <<work, unseen>>
          /\ worker' = [worker EXCEPT !.pc = "each", !.snapshot = registry, !.progressed = FALSE]
      BY DEF WorkerScan
    <2>2. worker \in WorkerRecord /\ registry \in Seq(Entry) /\ "each" \in WorkerPC
      BY Zenon DEF TypeOK, WorkerPC
    <2>3. worker' \in WorkerRecord /\ worker'.pc = "each" /\ worker'.snapshot = registry
          /\ worker'.cut = worker.cut
      <3>1. worker' = [worker EXCEPT !.pc = "each", !.snapshot = registry, !.progressed = FALSE]
        BY <2>1
      <3> QED BY Zenon, <2>2, <3>1 DEF WorkerRecord
    <2> QED BY <2>1, <2>3 DEF WorkerMoves, Busy, TypeOK

  <1>EachMoves.
      ASSUME TypeOK, Busy, WorkerEach
      PROVE  WorkerMoves
    <2> USE <1>EachMoves
    <2>0. worker.pc = "each" /\ unseen' \in BOOLEAN /\ worker \in WorkerRecord
      BY DEF WorkerEach, TypeOK
    <2>1. CASE stop \/ worker.snapshot = <<>>
      <3>1. worker' = [worker EXCEPT !.pc = "after", !.snapshot = <<>>] /\ UNCHANGED work
        BY Zenon, <2>1 DEF WorkerEach, NoSnapshot
      <3>2. <<>> \in Seq(Entry) /\ "after" \in WorkerPC
        BY DEF WorkerPC
      <3>3. worker' \in WorkerRecord /\ worker'.pc = "after" /\ worker'.snapshot = <<>> /\ worker'.cut = worker.cut
        BY Zenon, <2>0, <3>1, <3>2 DEF WorkerRecord
      <3> QED BY <2>0, <3>1, <3>3 DEF WorkerMoves, Busy, TypeOK
    <2>2. CASE ~(stop \/ worker.snapshot = <<>>) /\ Next1(FALSE) /\ UNCHANGED work
      <3>1. /\ worker' \in WorkerRecord /\ worker'.pc = "each" /\ worker'.snapshot = Tail(worker.snapshot)
            /\ worker'.cut = FALSE
        BY Zenon, <2>2, <1>Next1Goes
      <3> QED BY <2>0, <2>2, <3>1 DEF WorkerMoves, Busy, TypeOK
    <2>3. CASE /\ ~(stop \/ worker.snapshot = <<>>) /\ worker' = [worker EXCEPT !.pc = "fence"]
               /\ work' = [work EXCEPT ![of[Head(worker.snapshot)]] = "none"]
      <3>1. "fence" \in WorkerPC
        BY DEF WorkerPC
      <3>2. /\ worker' \in WorkerRecord /\ worker'.pc = "fence" /\ worker'.snapshot = worker.snapshot
            /\ worker'.cut = worker.cut
        BY <2>0, <2>3, <3>1, <1>WorkerGoes
      <3>3. work' \in [Identity -> {"none", "due", "waiting", "unmounted"}]
        BY Zenon, <2>3 DEF TypeOK
      <3> QED BY <2>0, <2>3, <3>2, <3>3 DEF WorkerMoves, Busy
    <2> QED BY Zenon, <2>1, <2>2, <2>3 DEF WorkerEach

  <1>CycleMoves.
      ASSUME TypeOK, Busy, WorkerFence \/ WorkerResponse \/ WorkerCommit
      PROVE  WorkerMoves
    <2> USE <1>CycleMoves
    <2>0. /\ worker.pc \in {"fence", "call", "commit"} /\ unseen' \in BOOLEAN /\ worker \in WorkerRecord
          /\ worker.snapshot # <<>>
      BY Zenon DEF WorkerFence, WorkerResponse, WorkerCommit, TypeOK, Busy
    <2>1. ASSUME NEW b \in BOOLEAN, Next1(b), RetryLater \/ UNCHANGED work PROVE WorkerMoves
      <3>1. /\ worker' \in WorkerRecord /\ worker'.pc = "each" /\ worker'.snapshot = Tail(worker.snapshot)
            /\ worker'.cut = FALSE
        BY Zenon, <2>0, <2>1, <1>Next1Goes
      <3>2. work' \in [Identity -> {"none", "due", "waiting", "unmounted"}]
        BY Zenon, <2>1, <1>RetryLaterType DEF TypeOK
      <3> QED BY <2>0, <3>1, <3>2 DEF WorkerMoves, Busy
    <2>2. CASE ~Fenced /\ UNCHANGED work /\ (Step("fence", "call") \/ Step("call", "commit"))
      <3>1. "fence" \in WorkerPC /\ "call" \in WorkerPC /\ "commit" \in WorkerPC
        BY DEF WorkerPC
      <3>2. /\ worker' \in WorkerRecord /\ worker'.pc \in {"call", "commit"}
            /\ worker'.snapshot = worker.snapshot /\ worker'.cut = worker.cut
        BY <2>2, <3>1, <1>StepGoes
      <3> QED BY <2>0, <2>2, <3>2 DEF WorkerMoves, Busy, TypeOK
    <2>3. \/ \E b \in BOOLEAN : Next1(b) /\ (RetryLater \/ UNCHANGED work)
          \/ ~Fenced /\ UNCHANGED work /\ (Step("fence", "call") \/ Step("call", "commit"))
      BY Zenon DEF WorkerFence, WorkerResponse, WorkerCommit
    <2> QED BY <2>1, <2>2, <2>3

  <1>SignalMoves.
      ASSUME TypeOK, Busy, WorkerSignal
      PROVE  /\ TypeOK' /\ Busy' /\ UNCHANGED <<registry, of, active, handle, holds, stop, done>>
             /\ worker.pc = "signal" /\ worker'.pc = "gone"
             /\ worker'.snapshot = worker.snapshot /\ worker'.cut = worker.cut
             /\ \A c \in Caller : \/ call'[c] = call[c]
                                  \/ call[c].pc = "wait" /\ call'[c] \in ShutdownCall /\ call'[c].pc = "loop"
    <2> USE <1>SignalMoves
    <2>1. /\ Step("signal", "gone") /\ UNCHANGED <<registry, of, active, handle, holds, work, stop, done, unseen>>
          /\ call' = [c \in Caller |->
                         IF call[c].pc = "wait" THEN [call[c] EXCEPT !.pc = "loop"] ELSE call[c]]
      BY DEF WorkerSignal
    <2>2. "signal" \in WorkerPC /\ "gone" \in WorkerPC
      BY DEF WorkerPC
    <2>3. /\ worker.pc = "signal" /\ worker' \in WorkerRecord /\ worker'.pc = "gone"
          /\ worker'.snapshot = worker.snapshot /\ worker'.cut = worker.cut
      BY <2>1, <2>2, <1>StepGoes
    <2>4. ASSUME NEW c \in Caller
          PROVE  /\ call'[c] \in CallType
                 /\ \/ call'[c] = call[c]
                    \/ call[c].pc = "wait" /\ call'[c] \in ShutdownCall /\ call'[c].pc = "loop"
      <3>1. call[c] \in CallType
        BY DEF TypeOK
      <3>2. CASE call[c].pc = "wait"
        <4>1. call[c] \in ShutdownCall
          BY <3>1, <3>2, CallShape
        <4>2. [call[c] EXCEPT !.pc = "loop"] \in ShutdownCall /\ [call[c] EXCEPT !.pc = "loop"].pc = "loop"
          BY Zenon, <4>1, WaitingGoes
        <4>3. call'[c] = [call[c] EXCEPT !.pc = "loop"]
          BY <2>1, <3>2
        <4> QED BY <3>2, <4>2, <4>3, SimpleCalls
      <3> QED BY <2>1, <3>1, <3>2
    <2>5. call' \in [Caller -> CallType]
      BY <2>1, <2>4
    <2> QED BY <2>1, <2>3, <2>4, <2>5 DEF TypeOK, Busy

  (* Steps that leave the registry, the flags and the handles alone. *)
  <1>QuietKeeps.
      ASSUME TypeOK, Attachments, UNCHANGED <<registry, of, active, handle>>, Alive' => Alive,
             \A d \in Caller :
                \/ call'[d] = call[d] /\ (call[d] \in AttachCall => holds'[d] = holds[d])
                \/ ~Handed(call'[d]) /\ call'[d].pc # "retain" /\ call[d].pc # "retain",
             \A e \in Entry : Alive /\ Shared(e)' => Shared(e)
      PROVE  Attachments'
    <2> USE <1>QuietKeeps
    <2>1. RegistryDistinct'
      BY Zenon DEF Attachments, RegistryDistinct
    <2>2. HandlesInUse'
      BY Zenon DEF Attachments, HandlesInUse, Handed
    <2>3. Detached'
      BY DEF Attachments, Detached
    <2>4. ASSUME NEW e \in Entry, Retaining(e) PROVE Retaining(e)'
      BY Zenon, <2>4 DEF Retaining
    <2>5. ActiveInv'
      BY <2>4 DEF Attachments, ActiveInv
    <2> QED BY Zenon, <2>1, <2>2, <2>3, <2>5 DEF Attachments

  <1>AliveIs.
      ASSUME TypeOK
      PROVE  /\ \A c \in Caller : holds[c] => Alive
             /\ worker.pc # "gone" => Alive
    BY <1>AliveIs DEF Alive

  <1>InRange.
      ASSUME NEW S, NEW q \in Seq(S)
      PROVE  \A i \in 1 .. Len(q) : q[i] \in Range(q)
    BY <1>InRange DEF Range

  <1>TailRange.
      ASSUME NEW S, NEW q \in Seq(S), q # <<>>
      PROVE  Tail(q) \in Seq(S) /\ Range(Tail(q)) \subseteq Range(q)
    <2> USE <1>TailRange
    <2>1. \A s \in Seq(S) : Range(s) = {s[i] : i \in 1 .. Len(s)}
      BY DEF Range
    <2>2. /\ Tail(q) \in Seq(S) /\ Len(Tail(q)) = Len(q) - 1
          /\ \A i \in 1 .. Len(q) - 1 : Tail(q)[i] = q[i + 1]
      OBVIOUS
    <2>3. \A i \in 1 .. Len(Tail(q)) : Tail(q)[i] \in Range(q)
      BY <2>1, <2>2
    <2>4. Range(Tail(q)) = {Tail(q)[i] : i \in 1 .. Len(Tail(q))}
      BY Zenon, <2>1, <2>2
    <2>5. Range(Tail(q)) \subseteq Range(q)
      BY Zenon, <2>3, <2>4
    <2> QED BY <2>2, <2>5

  (* The shape of a step of one thread that changes no share but a snapshot. *)
  <1>CallerQuiet.
      ASSUME TypeOK, Attachments, NEW c \in Caller, UNCHANGED <<registry, of, active, handle>>, TypeOK',
             worker'.snapshot = worker.snapshot, worker.pc = "gone" => worker'.pc = "gone",
             \A d \in Caller \ {c} : call'[d] = call[d] /\ holds'[d] = holds[d],
             holds'[c] \/ call'[c] = [pc |-> "notify", op |-> "close"] => Alive,
             ~Handed(call'[c]), call'[c].pc # "retain", call[c].pc # "retain",
             call'[c].pc = "control" => Range(call'[c].snapshot) \subseteq
                 Range(registry) \cup (IF call[c].pc = "control" THEN Range(call[c].snapshot) ELSE {}),
             call'[c].pc = "control" => call[c].pc = "control" \/ Alive
      PROVE  Attachments'
    <2> USE <1>CallerQuiet
    <2>1. Alive' => Alive
      BY Zenon DEF Alive
    <2>2. \A d \in Caller :
                \/ call'[d] = call[d] /\ (call[d] \in AttachCall => holds'[d] = holds[d])
                \/ ~Handed(call'[d]) /\ call'[d].pc # "retain" /\ call[d].pc # "retain"
      BY Zenon
    <2>3. ASSUME NEW e \in Entry, Alive, Shared(e)' PROVE Shared(e)
      <3>1. CASE Registered(e)'
        BY Zenon, <2>3, <3>1 DEF Registered, Shared
      <3>2. CASE \E h \in Handle : handle'[h] = e
        BY Zenon, <3>2 DEF Shared
      <3>3. CASE e \in Range(worker'.snapshot)
        BY Zenon, <3>3 DEF Shared
      <3>4. CASE \E d \in Caller : call'[d].pc = "control" /\ e \in Range(call'[d].snapshot)
        <4>1. PICK d \in Caller : call'[d].pc = "control" /\ e \in Range(call'[d].snapshot)
          BY Zenon, <3>4
        <4>2. CASE d # c
          BY Zenon, <4>1, <4>2 DEF Shared
        <4>3. CASE d = c
          <5>1. e \in Range(registry) \/ (call[c].pc = "control" /\ e \in Range(call[c].snapshot))
            BY Zenon, <4>1, <4>3
          <5> QED BY Zenon, <5>1, <2>3 DEF Shared, Registered
        <4> QED BY Zenon, <4>2, <4>3
      <3> QED BY Zenon, <2>3, <3>1, <3>2, <3>3, <3>4 DEF Shared
    <2> QED BY Zenon, <2>1, <2>2, <2>3, <1>QuietKeeps

  (* The calls that are no handle's. *)
  <1>PlainCalls.
      /\ ~Handed(Idle) /\ Idle.pc = "idle"
      /\ \A r \in WakeCall : ~Handed(r) /\ r.pc = "notify"
      /\ \A r \in ControlCall : ~Handed(r) /\ r.pc = "control"
      /\ \A r \in ShutdownCall :
            /\ ~Handed(r)
            /\ r.pc \in {"loop", "deadline", "wait", "join", "joining", "ok", "err"}
    BY Zenon DEF Handed, Idle, WakeCall, ControlCall, ShutdownCall, AttachCall, DetachCall

  <1>CloseIs. \A r \in ControlCall \cup ShutdownCall \cup {Idle} : r # [pc |-> "notify", op |-> "close"]
    BY DEF Idle, ControlCall, ShutdownCall

  <1>WakeQuiet.
      ASSUME TypeOK, Attachments, NEW c \in Caller, Wake(c) \/ (\E i \in Identity : Finalize(c, i))
      PROVE  Attachments'
    <2> USE <1>WakeQuiet
    <2>1. /\ TypeOK' /\ UNCHANGED <<registry, of, active, handle, holds, stop, done, worker>>
          /\ call[c] = Idle /\ call'[c] = [pc |-> "notify", op |-> "wake"]
          /\ \A d \in Caller \ {c} : call'[d] = call[d]
      BY Zenon, <1>WakeType
    <2>2. ~Handed(call'[c]) /\ call'[c].pc = "notify" /\ call[c].pc = "idle"
      BY Zenon, <2>1, <1>PlainCalls, SimpleCalls
    <2>3. holds'[c] \/ call'[c] = [pc |-> "notify", op |-> "close"] => Alive
      BY <2>1, <1>AliveIs
    <2> QED BY Zenon, <2>1, <2>2, <2>3, <1>CallerQuiet

  <1>ControlQuiet.
      ASSUME TypeOK, Attachments, NEW c \in Caller, Control(c)
      PROVE  Attachments'
    <2> USE <1>ControlQuiet
    <2>1. /\ TypeOK' /\ UNCHANGED <<registry, of, active, handle, holds, stop, done, worker>>
          /\ call[c] = Idle /\ holds[c] /\ call'[c].pc = "control" /\ call'[c].snapshot = registry
          /\ call'[c] \in ControlCall /\ \A d \in Caller \ {c} : call'[d] = call[d]
      BY Zenon, <1>ControlType
    <2>2. ~Handed(call'[c]) /\ call[c].pc = "idle" /\ Alive
      BY Zenon, <2>1, <1>PlainCalls, <1>AliveIs
    <2> QED BY Zenon, <2>1, <2>2, <1>CallerQuiet

  <1>ControlEachQuiet.
      ASSUME TypeOK, Attachments, NEW c \in Caller, ControlEach(c)
      PROVE  Attachments'
    <2> USE <1>ControlEachQuiet
    <2>1. /\ TypeOK' /\ UNCHANGED <<registry, of, active, handle, holds, stop, done, worker>>
          /\ call[c].pc = "control" /\ \A d \in Caller \ {c} : call'[d] = call[d]
          /\ \/ call'[c] \in {Idle, [pc |-> "notify", op |-> "wake"]}
             \/ /\ call'[c] \in ControlCall /\ call[c] \in ControlCall /\ call[c].snapshot # <<>>
                /\ call'[c].snapshot = Tail(call[c].snapshot)
      BY Zenon, <1>ControlEachType
    <2>2. ~Handed(call'[c]) /\ call'[c].pc # "retain" /\ call'[c] # [pc |-> "notify", op |-> "close"]
      BY <2>1, <1>PlainCalls, SimpleCalls, <1>CloseIs
    <2>3. call'[c].pc = "control" => Range(call'[c].snapshot) \subseteq Range(call[c].snapshot)
      <3>1. CASE call'[c] \in {Idle, [pc |-> "notify", op |-> "wake"]}
        BY <3>1 DEF Idle
      <3>2. CASE /\ call'[c] \in ControlCall /\ call[c] \in ControlCall /\ call[c].snapshot # <<>>
                 /\ call'[c].snapshot = Tail(call[c].snapshot)
        <4>1. call[c].snapshot \in Seq(Entry)
          BY Zenon, <3>2 DEF ControlCall
        <4> QED BY <3>2, <4>1, <1>TailRange
      <3> QED BY Zenon, <2>1, <3>1, <3>2
    <2>4. holds'[c] => Alive
      BY Zenon, <2>1, <1>AliveIs
    <2> QED BY Zenon, <2>1, <2>2, <2>3, <2>4, <1>CallerQuiet

  <1>CloneQuiet.
      ASSUME TypeOK, Attachments, NEW c \in Caller, NEW d \in Caller, CloneService(c, d)
      PROVE  Attachments'
    <2> USE <1>CloneQuiet
    <2>1. /\ TypeOK' /\ UNCHANGED <<registry, of, active, handle, stop, done, worker, call>>
          /\ holds[c] /\ \A x \in Caller : holds[x] => holds'[x]
      BY Zenon, <1>CloneType
    <2>2. Alive
      BY Zenon, <2>1, <1>AliveIs
    <2>3. \A x \in Caller : call[x] \in AttachCall => holds'[x] = holds[x]
      BY Zenon, <2>1 DEF Attachments, HandlesInUse, TypeOK
    <2>4. ASSUME NEW e \in Entry, Shared(e)' PROVE Shared(e)
      BY Zenon, <2>1, <2>2, <2>4 DEF Shared, Registered
    <2> QED BY Zenon, <2>1, <2>2, <2>3, <2>4, <1>QuietKeeps

  <1>DropServiceQuiet.
      ASSUME TypeOK, Attachments, NEW c \in Caller, DropService(c)
      PROVE  Attachments'
    <2> USE <1>DropServiceQuiet
    <2>1. /\ TypeOK' /\ UNCHANGED <<registry, of, active, handle, done>>
          /\ call[c] = Idle /\ holds[c] /\ (\A d \in Caller \ {c} : call'[d] = call[d] /\ holds'[d] = holds[d])
          /\ worker'.pc = worker.pc /\ worker'.snapshot = worker.snapshot
          /\ UNCHANGED call \/ call'[c] = [pc |-> "notify", op |-> "close"]
      BY Zenon, <1>DropServiceType
    <2>2. ~Handed(call'[c]) /\ call'[c].pc \in {"idle", "notify"} /\ call[c].pc = "idle" /\ Alive
      BY Zenon, <2>1, <1>PlainCalls, SimpleCalls, <1>AliveIs
    <2> QED BY <2>1, <2>2, <1>CallerQuiet

  <1>ShutdownQuiet.
      ASSUME TypeOK, Attachments, NEW c \in Caller, Shutdown(c)
      PROVE  Attachments'
    <2> USE <1>ShutdownQuiet
    <2>1. /\ TypeOK' /\ UNCHANGED <<registry, of, active, handle, holds, done>>
          /\ call[c] = Idle /\ \A d \in Caller \ {c} : call'[d] = call[d]
          /\ worker'.pc = worker.pc /\ worker'.snapshot = worker.snapshot
          /\ call'[c] = [pc |-> "notify", op |-> "shutdown"] /\ holds[c]
      BY Zenon, <1>ShutdownType
    <2>2. ~Handed(call'[c]) /\ call'[c].pc = "notify" /\ call[c].pc = "idle" /\ Alive
      BY Zenon, <2>1, <1>PlainCalls, SimpleCalls, <1>AliveIs
    <2> QED BY <2>1, <2>2, <1>CallerQuiet

  <1>WaitingQuiet.
      ASSUME TypeOK, Attachments, NEW c \in Caller, Waiting(c)
      PROVE  Attachments'
    <2> USE <1>WaitingQuiet
    <2>1. /\ TypeOK' /\ UNCHANGED <<registry, of, active, handle, holds, stop, done, worker>>
          /\ call[c] \in ShutdownCall /\ call'[c] \in ShutdownCall \cup {Idle}
          /\ \A d \in Caller \ {c} : call'[d] = call[d]
      BY Zenon, WaitingType
    <2>2. /\ ~Handed(call'[c]) /\ call'[c].pc # "retain" /\ call'[c].pc # "control" /\ call[c].pc # "retain"
          /\ call'[c] # [pc |-> "notify", op |-> "close"]
      BY Zenon, <2>1, <1>PlainCalls, <1>CloseIs
    <2>3. holds'[c] => Alive
      BY Zenon, <2>1, <1>AliveIs
    <2> QED BY Zenon, <2>1, <2>2, <2>3, <1>CallerQuiet

  <1>WorkerQuiet.
      ASSUME TypeOK, Busy, Attachments, WorkerMoves,
             UNCHANGED <<registry, of, active, handle, holds, call>>
      PROVE  Attachments'
    <2> USE <1>WorkerQuiet
    <2>1. Alive
      BY Zenon, <1>AliveIs DEF WorkerMoves
    <2>2. Range(worker'.snapshot) \subseteq Range(worker.snapshot) \cup Range(registry)
      <3>1. worker.snapshot \in Seq(Entry)
        BY DEF TypeOK, WorkerRecord
      <3>2. Range(<<>>) = {}
        BY DEF Range
      <3>3. CASE worker'.snapshot \in {worker.snapshot, registry, <<>>}
        BY Zenon, <3>2, <3>3
      <3>4. CASE worker.snapshot # <<>> /\ worker'.snapshot = Tail(worker.snapshot)
        BY Zenon, <3>1, <3>4, <1>TailRange
      <3> QED BY Zenon, <3>3, <3>4 DEF WorkerMoves
    <2>3. ASSUME NEW e \in Entry, Shared(e)' PROVE Shared(e)
      BY Zenon, <2>1, <2>2, <2>3 DEF Shared, Registered
    <2> QED BY Zenon, <2>1, <2>3, <1>QuietKeeps

  <1>SignalQuiet.
      ASSUME TypeOK, Busy, Attachments, WorkerSignal
      PROVE  Attachments'
    <2> USE <1>SignalQuiet
    <2>1. /\ UNCHANGED <<registry, of, active, handle, holds>>
          /\ worker.pc = "signal" /\ worker'.snapshot = worker.snapshot
          /\ \A c \in Caller : \/ call'[c] = call[c]
                               \/ call[c].pc = "wait" /\ call'[c] \in ShutdownCall /\ call'[c].pc = "loop"
      BY Zenon, <1>SignalMoves
    <2>2. Alive
      BY Zenon, <2>1, <1>AliveIs
    <2>3. \A c \in Caller :
                \/ call'[c] = call[c] /\ (call[c] \in AttachCall => holds'[c] = holds[c])
                \/ ~Handed(call'[c]) /\ call'[c].pc # "retain" /\ call[c].pc # "retain"
      BY Zenon, <2>1, <1>PlainCalls
    <2>4. ASSUME NEW e \in Entry, Shared(e)' PROVE Shared(e)
      BY Zenon, <2>1, <2>2, <2>4 DEF Shared, Registered
    <2> QED BY Zenon, <2>1, <2>2, <2>3, <2>4, <1>QuietKeeps

  <1>EligibleQuiet.
      ASSUME TypeOK, Attachments, NEW i \in Identity, Eligible(i)
      PROVE  Attachments'
    <2> USE <1>EligibleQuiet
    <2>1. UNCHANGED <<registry, of, active, handle, holds, stop, done, worker, call>>
      BY Zenon, <1>EligibleType
    <2> QED BY <2>1 DEF Attachments, RegistryDistinct, HandlesInUse, Handed, Detached, ActiveInv, Alive, Shared,
                        Registered, Retaining

  <1>RefusedQuiet.
      ASSUME TypeOK, Attachments, NEW c \in Caller, AttachRefused(c)
      PROVE  Attachments'
    <2> USE <1>RefusedQuiet
    <2>1. /\ TypeOK' /\ call'[c] = Idle /\ (\A d \in Caller \ {c} : call'[d] = call[d]) /\ call[c].pc = "attach"
          /\ UNCHANGED <<registry, of, active, handle, holds, worker>>
      BY Zenon, RefusedType DEF AttachRefused
    <2>2. ~Handed(call'[c]) /\ call'[c].pc = "idle" /\ call'[c] # [pc |-> "notify", op |-> "close"]
      BY Zenon, <2>1, <1>PlainCalls, <1>CloseIs
    <2>3. holds'[c] => Alive
      BY Zenon, <2>1, <1>AliveIs
    <2> QED BY Zenon, <2>1, <2>2, <2>3, <1>CallerQuiet

  (* A step of one thread that gives one handle away, or keeps all. *)
  <1>HandleGone.
      ASSUME TypeOK, Attachments, TypeOK', NEW c \in Caller, NEW h \in Handle,
             UNCHANGED <<registry, of, active, holds>>, Alive' => Alive,
             handle' = [handle EXCEPT ![h] = None],
             worker'.snapshot = worker.snapshot,
             \A d \in Caller \ {c} : call'[d] = call[d] /\ (Handed(call[d]) => call[d].handle # h),
             call'[c] = Idle, call[c].pc = "retain" => ~Alive'
      PROVE  Attachments'
    <2> USE <1>HandleGone
    <2>0. ~Handed(call'[c]) /\ call'[c].pc = "idle"
      BY Zenon, <1>PlainCalls
    <2>00. \A d \in Caller \ {c} : Handed(call[d]) => handle'[call[d].handle] = handle[call[d].handle]
      BY Zenon DEF Handed, AttachCall, DetachCall, TypeOK
    <2>1. RegistryDistinct'
      BY Zenon DEF Attachments, RegistryDistinct
    <2>2. HandlesInUse'
      BY Zenon, <2>0, <2>00 DEF Attachments, HandlesInUse, Handed
    <2>3. \A d \in Caller : call'[d].pc = "retain" =>
             d # c /\ call'[d] = call[d] /\ handle'[call[d].handle] = handle[call[d].handle]
      <3>1. \A d \in Caller : call[d].pc = "retain" => Handed(call[d])
        BY Zenon, CallShape DEF Handed, TypeOK
      <3> QED BY Zenon, <3>1, <2>0, <2>00
    <2>4. Detached'
      BY Zenon, <2>3 DEF Attachments, Detached
    <2>5. ASSUME NEW e \in Entry, Alive', Retaining(e) PROVE Retaining(e)'
      <3>1. PICK d \in Caller : call[d].pc = "retain" /\ handle[call[d].handle] = e
        BY Zenon, <2>5 DEF Retaining
      <3>2. d # c
        BY Zenon, <3>1, <2>5
      <3>3. call'[d].pc = "retain" /\ handle'[call'[d].handle] = e
        BY Zenon, <3>1, <3>2, <2>3
      <3> QED BY Zenon, <3>3 DEF Retaining
    <2>6. ASSUME NEW e \in Entry, Alive, Shared(e)' PROVE Shared(e)
      <3>1. CASE Registered(e)'
        BY Zenon, <2>6, <3>1 DEF Registered, Shared
      <3>2. CASE \E x \in Handle : handle'[x] = e
        <4>1. PICK x \in Handle : handle'[x] = e
          BY Zenon, <3>2
        <4>2. x # h
          BY Zenon, <4>1, ServiceAssumption DEF TypeOK
        <4>3. handle[x] = e
          BY Zenon, <4>1, <4>2 DEF TypeOK
        <4> QED BY Zenon, <4>3 DEF Shared
      <3>3. CASE e \in Range(worker'.snapshot)
        BY Zenon, <3>3 DEF Shared
      <3>4. CASE \E d \in Caller : call'[d].pc = "control" /\ e \in Range(call'[d].snapshot)
        BY Zenon, <3>4, <2>0 DEF Shared
      <3> QED BY Zenon, <2>6, <3>1, <3>2, <3>3, <3>4 DEF Shared
    <2>7. ActiveInv'
      BY Zenon, <2>5, <2>6 DEF Attachments, ActiveInv
    <2> QED BY Zenon, <2>1, <2>2, <2>4, <2>7 DEF Attachments

  <1>NotifyQuiet.
      ASSUME TypeOK, Attachments, NEW c \in Caller, Notify(c)
      PROVE  Attachments'
    <2> USE <1>NotifyQuiet
    <2>1. /\ TypeOK' /\ UNCHANGED <<registry, of, active, holds, work, stop, done>>
          /\ call[c].pc = "notify" /\ \A d \in Caller \ {c} : call'[d] = call[d]
          /\ \/ call[c].op # "shutdown" /\ call'[c] = Idle
             \/ call[c].op = "shutdown" /\ call'[c] = [pc |-> "loop", op |-> "shutdown", late |-> FALSE]
          /\ handle' = IF call[c].op = "drop" THEN [handle EXCEPT ![call[c].handle] = None] ELSE handle
          /\ worker'.pc = (IF worker.pc = "wait" THEN "woken" ELSE worker.pc)
          /\ worker'.snapshot = worker.snapshot
      BY Zenon, NotifyType
    <2>2. call'[c] \in {Idle, [pc |-> "loop", op |-> "shutdown", late |-> FALSE]}
      BY Zenon, <2>1
    <2>3. ~Handed(call'[c]) /\ call'[c].pc \in {"idle", "loop"} /\ call'[c] # [pc |-> "notify", op |-> "close"]
      <3>1. call'[c] \in ShutdownCall \cup {Idle}
        <4>1. [pc |-> "loop", op |-> "shutdown", late |-> FALSE] \in ShutdownCall
          BY Zenon DEF ShutdownCall
        <4> QED BY Zenon, <2>2, <4>1
      <3>2. call'[c].pc \in {"idle", "loop"}
        BY <2>2 DEF Idle
      <3> QED BY <3>1, <3>2, <1>PlainCalls, <1>CloseIs
    <2>4. holds'[c] => Alive
      BY <2>1, <1>AliveIs
    <2>5. CASE call[c].op # "drop"
      BY Zenon, <2>1, <2>3, <2>4, <2>5, <1>CallerQuiet
    <2>6. CASE call[c].op = "drop"
      <3>1. call[c] \in DetachCall /\ call'[c] = Idle
        <4>1. call[c] \in WakeCall \/ call[c] \in DetachCall
          BY Zenon, <2>1, CallShape DEF TypeOK
        <4>2. call[c] \notin WakeCall
          BY Zenon, <2>6 DEF WakeCall
        <4> QED BY Zenon, <2>1, <2>6, <4>1, <4>2
      <3>2. call[c].handle \in Handle
        BY Zenon, <3>1 DEF DetachCall
      <3>3. \A d \in Caller \ {c} : Handed(call[d]) => call[d].handle # call[c].handle
        BY Zenon, <3>1 DEF Attachments, HandlesInUse, Handed
      <3>4. Alive' => Alive
        BY Zenon, <2>1, <2>3, <2>4 DEF Alive
      <3>5. handle' = [handle EXCEPT ![call[c].handle] = None]
        BY <2>1, <2>6
      <3> QED BY Zenon, <2>1, <3>1, <3>2, <3>3, <3>4, <3>5, <1>HandleGone
    <2> QED BY Zenon, <2>5, <2>6

  <1>AttachKeeps.
      ASSUME TypeOK, Attachments, NEW c \in Caller, NEW i \in Identity, NEW h \in Handle, Attach(c, i, h)
      PROVE  Attachments'
    <2> USE <1>AttachKeeps
    <2>1. /\ TypeOK' /\ call'[c] = [pc |-> "attach", op |-> "attach", identity |-> i, handle |-> h]
          /\ \A d \in Caller \ {c} : call'[d] = call[d]
      BY Zenon, <1>AttachType
    <2>2. /\ call[c] = Idle /\ holds[c] /\ handle[h] = None /\ ~InUse(h)
          /\ UNCHANGED <<registry, of, active, handle, holds, worker>>
      BY Zenon DEF Attach
    <2>3. call'[c] \in AttachCall /\ call'[c] \notin DetachCall /\ call'[c].handle = h /\ call'[c].pc = "attach"
          /\ call[c].pc = "idle"
      BY <2>1, <2>2 DEF AttachCall, DetachCall, Idle
    <2>4. \A d \in Caller : Handed(call[d]) => call[d].handle # h
      BY Zenon, <2>2, CallShape DEF Handed, InUse, TypeOK
    <2>5. HandlesInUse'
      BY <2>1, <2>2, <2>3, <2>4 DEF Attachments, HandlesInUse, Handed
    <2>6. RegistryDistinct' /\ Detached'
      BY Zenon, <2>1, <2>2, <2>3 DEF Attachments, RegistryDistinct, Detached
    <2>7. Alive
      BY Zenon, <2>2, <1>AliveIs
    <2>8. ASSUME NEW e \in Entry PROVE (Shared(e)' => Shared(e)) /\ (Retaining(e) => Retaining(e)')
      BY Zenon, <2>1, <2>2, <2>3, <2>7 DEF Shared, Registered, Retaining
    <2>9. ActiveInv'
      BY Zenon, <2>2, <2>7, <2>8 DEF Attachments, ActiveInv
    <2> QED BY Zenon, <2>5, <2>6, <2>9 DEF Attachments

  (* The handle that an attach call fills was free, and nobody else's. *)
  <1>FilledHandle.
      ASSUME TypeOK, Attachments, NEW c \in Caller, call[c].pc = "attach"
      PROVE  /\ call[c] \in AttachCall /\ call[c].handle \in Handle /\ handle[call[c].handle] = None /\ Alive
             /\ \A d \in Caller \ {c} : Handed(call[d]) => call[d].handle # call[c].handle
    <2> USE <1>FilledHandle
    <2>1. call[c] \in AttachCall
      BY Zenon, CallShape DEF TypeOK
    <2>2. call[c].handle \in Handle
      BY Zenon, <2>1 DEF AttachCall
    <2>3. handle[call[c].handle] = None /\ holds[c]
      BY Zenon, <2>1 DEF Attachments, HandlesInUse
    <2>4. \A d \in Caller \ {c} : Handed(call[d]) => call[d].handle # call[c].handle
      BY Zenon, <2>1 DEF Attachments, HandlesInUse, Handed
    <2> QED BY Zenon, <2>1, <2>2, <2>3, <2>4, <1>AliveIs

  (* What filling it with e leaves of the other calls. *)
  <1>HandleFilled.
      ASSUME TypeOK, Attachments, NEW c \in Caller, call[c].pc = "attach", NEW e \in Entry,
             handle' = [handle EXCEPT ![call[c].handle] = e],
             ~Handed(call'[c]), call'[c].pc \in {"idle", "notify"}, UNCHANGED <<holds, worker>>,
             \A d \in Caller \ {c} : call'[d] = call[d]
      PROVE  /\ HandlesInUse'
             /\ \A d \in Caller : (call[d].pc = "retain" <=> call'[d].pc = "retain")
                               /\ (call[d].pc = "retain" => /\ handle'[call[d].handle] = handle[call[d].handle]
                                                            /\ call'[d] = call[d] /\ d # c)
             /\ \A x \in Entry : Retaining(x) => Retaining(x)'
             /\ \A x \in Entry \ {e} : (Registered(x)' => Registered(x)) => (Shared(x)' => Shared(x))
    <2> USE <1>HandleFilled
    <2> DEFINE h == call[c].handle
    <2>1. /\ call[c] \in AttachCall /\ h \in Handle /\ handle[h] = None
          /\ \A d \in Caller \ {c} : Handed(call[d]) => call[d].handle # h
      BY Zenon, <1>FilledHandle
    <2>2. \A d \in Caller \ {c} : Handed(call[d]) => handle'[call[d].handle] = handle[call[d].handle]
      <3>1. \A d \in Caller : Handed(call[d]) => call[d].handle \in Handle
        BY Zenon DEF Handed, AttachCall, DetachCall
      <3> QED BY Zenon, <3>1, <2>1 DEF TypeOK
    <2>3. HandlesInUse'
      BY <2>2 DEF Attachments, HandlesInUse, Handed
    <2>4. \A d \in Caller : (call[d].pc = "retain" <=> call'[d].pc = "retain")
                               /\ (call[d].pc = "retain" => /\ handle'[call[d].handle] = handle[call[d].handle]
                                                            /\ call'[d] = call[d] /\ d # c)
      <3>1. \A d \in Caller : call[d].pc = "retain" => Handed(call[d])
        BY Zenon, CallShape DEF Handed, TypeOK
      <3> QED BY Zenon, <3>1, <2>2
    <2>5. ASSUME NEW x \in Entry, Retaining(x) PROVE Retaining(x)'
      BY Zenon, <2>4, <2>5 DEF Retaining
    <2>6. ASSUME NEW x \in Entry \ {e}, Registered(x)' => Registered(x), Shared(x)' PROVE Shared(x)
      <3>1. CASE \E y \in Handle : handle'[y] = x
        <4>1. PICK y \in Handle : handle'[y] = x
          BY Zenon, <3>1
        <4>2. handle[y] = x
          BY Zenon, <4>1, <2>6 DEF TypeOK
        <4> QED BY <4>2 DEF Shared
      <3>2. CASE Registered(x)' \/ x \in Range(worker'.snapshot)
        BY Zenon, <3>2, <2>6 DEF Shared
      <3>3. CASE \E d \in Caller : call'[d].pc = "control" /\ x \in Range(call'[d].snapshot)
        BY Zenon, <3>3 DEF Shared
      <3> QED BY Zenon, <3>1, <3>2, <3>3, <2>6 DEF Shared
    <2> QED BY Zenon, <2>3, <2>4, <2>5, <2>6

  <1>AttachExistingKeeps.
      ASSUME TypeOK, Attachments, NEW c \in Caller, AttachExisting(c)
      PROVE  Attachments'
    <2> USE <1>AttachExistingKeeps
    <2>1. /\ TypeOK' /\ call'[c] = Idle /\ (\A d \in Caller \ {c} : call'[d] = call[d])
          /\ (\E e \in Entry : e \in Range(registry) /\ handle' = [handle EXCEPT ![call[c].handle] = e])
          /\ UNCHANGED <<registry, of, active, holds, work, stop, done, unseen, worker>>
      BY AttachExistingType
    <2>2. PICK e \in Entry : e \in Range(registry) /\ handle' = [handle EXCEPT ![call[c].handle] = e]
      BY Zenon, <2>1
    <2>3. call[c].pc = "attach" /\ ~Handed(call'[c]) /\ call'[c].pc = "idle"
      BY Zenon, <2>1, <1>PlainCalls DEF AttachExisting
    <2>4. Alive
      BY <2>3, <1>FilledHandle
    <2>5. /\ HandlesInUse'
          /\ \A d \in Caller : (call[d].pc = "retain" <=> call'[d].pc = "retain")
                            /\ (call[d].pc = "retain" => /\ handle'[call[d].handle] = handle[call[d].handle]
                                                         /\ call'[d] = call[d] /\ d # c)
          /\ \A x \in Entry : Retaining(x) => Retaining(x)'
          /\ \A x \in Entry \ {e} : (Registered(x)' => Registered(x)) => (Shared(x)' => Shared(x))
      BY Zenon, <2>1, <2>2, <2>3, <1>HandleFilled
    <2>6. RegistryDistinct' /\ Detached'
      BY Zenon, <2>1, <2>5 DEF Attachments, RegistryDistinct, Detached
    <2>7. \A x \in Entry : Shared(x)' => Shared(x)
      BY Zenon, <2>1, <2>2, <2>4, <2>5 DEF Registered, Shared
    <2>8. ActiveInv'
      BY Zenon, <2>1, <2>4, <2>5, <2>7 DEF Attachments, ActiveInv
    <2> QED BY Zenon, <2>5, <2>6, <2>8 DEF Attachments

  <1>AttachNewKeeps.
      ASSUME TypeOK, SharesCounted, Attachments, NEW c \in Caller, AttachNew(c)
      PROVE  Attachments'
    <2> USE <1>AttachNewKeeps
    <2>1. /\ TypeOK' /\ call[c] \in AttachCall /\ call'[c] = [pc |-> "notify", op |-> "attach"]
          /\ \A d \in Caller \ {c} : call'[d] = call[d]
          /\ Existing(call[c].identity) = {} /\ Len(registry) < MaxAttachments
          /\ UNCHANGED <<holds, work, stop, done, unseen, worker>>
      BY Zenon, AttachNewType
    <2>2. PICK e \in Entry :
                  /\ Shares(e) = 0
                  /\ of' = [of EXCEPT ![e] = call[c].identity]
                  /\ active' = [active EXCEPT ![e] = TRUE]
                  /\ registry' = Append(registry, e)
                  /\ handle' = [handle EXCEPT ![call[c].handle] = e]
      BY AttachNewType
    <2>3. call[c].pc = "attach" /\ ~Handed(call'[c]) /\ call'[c].pc = "notify"
      BY Zenon, <2>1, <1>PlainCalls, SimpleCalls DEF AttachNew
    <2>4. Alive
      BY Zenon, <2>3, <1>FilledHandle
    <2>5. ~Shared(e)
      BY Zenon, <2>2 DEF SharesCounted
    <2>6. e \notin Range(registry)
      BY <2>4, <2>5 DEF Shared, Registered
    <2>7. /\ HandlesInUse'
          /\ \A d \in Caller : (call[d].pc = "retain" <=> call'[d].pc = "retain")
                            /\ (call[d].pc = "retain" => /\ handle'[call[d].handle] = handle[call[d].handle]
                                                         /\ call'[d] = call[d] /\ d # c)
          /\ \A x \in Entry : Retaining(x) => Retaining(x)'
          /\ \A x \in Entry \ {e} : (Registered(x)' => Registered(x)) => (Shared(x)' => Shared(x))
      BY Zenon, <2>1, <2>2, <2>3, <1>HandleFilled
    <2>8. /\ registry' \in Seq(Entry) /\ Len(registry') = Len(registry) + 1 /\ Len(registry) \in Nat
          /\ \A i \in 1 .. Len(registry) : registry'[i] = registry[i] /\ registry[i] \in Range(registry)
          /\ registry'[Len(registry) + 1] = e
          /\ Range(registry') = Range(registry) \cup {e}
      <3>1. registry \in Seq(Entry)
        BY Zenon DEF TypeOK
      <3> QED BY <2>2, <3>1, AppendRange
    <2>9. RegistryDistinct'
      <3>1. \A i \in 1 .. Len(registry) : registry[i] \in Entry /\ registry[i] # e
        BY <2>6, <2>8 DEF TypeOK
      <3>2. \A i \in 1 .. Len(registry) : of'[registry'[i]] = of[registry[i]] /\ of[registry[i]] # call[c].identity
        <4>1. \A i \in 1 .. Len(registry) : of'[registry'[i]] = of[registry[i]]
          BY <2>2, <2>8, <3>1 DEF TypeOK
        <4>2. \A i \in 1 .. Len(registry) : of[registry[i]] # call[c].identity
          BY Zenon, <2>1, <2>8 DEF Existing
        <4> QED BY Zenon, <4>1, <4>2
      <3>3. of'[registry'[Len(registry) + 1]] = call[c].identity
        BY <2>2, <2>8 DEF TypeOK
      <3>4. MaxAttachments \in Nat
        BY Zenon, ServiceAssumption
      <3>5. Len(registry') <= MaxAttachments
        BY <2>1, <2>8, <3>4
      <3>6. \A x, y \in 1..Len(registry) : of[registry[x]] = of[registry[y]] => x = y
        BY Zenon DEF Attachments, RegistryDistinct
      <3>7. \A x, y \in 1..Len(registry') : of'[registry'[x]] = of'[registry'[y]] => x = y
        BY <2>8, <3>2, <3>3, <3>6
      <3> QED BY Zenon, <3>5, <3>7 DEF RegistryDistinct
    <2>10. \A x \in Entry \ {e} : active'[x] = active[x]
      BY Zenon, <2>2 DEF TypeOK
    <2>11. active'[e] = TRUE
      BY Zenon, <2>2 DEF TypeOK
    <2>12. Detached'
      <3> SUFFICES ASSUME NEW d \in Caller, call'[d].pc = "retain"
                   PROVE  ~active'[handle'[call'[d].handle]]
        BY DEF Detached
      <3>1. /\ call[d].pc = "retain" /\ handle'[call[d].handle] = handle[call[d].handle] /\ call'[d] = call[d]
        BY Zenon, <2>7
      <3>2. call[d].handle \in Handle /\ handle[call[d].handle] \in Entry
        <4>1. call[d] \in DetachCall
          BY Zenon, <3>1, CallShape DEF TypeOK
        <4>2. call[d].handle \in Handle
          BY Zenon, <4>1 DEF DetachCall
        <4>3. handle[call[d].handle] # None
          BY Zenon, <4>1 DEF Attachments, HandlesInUse
        <4> QED BY Zenon, <4>2, <4>3 DEF TypeOK
      <3>3. handle[call[d].handle] # e
        BY <2>5, <3>2 DEF Shared
      <3> QED BY Zenon, <2>10, <3>1, <3>2, <3>3 DEF Attachments, Detached
    <2>13. ActiveInv'
      <3>1. \A x \in Entry \ {e} : Shared(x)' => Shared(x)
        <4>1. \A x \in Entry \ {e} : Registered(x)' => Registered(x)
          BY Zenon, <2>4, <2>8 DEF Registered
        <4> QED BY Zenon, <4>1, <2>7
      <3>2. \A x \in Entry \ {e} : x \in Range(registry') <=> x \in Range(registry)
        BY Zenon, <2>8
      <3>3. \A x \in Entry \ {e} : Shared(x)' => (active'[x] <=> x \in Range(registry')) \/ Retaining(x)'
        BY Zenon, <2>4, <2>7, <2>10, <3>1, <3>2 DEF Attachments, ActiveInv
      <3>4. active'[e] <=> e \in Range(registry')
        BY <2>8, <2>11
      <3> QED BY Zenon, <3>3, <3>4 DEF ActiveInv
    <2> QED BY Zenon, <2>7, <2>9, <2>12, <2>13 DEF Attachments

  (* A call keeps its handle: no other call has it. *)
  <1>HandleKept.
      ASSUME HandlesInUse, NEW c \in Caller, NEW h, handle' = handle, holds' = holds,
             \A d \in Caller \ {c} : call'[d] = call[d],
             call'[c] \notin AttachCall, call'[c].handle = h, handle[h] # None,
             \A d \in Caller \ {c} : Handed(call[d]) => call[d].handle # h
      PROVE  HandlesInUse'
    <2> USE <1>HandleKept
    <2>1. /\ call'[c] \in DetachCall => handle'[call'[c].handle] # None
          /\ \A d \in Caller : Handed(call'[d]) /\ call'[d].handle = call'[c].handle => c = d
      BY Zenon DEF Handed
    <2>2. ASSUME NEW b \in Caller \ {c}
          PROVE  /\ call'[b] \in DetachCall => handle'[call'[b].handle] # None
                 /\ call'[b] \in AttachCall => handle'[call'[b].handle] = None /\ holds'[b]
                 /\ \A d \in Caller : Handed(call'[b]) /\ Handed(call'[d]) /\ call'[b].handle = call'[d].handle => b = d
      BY Zenon, <2>2 DEF HandlesInUse, Handed
    <2> QED BY Zenon, <2>1, <2>2 DEF HandlesInUse, Handed

  <1>DetachKeeps.
      ASSUME TypeOK, Attachments, NEW c \in Caller, NEW h \in Handle, NEW op \in {"detach", "drop"},
             Detach(c, h, op)
      PROVE  Attachments'
    <2> USE <1>DetachKeeps
    <2>0. TypeOK' /\ DetachEffect(c, h, op)
      BY Zenon, DetachType
    <2>1. /\ TypeOK' /\ UNCHANGED <<registry, of, active, holds, work, stop, done, unseen, worker>>
          /\ call[c] = Idle /\ handle[h] # None /\ ~InUse(h) /\ handle[h] \in Entry
          /\ \/ /\ handle' = [handle EXCEPT ![h] = IF op = "drop" THEN None ELSE @]
                /\ UNCHANGED call
             \/ /\ call'[c] = [pc |-> "store", op |-> op, handle |-> h]
                /\ \A d \in Caller \ {c} : call'[d] = call[d]
                /\ UNCHANGED handle
      BY <2>0 DEF DetachEffect
    <2>2. \A d \in Caller : Handed(call[d]) => call[d].handle # h
      BY Zenon, <2>1, CallShape DEF Handed, InUse, TypeOK
    <2>3. CASE UNCHANGED call /\ handle' = [handle EXCEPT ![h] = IF op = "drop" THEN None ELSE @]
      <3>1. Alive' = Alive
        BY <2>1, <2>3 DEF Alive
      <3>2. CASE op = "drop"
        <4>1. handle' = [handle EXCEPT ![h] = None] /\ call'[c] = Idle /\ call[c].pc = "idle"
          BY <2>1, <2>3, <3>2 DEF Idle
        <4> QED BY Zenon, <2>1, <2>2, <2>3, <3>1, <4>1, <1>HandleGone
      <3>3. CASE op # "drop"
        <4>1. handle' = handle
          BY Zenon, <2>3, <3>3 DEF TypeOK
        <4>2. \A e \in Entry : Shared(e)' => Shared(e)
          BY <2>1, <2>3, <3>1, <4>1 DEF Shared, Registered
        <4> QED BY Zenon, <2>1, <2>3, <3>1, <4>1, <4>2, <1>QuietKeeps
      <3> QED BY Zenon, <3>2, <3>3
    <2>4. CASE /\ call'[c] = [pc |-> "store", op |-> op, handle |-> h]
               /\ \A d \in Caller \ {c} : call'[d] = call[d]
               /\ UNCHANGED handle
      <3>1. call'[c] \in DetachCall /\ call'[c] \notin AttachCall /\ call'[c].handle = h /\ call'[c].pc = "store"
            /\ call[c].pc = "idle" /\ call'[c] # [pc |-> "notify", op |-> "close"]
        BY <2>1, <2>4 DEF AttachCall, DetachCall, Idle
      <3>2. HandlesInUse'
        BY Zenon, <2>1, <2>2, <2>4, <3>1, <1>HandleKept DEF Attachments
      <3>3. RegistryDistinct'
        BY Zenon, <2>1 DEF Attachments, RegistryDistinct
      <3>4. Detached'
        BY Zenon, <2>1, <2>4, <3>1 DEF Attachments, Detached
      <3>5. Alive' => Alive
        BY <2>1, <2>4, <3>1 DEF Alive
      <3>6. \A x \in Entry : Retaining(x) => Retaining(x)'
        BY Zenon, <2>4, <3>1 DEF Retaining
      <3>7. \A x \in Entry : Alive /\ Shared(x)' => Shared(x)
        BY Zenon, <2>1, <2>4, <3>1, <3>5 DEF Shared, Registered
      <3>8. ActiveInv'
        BY Zenon, <2>1, <3>5, <3>6, <3>7 DEF Attachments, ActiveInv
      <3> QED BY Zenon, <3>2, <3>3, <3>4, <3>8 DEF Attachments
    <2> QED BY <2>1, <2>3, <2>4

  <1>DeactivateKeeps.
      ASSUME TypeOK, Attachments, NEW c \in Caller, Deactivate(c)
      PROVE  Attachments'
    <2> USE <1>DeactivateKeeps
    <2> DEFINE h == call[c].handle
               e == handle[h]
    <2>1. /\ TypeOK' /\ UNCHANGED <<registry, of, handle, holds>>
          /\ call[c].pc = "store" /\ call[c] \in DetachCall /\ \A d \in Caller \ {c} : call'[d] = call[d]
          /\ call'[c] \in DetachCall /\ call'[c].pc = "retain" /\ call'[c].handle = h
          /\ active' = [active EXCEPT ![e] = FALSE]
          /\ worker'.pc = worker.pc /\ worker'.snapshot = worker.snapshot
      BY Zenon, DeactivateType
    <2>2. /\ h \in Handle /\ e # None
          /\ \A d \in Caller \ {c} : Handed(call[d]) => call[d].handle # h
      BY Zenon, <2>1 DEF Attachments, HandlesInUse, Handed, DetachCall
    <2>3. e \in Entry
      BY Zenon, <2>2 DEF TypeOK
    <2>4. call'[c] \notin AttachCall /\ call'[c] # [pc |-> "notify", op |-> "close"]
      BY <2>1 DEF AttachCall
    <2>5. HandlesInUse'
      BY Zenon, <2>1, <2>2, <2>4, <1>HandleKept DEF Attachments
    <2>6. RegistryDistinct'
      BY Zenon, <2>1 DEF Attachments, RegistryDistinct
    <2>7. active'[e] = FALSE /\ \A x \in Entry \ {e} : active'[x] = active[x]
      BY Zenon, <2>1, <2>3 DEF TypeOK
    <2>8. Detached'
      <3> SUFFICES ASSUME NEW d \in Caller, call'[d].pc = "retain", d # c
                   PROVE  ~active'[handle'[call'[d].handle]]
        BY Zenon, <2>1, <2>7 DEF Detached
      <3>1. call'[d] = call[d] /\ handle' = handle /\ ~active[handle[call[d].handle]]
        BY Zenon, <2>1 DEF Attachments, Detached
      <3>2. handle[call[d].handle] \in Entry
        <4>1. call[d] \in DetachCall
          BY Zenon, <3>1, CallShape DEF TypeOK
        <4>2. call[d].handle \in Handle /\ handle[call[d].handle] # None
          BY Zenon, <4>1 DEF Attachments, HandlesInUse, DetachCall
        <4> QED BY Zenon, <4>2 DEF TypeOK
      <3> QED BY Zenon, <3>1, <3>2, <2>7
    <2>9. Alive' => Alive
      BY Zenon, <2>1, <2>4 DEF Alive
    <2>10. Retaining(e)' /\ \A x \in Entry : Retaining(x) => Retaining(x)'
      <3>1. call'[c].pc = "retain" /\ handle'[call'[c].handle] = e /\ call[c].pc # "retain"
        BY Zenon, <2>1
      <3> QED BY Zenon, <2>1, <3>1 DEF Retaining
    <2>11. \A x \in Entry : Alive /\ Shared(x)' => Shared(x)
      <3>1. call'[c].pc # "control"
        BY Zenon, <2>1
      <3> QED BY Zenon, <2>1, <2>9, <3>1 DEF Shared, Registered
    <2>12. e' = e /\ Range(registry)' = Range(registry)
      BY Zenon, <2>1
    <2> HIDE DEF h, e
    <2>13. ActiveInv'
      <3> SUFFICES ASSUME Alive', NEW x \in Entry, Shared(x)', ~Retaining(x)'
                   PROVE  active'[x] <=> x \in Range(registry)'
        BY Zenon DEF ActiveInv
      <3>1. x # e /\ Alive /\ Shared(x) /\ ~Retaining(x)
        BY Zenon, <2>9, <2>10, <2>11, <2>12
      <3>2. active[x] <=> x \in Range(registry)
        BY Zenon, <3>1 DEF Attachments, ActiveInv
      <3>3. active'[x] = active[x]
        BY Zenon, <3>1, <2>7
      <3> QED BY Zenon, <3>2, <3>3, <2>12
    <2> QED BY Zenon, <2>5, <2>6, <2>8, <2>13 DEF Attachments

  <1>RetainKeeps.
      ASSUME TypeOK, Attachments, NEW c \in Caller, Retain(c)
      PROVE  Attachments'
    <2> USE <1>RetainKeeps
    <2> DEFINE h == call[c].handle
               e == handle[h]
    <2>1. /\ TypeOK' /\ UNCHANGED <<of, active, holds, work, stop, done, unseen, worker>>
          /\ call[c].pc = "retain" /\ call[c] \in DetachCall /\ \A d \in Caller \ {c} : call'[d] = call[d]
      BY Zenon, RetainType
    <2>2. h \in Handle /\ e \in Entry /\ ~active[e]
      <3>1. h \in Handle /\ e # None
        BY Zenon, <2>1 DEF Attachments, HandlesInUse, DetachCall
      <3>2. ~active[e]
        BY Zenon, <2>1 DEF Attachments, Detached
      <3> QED BY Zenon, <3>1, <3>2 DEF TypeOK
    <2>3. \A d \in Caller \ {c} : Handed(call[d]) => call[d].handle # h
      BY <2>1 DEF Attachments, HandlesInUse, Handed
    <2>4. CASE /\ ~Alive /\ call'[c] = Idle /\ UNCHANGED registry
               /\ handle' = [handle EXCEPT ![h] = IF call[c].op = "drop" THEN None ELSE @]
      <3>1. ~Alive'
        <4>1. call'[c] # [pc |-> "notify", op |-> "close"]
          BY Zenon, <2>4, <1>CloseIs
        <4> QED BY Zenon, <2>1, <2>4, <4>1 DEF Alive
      <3>2. ~Handed(call'[c]) /\ call'[c].pc = "idle"
        BY <2>4, <1>PlainCalls
      <3>3. CASE call[c].op = "drop"
        BY Zenon, <2>1, <2>2, <2>3, <2>4, <3>1, <3>3, <1>HandleGone
      <3>4. CASE call[c].op # "drop"
        <4>1. handle' = handle
          BY Zenon, <2>2, <2>4, <3>4 DEF TypeOK
        <4>2. HandlesInUse'
          BY <2>1, <2>4, <3>2, <4>1 DEF Attachments, HandlesInUse, Handed
        <4>3. Detached' /\ RegistryDistinct'
          BY Zenon, <2>1, <2>4, <3>2, <4>1 DEF Attachments, Detached, RegistryDistinct
        <4> QED BY Zenon, <3>1, <4>2, <4>3 DEF Attachments, ActiveInv
      <3> QED BY <3>3, <3>4
    <2>5. CASE /\ Alive /\ registry' = Without(registry, e)
               /\ call'[c] \in DetachCall /\ call'[c].pc = "notify"
               /\ call'[c].handle = h /\ call'[c].op = call[c].op /\ UNCHANGED handle
      <3>1. /\ registry \in Seq(Entry)
            /\ Len(registry) <= MaxAttachments
            /\ \A x, y \in 1..Len(registry) : of[registry[x]] = of[registry[y]] => x = y
        BY Zenon DEF TypeOK, Attachments, RegistryDistinct
      <3>2. \A x, y \in 1..Len(registry) : registry[x] = registry[y] => x = y
        BY <3>1
      <3>3. /\ registry' \in Seq(Entry) /\ Len(registry') <= Len(registry)
            /\ Range(registry') = Range(registry) \ {e}
            /\ \A i, k \in 1 .. Len(registry') : registry'[i] = registry'[k] => i = k
        <4> HIDE DEF e
        <4>1. /\ Without(registry, e) \in Seq(Entry) /\ Len(Without(registry, e)) <= Len(registry)
              /\ (\A i, k \in 1 .. Len(registry) : registry[i] = registry[k] => i = k) =>
                    /\ \A i, k \in 1 .. Len(Without(registry, e)) :
                          Without(registry, e)[i] = Without(registry, e)[k] => i = k
                    /\ Range(Without(registry, e)) = Range(registry) \ {e}
          BY Zenon, <3>1, WithoutIs
        <4> QED BY Zenon, <2>5, <3>2, <4>1
      <3>5. \A x, y \in Range(registry) : of[x] = of[y] => x = y
        <4>1. Range(registry) = {registry[i] : i \in 1..Len(registry)}
          BY <3>1 DEF Range
        <4> QED BY Zenon, <3>1, <4>1
      <3>6. \A i \in 1..Len(registry') : registry'[i] \in Range(registry')
        BY Zenon, <3>3, <1>InRange
      <3>7. RegistryDistinct'
        <4>1. MaxAttachments \in Nat /\ Len(registry') \in Nat /\ Len(registry) \in Nat
          BY ServiceAssumption, <3>1, <3>3
        <4>2. Len(registry') <= MaxAttachments
          BY <3>1, <3>3, <4>1
        <4>3. \A x, y \in 1..Len(registry') : of'[registry'[x]] = of'[registry'[y]] => x = y
          <5> SUFFICES ASSUME NEW x \in 1..Len(registry'), NEW y \in 1..Len(registry'),
                              of'[registry'[x]] = of'[registry'[y]]
                       PROVE  x = y
            BY Zenon
          <5>1. registry'[x] \in Range(registry) /\ registry'[y] \in Range(registry) /\ of' = of
            BY Zenon, <2>1, <3>3, <3>6
          <5>2. registry'[x] = registry'[y]
            BY Zenon, <3>5, <5>1
          <5> QED BY Zenon, <3>3, <5>2
        <4> QED BY Zenon, <4>2, <4>3 DEF RegistryDistinct
      <3>8. call'[c] \notin AttachCall
        BY <2>5 DEF AttachCall
      <3>9. HandlesInUse'
        <4>1. handle[h] # None /\ call'[c].handle = h
          BY Zenon, <2>1, <2>5 DEF Attachments, HandlesInUse
        <4> QED BY Zenon, <2>1, <2>3, <2>5, <3>8, <4>1, <1>HandleKept DEF Attachments
      <3>10. Detached'
        BY Zenon, <2>1, <2>5 DEF Attachments, Detached
      <3>11. \A x \in Entry \ {e} : Retaining(x) => Retaining(x)'
        BY Zenon, <2>1, <2>5 DEF Retaining
      <3>12. ASSUME NEW x \in Entry, Shared(x)' PROVE Shared(x)
        <4>1. Registered(x)' => Registered(x)
          BY <2>5, <3>3 DEF Registered
        <4> QED BY Zenon, <2>1, <2>5, <3>12, <4>1 DEF Shared
      <3>13. ActiveInv'
        BY Zenon, <2>1, <2>2, <2>5, <3>3, <3>11, <3>12 DEF Attachments, ActiveInv
      <3> QED BY Zenon, <3>7, <3>9, <3>10, <3>13 DEF Attachments
    <2> QED BY Zenon, <2>4, <2>5, RetainType

  (* Steps the worker takes no part in. *)
  <1>ApartKeeps.
      ASSUME Progress, UNCHANGED <<active, stop, done>>, worker'.snapshot = worker.snapshot,
             worker'.pc = worker.pc, worker'.cut = worker.cut,
             \A c \in Caller : call'[c] = call[c] \/ (call'[c].pc \in {"join", "joining", "ok"} => done)
      PROVE  Progress'
    BY Zenon, <1>ApartKeeps DEF Progress, Busy, CutInv, DoneInv, Fenced

  <1>AttachApart.
      ASSUME TypeOK, Progress, NEW c \in Caller,
             (\E i \in Identity, h \in Handle : Attach(c, i, h)) \/ AttachRefused(c) \/ AttachExisting(c)
      PROVE  Progress'
    <2> USE <1>AttachApart
    <2>1. UNCHANGED <<active, stop, done, worker>>
      BY Zenon DEF Attach, AttachRefused, AttachExisting
    <2>2. (\A d \in Caller \ {c} : call'[d] = call[d]) /\ call'[c].pc \in {"attach", "idle"}
      <3>1. ASSUME NEW i \in Identity, NEW h \in Handle, Attach(c, i, h)
            PROVE  (\A d \in Caller \ {c} : call'[d] = call[d]) /\ call'[c].pc = "attach"
        <4>1. /\ call'[c] = [pc |-> "attach", op |-> "attach", identity |-> i, handle |-> h]
              /\ \A d \in Caller \ {c} : call'[d] = call[d]
          BY <3>1, <1>AttachType
        <4> QED BY <4>1
      <3>2. ASSUME AttachRefused(c) \/ AttachExisting(c)
            PROVE  (\A d \in Caller \ {c} : call'[d] = call[d]) /\ call'[c].pc = "idle"
        BY Zenon, <3>2, RefusedType, AttachExistingType, <1>PlainCalls
      <3> QED BY Zenon, <3>1, <3>2
    <2> QED BY <2>1, <2>2, <1>ApartKeeps

  <1>AttachNewProgress.
      ASSUME TypeOK, SharesCounted, Attachments, Progress, NEW c \in Caller, AttachNew(c)
      PROVE  Progress'
    <2> USE <1>AttachNewProgress
    <2>1. /\ call[c] \in AttachCall /\ call'[c] = [pc |-> "notify", op |-> "attach"]
          /\ \A d \in Caller \ {c} : call'[d] = call[d]
          /\ UNCHANGED <<holds, work, stop, done, unseen, worker>>
      BY Zenon, AttachNewType
    <2>2. PICK e \in Entry : Shares(e) = 0 /\ active' = [active EXCEPT ![e] = TRUE]
      BY Zenon, AttachNewType
    <2>3. e \notin Range(worker.snapshot)
      BY Zenon, <2>2 DEF SharesCounted, Shared
    <2>4. worker.snapshot # <<>> =>
             Head(worker.snapshot) \in Range(worker.snapshot) /\ Head(worker.snapshot) \in Entry
      BY DEF TypeOK, WorkerRecord, Range
    <2>5. worker.snapshot # <<>> => active'[Head(worker.snapshot)] = active[Head(worker.snapshot)]
      BY Zenon, <2>2, <2>3, <2>4 DEF TypeOK
    <2>6. Busy' /\ CutInv'
      BY Zenon, <2>1, <2>5 DEF Progress, Busy, CutInv, Fenced
    <2>7. DoneInv'
      <3>1. call'[c].pc = "notify"
        BY <2>1
      <3>2. \A d \in Caller : call'[d].pc \in {"join", "joining", "ok"} => d # c
        BY Zenon, <3>1
      <3> QED BY Zenon, <2>1, <3>2 DEF Progress, DoneInv
    <2> QED BY <2>6, <2>7 DEF Progress

  <1>DetachProgress.
      ASSUME TypeOK, Progress, NEW c \in Caller, NEW h \in Handle, NEW op \in {"detach", "drop"},
             Detach(c, h, op)
      PROVE  Progress'
    <2> USE <1>DetachProgress
    <2>1. DetachEffect(c, h, op)
      BY DetachType
    <2>2. UNCHANGED <<active, stop, done, worker>>
      BY Zenon, <2>1 DEF DetachEffect
    <2>3. CASE UNCHANGED call
      BY Zenon, <2>2, <2>3, <1>ApartKeeps
    <2>4. CASE /\ call'[c] = [pc |-> "store", op |-> op, handle |-> h]
               /\ \A d \in Caller \ {c} : call'[d] = call[d]
      <3>1. call'[c].pc = "store"
        BY <2>4
      <3> QED BY Zenon, <2>2, <2>4, <3>1, <1>ApartKeeps
    <2> QED BY Zenon, <2>1, <2>3, <2>4 DEF DetachEffect

  (* The flag of the attachment that is being served may go down. *)
  <1>DeactivateProgress.
      ASSUME TypeOK, Attachments, Progress, NEW c \in Caller, Deactivate(c)
      PROVE  Progress'
    <2> USE <1>DeactivateProgress
    <2> DEFINE e == handle[call[c].handle]
    <2>1. /\ UNCHANGED <<stop, done>> /\ call[c] \in DetachCall /\ call'[c].pc = "retain"
          /\ \A d \in Caller \ {c} : call'[d] = call[d]
          /\ active' = [active EXCEPT ![e] = FALSE]
          /\ worker'.pc = worker.pc /\ worker'.snapshot = worker.snapshot
          /\ worker'.cut = (worker.cut \/ (/\ worker.snapshot # <<>> /\ Head(worker.snapshot) = e
                                           /\ worker.pc = "call"))
      BY Zenon, DeactivateType
    <2>2. e \in Entry
      <3>1. call[c].handle \in Handle /\ e # None
        BY Zenon, <2>1 DEF Attachments, HandlesInUse, DetachCall
      <3> QED BY Zenon, <3>1 DEF TypeOK
    <2> HIDE DEF e
    <2>3. Busy'
      BY Zenon, <2>1 DEF Progress, Busy
    <2>4. \A x : x \in Entry /\ ~active[x] => ~active'[x]
      BY Zenon, <2>1, <2>2 DEF TypeOK
    <2>5. ~active'[e]
      BY Zenon, <2>1, <2>2 DEF TypeOK
    <2>6. worker.snapshot # <<>> => Head(worker.snapshot) \in Entry
      BY DEF TypeOK, WorkerRecord
    <2>7. CutInv'
      BY Zenon, <2>1, <2>2, <2>4, <2>5, <2>6 DEF Progress, Busy, CutInv, Fenced
    <2>8. DoneInv'
      BY <2>1 DEF Progress, DoneInv
    <2> QED BY Zenon, <2>3, <2>7, <2>8 DEF Progress

  <1>RetainApart.
      ASSUME TypeOK, Progress, NEW c \in Caller, Retain(c)
      PROVE  Progress'
    <2> USE <1>RetainApart
    <2>1. /\ UNCHANGED <<of, active, holds, work, stop, done, unseen, worker>>
          /\ \A d \in Caller \ {c} : call'[d] = call[d]
          /\ call'[c].pc = "notify" \/ call'[c] = Idle
      BY Zenon, RetainType
    <2>2. call'[c].pc \in {"notify", "idle"}
      BY Zenon, <2>1, <1>PlainCalls
    <2> QED BY Zenon, <2>1, <2>2, <1>ApartKeeps

  <1>NotifyProgress.
      ASSUME TypeOK, Progress, NEW c \in Caller, Notify(c)
      PROVE  Progress'
    <2> USE <1>NotifyProgress
    <2>1. /\ UNCHANGED <<active, stop, done>> /\ \A d \in Caller \ {c} : call'[d] = call[d]
          /\ worker'.pc = (IF worker.pc = "wait" THEN "woken" ELSE worker.pc)
          /\ worker'.snapshot = worker.snapshot /\ worker'.cut = worker.cut
      BY Zenon, NotifyType
    <2>2. call'[c] \in {Idle, [pc |-> "loop", op |-> "shutdown", late |-> FALSE]}
      BY Zenon, NotifyType
    <2>3. call'[c].pc \in {"idle", "loop"}
      BY <2>2 DEF Idle
    <2> QED BY Zenon, <2>1, <2>3 DEF Progress, Busy, CutInv, DoneInv, Fenced

  <1>PlainApart.
      ASSUME TypeOK, Progress, NEW c \in Caller,
             \/ Wake(c) \/ (\E i \in Identity : Finalize(c, i)) \/ Control(c) \/ ControlEach(c)
             \/ \E d \in Caller : CloneService(c, d)
      PROVE  Progress'
    <2> USE <1>PlainApart
    <2>1. CASE Wake(c) \/ (\E i \in Identity : Finalize(c, i))
      <3>1. /\ UNCHANGED <<active, stop, done, worker>> /\ call'[c] = [pc |-> "notify", op |-> "wake"]
            /\ \A d \in Caller \ {c} : call'[d] = call[d]
        BY Zenon, <2>1, <1>WakeType
      <3>2. call'[c].pc \notin {"join", "joining", "ok"}
        BY <3>1
      <3> QED BY Zenon, <3>1, <3>2, <1>ApartKeeps
    <2>2. CASE Control(c)
      <3>1. /\ UNCHANGED <<active, stop, done, worker>> /\ call'[c].pc = "control"
            /\ \A d \in Caller \ {c} : call'[d] = call[d]
        BY Zenon, <2>2, <1>ControlType
      <3> QED BY <3>1, <1>ApartKeeps
    <2>3. CASE ControlEach(c)
      <3>1. /\ UNCHANGED <<active, stop, done, worker>>
            /\ call'[c] \in {Idle, [pc |-> "notify", op |-> "wake"]} \/ call'[c] \in ControlCall
            /\ \A d \in Caller \ {c} : call'[d] = call[d]
        BY <2>3, <1>ControlEachType
      <3>2. call'[c].pc \in {"idle", "notify", "control"}
        BY Zenon, <3>1, <1>PlainCalls, SimpleCalls
      <3> QED BY Zenon, <3>1, <3>2, <1>ApartKeeps
    <2>4. CASE \E d \in Caller : CloneService(c, d)
      <3>1. UNCHANGED <<active, stop, done, worker, call>>
        BY Zenon, <2>4, <1>CloneType
      <3> QED BY Zenon, <3>1, <1>ApartKeeps
    <2> QED BY Zenon, <2>1, <2>2, <2>3, <2>4

  <1>StopProgress.
      ASSUME TypeOK, Progress, NEW c \in Caller, DropService(c) \/ Shutdown(c)
      PROVE  Progress'
    <2> USE <1>StopProgress
    <2>1. /\ UNCHANGED <<active, done>> /\ \A d \in Caller \ {c} : call'[d] = call[d]
          /\ worker'.pc = worker.pc /\ worker'.snapshot = worker.snapshot
          /\ \/ UNCHANGED <<stop, worker, call>>
             \/ /\ stop' = TRUE /\ worker'.cut = (worker.cut \/ worker.pc = "call")
                /\ call'[c] \in {[pc |-> "notify", op |-> "close"], [pc |-> "notify", op |-> "shutdown"]}
      BY Zenon, <1>DropServiceType, <1>ShutdownType
    <2>2. CASE UNCHANGED <<stop, worker, call>>
      BY <2>1, <2>2, <1>ApartKeeps
    <2>3. CASE /\ stop' = TRUE /\ worker'.cut = (worker.cut \/ worker.pc = "call")
               /\ call'[c] \in {[pc |-> "notify", op |-> "close"], [pc |-> "notify", op |-> "shutdown"]}
      <3>1. call'[c].pc = "notify"
        BY <2>3
      <3> QED BY Zenon, <2>1, <2>3, <3>1 DEF Progress, Busy, CutInv, DoneInv, Fenced
    <2> QED BY Zenon, <2>1, <2>2, <2>3

  <1>WaitingApart.
      ASSUME TypeOK, Progress, NEW c \in Caller, Waiting(c)
      PROVE  Progress'
    <2> USE <1>WaitingApart
    <2>1. /\ UNCHANGED <<active, stop, done, worker>> /\ \A d \in Caller \ {c} : call'[d] = call[d]
          /\ call'[c].pc \in {"join", "joining", "ok"} => done \/ call[c].pc \in {"join", "joining"}
      BY Zenon, WaitingType
    <2>2. call[c].pc \in {"join", "joining"} => done
      BY Zenon DEF Progress, DoneInv
    <2> QED BY <2>1, <2>2, <1>ApartKeeps

  <1>WorkerProgress.
      ASSUME TypeOK, Progress, WorkerMoves, UNCHANGED <<active, stop, call>>,
             done' = done \/ worker'.pc = "signal"
      PROVE  Progress'
    <2> USE <1>WorkerProgress
    <2>1. Busy'
      BY Zenon DEF WorkerMoves
    <2>2. CutInv'
      BY Zenon DEF Progress, CutInv, WorkerMoves
    <2>3. DoneInv'
      BY DEF Progress, DoneInv, WorkerMoves
    <2> QED BY Zenon, <2>1, <2>2, <2>3 DEF Progress

  <1>SignalProgress.
      ASSUME TypeOK, Progress, WorkerSignal
      PROVE  Progress'
    <2> USE <1>SignalProgress
    <2>0. Busy
      BY Zenon DEF Progress
    <2>1. /\ Busy' /\ UNCHANGED <<active, stop, done>>
          /\ worker.pc = "signal" /\ worker'.pc = "gone" /\ worker'.cut = worker.cut
          /\ \A c \in Caller : call'[c] = call[c] \/ call'[c].pc = "loop"
      BY Zenon, <2>0, <1>SignalMoves
    <2> QED BY <2>1 DEF Progress, CutInv, DoneInv

  <1>WorkerInv.
      ASSUME TypeOK, Attachments, Progress, Worker \/ WorkerPoll
      PROVE  TypeOK' /\ Attachments' /\ Progress'
    <2> USE <1>WorkerInv
    <2>0. Busy
      BY Zenon DEF Progress
    <2>1. CASE WorkerSignal
      BY Zenon, <2>0, <2>1, <1>SignalMoves, <1>SignalQuiet, <1>SignalProgress
    <2>2. CASE \/ WorkerCheck \/ WorkerScan \/ WorkerEach \/ WorkerFence \/ WorkerResponse \/ WorkerCommit
               \/ WorkerAfter \/ WorkerDecide \/ WorkerPoll \/ WorkerWoken \/ WorkerExit
      <3>1. WorkerMoves
        BY <2>0, <2>2, <1>WorkerStepMoves, <1>ScanMoves, <1>EachMoves, <1>CycleMoves
      <3>2. /\ UNCHANGED <<registry, of, active, handle, holds, stop, call>>
        BY Zenon, <2>2 DEF WorkerCheck, WorkerScan, WorkerEach, WorkerFence, WorkerResponse, WorkerCommit, WorkerAfter,
                    WorkerDecide, WorkerPoll, WorkerWoken, WorkerExit
      <3>3. done' = done \/ (done' = TRUE /\ worker'.pc = "signal")
        <4>1. CASE WorkerExit
          <5>1. done' = TRUE /\ Step("exit", "signal")
            BY Zenon, <4>1 DEF WorkerExit
          <5>2. worker'.pc = "signal"
            BY <5>1, <1>StepGoes DEF WorkerPC
          <5> QED BY Zenon, <5>1, <5>2
        <4> QED BY Zenon, <2>2, <4>1 DEF WorkerCheck, WorkerScan, WorkerEach, WorkerFence, WorkerResponse, WorkerCommit,
                                  WorkerAfter, WorkerDecide, WorkerPoll, WorkerWoken
      <3>4. TypeOK'
        BY Zenon, <3>1, <3>2, <3>3 DEF WorkerMoves, TypeOK
      <3> QED BY <2>0, <3>1, <3>2, <3>3, <3>4, <1>WorkerQuiet, <1>WorkerProgress
    <2> QED BY <2>1, <2>2 DEF Worker

  <1>StartInv.
      ASSUME TypeOK, Attachments, Progress, NEW c \in Caller, Start(c)
      PROVE  TypeOK' /\ Attachments' /\ Progress'
    <2> USE <1>StartInv
    <2>1. ASSUME NEW i \in Identity, NEW h \in Handle, Attach(c, i, h)
          PROVE  TypeOK' /\ Attachments' /\ Progress'
      BY Zenon, <2>1, <1>AttachType, <1>AttachKeeps, <1>AttachApart
    <2>2. ASSUME NEW h \in Handle, NEW op \in {"detach", "drop"}, Detach(c, h, op)
          PROVE  TypeOK' /\ Attachments' /\ Progress'
      BY Zenon, <2>2, DetachType, <1>DetachKeeps, <1>DetachProgress
    <2>3. CASE Wake(c) \/ \E i \in Identity : Finalize(c, i)
      BY <2>3, <1>WakeType, <1>WakeQuiet, <1>PlainApart
    <2>4. CASE Control(c)
      BY Zenon, <2>4, <1>ControlType, <1>ControlQuiet, <1>PlainApart
    <2>5. CASE Shutdown(c)
      BY Zenon, <2>5, <1>ShutdownType, <1>ShutdownQuiet, <1>StopProgress
    <2>6. CASE DropService(c)
      BY Zenon, <2>6, <1>DropServiceType, <1>DropServiceQuiet, <1>StopProgress
    <2>7. ASSUME NEW d \in Caller, CloneService(c, d)
          PROVE  TypeOK' /\ Attachments' /\ Progress'
      BY Zenon, <2>7, <1>CloneType, <1>CloneQuiet, <1>PlainApart
    <2> QED BY <2>1, <2>2, <2>3, <2>4, <2>5, <2>6, <2>7 DEF Start

  <1>ContinueInv.
      ASSUME TypeOK, SharesCounted, Attachments, Progress, NEW c \in Caller, Continue(c) \/ Deadline(c)
      PROVE  TypeOK' /\ Attachments' /\ Progress'
    <2> USE <1>ContinueInv
    <2>1. CASE AttachRefused(c)
      BY Zenon, <2>1, RefusedType, <1>RefusedQuiet, <1>AttachApart
    <2>2. CASE AttachExisting(c)
      BY Zenon, <2>2, AttachExistingType, <1>AttachExistingKeeps, <1>AttachApart
    <2>3. CASE AttachNew(c)
      BY Zenon, <2>3, AttachNewType, <1>AttachNewKeeps, <1>AttachNewProgress
    <2>4. CASE Retain(c)
      BY Zenon, <2>4, RetainType, <1>RetainKeeps, <1>RetainApart
    <2>8. CASE Deactivate(c)
      BY Zenon, <2>8, DeactivateType, <1>DeactivateKeeps, <1>DeactivateProgress
    <2>5. CASE Notify(c)
      BY Zenon, <2>5, NotifyType, <1>NotifyQuiet, <1>NotifyProgress
    <2>6. CASE ControlEach(c)
      BY Zenon, <2>6, <1>ControlEachType, <1>ControlEachQuiet, <1>PlainApart
    <2>7. CASE Waiting(c)
      BY Zenon, <2>7, WaitingType, <1>WaitingQuiet, <1>WaitingApart
    <2> QED BY Zenon, <2>1, <2>2, <2>3, <2>4, <2>5, <2>6, <2>7, <2>8 DEF Continue, Waiting

  <1>EligibleInv.
      ASSUME TypeOK, Attachments, Progress, NEW i \in Identity, Eligible(i)
      PROVE  TypeOK' /\ Attachments' /\ Progress'
    <2> USE <1>EligibleInv
    <2>1. UNCHANGED <<active, stop, done, worker, call>>
      BY <1>EligibleType
    <2> QED BY Zenon, <2>1, <1>EligibleType, <1>EligibleQuiet, <1>ApartKeeps

  <1>ServiceStutter.
      ASSUME TypeOK, Attachments, Progress, UNCHANGED vars
      PROVE  TypeOK' /\ Attachments' /\ Progress'
    <2> USE <1>ServiceStutter
    <2>1. TypeOK'
      BY Zenon DEF TypeOK, vars
    <2>2. Attachments'
      BY Zenon DEF vars, Attachments, RegistryDistinct, HandlesInUse, Handed, Detached, ActiveInv, Alive, Shared,
             Registered, Retaining
    <2>3. Progress'
      BY DEF vars, Progress, Busy, CutInv, DoneInv, Fenced
    <2> QED BY Zenon, <2>1, <2>2, <2>3

  <1>InvIs. ServiceInv <=> TypeOK /\ Attachments /\ Progress
    BY DEF ServiceInv, Progress
  <1> SUFFICES ASSUME ServiceInv, SharesCounted, [Next]_vars PROVE ServiceInv'
    OBVIOUS
  <1>0. TypeOK /\ Attachments /\ Progress
    BY Zenon, <1>InvIs
  <1>1. TypeOK' /\ Attachments' /\ Progress'
    <2>1. CASE Worker \/ WorkerPoll
      BY Zenon, <1>0, <2>1, <1>WorkerInv
    <2>2. ASSUME NEW i \in Identity, Eligible(i) PROVE TypeOK' /\ Attachments' /\ Progress'
      BY Zenon, <1>0, <2>2, <1>EligibleInv
    <2>3. ASSUME NEW c \in Caller, Start(c) PROVE TypeOK' /\ Attachments' /\ Progress'
      BY Zenon, <1>0, <2>3, <1>StartInv
    <2>4. ASSUME NEW c \in Caller, Continue(c) \/ Deadline(c) PROVE TypeOK' /\ Attachments' /\ Progress'
      BY Zenon, <1>0, <2>4, <1>ContinueInv
    <2>5. CASE UNCHANGED vars
      BY Zenon, <1>0, <2>5, <1>ServiceStutter
    <2> QED BY Zenon, <2>1, <2>2, <2>3, <2>4, <2>5 DEF Next
  <1> QED BY <1>1 DEF ServiceInv, Progress

(* A service with one attachment and no call in progress. *)
LEMMA FreshService ==
    ASSUME NEW e \in Entry, NEW h \in Handle, NEW i \in Identity,
           registry = <<e>>, of = [x \in Entry |-> i], active = [x \in Entry |-> x = e],
           handle = [x \in Handle |-> IF x = h THEN e ELSE None],
           holds \in [Caller -> BOOLEAN],
           work \in [Identity -> {"none", "due", "waiting", "unmounted"}],
           stop = FALSE, done = FALSE, unseen = FALSE,
           worker = [pc |-> "check", snapshot |-> NoSnapshot, progressed |-> FALSE, cut |-> FALSE],
           call \in [Caller -> {Idle, NoThread}]
    PROVE  ServiceInv
  <1>1. TypeOK
    <2>1. worker \in WorkerRecord
      BY DEF WorkerRecord, NoSnapshot
    <2>2. call \in [Caller -> CallType]
      BY Zenon, SimpleCalls
    <2>3. registry \in Seq(Entry) /\ of \in [Entry -> Identity] /\ active \in [Entry -> BOOLEAN]
      OBVIOUS
    <2>4. handle \in [Handle -> Entry \cup {None}]
      BY Zenon
    <2> QED BY Zenon, <2>1, <2>2, <2>3, <2>4 DEF TypeOK
  <1>2. \A c \in Caller : ~Handed(call[c]) /\ call[c].pc \in {"idle", "absent"}
    BY DEF Handed, Idle, NoThread, AttachCall, DetachCall
  <1>3. Range(registry) = {e} /\ Len(registry) = 1
    BY DEF Range
  <1>4. RegistryDistinct
    BY <1>3, ServiceAssumption DEF RegistryDistinct
  <1>5. HandlesInUse /\ Detached
    BY <1>2 DEF HandlesInUse, Detached, Handed
  <1>6. ActiveInv
    BY Zenon, <1>3 DEF ActiveInv
  <1>7. Busy /\ CutInv /\ DoneInv
    BY <1>2 DEF Busy, CutInv, DoneInv
  <1> QED BY <1>1, <1>4, <1>5, <1>6, <1>7 DEF ServiceInv, Attachments

(* The invariant holds initially. *)
LEMMA ServiceInit == Init => ServiceInv
  <1> SUFFICES ASSUME NEW threads \in SUBSET Caller, NEW identities \in SUBSET Identity,
                      Host(threads, identities)
               PROVE  ServiceInv
    BY Zenon DEF Init
  <1>1. PICK e \in Entry, i \in identities, h \in Handle, c \in threads :
        /\ registry = <<e>>
        /\ of = [x \in Entry |-> i]
        /\ active = [x \in Entry |-> x = e]
        /\ handle = [x \in Handle |-> IF x = h THEN e ELSE None]
        /\ holds = [x \in Caller |-> x = c]
        /\ work = [x \in Identity |-> IF x \in identities THEN "none" ELSE "unmounted"]
        /\ stop = FALSE /\ done = FALSE /\ unseen = FALSE
        /\ worker = [pc |-> "check", snapshot |-> NoSnapshot, progressed |-> FALSE, cut |-> FALSE]
        /\ call = [x \in Caller |-> IF x \in threads THEN Idle ELSE NoThread]
    BY Zenon DEF Host
  <1>2. /\ holds \in [Caller -> BOOLEAN] /\ call \in [Caller -> {Idle, NoThread}]
        /\ work \in [Identity -> {"none", "due", "waiting", "unmounted"}]
    BY Zenon, <1>1
  <1> QED BY Zenon, <1>1, <1>2, FreshService

(* Nothing is admitted once the service is stopping. *)
Admits ==
    \/ ~(Range(registry') \subseteq Range(registry))
    \/ \E h \in Handle : handle[h] = None /\ handle'[h] # None

(* Once the service stops, no step registers an entry or hands out an         *)
(* attachment.                                                                *)
LEMMA NothingAdmitted ==
    ASSUME ServiceInv, stop, [Next]_vars
    PROVE  ~Admits
  <1>0. TypeOK /\ Attachments /\ handle \in [Handle -> Entry \cup {None}]
    BY DEF ServiceInv, TypeOK
  <1>1. ASSUME UNCHANGED <<registry, handle>> PROVE ~Admits
    BY <1>1 DEF Admits
  <1>2. ASSUME NEW h, UNCHANGED registry, handle' = [handle EXCEPT ![h] = None] PROVE ~Admits
    BY <1>0, <1>2 DEF Admits
  <1>3. ASSUME NEW c \in Caller, NEW h \in Handle, NEW op \in {"detach", "drop"}, Detach(c, h, op) PROVE ~Admits
    <2>1. UNCHANGED registry
      BY Zenon, <1>3 DEF Detach
    <2>2. handle' = handle \/ handle' = [handle EXCEPT ![h] = None]
      <3>1. handle' = handle \/ handle' = [handle EXCEPT ![h] = IF op = "drop" THEN None ELSE @]
        BY <1>3 DEF Detach
      <3> QED BY Zenon, <3>1, <1>0
    <2> QED BY Zenon, <2>1, <2>2, <1>1, <1>2
  <1>4. ASSUME NEW c \in Caller, Retain(c) PROVE ~Admits
    <2>1. CASE registry' = Without(registry, handle[call[c].handle]) /\ UNCHANGED handle
      <3>1. registry \in Seq(Entry)
        BY Zenon, <1>0 DEF TypeOK
      <3>2. Range(registry') \subseteq Range(registry)
        BY <2>1, <3>1, WithoutIs
      <3> QED BY Zenon, <2>1, <3>2 DEF Admits
    <2>2. CASE /\ handle' = [handle EXCEPT ![call[c].handle] = IF call[c].op = "drop" THEN None ELSE @]
               /\ UNCHANGED registry
      <3>1. handle' = handle \/ handle' = [handle EXCEPT ![call[c].handle] = None]
        BY Zenon, <2>2, <1>0
      <3> QED BY Zenon, <3>1, <2>2, <1>1, <1>2
    <2> QED BY Zenon, <1>0, <1>4, <2>1, <2>2, RetainType
  <1>5. ASSUME NEW c \in Caller, Notify(c) PROVE ~Admits
    <2>1. UNCHANGED registry /\ (handle' = handle \/ handle' = [handle EXCEPT ![call[c].handle] = None])
      BY Zenon, <1>5 DEF Notify
    <2> QED BY <2>1, <1>1, <1>2
  <1>6. ASSUME NEW c \in Caller, AttachExisting(c) \/ AttachNew(c) PROVE FALSE
    BY <1>6 DEF AttachExisting, AttachNew, Refused
  <1>7. ASSUME NEW c \in Caller,
               \/ \E i \in Identity, h \in Handle : Attach(c, i, h)
               \/ Wake(c) \/ Control(c) \/ Shutdown(c) \/ DropService(c) \/ (\E i \in Identity : Finalize(c, i))
               \/ (\E d \in Caller : CloneService(c, d)) \/ AttachRefused(c) \/ ControlEach(c) \/ Deactivate(c)
        PROVE  UNCHANGED <<registry, handle>>
    BY Zenon, <1>7 DEF Attach, Wake, Control, Shutdown, DropService, Finalize, CloneService, AttachRefused, ControlEach,
                       Deactivate
  <1>8. ASSUME NEW c \in Caller, Waiting(c) PROVE UNCHANGED <<registry, handle>>
    BY Zenon, <1>0, <1>8, WaitingType
  <1>9. ASSUME Worker \/ WorkerPoll \/ \E i \in Identity : Eligible(i) PROVE UNCHANGED <<registry, handle>>
    BY Zenon, <1>9 DEF Worker, WorkerCheck, WorkerScan, WorkerEach, WorkerFence, WorkerResponse, WorkerCommit, WorkerAfter,
                WorkerDecide, WorkerPoll, WorkerWoken, WorkerExit, WorkerSignal, Eligible
  <1>10. ASSUME NEW c \in Caller, Start(c) PROVE ~Admits
    BY Zenon, <1>1, <1>3, <1>7, <1>10 DEF Start
  <1>11. ASSUME NEW c \in Caller, Continue(c) \/ Deadline(c) PROVE ~Admits
    BY Zenon, <1>1, <1>4, <1>5, <1>6, <1>7, <1>8, <1>11 DEF Continue, Waiting
  <1>12. ASSUME UNCHANGED vars PROVE ~Admits
    BY <1>1, <1>12 DEF vars
  <1> QED BY Zenon, <1>1, <1>9, <1>10, <1>11, <1>12 DEF Next

=============================================================================

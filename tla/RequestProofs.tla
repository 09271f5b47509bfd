---------------------------- MODULE RequestProofs -----------------------------
(***************************************************************************)
(* Proofs about the two things that a request from outside meets, each on    *)
(* its own: the mutation that makes it durable, for any threads, processes,   *)
(* requests and limit of keys, and the network front that admits it, for any  *)
(* connections, workers and limit.                                           *)
(*                                                                          *)
(* ExactlyOnce and SuccessIsDurable are inductive together with the types: a  *)
(* receipt is put only where there is none, so what they say of a receipt     *)
(* stays true.  NoResurrection needs one fact more, that a control mutation   *)
(* with a change was planned on a present document.  ReservationsExact        *)
(* counts: the running calls of a process and its reservations grow and       *)
(* shrink by one together, and so do the front's permits and the connections  *)
(* that hold one.                                                            *)
(***************************************************************************)
EXTENDS MutationOperations, NetworkFront, FiniteSetTheorems, TLAPS

(* A correction or deletion that will change its document has seen it. *)
PlannedOnPresent ==
    \A t \in Thread : pc[t] \in {"load", "commit"} /\ call[t].req.kind # "write"
                      /\ call[t].changes => call[t].seen # None

IInv == TypeOK /\ ExactlyOnce /\ SuccessIsDurable /\ PlannedOnPresent

(* What a thread that is not idle carries. *)
LEMMA Busy ==
    ASSUME TypeOK, NEW t \in Thread, pc[t] # "idle"
    PROVE  /\ call[t] \in Call /\ call[t].req \in Request
           /\ Identity(call[t].req) \in Identities /\ call[t].req.doc \in Doc
BY DEF TypeOK, Call, Identities, Identity, Doc

(* A request is not the absence of one: no call is mistaken for the idle one. *)
LEMMA IdleIsNoCall == Idle \notin Call
BY OperationAssumption DEF Idle, Call

(* The answer of a call is a step that keeps the types. *)
LEMMA AnsweredTypes ==
    ASSUME TypeOK, NEW t \in Thread, pc[t] # "idle", NEW a \in Answer, Answered(t, a),
           UNCHANGED <<docs, receipts, reserved, effects>>
    PROVE  TypeOK'
<1>1. call[t] \in Call
  BY Busy
<1>2. [call[t] EXCEPT !.answer = a] \in Call
  BY <1>1 DEF Call
<1>3. [call[t] EXCEPT !.answer = a] # Idle
  BY <1>2, IdleIsNoCall
<1>4. /\ call' = [call EXCEPT ![t] = [call[t] EXCEPT !.answer = a]]
      /\ pc' = [pc EXCEPT ![t] = "finish"]
  BY DEF Answered, Goto
<1> QED
  BY <1>2, <1>3, <1>4 DEF TypeOK

(* The commit keeps the types of what it writes. *)
LEMMA ApplyTypes ==
    ASSUME TypeOK, NEW t \in Thread, pc[t] # "idle", Apply(t)
    PROVE  /\ docs' \in [Doc -> Request \cup {None}]
           /\ receipts' \in [Identities -> Receipt \cup {None}]
           /\ effects' \in [Request -> Nat]
<1> DEFINE r == call[t].req
<1>1. /\ r \in Request /\ Identity(r) \in Identities /\ r.doc \in Doc
      /\ call[t].accepted \in BOOLEAN
  BY Busy DEF Call
<1>2. docs' \in [Doc -> Request \cup {None}]
  BY <1>1 DEF Apply, TypeOK
<1>3. effects' \in [Request -> Nat]
  BY <1>1 DEF Apply, TypeOK
<1>4. \A e \in {"changed", "noop"} :
          [intent |-> r, effect |-> e] \in Receipt
  BY <1>1 DEF Receipt
<1>5. PICK e \in {"changed", "noop"} :
          receipts' = [receipts EXCEPT ![Identity(r)] =
                         [intent |-> r, effect |-> e]]
  BY Zenon DEF Apply
<1>6. receipts' \in [Identities -> Receipt \cup {None}]
  BY <1>1, <1>4, <1>5 DEF TypeOK
<1> QED
  BY <1>2, <1>3, <1>6

(* A step of a call that is under way, to a place that is not idle, with what *)
(* it has learnt: the form of every step but the first and the last.          *)
LEMMA StepTypes ==
    ASSUME TypeOK, NEW t \in Thread, NEW c \in Call,
           NEW l \in {"preflight", "plan", "load", "commit", "reload", "finish", "done"},
           pc' = [pc EXCEPT ![t] = l], call' = [call EXCEPT ![t] = c]
    PROVE  /\ pc' \in [Thread -> {"idle", "preflight", "plan", "load", "commit", "reload",
                                  "finish", "done"}]
           /\ call' \in [Thread -> Call \cup {Idle}]
           /\ \A u \in Thread : pc'[u] = "idle" <=> call'[u] = Idle
<1>1. c # Idle
  BY IdleIsNoCall
<1> QED
  BY <1>1 DEF TypeOK

(* A plan records the document it has seen and two decisions. *)
LEMMA PlanShape ==
    ASSUME NEW t \in Thread,
           \/ \E accepted, changes \in BOOLEAN : PlanWrite(t, accepted, changes)
           \/ PlanControl(t)
    PROVE  \E a \in BOOLEAN, c \in BOOLEAN :
            call' = [call EXCEPT ![t] = [call[t] EXCEPT !.seen = docs[call[t].req.doc],
                                                        !.accepted = a, !.changes = c]]
<1>1. CASE \E accepted, changes \in BOOLEAN : PlanWrite(t, accepted, changes)
  <2>1. PICK a \in BOOLEAN, c \in BOOLEAN : PlanWrite(t, a, c)
    BY <1>1
  <2>2. call' = [call EXCEPT ![t] = [call[t] EXCEPT !.seen = docs[call[t].req.doc],
                                                    !.accepted = a, !.changes = c]]
    BY Zenon, <2>1 DEF PlanWrite
  <2> QED
    BY Zenon, <2>2
<1>2. CASE PlanControl(t)
  <2>1. (docs[call[t].req.doc] # None /\ ~call[t].req.dry) \in BOOLEAN
    OBVIOUS
  <2> QED
    BY Zenon, <1>2, <2>1 DEF PlanControl
<1> QED
  BY Zenon, <1>1, <1>2

(* The types are inductive. *)
LEMMA TypesInductive ==
    ASSUME TypeOK, [Next]_vars
    PROVE  TypeOK'
<1>1. ASSUME NEW t \in Thread, NEW r \in Request, Reserve(t, r)
      PROVE  TypeOK'
  <2>1. PICK a \in {None, "duplicated", "exhausted"} :
            /\ pc' = [pc EXCEPT ![t] = IF a = None THEN "preflight" ELSE "done"]
            /\ call' = [call EXCEPT ![t] = [Idle EXCEPT !.req = r, !.answer = a]]
            /\ \/ reserved' = reserved
               \/ reserved' = [reserved EXCEPT ![ProcessOf[t]] = @ \cup {r}]
    BY Zenon, <1>1 DEF Reserve, Goto
  <2>3. [Idle EXCEPT !.req = r, !.answer = a] \in Call
    BY Zenon DEF Idle, Call, Answer
  <2>4. /\ pc' \in [Thread -> {"idle", "preflight", "plan", "load", "commit", "reload",
                               "finish", "done"}]
        /\ call' \in [Thread -> Call \cup {Idle}]
        /\ \A u \in Thread : pc'[u] = "idle" <=> call'[u] = Idle
    BY Zenon, <2>1, <2>3, StepTypes
  <2>5. reserved' \in [Process -> SUBSET Request]
    BY <2>1, OperationAssumption DEF TypeOK
  <2> QED
    BY Zenon, <1>1, <2>4, <2>5 DEF Reserve, TypeOK
<1>2. ASSUME NEW t \in Thread, Preflight(t) \/ Load(t) \/ CommitLoses(t)
      PROVE  TypeOK'
  <2>1. pc[t] # "idle" /\ UNCHANGED <<docs, receipts, reserved, effects>>
    BY Zenon, <1>2 DEF Preflight, Load, CommitLoses
  <2>2. \/ \E a \in Answer : Answered(t, a)
        \/ /\ UNCHANGED call
           /\ \E l \in {"plan", "commit", "reload"} : Goto(t, l)
    BY Zenon, <1>2 DEF Preflight, Load, CommitLoses, Answer, Reported, Lookup
  <2>3. CASE \E a \in Answer : Answered(t, a)
    BY <2>1, <2>3, AnsweredTypes
  <2>4. CASE UNCHANGED call /\ \E l \in {"plan", "commit", "reload"} : Goto(t, l)
    BY <2>1, <2>4 DEF TypeOK, Goto
  <2> QED
    BY <2>2, <2>3, <2>4
<1>3. ASSUME NEW t \in Thread,
             \/ \E accepted, changes \in BOOLEAN : PlanWrite(t, accepted, changes)
             \/ PlanControl(t)
      PROVE  TypeOK'
  <2>1. pc[t] # "idle" /\ UNCHANGED <<docs, receipts, reserved, effects>> /\ Goto(t, "load")
    BY Zenon, <1>3 DEF PlanWrite, PlanControl
  <2>2. call[t] \in Call /\ docs[call[t].req.doc] \in Request \cup {None}
    BY <2>1, Busy DEF TypeOK
  <2>3. PICK a \in BOOLEAN, c \in BOOLEAN :
            call' = [call EXCEPT ![t] = [call[t] EXCEPT !.seen = docs[call[t].req.doc],
                                                        !.accepted = a, !.changes = c]]
    BY Zenon, <1>3, PlanShape
  <2>4. [call[t] EXCEPT !.seen = docs[call[t].req.doc], !.accepted = a, !.changes = c] \in Call
    BY Zenon, <2>2 DEF Call
  <2>5. pc' = [pc EXCEPT ![t] = "load"]
    BY <2>1 DEF Goto
  <2> QED
    BY Zenon, <2>1, <2>3, <2>4, <2>5, StepTypes DEF TypeOK
<1>4. ASSUME NEW t \in Thread, Commit(t) \/ CommitUnconfirmed(t)
      PROVE  TypeOK'
  <2>1. pc[t] # "idle" /\ Apply(t) /\ UNCHANGED reserved
        /\ \E a \in Answer : Answered(t, a)
    BY <1>4 DEF Commit, CommitUnconfirmed, Answer, Reported
  <2>2. PICK a \in Answer : Answered(t, a)
    BY <2>1
  <2>3. [call[t] EXCEPT !.answer = a] \in Call
    BY <2>1, Busy DEF Call
  <2>4. /\ pc' = [pc EXCEPT ![t] = "finish"]
        /\ call' = [call EXCEPT ![t] = [call[t] EXCEPT !.answer = a]]
    BY <2>2 DEF Answered, Goto
  <2> QED
    BY Zenon, <2>1, <2>3, <2>4, ApplyTypes, StepTypes DEF TypeOK
<1>5. ASSUME NEW t \in Thread, Reload(t) \/ Fails(t)
      PROVE  TypeOK'
  <2>1. pc[t] # "idle" /\ UNCHANGED <<docs, receipts, reserved, effects>>
    BY <1>5 DEF Reload, Fails
  <2>2. \E a \in Answer : Answered(t, a)
    BY <1>5 DEF Reload, Fails, Answer, Reported
  <2> QED
    BY <2>1, <2>2, AnsweredTypes
<1>6. ASSUME NEW t \in Thread, NEW wakes \in BOOLEAN, Finish(t, wakes)
      PROVE  TypeOK'
  <2>1. pc[t] # "idle" /\ pc' = [pc EXCEPT ![t] = "done"]
    BY <1>6 DEF Finish, Goto
  <2>2. /\ call[t] \in Call /\ [call[t] EXCEPT !.answer = "error"] \in Call
    BY <2>1, Busy DEF Call, Answer
  <2>3. \E c \in Call : call' = [call EXCEPT ![t] = c]
    <3>1. \/ call' = call
          \/ call' = [call EXCEPT ![t] = [call[t] EXCEPT !.answer = "error"]]
      BY <1>6 DEF Finish
    <3>2. call = [call EXCEPT ![t] = call[t]]
      BY DEF TypeOK
    <3> QED
      BY <2>2, <3>1, <3>2
  <2>4. reserved' \in [Process -> SUBSET Request]
    BY <1>6, OperationAssumption DEF Finish, TypeOK
  <2> QED
    BY Zenon, <1>6, <2>1, <2>3, <2>4, StepTypes DEF Finish, TypeOK
<1>7. ASSUME NEW t \in Thread, Return(t)
      PROVE  TypeOK'
  BY <1>7 DEF Return, Goto, TypeOK
<1>8. ASSUME NEW p \in Process, Crash(p)
      PROVE  TypeOK'
  BY <1>8 DEF Crash, TypeOK
<1>9. CASE UNCHANGED vars
  BY <1>9 DEF vars, TypeOK
<1> QED
  BY <1>1, <1>2, <1>3, <1>4, <1>5, <1>6, <1>7, <1>8, <1>9 DEF Next

(* Steps that leave the store alone. *)
Aside(t) ==
    \/ \E r \in Request : Reserve(t, r)
    \/ Preflight(t) \/ Load(t) \/ CommitLoses(t) \/ Reload(t) \/ Fails(t)
    \/ \E accepted, changes \in BOOLEAN : PlanWrite(t, accepted, changes)
    \/ PlanControl(t) \/ Return(t)
    \/ \E wakes \in BOOLEAN : Finish(t, wakes)

(* Documents, receipts and effects change only in a commit whose preconditions hold. *)
LEMMA Steps ==
    ASSUME [Next]_vars
    PROVE  \/ UNCHANGED <<docs, receipts, effects>>
           \/ \E t \in Thread : /\ Commit(t) \/ CommitUnconfirmed(t)
                               /\ pc[t] = "commit" /\ Preconditions(t) /\ Apply(t)
<1>1. ASSUME NEW t \in Thread, Aside(t)
      PROVE  UNCHANGED <<docs, receipts, effects>>
  BY Zenon, <1>1 DEF Aside, Reserve, Preflight, Load, CommitLoses, Reload, Fails, PlanWrite,
              PlanControl, Return, Finish
<1>2. ASSUME NEW p \in Process, Crash(p)
      PROVE  UNCHANGED <<docs, receipts, effects>>
  BY <1>2 DEF Crash
<1>3. CASE UNCHANGED vars
  BY <1>3 DEF vars
<1>4. ASSUME NEW t \in Thread, Commit(t) \/ CommitUnconfirmed(t)
      PROVE  pc[t] = "commit" /\ Preconditions(t) /\ Apply(t)
  BY <1>4 DEF Commit, CommitUnconfirmed
<1> QED
  BY <1>1, <1>2, <1>3, <1>4 DEF Next, Aside

(* No step changes a receipt that is there. *)
LEMMA ReceiptsKept ==
    ASSUME TypeOK, [Next]_vars, NEW i \in Identities, receipts[i] # None
    PROVE  receipts'[i] = receipts[i]
<1>1. CASE UNCHANGED <<docs, receipts, effects>>
  BY Zenon, <1>1
<1>2. ASSUME NEW t \in Thread, Preconditions(t), Apply(t)
      PROVE  receipts'[i] = receipts[i]
  BY Zenon, <1>2 DEF Preconditions, Apply, TypeOK
<1> QED
  BY <1>1, <1>2, Steps

(* The receipt a commit leaves behind. *)
LEMMA ApplyReceipt ==
    ASSUME TypeOK, NEW t \in Thread, pc[t] = "commit", Apply(t)
    PROVE  /\ receipts'[Identity(call[t].req)] # None
           /\ receipts'[Identity(call[t].req)].intent = call[t].req
           /\ call[t].changes => receipts'[Identity(call[t].req)].effect = "changed"
<1> DEFINE q == call[t].req
<1>1. q \in Request /\ Identity(q) \in Identities
  BY Busy
<1>2. PICK e \in {"changed", "noop"} :
          /\ call[t].changes => e = "changed"
          /\ receipts' = [receipts EXCEPT ![Identity(q)] =
                            [intent |-> q, effect |-> e]]
  BY Zenon DEF Apply
<1>3. receipts'[Identity(q)] = [intent |-> q, effect |-> e]
  BY Zenon, <1>1, <1>2 DEF TypeOK
<1>4. receipts'[Identity(q)] \in Receipt
  BY <1>1, <1>3, Busy DEF Receipt, Call
<1> QED
  BY <1>2, <1>3, <1>4, OperationAssumption

(* An effect needs its receipt to be absent, and brings it. *)
LEMMA OnceInductive ==
    ASSUME TypeOK, ExactlyOnce, [Next]_vars
    PROVE  ExactlyOnce'
<1>1. CASE UNCHANGED <<docs, receipts, effects>>
  BY Zenon, <1>1 DEF ExactlyOnce
<1>2. ASSUME NEW t \in Thread, pc[t] = "commit", Preconditions(t), Apply(t)
      PROVE  ExactlyOnce'
  <2> DEFINE q == call[t].req
  <2>1. /\ q \in Request /\ Identity(q) \in Identities /\ receipts[Identity(q)] = None
    BY <1>2, Busy DEF Preconditions
  <2>2. effects[q] = 0
    BY <2>1 DEF ExactlyOnce, TypeOK
  <2>3. /\ receipts'[Identity(q)] # None /\ receipts'[Identity(q)].intent = q
        /\ call[t].changes => receipts'[Identity(q)].effect = "changed"
    BY Zenon, <1>2, ApplyReceipt
  <2>4. /\ effects'[q] <= 1
        /\ effects'[q] = 1 => call[t].changes
    BY <1>2, <2>1, <2>2 DEF Apply, TypeOK
  <2>5. ASSUME NEW r \in Request, r # q
        PROVE  effects'[r] = effects[r]
    BY Zenon, <1>2, <2>5 DEF Apply, TypeOK
  <2>6. ASSUME NEW r \in Request, r # q, effects[r] = 1
        PROVE  receipts'[Identity(r)] = receipts[Identity(r)]
    BY <1>2, <2>1, <2>6 DEF Apply, TypeOK, ExactlyOnce
  <2> QED
    BY Zenon, <2>3, <2>4, <2>5, <2>6 DEF ExactlyOnce
<1> QED
  BY <1>1, <1>2, Steps

(* The store holds the receipt of request r for good. *)
Receipted(r) == receipts[Identity(r)] # None /\ receipts[Identity(r)].intent = r
StillReceipted(r) == receipts'[Identity(r)] # None /\ receipts'[Identity(r)].intent = r

(* A receipt with its intent stays. *)
LEMMA ReceiptedStays ==
    ASSUME TypeOK, [Next]_vars, NEW r \in Request, Receipted(r)
    PROVE  StillReceipted(r)
<1>1. Identity(r) \in Identities
  BY Zenon DEF Identities
<1> QED
  BY <1>1, ReceiptsKept DEF Receipted, StillReceipted

(* A success is answered where the receipt is found or has just been put. *)
LEMMA SuccessInductive ==
    ASSUME TypeOK, SuccessIsDurable, [Next]_vars
    PROVE  SuccessIsDurable'
<1> DEFINE Good(u) == call'[u].answer \in {"accepted", "replayed"} =>
                         call'[u].req \in Request /\ StillReceipted(call'[u].req)
<1>1. ASSUME NEW u \in Thread, call'[u].req = call[u].req,
             call'[u].answer = call[u].answer \/ call'[u].answer = "error"
      PROVE  Good(u)
  <2>1. SUFFICES ASSUME call[u].answer \in {"accepted", "replayed"}
                 PROVE  call[u].req \in Request /\ StillReceipted(call[u].req)
    BY Zenon, <1>1
  <2>2. pc[u] # "idle"
    BY <2>1, OperationAssumption DEF TypeOK, Idle, Answer
  <2>3. call[u].req \in Request /\ Receipted(call[u].req)
    BY <2>1, <2>2, Busy DEF SuccessIsDurable, Receipted
  <2> QED
    BY Zenon, <2>3, ReceiptedStays
<1>2. ASSUME NEW t \in Thread, NEW u \in Thread, NEW a, NEW l, Goto(t, l),
             call' = [call EXCEPT ![t].answer = a], pc[t] # "idle",
             a \in {"accepted", "replayed"} => StillReceipted(call[t].req)
      PROVE  Good(u)
  <2>1. call[t] \in Call /\ call[t].req \in Request
    BY <1>2, Busy
  <2>2. CASE u = t
    <3>1. call'[t].req = call[t].req /\ call'[t].answer = a
      BY <1>2, <2>1 DEF TypeOK, Call
    <3> QED
      BY <1>2, <2>1, <2>2, <3>1
  <2>3. CASE u # t
    <3>1. call'[u] = call[u]
      BY <1>2, <2>3 DEF TypeOK
    <3> QED
      BY <3>1, <1>1
  <2> QED
    BY <2>2, <2>3
<1>3. ASSUME NEW t \in Thread, NEW u \in Thread, pc[t] # "idle", NEW a, Answered(t, a),
             a = "replayed" => Lookup(call[t].req) = "same", a # "accepted"
      PROVE  Good(u)
  <2>1. call[t].req \in Request
    BY <1>3, Busy
  <2>2. a = "replayed" => Receipted(call[t].req)
    BY <1>3 DEF Lookup, Receipted
  <2>3. a \in {"accepted", "replayed"} => StillReceipted(call[t].req)
    BY Zenon, <1>3, <2>1, <2>2, ReceiptedStays
  <2> QED
    BY Zenon, <1>2, <1>3, <2>3 DEF Answered
<1>4. ASSUME NEW t \in Thread, NEW u \in Thread, Aside(t)
      PROVE  Good(u)
  <2>1. CASE \E r \in Request : Reserve(t, r)
    <3>1. PICK r \in Request, a \in {None, "duplicated", "exhausted"} :
              call' = [call EXCEPT ![t] = [Idle EXCEPT !.req = r, !.answer = a]]
      BY Zenon, <2>1 DEF Reserve
    <3>2. [Idle EXCEPT !.req = r, !.answer = a].answer = a
      BY DEF Idle
    <3>3. CASE u = t
      BY <3>1, <3>2, <3>3, OperationAssumption DEF TypeOK, Answer
    <3>4. CASE u # t
      BY Zenon, <3>1, <3>4, <1>1 DEF TypeOK
    <3> QED
      BY <3>3, <3>4
  <2>2. CASE Preflight(t) \/ Load(t) \/ CommitLoses(t) \/ Reload(t) \/ Fails(t)
    <3>1. pc[t] # "idle"
      BY Zenon, <2>2 DEF Preflight, Load, CommitLoses, Reload, Fails
    <3>2. \/ call' = call
          \/ \E a \in Answer : /\ Answered(t, a) /\ a # "accepted"
                               /\ a = "replayed" => Lookup(call[t].req) = "same"
      <4>1. CASE Preflight(t)
        BY Zenon, <4>1 DEF Preflight, Lookup, Answer
      <4>2. CASE Load(t)
        BY Zenon, <4>2 DEF Load, Lookup, Reported, Answer
      <4>3. CASE CommitLoses(t)
        BY <4>3 DEF CommitLoses
      <4>4. CASE Reload(t)
        BY <4>4 DEF Reload, Reported, Answer
      <4>5. CASE Fails(t)
        BY <4>5 DEF Fails, Answer
      <4> QED
        BY <2>2, <4>1, <4>2, <4>3, <4>4, <4>5
    <3>3. CASE call' = call
      BY <3>3, <1>1
    <3>4. CASE \E a \in Answer : /\ Answered(t, a) /\ a # "accepted"
                                 /\ a = "replayed" => Lookup(call[t].req) = "same"
      <4>1. PICK a \in Answer : /\ Answered(t, a) /\ a # "accepted"
                                /\ a = "replayed" => Lookup(call[t].req) = "same"
        BY <3>4
      <4> QED
        BY <3>1, <4>1, <1>3
    <3> QED
      BY <3>2, <3>3, <3>4
  <2>3. CASE \/ \E accepted, changes \in BOOLEAN : PlanWrite(t, accepted, changes)
             \/ PlanControl(t)
    <3>1. /\ pc[t] # "idle"
          /\ \E a \in BOOLEAN, c \in BOOLEAN :
                call' = [call EXCEPT ![t] = [call[t] EXCEPT !.seen = docs[call[t].req.doc],
                                                            !.accepted = a, !.changes = c]]
      BY Zenon, <2>3, PlanShape DEF PlanWrite, PlanControl
    <3>2. call[t] \in Call
      BY <3>1, Busy
    <3>3. call'[u].req = call[u].req /\ call'[u].answer = call[u].answer
      BY <3>1, <3>2 DEF TypeOK, Call
    <3> QED
      BY <3>3, <1>1
  <2>4. CASE Return(t)
    <3>1. call' = [call EXCEPT ![t] = Idle]
      BY Zenon, <2>4 DEF Return
    <3>2. CASE u = t
      BY Zenon, <3>1, <3>2, OperationAssumption DEF TypeOK, Idle, Answer
    <3>3. CASE u # t
      BY Zenon, <3>1, <3>3, <1>1 DEF TypeOK
    <3> QED
      BY <3>2, <3>3
  <2>5. CASE \E wakes \in BOOLEAN : Finish(t, wakes)
    <3>1. pc[t] # "idle" /\ (call' = call \/ call' = [call EXCEPT ![t].answer = "error"])
      BY <2>5 DEF Finish
    <3>2. call[t] \in Call
      BY <3>1, Busy
    <3>3. /\ call'[u].req = call[u].req
          /\ call'[u].answer = call[u].answer \/ call'[u].answer = "error"
      BY <3>1, <3>2 DEF TypeOK, Call
    <3> QED
      BY <3>3, <1>1
  <2> QED
    BY Zenon, <1>4, <2>1, <2>2, <2>3, <2>4, <2>5 DEF Aside
<1>5. ASSUME NEW t \in Thread, NEW u \in Thread, Commit(t) \/ CommitUnconfirmed(t)
      PROVE  Good(u)
  <2>1. pc[t] = "commit" /\ Apply(t) /\ \E a : Answered(t, a)
    BY <1>5 DEF Commit, CommitUnconfirmed
  <2>2. PICK a : Answered(t, a)
    BY Zenon, <2>1
  <2>3. StillReceipted(call[t].req)
    BY Zenon, <2>1, ApplyReceipt DEF StillReceipted
  <2> QED
    BY Zenon, <1>2, <2>1, <2>2, <2>3 DEF Answered
<1>6. ASSUME NEW p \in Process, NEW u \in Thread, Crash(p)
      PROVE  Good(u)
  <2>1. call'[u] = call[u] \/ call'[u] = Idle
    BY Zenon, <1>6 DEF Crash
  <2>2. CASE call'[u] = Idle
    BY <2>2, OperationAssumption DEF Idle, Answer
  <2> QED
    BY Zenon, <2>1, <2>2, <1>1
<1>7. ASSUME NEW u \in Thread, UNCHANGED vars
      PROVE  Good(u)
  BY Zenon, <1>1, <1>7 DEF vars
<1>8. \A u \in Thread : Good(u)
  BY Zenon, <1>4, <1>5, <1>6, <1>7 DEF Next, Aside
<1> QED
  BY <1>8 DEF SuccessIsDurable, StillReceipted

(* What a control mutation has seen stays in its call. *)
LEMMA PlannedInductive ==
    ASSUME TypeOK, PlannedOnPresent, [Next]_vars
    PROVE  PlannedOnPresent'
<1> DEFINE Good(u) == pc'[u] \in {"load", "commit"} /\ call'[u].req.kind # "write"
                      /\ call'[u].changes => call'[u].seen # None
<1>1. ASSUME NEW u \in Thread, call'[u] = call[u], pc'[u] = pc[u] \/ pc[u] = "load"
      PROVE  Good(u)
  BY Zenon, <1>1 DEF PlannedOnPresent
<1>2. ASSUME NEW u \in Thread, pc'[u] \notin {"load", "commit"}
      PROVE  Good(u)
  BY <1>2
<1>3. ASSUME NEW t \in Thread, NEW u \in Thread, PlanControl(t)
      PROVE  Good(u)
  <2>1. CASE u = t
    <3>1. call[t] \in Call
      BY Zenon, <1>3, Busy DEF PlanControl
    <3>2. /\ call'[t].seen = docs[call[t].req.doc]
          /\ call'[t].changes = (docs[call[t].req.doc] # None /\ ~call[t].req.dry)
      BY <1>3, <3>1 DEF PlanControl, TypeOK, Call
    <3> QED
      BY Zenon, <2>1, <3>2
  <2>2. CASE u # t
    BY Zenon, <1>1, <1>3, <2>2 DEF PlanControl, Goto, TypeOK
  <2> QED
    BY <2>1, <2>2
<1>4. ASSUME NEW t \in Thread, NEW u \in Thread, NEW accepted \in BOOLEAN,
             NEW changes \in BOOLEAN, PlanWrite(t, accepted, changes)
      PROVE  Good(u)
  <2>1. CASE u = t
    <3>1. call[t] \in Call
      BY Zenon, <1>4, Busy DEF PlanWrite
    <3>2. call'[t].req = call[t].req
      BY <1>4, <3>1 DEF PlanWrite, TypeOK, Call
    <3> QED
      BY Zenon, <1>4, <2>1, <3>2 DEF PlanWrite
  <2>2. CASE u # t
    BY Zenon, <1>1, <1>4, <2>2 DEF PlanWrite, Goto, TypeOK
  <2> QED
    BY Zenon, <2>1, <2>2
<1>5. ASSUME NEW t \in Thread, NEW u \in Thread, u # t,
             \/ \E r \in Request : Reserve(t, r)
             \/ Preflight(t) \/ Load(t) \/ CommitLoses(t) \/ Reload(t) \/ Fails(t)
             \/ Return(t) \/ Commit(t) \/ CommitUnconfirmed(t)
             \/ \E wakes \in BOOLEAN : Finish(t, wakes)
      PROVE  call'[u] = call[u] /\ pc'[u] = pc[u]
  <2>1. \E c, l : call' = [call EXCEPT ![t] = c] /\ pc' = [pc EXCEPT ![t] = l]
    <3>1. call = [call EXCEPT ![t] = call[t]]
      BY DEF TypeOK
    <3>2. CASE Preflight(t) \/ Load(t) \/ CommitLoses(t) \/ Reload(t) \/ Fails(t)
      BY Zenon, <3>1, <3>2 DEF Preflight, Load, CommitLoses, Reload, Fails, Answered, Goto, Lookup
    <3>3. CASE Commit(t) \/ CommitUnconfirmed(t) \/ Return(t)
      BY <3>3 DEF Commit, CommitUnconfirmed, Return, Answered, Goto
    <3>4. CASE \E r \in Request : Reserve(t, r)
      BY Zenon, <3>4 DEF Reserve, Goto
    <3>5. CASE \E wakes \in BOOLEAN : Finish(t, wakes)
      BY Zenon, <3>1, <3>5 DEF Finish, Goto
    <3> QED
      BY <1>5, <3>2, <3>3, <3>4, <3>5
  <2> QED
    BY Zenon, <1>5, <2>1 DEF TypeOK
<1>6. ASSUME NEW t \in Thread,
             \/ \E r \in Request : Reserve(t, r)
             \/ Preflight(t) \/ Load(t) \/ CommitLoses(t) \/ Reload(t) \/ Fails(t)
             \/ Return(t) \/ Commit(t) \/ CommitUnconfirmed(t)
             \/ \E wakes \in BOOLEAN : Finish(t, wakes)
      PROVE  pc'[t] \notin {"load", "commit"} \/ (pc[t] = "load" /\ call' = call)
  BY Zenon, <1>6 DEF Reserve, Preflight, Load, CommitLoses, Reload, Fails, Return, Commit,
              CommitUnconfirmed, Finish, Answered, Goto, TypeOK, Lookup
<1>7. ASSUME NEW p \in Process, NEW u \in Thread, Crash(p)
      PROVE  pc'[u] = "idle" \/ (call'[u] = call[u] /\ pc'[u] = pc[u])
  BY Zenon, <1>7 DEF Crash
<1>8. ASSUME NEW u \in Thread, UNCHANGED vars
      PROVE  Good(u)
  BY Zenon, <1>1, <1>8 DEF vars
<1>9. ASSUME NEW t \in Thread, NEW u \in Thread,
             \/ \E r \in Request : Reserve(t, r)
             \/ Preflight(t) \/ Load(t) \/ CommitLoses(t) \/ Reload(t) \/ Fails(t)
             \/ Return(t) \/ Commit(t) \/ CommitUnconfirmed(t)
             \/ \E wakes \in BOOLEAN : Finish(t, wakes)
      PROVE  Good(u)
  BY <1>1, <1>2, <1>5, <1>6, <1>9
<1> QED
  <2>1. \A u \in Thread : Good(u)
    BY Zenon, <1>1, <1>2, <1>3, <1>4, <1>7, <1>8, <1>9 DEF Next
  <2> QED
    BY Zenon, <2>1 DEF PlannedOnPresent

---------------------------------------------------------------------------
(* Every reachable state satisfies the inductive invariant: the types, one     *)
(* effect per identity, durable successes, and plans on present documents.     *)
THEOREM OperationsInductive == Spec => []IInv
<1>1. Init => IInv
  <2>1. ASSUME Init PROVE TypeOK
    BY <2>1 DEF Init, TypeOK
  <2>2. ASSUME Init PROVE ExactlyOnce
    BY <2>2 DEF Init, ExactlyOnce
  <2>3. ASSUME Init PROVE SuccessIsDurable
    BY Zenon, <2>3, OperationAssumption DEF Init, SuccessIsDurable, Idle, Answer
  <2>4. ASSUME Init PROVE PlannedOnPresent
    BY <2>4 DEF Init, PlannedOnPresent
  <2> QED
    BY <2>1, <2>2, <2>3, <2>4 DEF IInv
<1>2. IInv /\ [Next]_vars => IInv'
  BY TypesInductive, OnceInductive, SuccessInductive, PlannedInductive DEF IInv
<1> QED
  BY <1>1, <1>2, PTL DEF Spec

(* A mutation takes effect at most once under its identity, and only with its  *)
(* receipt, whatever is retried, lost or crashed                               *)
(* (commit_memory_mutation_operation...).                                      *)
THEOREM EffectsAreOnce == Spec => []ExactlyOnce
<1>1. IInv => ExactlyOnce
  BY DEF IInv
<1> QED
  BY <1>1, OperationsInductive, PTL

(* Accepted and replayed are answered only with the receipt in the store.      *)
THEOREM SuccessesAreDurable == Spec => []SuccessIsDurable
<1>1. IInv => SuccessIsDurable
  BY DEF IInv
<1> QED
  BY <1>1, OperationsInductive, PTL

(* No step replaces or loses a receipt (append_mutation_operation_records).    *)
THEOREM ReceiptsAreStable == Spec => ReceiptsStay
<1>1. IInv /\ [Next]_vars =>
        [\A i \in Identities : receipts[i] # None => receipts'[i] = receipts[i]]_vars
  BY ReceiptsKept DEF IInv
<1> QED
  BY <1>1, OperationsInductive, PTL DEF Spec, ReceiptsStay

(* Only a write creates a document: a correction never brings one back.        *)
THEOREM NothingIsResurrected == Spec => NoResurrection
<1> DEFINE Creates == \A d \in Doc : docs[d] = None /\ docs'[d] # None =>
                                       docs'[d].kind = "write"
<1>1. IInv /\ [Next]_vars => [Creates]_vars
  <2>1. SUFFICES ASSUME IInv, [Next]_vars PROVE Creates
    BY Zenon
  <2>2. CASE UNCHANGED <<docs, receipts, effects>>
    BY Zenon, <2>2
  <2>3. ASSUME NEW t \in Thread, pc[t] = "commit", Preconditions(t), Apply(t)
        PROVE  Creates
    <3> DEFINE r == call[t].req
    <3>1. r \in Request /\ r.doc \in Doc
      BY <2>1, <2>3, Busy DEF IInv
    <3>2. SUFFICES ASSUME NEW d \in Doc, docs[d] = None, docs'[d] # None
                   PROVE  docs'[d].kind = "write"
      BY Zenon
    <3>3. d = r.doc /\ call[t].changes /\ docs'[d] = r
      BY Zenon, <2>1, <2>3, <3>1, <3>2 DEF Apply, IInv, TypeOK
    <3>4. call[t].seen = None
      BY Zenon, <2>3, <3>2, <3>3 DEF Preconditions
    <3> QED
      BY Zenon, <2>1, <2>3, <3>3, <3>4 DEF IInv, PlannedOnPresent
  <2> QED
    BY Zenon, <2>1, <2>2, <2>3, Steps
<1> QED
  BY <1>1, OperationsInductive, PTL DEF Spec, NoResurrection

---------------------------------------------------------------------------
(* Reservations. *)


Runs(t) == pc[t] \notin {"idle", "done"}
Running(p) == {t \in Thread : ProcessOf[t] = p /\ Runs(t)}

(* The running calls of a process and its reservations, one to one. *)
Paired(p) ==
    /\ IsFiniteSet(Running(p)) /\ IsFiniteSet(reserved[p])
    /\ Cardinality(Running(p)) = Cardinality(reserved[p]) /\ Cardinality(reserved[p]) <= MaxKeys
    /\ \A t \in Running(p) : call[t].req \in reserved[p]
    /\ \A r \in reserved[p] : \E t \in Running(p) : call[t].req = r
    /\ \A s, t \in Running(p) : call[s].req.key = call[t].req.key => s = t

AllPaired == MaxKeys > 0 => \A p \in Process : Paired(p)

(* A step that neither begins nor ends a call, nor changes its request. *)
Stays(t) == (Runs(t)' <=> Runs(t)) /\ (Runs(t) => call'[t].req = call[t].req)

(* A process none of whose threads moves keeps its pairing. *)
LEMMA QuietKeeps ==
    ASSUME NEW p \in Process, Paired(p), reserved'[p] = reserved[p],
           \A t \in Thread : ProcessOf[t] = p => Stays(t)
    PROVE  Paired(p)'
<1>1. Running(p)' = Running(p)
  BY Zenon DEF Running, Stays
<1>2. \A t \in Running(p) : call'[t].req = call[t].req
  BY Zenon DEF Running, Stays
<1> QED
  BY <1>1, <1>2 DEF Paired

(* A call of t begins with a key that is not in flight, within the limit. *)
LEMMA BeginKeeps ==
    ASSUME NEW t \in Thread, NEW r \in Request, NEW p \in Process, ProcessOf[t] = p, MaxKeys > 0,
           Paired(p), ~Runs(t), Runs(t)', call'[t].req = r, InFlight(t, r) = {}, ~Full(t),
           reserved'[p] = reserved[p] \cup {r},
           \A u \in Thread \ {t} : Stays(u)
    PROVE  Paired(p)'
<1>1. Running(p)' = Running(p) \cup {t} /\ t \notin Running(p)
  BY Zenon DEF Running, Stays
<1>2. \A u \in Running(p) : u # t /\ call'[u].req = call[u].req
  BY Zenon, <1>1 DEF Running, Stays
<1>3. \A x \in reserved[p] : x.key # r.key
  BY Zenon DEF InFlight
<1>4. r \notin reserved[p]
  BY Zenon, <1>3
<1>5. /\ IsFiniteSet(Running(p)') /\ Cardinality(Running(p)') = Cardinality(Running(p)) + 1
      /\ IsFiniteSet(reserved'[p]) /\ Cardinality(reserved'[p]) = Cardinality(reserved[p]) + 1
  <2>1. IsFiniteSet(Running(p)) /\ IsFiniteSet(reserved[p])
    BY Zenon DEF Paired
  <2>2. /\ IsFiniteSet(Running(p) \cup {t})
        /\ Cardinality(Running(p) \cup {t}) = Cardinality(Running(p)) + 1
    BY <1>1, <2>1, FS_AddElement
  <2>3. /\ IsFiniteSet(reserved[p] \cup {r})
        /\ Cardinality(reserved[p] \cup {r}) = Cardinality(reserved[p]) + 1
    BY Zenon, <1>4, <2>1, FS_AddElement
  <2> QED
    BY Zenon, <1>1, <2>2, <2>3
<1>6. Cardinality(reserved[p]) \in Nat /\ Cardinality(reserved[p]) < MaxKeys
  BY FS_CardinalityType, OperationAssumption DEF Full, Paired
<1>7. \A u \in Running(p)' : call'[u].req \in reserved'[p]
  BY Zenon, <1>1, <1>2 DEF Paired
<1>8. \A x \in reserved'[p] : \E u \in Running(p)' : call'[u].req = x
  BY <1>1, <1>2 DEF Paired
<1>9. \A u \in Running(p) : call'[u].req.key # r.key
  BY Zenon, <1>2, <1>3 DEF Paired
<1>10. \A s, u \in Running(p)' : call'[s].req.key = call'[u].req.key => s = u
  BY Zenon, <1>1, <1>2, <1>9 DEF Paired
<1>11. Cardinality(reserved'[p]) <= MaxKeys
  BY <1>5, <1>6, OperationAssumption
<1> QED
  BY Zenon, <1>5, <1>7, <1>8, <1>10, <1>11 DEF Paired

(* A call of t ends and drops its reservation. *)
LEMMA EndKeeps ==
    ASSUME NEW t \in Thread, NEW p \in Process, ProcessOf[t] = p, Paired(p), Runs(t), ~Runs(t)',
           reserved'[p] = reserved[p] \ {call[t].req},
           \A u \in Thread \ {t} : Stays(u)
    PROVE  Paired(p)'
<1> DEFINE r == call[t].req
<1>1. Running(p)' = Running(p) \ {t} /\ t \in Running(p)
  BY Zenon DEF Running, Stays
<1>2. \A u \in Running(p)' : u \in Running(p) /\ u # t /\ call'[u].req = call[u].req
  BY Zenon, <1>1 DEF Running, Stays
<1>3. r \in reserved[p]
  BY Zenon, <1>1 DEF Paired
<1>4. \A u \in Running(p)' : call[u].req # r
  BY Zenon, <1>1, <1>2 DEF Paired
<1>5. /\ IsFiniteSet(Running(p)') /\ Cardinality(Running(p)') = Cardinality(Running(p)) - 1
      /\ IsFiniteSet(reserved'[p]) /\ Cardinality(reserved'[p]) = Cardinality(reserved[p]) - 1
  <2>1. IsFiniteSet(Running(p)) /\ IsFiniteSet(reserved[p])
    BY Zenon DEF Paired
  <2>2. /\ IsFiniteSet(Running(p) \ {t})
        /\ Cardinality(Running(p) \ {t}) = Cardinality(Running(p)) - 1
    BY Zenon, <1>1, <2>1, FS_RemoveElement
  <2>3. /\ IsFiniteSet(reserved[p] \ {r})
        /\ Cardinality(reserved[p] \ {r}) = Cardinality(reserved[p]) - 1
    BY Zenon, <1>3, <2>1, FS_RemoveElement
  <2> QED
    BY Zenon, <1>1, <2>2, <2>3
<1>6. Cardinality(reserved'[p]) <= MaxKeys
  BY <1>5, FS_CardinalityType, OperationAssumption DEF Paired
<1>7. \A u \in Running(p)' : call'[u].req \in reserved'[p]
  BY Zenon, <1>2, <1>4 DEF Paired
<1>8. \A x \in reserved'[p] : \E u \in Running(p)' : call'[u].req = x
  <2>1. TAKE x \in reserved'[p]
  <2>2. x \in reserved[p] /\ x # r
    BY Zenon, <2>1
  <2>3. PICK u \in Running(p) : call[u].req = x
    BY Zenon, <2>2 DEF Paired
  <2>4. u \in Running(p)'
    BY Zenon, <1>1, <2>2, <2>3
  <2> QED
    BY Zenon, <1>2, <2>3, <2>4
<1>9. \A s, u \in Running(p)' : call'[s].req.key = call'[u].req.key => s = u
  BY <1>2 DEF Paired
<1> QED
  BY Zenon, <1>5, <1>6, <1>7, <1>8, <1>9 DEF Paired

(* No step leaks a reservation or lets two calls share one. *)
LEMMA PairedInductive ==
    ASSUME TypeOK, AllPaired, [Next]_vars
    PROVE  AllPaired'
<1> SUFFICES ASSUME MaxKeys > 0, NEW p \in Process
             PROVE  Paired(p)'
  BY DEF AllPaired
<1>1. Paired(p)
  BY Zenon DEF AllPaired
<1>2. ASSUME reserved' = reserved, \A t \in Thread : Stays(t)
      PROVE  Paired(p)'
  BY <1>1, <1>2, QuietKeeps
<1>3. ASSUME NEW t \in Thread, NEW r \in Request, Reserve(t, r)
      PROVE  Paired(p)'
  <2>1. PICK a \in {None, "duplicated", "exhausted"} :
            /\ pc[t] = "idle" /\ pc' = [pc EXCEPT ![t] = IF a = None THEN "preflight" ELSE "done"]
            /\ call' = [call EXCEPT ![t] = [Idle EXCEPT !.req = r, !.answer = a]]
            /\ a = None => InFlight(t, r) = {} /\ ~Full(t)
            /\ reserved' = IF a = None THEN [reserved EXCEPT ![ProcessOf[t]] = @ \cup {r}] ELSE reserved
    <3>1. None \notin {"duplicated", "exhausted"} /\ MaxKeys # 0
      BY OperationAssumption DEF Answer
    <3>2. CASE InFlight(t, r) # {}
      BY Zenon, <1>3, <3>1, <3>2 DEF Reserve, Goto
    <3>3. CASE InFlight(t, r) = {} /\ Full(t)
      BY <1>3, <3>1, <3>3 DEF Reserve, Goto
    <3>4. CASE InFlight(t, r) = {} /\ ~Full(t)
      BY <1>3, <3>1, <3>4 DEF Reserve, Goto
    <3> QED
      BY Zenon, <3>2, <3>3, <3>4
  <2>2. \A u \in Thread \ {t} : Stays(u)
    BY <2>1 DEF Stays, Runs, TypeOK
  <2>3. CASE a # None
    <3>1. Stays(t)
      BY Zenon, <2>1, <2>3 DEF Stays, Runs, TypeOK
    <3> QED
      BY <1>2, <2>1, <2>2, <2>3, <3>1
  <2>4. CASE a = None /\ ProcessOf[t] # p
    <3>1. reserved'[p] = reserved[p]
      BY <2>1, <2>4 DEF TypeOK
    <3>2. \A u \in Thread : ProcessOf[u] = p => Stays(u)
      BY <2>2, <2>4
    <3> QED
      BY <1>1, <3>1, <3>2, QuietKeeps
  <2>5. CASE a = None /\ ProcessOf[t] = p
    <3>1. ~Runs(t) /\ Runs(t)'
      BY <2>1, <2>5 DEF Runs, TypeOK
    <3>2. call'[t].req = r
      BY <2>1 DEF TypeOK, Idle
    <3>3. reserved'[p] = reserved[p] \cup {r}
      BY <2>1, <2>5 DEF TypeOK
    <3> QED
      BY <1>1, <2>1, <2>2, <2>5, <3>1, <3>2, <3>3, BeginKeeps
  <2> QED
    BY Zenon, <2>3, <2>4, <2>5
<1>4. ASSUME NEW t \in Thread,
             \/ Preflight(t) \/ Load(t) \/ CommitLoses(t) \/ Reload(t) \/ Fails(t)
             \/ Commit(t) \/ CommitUnconfirmed(t)
      PROVE  Paired(p)'
  <2>1. /\ Runs(t) /\ reserved' = reserved
        /\ \E l \in {"plan", "commit", "reload", "finish"} : pc' = [pc EXCEPT ![t] = l]
        /\ call' = call \/ \E a : call' = [call EXCEPT ![t].answer = a]
    BY Zenon, <1>4 DEF Preflight, Load, CommitLoses, Reload, Fails, Commit, CommitUnconfirmed,
                Answered, Goto, Runs, Lookup
  <2>2. call[t] \in Call
    BY <2>1, Busy DEF Runs
  <2>3. \A u \in Thread : Stays(u)
    BY <2>1, <2>2 DEF Stays, Runs, TypeOK, Call
  <2> QED
    BY <1>2, <2>1, <2>3
<1>5. ASSUME NEW t \in Thread,
             \/ \E accepted, changes \in BOOLEAN : PlanWrite(t, accepted, changes)
             \/ PlanControl(t)
      PROVE  Paired(p)'
  <2>1. Runs(t) /\ reserved' = reserved /\ pc' = [pc EXCEPT ![t] = "load"]
    BY Zenon, <1>5 DEF PlanWrite, PlanControl, Goto, Runs
  <2>2. call[t] \in Call
    BY <2>1, Busy DEF Runs
  <2>3. PICK a \in BOOLEAN, c \in BOOLEAN :
            call' = [call EXCEPT ![t] = [call[t] EXCEPT !.seen = docs[call[t].req.doc],
                                                        !.accepted = a, !.changes = c]]
    BY Zenon, <1>5, PlanShape
  <2>4. \A u \in Thread : Stays(u)
    BY Zenon, <2>1, <2>2, <2>3 DEF Stays, Runs, TypeOK, Call
  <2> QED
    BY <1>2, <2>1, <2>4
<1>6. ASSUME NEW t \in Thread, NEW wakes \in BOOLEAN, Finish(t, wakes)
      PROVE  Paired(p)'
  <2>1. /\ pc[t] = "finish" /\ pc' = [pc EXCEPT ![t] = "done"]
        /\ call' = call \/ call' = [call EXCEPT ![t].answer = "error"]
        /\ reserved' = [reserved EXCEPT ![ProcessOf[t]] = @ \ {call[t].req}]
    BY <1>6 DEF Finish, Goto
  <2>2. \A u \in Thread \ {t} : Stays(u)
    BY Zenon, <2>1 DEF Stays, Runs, TypeOK
  <2>3. CASE ProcessOf[t] # p
    <3>1. reserved'[p] = reserved[p]
      BY Zenon, <2>1, <2>3 DEF TypeOK
    <3>2. \A u \in Thread : ProcessOf[u] = p => Stays(u)
      BY Zenon, <2>2, <2>3
    <3> QED
      BY <1>1, <3>1, <3>2, QuietKeeps
  <2>4. CASE ProcessOf[t] = p
    <3>1. Runs(t) /\ ~Runs(t)'
      BY <2>1 DEF Runs, TypeOK
    <3>2. reserved'[p] = reserved[p] \ {call[t].req}
      BY <2>1, <2>4 DEF TypeOK
    <3> QED
      BY <1>1, <2>2, <2>4, <3>1, <3>2, EndKeeps
  <2> QED
    BY <2>3, <2>4
<1>7. ASSUME NEW t \in Thread, Return(t)
      PROVE  Paired(p)'
  <2>1. reserved' = reserved /\ \A u \in Thread : Stays(u)
    BY <1>7 DEF Return, Goto, Stays, Runs, TypeOK
  <2> QED
    BY Zenon, <1>2, <2>1
<1>8. ASSUME NEW q \in Process, Crash(q)
      PROVE  Paired(p)'
  <2>1. CASE p = q
    <3>1. Running(p)' = {} /\ reserved'[p] = {}
      BY Zenon, <1>8, <2>1 DEF Crash, Running, Runs, TypeOK
    <3>2. MaxKeys >= 0
      BY OperationAssumption
    <3> QED
      BY Zenon, <3>1, <3>2, FS_EmptySet DEF Paired
  <2>2. CASE p # q
    <3>1. reserved'[p] = reserved[p] /\ \A u \in Thread : ProcessOf[u] = p => Stays(u)
      BY Zenon, <1>8, <2>2 DEF Crash, Stays, Runs, TypeOK
    <3> QED
      BY Zenon, <1>1, <3>1, QuietKeeps
  <2> QED
    BY Zenon, <2>1, <2>2
<1>9. CASE UNCHANGED vars
  <2>1. reserved' = reserved /\ \A u \in Thread : Stays(u)
    BY <1>9 DEF vars, Stays, Runs
  <2> QED
    BY Zenon, <1>2, <2>1
<1> QED
  BY <1>3, <1>4, <1>5, <1>6, <1>7, <1>8, <1>9 DEF Next

(* The reservations of a process are those of the calls running in it, one      *)
(* call per key and within the limit, whatever returned early, failed or        *)
(* crashed (EntryIdempotencyReservation::drop).                                 *)
THEOREM ReservationsAreExact == Spec => []ReservationsExact
<1>1. Init => AllPaired
  <2> SUFFICES ASSUME Init, MaxKeys > 0, NEW p \in Process
               PROVE  Paired(p)
    BY Zenon DEF AllPaired
  <2>1. Running(p) = {} /\ reserved[p] = {}
    BY DEF Init, Running, Runs
  <2> QED
    BY <2>1, FS_EmptySet, OperationAssumption DEF Paired
<1>2. IInv /\ AllPaired /\ [Next]_vars => AllPaired'
  BY Zenon, PairedInductive DEF IInv
<1>3. IInv /\ AllPaired => ReservationsExact
  <2> SUFFICES ASSUME IInv, MaxKeys > 0, NEW p \in Process, Paired(p)
               PROVE  /\ reserved[p] = {call[t].req : t \in Running(p)}
                      /\ \A s, t \in Running(p) : call[s].req.key = call[t].req.key => s = t
                      /\ Cardinality(Running(p)) <= MaxKeys
    BY Zenon DEF AllPaired, ReservationsExact, Running, Runs
  <2>1. reserved[p] = {call[t].req : t \in Running(p)}
    BY DEF Paired
  <2>2. Cardinality(Running(p)) <= MaxKeys
    BY Zenon DEF Paired
  <2> QED
    BY Zenon, <2>1, <2>2 DEF Paired
<1> QED
  BY <1>1, <1>2, <1>3, OperationsInductive, PTL DEF Spec

---------------------------------------------------------------------------
(* The network front: its inductive invariant. *)

Queued == {c \in Conn : conn[c] = "queued"}

(* The channel lists each queued connection once. *)
InChannel ==
    /\ \A k \in 1..Len(queue) : conn[queue[k]] = "queued"
    /\ \A k, m \in 1..Len(queue) : queue[k] = queue[m] => k = m
    /\ Len(queue) = Cardinality(Queued)

(* A worker owns a connection from its receipt to the last drop. *)
Owned ==
    /\ \A w \in Worker :
          worker[w] \in Conn => conn[worker[w]] \in {"running", "lease", "release"}
    /\ \A c \in Conn : conn[c] = "running" => \E w \in Worker : worker[w] = c

(* Reads are bounded from the registration on. *)
Bounded ==
    \A c \in Conn : conn[c] \in {"registered", "queued", "running"} => c \in armed \cup cut

(* What the progress of shutdown says about the rest. *)
Progress ==
    /\ open <=> shutdown = "no"
    /\ stopping <=> shutdown \in {"workers", "supervisor", "returned"}
    /\ shutdown # "no" => \A c \in Conn : ~InDispatch(c)
    /\ \A w \in Worker : worker[w] = "gone" => ~open /\ queue = <<>>
    /\ shutdown \in {"supervisor", "returned"} => \A w \in Worker : worker[w] = "gone"

FrontInv == FrontTypeOK /\ PermitsExact /\ InChannel /\ Owned /\ Bounded /\ Progress

---------------------------------------------------------------------------
(* Counting. *)

(* Sets of connections can be counted. *)
LEMMA Countable ==
    /\ IsFiniteSet(Holding) /\ Cardinality(Holding) \in Nat
    /\ IsFiniteSet(Queued) /\ Cardinality(Queued) \in Nat
  <1>1. Holding \in SUBSET Conn /\ Queued \in SUBSET Conn
    BY Zenon DEF Holding, Queued
  <1>2. IsFiniteSet(Holding) /\ IsFiniteSet(Queued)
    BY Zenon, <1>1, FS_Subset, FrontAssumption
  <1> QED
    BY <1>2, FS_CardinalityType

(* A connection that holds a permit and is not queued leaves room in the      *)
(* channel.                                                                   *)
LEMMA RoomLeft ==
    ASSUME FrontInv, NEW c \in Conn, conn[c] \in Permitted, conn[c] # "queued"
    PROVE  Len(queue) < MaxInFlight
  <1>1. c \in Holding /\ c \notin Queued /\ Queued \in SUBSET (Holding \ {c})
    BY Zenon DEF Holding, Queued, Permitted
  <1>2. /\ IsFiniteSet(Holding \ {c})
        /\ Cardinality(Holding \ {c}) = Cardinality(Holding) - 1
    BY Zenon, <1>1, Countable, FS_RemoveElement
  <1>3. Cardinality(Queued) <= Cardinality(Holding) - 1
    BY <1>1, <1>2, FS_Subset
  <1> QED
    BY <1>3, Countable, FrontAssumption DEF FrontInv, PermitsExact, InChannel

---------------------------------------------------------------------------
(* Steps that leave the counter and the channel alone. *)

(* A step that changes no connection's permit keeps the count. *)
LEMMA SamePermits ==
    ASSUME PermitsExact, inFlight' = inFlight,
           \A c \in Conn : conn[c] \in Permitted <=> conn'[c] \in Permitted
    PROVE  PermitsExact'
  <1>1. Holding' = Holding
    BY Zenon DEF Holding
  <1> QED
    BY Zenon, <1>1 DEF PermitsExact

(* A step that leaves the queued connections in the channel keeps it exact. *)
LEMMA SameChannel ==
    ASSUME InChannel, queue \in Seq(Conn), queue' = queue,
           \A c \in Conn : conn[c] = "queued" <=> conn'[c] = "queued"
    PROVE  InChannel'
  <1>1. Queued' = Queued
    BY Zenon DEF Queued
  <1>2. \A k \in 1..Len(queue) : queue[k] \in Conn
    OBVIOUS
  <1> QED
    BY Zenon, <1>1, <1>2 DEF InChannel

---------------------------------------------------------------------------
(* The initial states. *)

(* The invariant holds before the first connection. *)
LEMMA InitInv == FrontInit => FrontInv
  <1> SUFFICES ASSUME FrontInit PROVE FrontInv
    OBVIOUS
  <1> USE DEF FrontInit
  <1>1. FrontTypeOK
    <2>1. conn \in [Conn -> {"new", "closed"} \cup {"load"} \cup Permitted]
      BY Zenon
    <2>2. worker \in [Worker -> Conn \cup {Free, "gone"}]
      BY Zenon
    <2>3. queue \in Seq(Conn) /\ inFlight \in Int /\ seen \in [Conn -> Nat]
      OBVIOUS
    <2> QED
      BY Zenon, <2>1, <2>2, <2>3 DEF FrontTypeOK
  <1>2. Holding = {} /\ Queued = {}
    BY Zenon DEF Holding, Queued, Permitted
  <1>3. PermitsExact
    BY <1>2, FS_EmptySet, FrontAssumption DEF PermitsExact
  <1>4. InChannel
    BY <1>2, FS_EmptySet DEF InChannel
  <1>5. Owned
    BY Zenon, FrontAssumption DEF Owned
  <1>6. Bounded
    BY Zenon DEF Bounded
  <1>7. Progress
    BY Zenon, FrontAssumption DEF Progress, InDispatch
  <1> QED
    BY <1>1, <1>3, <1>4, <1>5, <1>6, <1>7 DEF FrontInv

---------------------------------------------------------------------------
(* Every action keeps the invariant. *)

(* A thread reads the counter. *)
LEMMA LoadInv ==
    ASSUME FrontInv, NEW c \in Conn, LoadCounter(c)
    PROVE  FrontInv'
  <1> USE DEF FrontInv, LoadCounter
  <1>0. inFlight \in Nat
    BY Zenon, Countable DEF PermitsExact
  <1>1. FrontTypeOK'
    BY Zenon, <1>0 DEF FrontTypeOK
  <1>2. PermitsExact'
    BY Zenon, SamePermits DEF FrontTypeOK, Permitted
  <1>3. InChannel'
    BY Zenon, SameChannel DEF FrontTypeOK
  <1>4. Owned'
    BY Zenon, FrontAssumption DEF FrontTypeOK, Owned
  <1>5. Bounded'
    BY Zenon DEF FrontTypeOK, Bounded
  <1>6. Progress'
    BY Zenon, FrontAssumption DEF FrontTypeOK, Progress, InDispatch, Owned
  <1> QED
    BY Zenon, <1>1, <1>2, <1>3, <1>4, <1>5, <1>6

(* A thread gives up. *)
LEMMA SaturatedInv ==
    ASSUME FrontInv, NEW c \in Conn, Saturated(c)
    PROVE  FrontInv'
  <1> USE DEF FrontInv, Saturated
  <1>1. FrontTypeOK'
    BY Zenon, FrontAssumption DEF FrontTypeOK, Permitted
  <1>2. PermitsExact'
    BY Zenon, SamePermits DEF FrontTypeOK, Permitted
  <1>3. InChannel'
    BY Zenon, SameChannel DEF FrontTypeOK
  <1>4. Owned'
    BY Zenon, FrontAssumption DEF FrontTypeOK, Owned
  <1>5. Bounded'
    BY Zenon DEF FrontTypeOK, Bounded
  <1>6. Progress'
    BY Zenon, FrontAssumption DEF FrontTypeOK, Progress, InDispatch, Owned
  <1> QED
    BY Zenon, <1>1, <1>2, <1>3, <1>4, <1>5, <1>6

(* A thread reads the counter again. *)
LEMMA ReloadInv ==
    ASSUME FrontInv, NEW c \in Conn, ReloadCounter(c)
    PROVE  FrontInv'
  <1> USE DEF FrontInv, ReloadCounter
  <1>0. inFlight \in Nat
    BY Zenon, Countable DEF PermitsExact
  <1>1. FrontTypeOK'
    BY Zenon, <1>0 DEF FrontTypeOK
  <1>2. PermitsExact'
    BY Zenon, SamePermits DEF FrontTypeOK, Permitted
  <1>3. InChannel'
    BY Zenon, SameChannel DEF FrontTypeOK
  <1>4. Owned'
    BY Zenon, FrontAssumption DEF FrontTypeOK, Owned
  <1>5. Bounded'
    BY Zenon DEF FrontTypeOK, Bounded
  <1>6. Progress'
    BY Zenon, FrontAssumption DEF FrontTypeOK, Progress, InDispatch, Owned
  <1> QED
    BY Zenon, <1>1, <1>2, <1>3, <1>4, <1>5, <1>6

(* The deadline is armed. *)
LEMMA RegisterInv ==
    ASSUME FrontInv, NEW c \in Conn, Register(c)
    PROVE  FrontInv'
  <1> USE DEF FrontInv, Register, Notify
  <1>1. FrontTypeOK'
    BY Zenon, FrontAssumption DEF FrontTypeOK, Permitted
  <1>2. PermitsExact'
    BY Zenon, SamePermits DEF FrontTypeOK, Permitted
  <1>3. InChannel'
    BY Zenon, SameChannel DEF FrontTypeOK
  <1>4. Owned'
    BY Zenon, FrontAssumption DEF FrontTypeOK, Owned
  <1>5. Bounded'
    BY Zenon DEF FrontTypeOK, Bounded
  <1>6. Progress'
    BY Zenon, FrontAssumption DEF FrontTypeOK, Progress, InDispatch, Owned
  <1> QED
    BY Zenon, <1>1, <1>2, <1>3, <1>4, <1>5, <1>6

(* The socket cannot be used. *)
LEMMA RegisterFailsInv ==
    ASSUME FrontInv, NEW c \in Conn, RegisterFails(c)
    PROVE  FrontInv'
  <1> USE DEF FrontInv, RegisterFails
  <1>1. FrontTypeOK'
    BY Zenon, FrontAssumption DEF FrontTypeOK, Permitted
  <1>2. PermitsExact'
    BY Zenon, SamePermits DEF FrontTypeOK, Permitted
  <1>3. InChannel'
    BY Zenon, SameChannel DEF FrontTypeOK
  <1>4. Owned'
    BY Zenon, FrontAssumption DEF FrontTypeOK, Owned
  <1>5. Bounded'
    BY Zenon DEF FrontTypeOK, Bounded
  <1>6. Progress'
    BY Zenon, FrontAssumption DEF FrontTypeOK, Progress, InDispatch, Owned
  <1> QED
    BY Zenon, <1>1, <1>2, <1>3, <1>4, <1>5, <1>6

(* A handler returns. *)
LEMMA HandlerReturnsInv ==
    ASSUME FrontInv, NEW w \in Worker, HandlerReturns(w)
    PROVE  FrontInv'
  <1> USE DEF FrontInv, HandlerReturns
  <1>1. FrontTypeOK'
    BY Zenon, FrontAssumption DEF FrontTypeOK, Permitted
  <1>2. PermitsExact'
    BY Zenon, SamePermits DEF FrontTypeOK, Permitted
  <1>3. InChannel'
    BY Zenon, SameChannel DEF FrontTypeOK
  <1>4. Owned'
    BY Zenon, FrontAssumption DEF FrontTypeOK, Owned
  <1>5. Bounded'
    BY Zenon DEF FrontTypeOK, Bounded
  <1>6. Progress'
    BY Zenon, FrontAssumption DEF FrontTypeOK, Progress, InDispatch, Owned
  <1> QED
    BY Zenon, <1>1, <1>2, <1>3, <1>4, <1>5, <1>6

(* The deadline is given up. *)
LEMMA DropLeaseInv ==
    ASSUME FrontInv, NEW c \in Conn, DropLease(c)
    PROVE  FrontInv'
  <1> USE DEF FrontInv, DropLease, Notify
  <1>1. FrontTypeOK'
    BY Zenon, FrontAssumption DEF FrontTypeOK, Permitted
  <1>2. PermitsExact'
    BY Zenon, SamePermits DEF FrontTypeOK, Permitted
  <1>3. InChannel'
    BY Zenon, SameChannel DEF FrontTypeOK
  <1>4. Owned'
    BY Zenon, FrontAssumption DEF FrontTypeOK, Owned
  <1>5. Bounded'
    BY Zenon DEF FrontTypeOK, Bounded
  <1>6. Progress'
    BY Zenon, FrontAssumption DEF FrontTypeOK, Progress, InDispatch, Owned
  <1> QED
    BY Zenon, <1>1, <1>2, <1>3, <1>4, <1>5, <1>6

(* A worker ends. *)
LEMMA LeaveInv ==
    ASSUME FrontInv, NEW w \in Worker, Leave(w)
    PROVE  FrontInv'
  <1> USE DEF FrontInv, Leave
  <1>1. FrontTypeOK'
    BY Zenon, FrontAssumption DEF FrontTypeOK, Permitted
  <1>2. PermitsExact'
    BY Zenon, SamePermits DEF FrontTypeOK, Permitted
  <1>3. InChannel'
    BY Zenon, SameChannel DEF FrontTypeOK
  <1>4. Owned'
    BY FrontAssumption DEF FrontTypeOK, Owned
  <1>5. Bounded'
    BY Zenon DEF FrontTypeOK, Bounded
  <1>6. Progress'
    BY FrontAssumption DEF FrontTypeOK, Progress, InDispatch, Owned
  <1> QED
    BY Zenon, <1>1, <1>2, <1>3, <1>4, <1>5, <1>6

(* A deadline passes. *)
LEMMA ExpireInv ==
    ASSUME FrontInv, NEW c \in Conn, Expire(c)
    PROVE  FrontInv'
  <1> USE DEF FrontInv, Expire
  <1>1. FrontTypeOK'
    BY Zenon, FrontAssumption DEF FrontTypeOK, Permitted
  <1>2. PermitsExact'
    BY Zenon, SamePermits DEF FrontTypeOK, Permitted
  <1>3. InChannel'
    BY Zenon, SameChannel DEF FrontTypeOK
  <1>4. Owned'
    BY Zenon, FrontAssumption DEF FrontTypeOK, Owned
  <1>5. Bounded'
    BY Zenon DEF FrontTypeOK, Bounded
  <1>6. Progress'
    BY Zenon, FrontAssumption DEF FrontTypeOK, Progress, InDispatch, Owned
  <1> QED
    BY Zenon, <1>1, <1>2, <1>3, <1>4, <1>5, <1>6

(* The supervisor interrupts what has expired. *)
LEMMA SuperviseInv ==
    ASSUME FrontInv, Supervise
    PROVE  FrontInv'
  <1> USE DEF FrontInv, Supervise
  <1>1. FrontTypeOK'
    BY Zenon, FrontAssumption DEF FrontTypeOK, Permitted
  <1>2. PermitsExact'
    BY Zenon, SamePermits DEF FrontTypeOK, Permitted
  <1>3. InChannel'
    BY Zenon, SameChannel DEF FrontTypeOK
  <1>4. Owned'
    BY Zenon, FrontAssumption DEF FrontTypeOK, Owned
  <1>5. Bounded'
    BY Zenon DEF FrontTypeOK, Bounded
  <1>6. Progress'
    BY Zenon, FrontAssumption DEF FrontTypeOK, Progress, InDispatch, Owned
  <1> QED
    BY Zenon, <1>1, <1>2, <1>3, <1>4, <1>5, <1>6

(* The supervisor wakes. *)
LEMMA SupervisorTimeoutInv ==
    ASSUME FrontInv, SupervisorTimeout
    PROVE  FrontInv'
  <1> USE DEF FrontInv, SupervisorTimeout
  <1>1. FrontTypeOK'
    BY Zenon, FrontAssumption DEF FrontTypeOK, Permitted
  <1>2. PermitsExact'
    BY Zenon, SamePermits DEF FrontTypeOK, Permitted
  <1>3. InChannel'
    BY Zenon, SameChannel DEF FrontTypeOK
  <1>4. Owned'
    BY Zenon, FrontAssumption DEF FrontTypeOK, Owned
  <1>5. Bounded'
    BY Zenon DEF FrontTypeOK, Bounded
  <1>6. Progress'
    BY Zenon, FrontAssumption DEF FrontTypeOK, Progress, InDispatch, Owned
  <1> QED
    BY Zenon, <1>1, <1>2, <1>3, <1>4, <1>5, <1>6

(* The sender is dropped. *)
LEMMA ShutdownBeginInv ==
    ASSUME FrontInv, ShutdownBegin
    PROVE  FrontInv'
  <1> USE DEF FrontInv, ShutdownBegin
  <1>1. FrontTypeOK'
    BY Zenon, FrontAssumption DEF FrontTypeOK, Permitted
  <1>2. PermitsExact'
    BY Zenon, SamePermits DEF FrontTypeOK, Permitted
  <1>3. InChannel'
    BY Zenon, SameChannel DEF FrontTypeOK
  <1>4. Owned'
    BY Zenon, FrontAssumption DEF FrontTypeOK, Owned
  <1>5. Bounded'
    BY Zenon DEF FrontTypeOK, Bounded
  <1>6. Progress'
    BY Zenon, FrontAssumption DEF FrontTypeOK, Progress, InDispatch, Owned
  <1> QED
    BY <1>1, <1>2, <1>3, <1>4, <1>5, <1>6

(* All reads are interrupted. *)
LEMMA ShutdownStopInv ==
    ASSUME FrontInv, ShutdownStop
    PROVE  FrontInv'
  <1> USE DEF FrontInv, ShutdownStop, Notify
  <1>1. FrontTypeOK'
    BY Zenon, FrontAssumption DEF FrontTypeOK, Permitted
  <1>2. PermitsExact'
    BY Zenon, SamePermits DEF FrontTypeOK, Permitted
  <1>3. InChannel'
    BY Zenon, SameChannel DEF FrontTypeOK
  <1>4. Owned'
    BY Zenon, FrontAssumption DEF FrontTypeOK, Owned
  <1>5. Bounded'
    BY Zenon DEF FrontTypeOK, Bounded
  <1>6. Progress'
    BY Zenon, FrontAssumption DEF FrontTypeOK, Progress, InDispatch, Owned
  <1> QED
    BY Zenon, <1>1, <1>2, <1>3, <1>4, <1>5, <1>6

(* The workers are joined. *)
LEMMA ShutdownWorkersInv ==
    ASSUME FrontInv, ShutdownWorkers
    PROVE  FrontInv'
  <1> USE DEF FrontInv, ShutdownWorkers
  <1>1. FrontTypeOK'
    BY Zenon, FrontAssumption DEF FrontTypeOK, Permitted
  <1>2. PermitsExact'
    BY Zenon, SamePermits DEF FrontTypeOK, Permitted
  <1>3. InChannel'
    BY Zenon, SameChannel DEF FrontTypeOK
  <1>4. Owned'
    BY Zenon, FrontAssumption DEF FrontTypeOK, Owned
  <1>5. Bounded'
    BY Zenon DEF FrontTypeOK, Bounded
  <1>6. Progress'
    BY Zenon, FrontAssumption DEF FrontTypeOK, Progress, InDispatch, Owned
  <1> QED
    BY Zenon, <1>1, <1>2, <1>3, <1>4, <1>5, <1>6

(* The supervisor is joined. *)
LEMMA ShutdownSupervisorInv ==
    ASSUME FrontInv, ShutdownSupervisor
    PROVE  FrontInv'
  <1> USE DEF FrontInv, ShutdownSupervisor
  <1>1. FrontTypeOK'
    BY Zenon, FrontAssumption DEF FrontTypeOK, Permitted
  <1>2. PermitsExact'
    BY Zenon, SamePermits DEF FrontTypeOK, Permitted
  <1>3. InChannel'
    BY Zenon, SameChannel DEF FrontTypeOK
  <1>4. Owned'
    BY Zenon, FrontAssumption DEF FrontTypeOK, Owned
  <1>5. Bounded'
    BY Zenon DEF FrontTypeOK, Bounded
  <1>6. Progress'
    BY Zenon, FrontAssumption DEF FrontTypeOK, Progress, InDispatch, Owned
  <1> QED
    BY Zenon, <1>1, <1>2, <1>3, <1>4, <1>5, <1>6

(* A thread gets a permit: the counter and the holders grow together. *)
LEMMA AcquireInv ==
    ASSUME FrontInv, NEW c \in Conn, Acquire(c)
    PROVE  FrontInv'
  <1> USE DEF FrontInv, Acquire
  <1>1. FrontTypeOK'
    BY DEF FrontTypeOK, Permitted
  <1>2. PermitsExact'
    <2>1. Holding' = Holding \cup {c} /\ c \notin Holding
      BY DEF FrontTypeOK, Holding, Permitted
    <2>2. Cardinality(Holding') = Cardinality(Holding) + 1
      BY Zenon, <2>1, Countable, FS_AddElement
    <2>3. inFlight < MaxInFlight /\ inFlight' = inFlight + 1
      BY Zenon
    <2>4. inFlight \in Nat /\ MaxInFlight \in Nat
      BY Zenon, Countable, FrontAssumption DEF PermitsExact
    <2>5. inFlight = Cardinality(Holding)
      BY Zenon DEF PermitsExact
    <2>6. inFlight' = Cardinality(Holding') /\ inFlight' <= MaxInFlight
      <3> HIDE DEF FrontInv, Acquire
      <3> QED
        BY ONLY <2>2, <2>3, <2>4, <2>5
    <2> QED
      BY Zenon, <2>6 DEF PermitsExact
  <1>3. InChannel'
    BY Zenon, SameChannel DEF FrontTypeOK
  <1>4. Owned'
    BY Zenon, FrontAssumption DEF FrontTypeOK, Owned
  <1>5. Bounded'
    BY Zenon DEF FrontTypeOK, Bounded
  <1>6. Progress'
    BY Zenon, FrontAssumption DEF FrontTypeOK, Progress, InDispatch
  <1> QED
    BY Zenon, <1>1, <1>2, <1>3, <1>4, <1>5, <1>6

(* The last drop of a job: the counter and the holders shrink together. *)
LEMMA DropPermitInv ==
    ASSUME FrontInv, NEW c \in Conn, DropPermit(c)
    PROVE  FrontInv'
  <1> USE DEF FrontInv, DropPermit
  <1>1. FrontTypeOK'
    BY DEF FrontTypeOK, Permitted
  <1>2. PermitsExact'
    <2>1. Holding' = Holding \ {c} /\ c \in Holding
      BY DEF FrontTypeOK, Holding, Permitted
    <2>2. Cardinality(Holding') = Cardinality(Holding) - 1
      BY Zenon, <2>1, Countable, FS_RemoveElement
    <2> QED
      BY <2>2, Countable, FrontAssumption DEF PermitsExact, FrontTypeOK
  <1>3. InChannel'
    BY Zenon, SameChannel DEF FrontTypeOK
  <1>4. Owned'
    BY Zenon, FrontAssumption DEF FrontTypeOK, Owned
  <1>5. Bounded'
    BY Zenon DEF FrontTypeOK, Bounded
  <1>6. Progress'
    <2>1. \A d \in Conn : ~InDispatch(d) => ~InDispatch(d)'
      BY Zenon, FrontAssumption DEF FrontTypeOK, InDispatch
    <2>2. \A w \in Worker : worker'[w] = "gone" <=> worker[w] = "gone"
      BY Zenon, FrontAssumption DEF FrontTypeOK
    <2> QED
      BY Zenon, <2>1, <2>2 DEF Progress
  <1> QED
    BY Zenon, <1>1, <1>2, <1>3, <1>4, <1>5, <1>6

(* The channel and a worker are there for a registered connection. *)
LEMMA ChannelTakes ==
    ASSUME FrontInv, NEW c \in Conn, conn[c] = "registered"
    PROVE  Takes
  <1>1. Len(queue) < MaxInFlight
    BY Zenon, RoomLeft DEF Permitted
  <1>2. open
    BY Zenon DEF FrontInv, Progress, InDispatch
  <1> QED
    BY Zenon, <1>1, <1>2, FrontAssumption DEF Takes, FrontInv, Progress

(* A job enters the channel. *)
LEMMA SendInv ==
    ASSUME FrontInv, NEW c \in Conn, Send(c)
    PROVE  FrontInv'
  <1> USE DEF FrontInv
  <1>0. /\ conn[c] = "registered" /\ conn' = [conn EXCEPT ![c] = "queued"]
        /\ queue' = Append(queue, c)
        /\ UNCHANGED <<seen, inFlight, open, armed, due, cut, stopping, worker, supervisor,
                       shutdown>>
    BY Zenon, ChannelTakes DEF Send
  <1>1. FrontTypeOK'
    BY <1>0 DEF FrontTypeOK, Permitted
  <1>2. PermitsExact'
    BY Zenon, <1>0, SamePermits DEF FrontTypeOK, Permitted
  <1>3. InChannel'
    <2>1. Queued' = Queued \cup {c} /\ c \notin Queued
      BY <1>0 DEF FrontTypeOK, Queued
    <2>2. Cardinality(Queued') = Cardinality(Queued) + 1
      BY Zenon, <2>1, Countable, FS_AddElement
    <2>3. /\ Len(queue') = Len(queue) + 1 /\ queue'[Len(queue) + 1] = c
          /\ \A k \in 1..Len(queue) : queue'[k] = queue[k] /\ queue[k] \in Conn \ {c}
      BY <1>0 DEF FrontTypeOK, InChannel
    <2>4. \A k \in 1..Len(queue') : conn'[queue'[k]] = "queued"
      BY <1>0, <2>3 DEF FrontTypeOK, InChannel
    <2>5. \A k, m \in 1..Len(queue') : queue'[k] = queue'[m] => k = m
      BY <1>0, <2>3 DEF FrontTypeOK, InChannel
    <2>6. Len(queue') = Cardinality(Queued')
      BY Zenon, <2>2, <2>3, Countable DEF InChannel, FrontTypeOK
    <2> QED
      BY Zenon, <2>4, <2>5, <2>6 DEF InChannel
  <1>4. Owned'
    BY Zenon, <1>0, FrontAssumption DEF FrontTypeOK, Owned
  <1>5. Bounded'
    BY Zenon, <1>0 DEF FrontTypeOK, Bounded
  <1>6. Progress'
    BY Zenon, <1>0, FrontAssumption DEF FrontTypeOK, Progress, InDispatch
  <1> QED
    BY <1>1, <1>2, <1>3, <1>4, <1>5, <1>6

(* A job leaves the channel. *)
LEMMA ReceiveInv ==
    ASSUME FrontInv, NEW w \in Worker, Receive(w)
    PROVE  FrontInv'
  <1> USE DEF FrontInv, Receive
  <1> DEFINE c == Head(queue)
  <1>0. /\ Len(queue) \in Nat /\ Len(queue) > 0 /\ c = queue[1] /\ c \in Conn
        /\ conn[c] = "queued"
    BY DEF FrontTypeOK, InChannel
  <1>1. FrontTypeOK'
    BY <1>0 DEF FrontTypeOK, Permitted
  <1>2. PermitsExact'
    BY Zenon, <1>0, SamePermits DEF FrontTypeOK, Permitted
  <1>3. InChannel'
    <2>1. Queued' = Queued \ {c} /\ c \in Queued
      BY <1>0 DEF FrontTypeOK, Queued
    <2>2. Cardinality(Queued') = Cardinality(Queued) - 1
      BY Zenon, <2>1, Countable, FS_RemoveElement
    <2>3. /\ Len(queue') = Len(queue) - 1
          /\ \A k \in 1..Len(queue') : queue'[k] = queue[k + 1] /\ k + 1 \in 1..Len(queue)
      BY <1>0 DEF FrontTypeOK
    <2>4. \A k \in 1..Len(queue') : queue'[k] \in Conn \ {c}
      <3>1. 1 \in 1..Len(queue) /\ \A k \in Nat : k + 1 = 1 => k = 0
        BY <1>0
      <3>2. \A k \in 1..Len(queue') : queue[k + 1] \in Conn /\ k \in Nat /\ k # 0
        BY <2>3 DEF FrontTypeOK
      <3> QED
        BY Zenon, <1>0, <2>3, <3>1, <3>2 DEF InChannel
    <2>5. \A k \in 1..Len(queue') : conn'[queue'[k]] = "queued"
      BY <1>0, <2>3, <2>4 DEF FrontTypeOK, InChannel
    <2>6. \A k, m \in 1..Len(queue') : queue'[k] = queue'[m] => k = m
      BY <2>3 DEF FrontTypeOK, InChannel
    <2>7. Len(queue') = Cardinality(Queued')
      BY Zenon, <2>2, <2>3, Countable DEF InChannel, FrontTypeOK
    <2> QED
      BY Zenon, <2>5, <2>6, <2>7 DEF InChannel
  <1>4. Owned'
    BY <1>0, FrontAssumption DEF FrontTypeOK, Owned
  <1>5. Bounded'
    BY Zenon, <1>0 DEF FrontTypeOK, Bounded
  <1>6. Progress'
    <2>1. \A v \in Worker : worker'[v] = "gone" => worker[v] = "gone"
      BY Zenon, <1>0, FrontAssumption DEF FrontTypeOK
    <2>2. \A v \in Worker : worker[v] # "gone"
      BY Zenon DEF Progress
    <2>3. \A d \in Conn : InDispatch(d)' => InDispatch(d)
      BY <1>0, FrontAssumption DEF FrontTypeOK, InDispatch
    <2> QED
      BY Zenon, <2>1, <2>2, <2>3 DEF Progress
  <1> QED
    BY Zenon, <1>1, <1>2, <1>3, <1>4, <1>5, <1>6

---------------------------------------------------------------------------
(* The theorems. *)

(* FrontInv is inductive: every step of the front keeps it. *)
THEOREM FrontInductive == FrontSpec => []FrontInv
  <1>1. FrontInv /\ [FrontNext]_frontVars => FrontInv'
    <2> SUFFICES ASSUME FrontInv, [FrontNext]_frontVars PROVE FrontInv'
      BY Zenon
    <2>1. CASE \E c \in Conn : LoadCounter(c) \/ Dispatch(c) \/ ReloadCounter(c) \/ Drops(c) \/ Expire(c)
      BY Zenon, <2>1, LoadInv, SaturatedInv, AcquireInv, RegisterInv, RegisterFailsInv, SendInv,
         ReloadInv, DropLeaseInv, DropPermitInv, ExpireInv DEF Dispatch, Drops
    <2>2. CASE \E w \in Worker : Works(w) \/ HandlerReturns(w)
      BY Zenon, <2>2, ReceiveInv, LeaveInv, HandlerReturnsInv DEF Works
    <2>3. CASE Supervise \/ SupervisorTimeout
      BY Zenon, <2>3, SuperviseInv, SupervisorTimeoutInv
    <2>4. CASE ShutdownBegin \/ Stopping
      BY Zenon, <2>4, ShutdownBeginInv, ShutdownStopInv, ShutdownWorkersInv, ShutdownSupervisorInv
         DEF Stopping
    <2>5. CASE UNCHANGED frontVars
      <3> USE <2>5 DEF frontVars, FrontInv
      <3>1. FrontTypeOK' /\ Owned' /\ Bounded'
        BY Zenon DEF FrontTypeOK, Owned, Bounded
      <3>2. PermitsExact' /\ InChannel'
        BY Zenon, SamePermits, SameChannel DEF FrontTypeOK
      <3>3. Progress'
        BY DEF Progress, InDispatch
      <3> QED
        BY Zenon, <3>1, <3>2, <3>3
    <2> QED
      BY Zenon, <2>1, <2>2, <2>3, <2>4, <2>5 DEF FrontNext
  <1> QED
    BY <1>1, InitInv, PTL DEF FrontSpec

(* The counter is exact and bounded however threads race for permits, for any *)
(* connections, workers and limit (try_acquire_permit).                       *)
THEOREM PermitsAreExact == FrontSpec => []PermitsExact
  BY FrontInductive, PTL DEF FrontInv

(* A dispatched connection never meets a full channel (try_dispatch). *)
THEOREM SendsSucceed == FrontSpec => []SendSucceeds
  <1>1. FrontInv => SendSucceeds
    BY Zenon, ChannelTakes DEF SendSucceeds
  <1> QED
    BY <1>1, FrontInductive, PTL

(* Accepted connections always have an active deadline or interrupted reads   *)
(* (supervise, stop_and_interrupt_all_reads).                                 *)
THEOREM ReadsAreBounded == FrontSpec => []ReadsBounded
  <1>1. FrontInv => ReadsBounded
    BY Zenon DEF FrontInv, Bounded, ReadsBounded
  <1> QED
    BY <1>1, FrontInductive, PTL

(* A shutdown that has joined the workers leaves nothing behind (shutdown). *)
THEOREM ShutdownIsClean == FrontSpec => []ShutdownDrains
  <1>1. FrontInv => ShutdownDrains
    <2> SUFFICES ASSUME FrontInv, shutdown \in {"supervisor", "returned"}
                 PROVE  inFlight = 0 /\ queue = <<>> /\ \A c \in Conn : conn[c] \in {"new", "closed"}
      BY Zenon DEF ShutdownDrains
    <2>1. /\ \A w \in Worker : worker[w] = "gone"
          /\ \A c \in Conn : ~InDispatch(c)
      BY Zenon DEF FrontInv, Progress
    <2>2. queue = <<>>
      BY Zenon, <2>1, FrontAssumption DEF FrontInv, Progress
    <2>3. Queued = {}
      BY Zenon, <2>2, Countable, FS_EmptySet DEF FrontInv, InChannel
    <2>4. \A c \in Conn : conn[c] \in {"new", "closed"}
      <3> TAKE c \in Conn
      <3>1. conn[c] # "queued"
        BY Zenon, <2>3 DEF Queued
      <3>2. \A w \in Worker : worker[w] # c
        BY Zenon, <2>1, FrontAssumption
      <3>3. conn[c] # "running"
        BY Zenon, <3>2 DEF FrontInv, Owned
      <3>4. conn[c] \notin {"load", "permit", "registered", "lease", "release"}
        BY Zenon, <2>1, <3>2 DEF InDispatch
      <3> QED
        BY <3>1, <3>3, <3>4 DEF FrontInv, FrontTypeOK, Permitted
    <2>5. Holding = {}
      BY <2>4 DEF Holding, Permitted
    <2> QED
      BY Zenon, <2>2, <2>4, <2>5, FS_EmptySet DEF FrontInv, PermitsExact
  <1> QED
    BY <1>1, FrontInductive, PTL
=============================================================================

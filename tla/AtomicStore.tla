---------------------------- MODULE AtomicStore ----------------------------
(***************************************************************************)
(* What a store engine promises its clients (trait StoreEngine): every    *)
(* admitted transaction takes effect at one instant, at most once and     *)
(* only when its preconditions hold; a success answer means it did, a     *)
(* refusal means it did not, and only an I/O error or the death of the    *)
(* client's process leaves the outcome open.  A multi-key read returns    *)
(* the documents of one instant.                                          *)
(***************************************************************************)
EXTENDS StoreRequests

VARIABLES
    docs,     \* the documents
    elog,     \* the event log
    pend,     \* pend[t]: the request t has submitted and not seen answered
    applied,  \* applied[t]: pend[t] has taken effect
    result,   \* result[t]: the last answer t received
    view      \* view[t]: what t's last completed read returned

vars == <<docs, elog, pend, applied, result, view>>

Refusals == {"conflict", "rejected", "busy"}

Init ==
    /\ docs = InitDocs
    /\ elog = <<>>
    /\ pend = [t \in Thread |-> NoRequest]
    /\ applied = [t \in Thread |-> FALSE]
    /\ result = [t \in Thread |-> "none"]
    /\ view = [t \in Thread |-> NoDocs]

Submit(t, r) ==
    /\ pend[t] = NoRequest
    /\ pend' = [pend EXCEPT ![t] = r]
    /\ result' = [result EXCEPT ![t] = "none"]
    /\ view' = [view EXCEPT ![t] = NoDocs]
    /\ UNCHANGED <<docs, elog, applied>>

Apply(t) ==
    /\ pend[t] # NoRequest /\ ~applied[t]
    /\ Matches(pend[t], docs) /\ Fits(pend[t], docs, elog)
    /\ docs' = DocsAfter(pend[t], docs)
    /\ elog' = LogAfter(pend[t], elog)
    /\ applied' = [applied EXCEPT ![t] = TRUE]
    /\ UNCHANGED <<pend, result, view>>

Respond(t, res) ==
    /\ pend[t] # NoRequest
    /\ res = "ok" => applied[t]
    /\ res \in Refusals => ~applied[t]
    /\ pend' = [pend EXCEPT ![t] = NoRequest]
    /\ applied' = [applied EXCEPT ![t] = FALSE]
    /\ result' = [result EXCEPT ![t] = res]
    /\ view' = [view EXCEPT ![t] = NoDocs]
    /\ UNCHANGED <<docs, elog>>

StartRead(t) ==
    /\ pend[t] = NoRequest
    /\ result' = [result EXCEPT ![t] = "none"]
    /\ view' = [view EXCEPT ![t] = NoDocs]
    /\ UNCHANGED <<docs, elog, pend, applied>>

Read(t, S) ==
    /\ pend[t] = NoRequest
    /\ result' = [result EXCEPT ![t] = "ok"]
    /\ view' = [view EXCEPT ![t] = [k \in S |-> docs[k]]]
    /\ UNCHANGED <<docs, elog, pend, applied>>

(* A read or an open is answered without documents. *)
Answer(t, res) ==
    /\ pend[t] = NoRequest
    /\ result' = [result EXCEPT ![t] = res]
    /\ view' = [view EXCEPT ![t] = NoDocs]
    /\ UNCHANGED <<docs, elog, pend, applied>>

(* The process of the clients in D dies: nobody learns the outcome. *)
Die(D) ==
    /\ pend' = [t \in Thread |-> IF t \in D THEN NoRequest ELSE pend[t]]
    /\ applied' = [t \in Thread |-> IF t \in D THEN FALSE ELSE applied[t]]
    /\ result' = [t \in Thread |-> IF t \in D THEN "none" ELSE result[t]]
    /\ view' = [t \in Thread |-> IF t \in D THEN NoDocs ELSE view[t]]
    /\ UNCHANGED <<docs, elog>>

Next ==
    \/ \E t \in Thread :
          \/ \E r \in Request : Submit(t, r)
          \/ Apply(t)
          \/ \E res \in {"ok", "io"} \cup Refusals : Respond(t, res)
          \/ StartRead(t)
          \/ \E S \in SUBSET Key : Read(t, S)
          \/ \E res \in {"ok", "busy", "io"} : Answer(t, res)
    \/ \E D \in SUBSET Thread : Die(D)

Spec == Init /\ [][Next]_vars
=============================================================================

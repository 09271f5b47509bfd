---------------------------- MODULE MCFileStore ----------------------------
(* Two addresses, one of them empty at first.  Two transactions race for  *)
(* the same precondition, one of them with a delete and two events, and a *)
(* scoped replacement needs the outcome of the first.  After it there is  *)
(* one place left in the event log, and Move asks for two.                *)
EXTENDS FileStore, TLC

CONSTANTS t1, t2, p1, p2, a, b, v1, v2, e1, e2, e3

TwoProcesses == t1 :> p1 @@ t2 :> p2

InitialDocs == a :> v1 @@ b :> Absent

PutBoth ==
    [kind |-> "commit", expect |-> a :> v1, write |-> a :> v2 @@ b :> v2,
     drop |-> {}, events |-> <<e1>>]

Move ==
    [kind |-> "commit", expect |-> a :> v1, write |-> a :> Absent @@ b :> v1,
     drop |-> {}, events |-> <<e2, e1>>]

Replace ==
    [kind |-> "replace", expect |-> a :> v2, write |-> a :> v1 @@ b :> Absent,
     drop |-> {e1}, events |-> <<e3>>]

MCRequests == {PutBoth, Move, Replace}
=============================================================================

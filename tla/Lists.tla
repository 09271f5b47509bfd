------------------------------- MODULE Lists -------------------------------
(* Lists without duplicates, as the service keeps its attachments, the      *)
(* runtime cache its order of use and the queue its order of service.       *)
EXTENDS Integers, Sequences, Functions

(* What retain leaves of a list when e, which occurs once at most, goes. *)
Without(s, e) ==
    IF e \in Range(s)
    THEN LET n == CHOOSE i \in 1 .. Len(s) : s[i] = e
         IN  [i \in 1 .. Len(s) - 1 |-> IF i < n THEN s[i] ELSE s[i + 1]]
    ELSE s
=============================================================================

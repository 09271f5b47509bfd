------------------------- MODULE MCMutationOperations -------------------------
EXTENDS MutationOperations, TLC

CONSTANTS t1, t2, t3, p1, p2, k1, k2, d

MCRequest == {[key |-> k1, kind |-> "write",   doc |-> d, dry |-> FALSE],
              [key |-> k1, kind |-> "correct", doc |-> d, dry |-> FALSE],
              [key |-> k2, kind |-> "delete",  doc |-> d, dry |-> FALSE],
              [key |-> k2, kind |-> "delete",  doc |-> d, dry |-> TRUE]}

(* Two threads share a process, a third has its own; two calls at a time meet *)
(* either in the reservations of one process or only in the Store.           *)
TwoProcesses == (t1 :> p1) @@ (t2 :> p1) @@ (t3 :> p2)
TwoAtATime == Cardinality({t \in Thread : pc[t] # "idle"}) <= 2

Symmetry == Permutations({t1, t2})
===================================================================================

---------------------- MODULE MCProceduralReconciliation ----------------------
(* Small scopes of procedural learning: two sources that both feed the first *)
(* tool; the second one also feeds the other.                               *)
EXTENDS ProceduralReconciliation, TLC

CONSTANTS s1, s2

MCFeeds == [s \in Source |-> IF s = s2 THEN Tool ELSE {1}]

Bound(crash, fault, archive, bind, resume, slow, control) ==
    [crash |-> crash, fault |-> fault, archive |-> archive, bind |-> bind, resume |-> resume,
     slow |-> slow, control |-> control]

Env(active, workers, limit, bound) ==
    [active |-> active, workers |-> workers, cap |-> limit, bound |-> bound]

(* One worker pages through both tools while the inventory changes under it or *)
(* it dies; two workers share a source whose producer is narrowed, granted     *)
(* again and revoked; the revisions of an owner reach their limit.             *)
Pages == {Env({s1, s2}, 1, Raised, Bound(0, 1, 1, 1, 0, 0, 1)),
          Env({s1, s2}, 1, Raised, Bound(1, 1, 0, 1, 0, 0, 1))}
Workers == Env({s1}, 2, Raised, Bound(0, 1, 0, 0, 0, 1, 2))
Capacity == Env({s1, s2}, 2, 2, Bound(0, 0, 0, 0, 2, 0, 1))
MCEnvironment == Pages \cup {Workers, Capacity}

(* One worker that dies up to twice, and the same limits. *)
Settling == {Env({s1, s2}, 1, 2, Bound(0, 1, 0, 0, 1, 0, 1)),
             Env({s1}, 1, Raised, Bound(1, 1, 1, 1, 0, 0, 1)),
             Env({s1}, 1, Raised, Bound(2, 0, 0, 0, 0, 0, 2))}

Symmetry == Permutations(Worker)
=============================================================================

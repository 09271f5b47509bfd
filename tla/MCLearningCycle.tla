----------------------------- MODULE MCLearningCycle -----------------------------
(* Small scopes of the learning engine. *)
EXTENDS LearningCycle, TLC

Bound(crash, slow, fault, calls, resume, change) ==
    [crash |-> crash, slow |-> slow, fault |-> fault, call |-> calls, resume |-> resume,
     change |-> change]

(* A rotated credential that is announced; a permission that is denied and     *)
(* granted; an unbound job beside a procedural lane that ends in a dead job.   *)
Credential == [unbound |-> {}, feedback |-> <<>>, failures |-> {"credential", "missing", "lost"},
               bound |-> Bound(0, 0, 1, 2, 0, 1)]
Permission == [unbound |-> {}, feedback |-> <<>>, failures |-> {"permission", "authority"},
               bound |-> Bound(0, 0, 0, 2, 1, 2)]
Lanes == [unbound |-> {2}, feedback |-> <<"due", "dead">>,
          failures |-> {"capability", "transient", "fatal", "binding", "authority"},
          bound |-> Bound(1, 1, 1, 0, 0, 2)]
MCEnvironment == {Credential, Permission, Lanes}

(* The host's operations: each generation once, and one of them again under    *)
(* another operation id.                                                      *)
MCOperation == {[kind |-> "credential", gen |-> 2, id |-> 1],
                [kind |-> "credential", gen |-> 2, id |-> 2],
                [kind |-> "permission", gen |-> 2, id |-> 3],
                [kind |-> "permission", gen |-> 2, id |-> 4],
                [kind |-> "permission", gen |-> 3, id |-> 5]}

(* Two workers of which one finds no model client when it could still be        *)
(* denied.                                                                    *)
Denied == {[unbound |-> {}, feedback |-> <<>>, failures |-> {"capability", "permission"},
            bound |-> Bound(0, 0, 0, 0, 0, 2)]}
NoOperation == {}
=============================================================================

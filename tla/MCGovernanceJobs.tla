------------------------------ MODULE MCGovernanceJobs ------------------------------
(* An instance of the governance queue: both callers use one lease owner name. *)
(* The exploration goes deep in four directions, each with the operations of    *)
(* its question: workers that hand a job to one another, operators and recovery *)
(* against workers, several jobs that share the index, and turns whose text is  *)
(* withdrawn while jobs are made for them.                                      *)
EXTENDS GovernanceJobs, TLC

SharedOwner == [c \in Caller |-> "worker"]

WorkerOps == {"ensure", "claim", "renew", "retry", "dead_letter", "complete", "cancel", "crash"}
OperatorOps == {"ensure", "claim", "block", "block_claimed", "resume",
                "credential_resume", "permission_resume"}
IndexOps == {"ensure", "reconcile", "claim", "complete", "cancel"}
TextOps == {"ensure", "reconcile", "reconcile_inactive", "withdraw", "claim"}
AllOps == WorkerOps \cup OperatorOps \cup IndexOps \cup TextOps

Calling(ops) == \A c \in Caller : call[c].pc # "idle" => call[c].op \in ops
Stored(P(_)) == \A j \in Job : jobs[j] # None => P(jobs[j])
Unrecovered(job) == job.lastPermission = None /\ (job.bound => job.status \notin Blocked)
FirstAttempt(job) == job.bound /\ job.attempts <= 1 /\ job.receipt = None
ShortLife(job) == job.rev <= 3 /\ Unrecovered(job)

Explored ==
    \/ turns <= 1 /\ Calling(WorkerOps) /\ Stored(Unrecovered) /\ withdrawn = {}
    \/ turns = 2 /\ jobs[1] = None /\ Calling(OperatorOps) /\ Stored(FirstAttempt)
       /\ now <= 1 /\ index.rev <= 4 /\ withdrawn = {}
    \/ Calling(IndexOps) /\ Stored(ShortLife) /\ now <= 1 /\ index.rev <= 4 /\ withdrawn = {}
    \/ Calling(TextOps) /\ Stored(ShortLife) /\ now <= 1 /\ index.rev <= 3

Symmetry == Permutations(Caller) \cup Permutations(Plan)
=====================================================================================

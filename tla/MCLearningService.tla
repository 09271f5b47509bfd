---------------------------- MODULE MCLearningService ----------------------------
(* Two host threads and one runtime that is attached, detached and attached   *)
(* anew while the worker still refers to its earlier attachment; or one        *)
(* thread that attaches the runtimes of two identities.                       *)
EXTENDS LearningService

CONSTANTS c1, c2, i1, i2

MCInit == Host({c1, c2}, {i1}) \/ Host({c1}, {i1, i2})
MCSpec == MCInit /\ [][Next]_vars /\ Fairness
=======================================================================================

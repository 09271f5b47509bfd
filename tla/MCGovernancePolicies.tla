-------------------------- MODULE MCGovernancePolicies ----------------------------
EXTENDS GovernancePolicies, TLC

CONSTANTS o1, o2, o3, rule, t1, t2

Put(o, dry) == [op |-> o, kind |-> "put", rule |-> rule, dry |-> dry]
Remove(o, i, n, dry) == [op |-> o, kind |-> "remove", id |-> i, rev |-> n, dry |-> dry]

MCRequest == {Put(o1, FALSE), Put(o2, FALSE), Put(o3, FALSE), Put(o3, TRUE),
              Remove(o1, o1, 1, FALSE), Remove(o2, o1, 2, FALSE),
              Remove(o2, o2, 1, FALSE),
              Remove(o3, o1, 1, TRUE)}

Symmetry == Permutations({t1, t2})
===================================================================================

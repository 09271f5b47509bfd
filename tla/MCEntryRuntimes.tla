------------------------------- MODULE MCEntryRuntimes -------------------------------
EXTENDS EntryRuntimes, TLC

CONSTANTS s1, s2, i1, i2

EachItsOwn == (s1 :> i1) @@ (s2 :> i2)
Symmetry == Permutations(Handle) \cup Permutations(Entry) \cup Permutations(Caller)
=======================================================================================

------------------------------- MODULE MCFsFdw -------------------------------
(* Model values, initial files and symmetry for the runs of FsFdw.           *)
EXTENDS FsFdw

CONSTANTS b1, b2, f, g, x, empty, i1, i2, i3, i4

\* Every file is there, and committed, before the first transaction.
AllExist == \A n \in Names : dir[n] # NULL
ExistingSpec == Init /\ AllExist /\ [][Next]_vars

MCSymmetry == Permutations(Backends) \union Permutations(Names) \union Permutations(Inodes)
=============================================================================

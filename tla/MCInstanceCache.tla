--------------------------- MODULE MCInstanceCache ---------------------------
(* Model values and symmetry for the runs of InstanceCache.                  *)
EXTENDS InstanceCache, TLC

CONSTANTS t1, t2, o1, o2, c1, c2

MCSymmetry == Permutations(Tables) \union Permutations(Options)
=============================================================================

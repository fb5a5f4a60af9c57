---------------------------- MODULE MCCondorJob ----------------------------
(***************************************************************************)
(* CondorJob for TLC: the ids to look up, and the symmetry of the threads  *)
(* and of the handles, which only the safety runs use.                     *)
(***************************************************************************)
EXTENDS CondorJob, TLC

CONSTANTS k1, k2, f1, f2, p1, p2

NoIds      == {}
OwnIds     == {<<k1>>}
MixedIds   == {<<k1>>, <<f1>>, <<f2>>}
ForeignIds == {<<f1>>, <<f1, p1>>}

Symmetry == Permutations(Threads) \cup Permutations(Cpis)

=============================================================================

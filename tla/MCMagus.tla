-------------------------------- MODULE MCMagus --------------------------------
(* Small instances of Magus for TLC. *)
EXTENDS MagusInv, TLC

CONSTANTS a, b

(* b needs a to build. *)
Pair == {<<b, "build", a>>}

OnlyFetch == <<"fetch">>
FetchBuild == <<"build", "fetch">>
AllPhases == <<"build", "fetch", "scan", "test">>

JobSymmetry == Permutations(Jobs)
Symmetry == Permutations(Jobs) \cup Permutations(Machines)
=============================================================================

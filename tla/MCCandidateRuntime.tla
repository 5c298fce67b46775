------------------------- MODULE MCCandidateRuntime -------------------------
(* Small instances of CandidateRuntime for TLC. *)
EXTENDS CandidateRuntime, TLC

CONSTANTS t1, t2

MCThreads == {t1, t2}

Symmetry == Permutations(MCThreads)
=============================================================================

------------------------- MODULE MCCandidateService -------------------------
(* Small instances of CandidateService for TLC. *)
EXTENDS CandidateService, TLC

CONSTANTS t1, t2

OneThread == {t1}

MCThreads == {t1, t2}

TwoEach == <<2, 2>>

ThreeAndTwo == <<3, 2>>

Symmetry == Permutations(MCThreads)
=============================================================================

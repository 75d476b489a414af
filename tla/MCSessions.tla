----------------------------- MODULE MCSessions -----------------------------
(* Thread identities and symmetry for checking Sessions with TLC.          *)
EXTENDS Sessions, TLC

CONSTANTS t1, t2

MCOneThread == {t1}
MCTwoThreads == {t1, t2}

MCSymmetry == Permutations(MCTwoThreads)
=============================================================================

--------------------------- MODULE MCRandomness -----------------------------
(* Thread identities and blocks for checking Randomness with TLC.          *)
EXTENDS Randomness

CONSTANTS t1, t2, b1

MCThreads == {t1, t2}
MCBlocks == {ZeroBlock, b1}
=============================================================================

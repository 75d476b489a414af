------------------------------ MODULE MCKeyUse ------------------------------
(***************************************************************************)
(* Instance of KeyUse for TLC.                                             *)
(***************************************************************************)
EXTENDS KeyUse, TLC

Symmetry ==
  Permutations(Threads) \cup Permutations(Slots)
  \cup Permutations(AesKeys) \cup Permutations(RsaKeys)
  \cup Permutations(IVs \ {ZeroIV})
=============================================================================

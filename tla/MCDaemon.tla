------------------------------ MODULE MCDaemon ------------------------------
EXTENDS Daemon, TLC

Symmetry == Permutations(Slots) \cup Permutations(Calls)
=============================================================================

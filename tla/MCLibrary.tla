----------------------------- MODULE MCLibrary ------------------------------
(* Thread identities for checking Library with TLC.                        *)
EXTENDS Library

CONSTANTS t1, t2

MCOneThread == {t1}
MCTwoThreads == {t1, t2}
=============================================================================

---------------------------- MODULE MCOperations ----------------------------
(* Sessions, keys, parts and threads for checking Operations with TLC.     *)
EXTENDS Operations

CONSTANTS s1, k1, k2, p1, c1

MCOneSession == {s1}
MCPrivateKey == {k1}
MCPublicKey == {k2}
MCKeys == {k1, k2}
MCOnePart == {p1}
MCCallers == {c1}
=============================================================================

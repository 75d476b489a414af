-------------------------- MODULE MCLoginThrottle --------------------------
EXTENDS LoginThrottle, TLC

CONSTANTS Certs, address

\* Clients with certificates and one without, all behind one address.
SomePeers == {[cert |-> c, ip |-> address] : c \in Certs \cup {None}}

\* The two tables are used by the same code.
Symmetry == Permutations(Calls) \cup Permutations(Certs) \cup Permutations(Tables)
=============================================================================

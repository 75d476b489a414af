------------------------------ MODULE Requests ------------------------------
(***************************************************************************)
(* What the parts of the gRPC daemon share (craton-hsm-daemon/src/         *)
(* server.rs): the slots it serves and the requests it has under way,      *)
(* each on a task of its own.                                              *)
(***************************************************************************)
EXTENDS FiniteSets

CONSTANTS
    Slots,
    Calls       \* bound: requests in flight at a time

ASSUME SlotsAssumption == IsFiniteSet(Slots)
ASSUME CallsAssumption == IsFiniteSet(Calls)
=============================================================================

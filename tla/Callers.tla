------------------------------ MODULE Callers -------------------------------
(***************************************************************************)
(* The threads of a process that uses the library, and what stands for     *)
(* none of them where a mutex has no holder.                               *)
(***************************************************************************)
CONSTANTS
    Threads,
    NoThread    \* nobody holds the mutex

ASSUME ThreadAssumption == NoThread \notin Threads
=============================================================================

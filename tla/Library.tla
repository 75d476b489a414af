------------------------------ MODULE Library -------------------------------
(***************************************************************************)
(* The life of the PKCS#11 library in a process (pkcs11_abi/functions.rs): *)
(* C_Initialize, C_Finalize, and get_hsm, with which every other C_ call   *)
(* begins.  The HsmCore lives behind the mutex HSM; get_hsm reads the      *)
(* atomics POST_FAILED, INIT_PID and HSM_GENERATION without it and keeps   *)
(* the core in a thread-local cache tagged with the generation, so a step  *)
(* here is one access to one of those, or what runs under the mutex and    *)
(* cannot be seen from outside.                                            *)
(*                                                                         *)
(* A process may fork: the model follows the child, in which only the      *)
(* forking thread exists and the memory, held mutex included, is copied.   *)
(***************************************************************************)
EXTENDS Callers, Naturals

CONSTANTS
    MaxInstances,   \* bound: successful C_Initialize calls
    MaxPid          \* bound: process ids are 1 .. MaxPid; 1 is the first

ASSUME InstanceAssumption == MaxInstances \in Nat
ASSUME PidAssumption == MaxPid \in Nat \ {0}

VARIABLES
    hsm,        \* HSM: the current instance, 0 for None
    lock,       \* who holds the mutex of HSM
    postFailed, \* POST_FAILED
    generation, \* HSM_GENERATION
    initPid,    \* INIT_PID, 0 before C_Initialize
    pid,        \* the process id
    cached,     \* [Threads -> Cache]: CACHED_HSM
    call,       \* [Threads -> Call]: where each thread is, and its locals
    created,    \* instances created so far; they are 1 .. created
    owner,      \* [instance -> process that created it]
    withdrawn   \* instances finalized, or that failed a self-test

vars == <<hsm, lock, postFailed, generation, initPid, pid, cached, call,
          created, owner, withdrawn>>

memory == <<hsm, generation, initPid, created, owner>>

Instances == 1 .. MaxInstances
Core == Instances \cup {0}
Pids == 1 .. MaxPid

\* CACHED_HSM; core 0 stands for an empty cache.
Cache == [core : Core, gen : Nat]
Empty == [core |-> 0, gen |-> 0]

Initializing == {"init_clear", "init_post", "init_pid", "init_publish"}
Finalizing == {"fin_pid", "fin_generation"}
PC == {"idle", "get_pid", "get_cached", "get_locked", "using",
       "init_lock", "already", "fin_lock", "unlock", "gone"}
      \cup Initializing \cup Finalizing

\* barred: what was withdrawn when the call began.
Call == [pc : PC, core : Core, gen : Nat, barred : SUBSET Instances]

Idle == [pc |-> "idle", core |-> 0, gen |-> 0, barred |-> {}]

TypeOK ==
    /\ hsm \in Core
    /\ lock \in Threads \cup {NoThread}
    /\ postFailed \in BOOLEAN
    /\ generation \in Nat
    /\ initPid \in Pids \cup {0}
    /\ pid \in Pids
    /\ cached \in [Threads -> Cache]
    /\ call \in [Threads -> Call]
    /\ created \in Core
    /\ owner \in [Instances -> Pids]
    /\ withdrawn \subseteq Instances

Init ==
    /\ hsm = 0
    /\ lock = NoThread
    /\ postFailed = FALSE
    /\ generation = 0
    /\ initPid = 0
    /\ pid = 1
    /\ cached = [t \in Threads |-> Empty]
    /\ call = [t \in Threads |-> Idle]
    /\ created = 0
    /\ owner = [i \in Instances |-> 1]
    /\ withdrawn = {}

-----------------------------------------------------------------------------
At(t, pc) == call[t].pc = pc

Goto(t, pc) == call' = [call EXCEPT ![t].pc = pc]

Begin(t, pc) == At(t, "idle") /\ Goto(t, pc)

Return(t) == call' = [call EXCEPT ![t] = Idle]

Acquire(t) == lock = NoThread /\ lock' = t

Release(t) == lock' = NoThread

-----------------------------------------------------------------------------
(* get_hsm: with POST_FAILED set it returns CKR_GENERAL_ERROR at once      *)

get_hsm(t) ==
    /\ At(t, "idle")
    /\ ~postFailed
    /\ call' = [call EXCEPT ![t] = [Idle EXCEPT !.pc = "get_pid",
                                                !.barred = withdrawn]]
    /\ UNCHANGED <<memory, lock, postFailed, pid, cached, withdrawn>>

NeverForked == FALSE

\* The process is a fork child of the one that initialized the library.
Forked == initPid # 0 /\ initPid # pid

get_pid(t) ==
    /\ At(t, "get_pid")
    /\ IF Forked
       THEN cached' = [cached EXCEPT ![t] = Empty] /\ Return(t)
       ELSE Goto(t, "get_cached") /\ UNCHANGED cached
    /\ UNCHANGED <<memory, lock, postFailed, pid, withdrawn>>

\* The fast path: a cached core of the current generation.
get_cached(t) ==
    LET hit == cached[t].core # 0 /\ cached[t].gen = generation
    IN  /\ At(t, "get_cached")
        /\ call' = [call EXCEPT ![t] =
                      [@ EXCEPT !.pc = IF hit THEN "using" ELSE "get_locked",
                                !.core = IF hit THEN cached[t].core ELSE 0,
                                !.gen = generation]]
        /\ UNCHANGED <<memory, lock, postFailed, pid, cached, withdrawn>>

CloneOrRetry(t) ==
    IF hsm = 0 THEN Goto(t, "get_cached") /\ UNCHANGED cached
    ELSE /\ cached' = [cached EXCEPT ![t] = [core |-> hsm, gen |-> call[t].gen]]
         /\ call' = [call EXCEPT ![t] = [@ EXCEPT !.pc = "using", !.core = hsm]]

\* Under the mutex; the cache is tagged with the generation read before.
CloneCore(t) ==
    IF hsm = 0 THEN Return(t) /\ UNCHANGED cached
    ELSE /\ cached' = [cached EXCEPT ![t] = [core |-> hsm, gen |-> call[t].gen]]
         /\ call' = [call EXCEPT ![t] = [@ EXCEPT !.pc = "using", !.core = hsm]]

get_locked(t) ==
    /\ At(t, "get_locked")
    /\ lock = NoThread
    /\ CloneCore(t)
    /\ UNCHANGED <<memory, lock, postFailed, pid, withdrawn>>

\* The rest of the C_ call.
finish(t) ==
    /\ At(t, "using")
    /\ Return(t)
    /\ UNCHANGED <<memory, lock, postFailed, pid, cached, withdrawn>>

\* C_GenerateKeyPair: a pairwise consistency test fails.
self_test_failed(t) ==
    /\ At(t, "using")
    /\ postFailed' = TRUE
    /\ withdrawn' = withdrawn \cup {call[t].core}
    /\ Return(t)
    /\ UNCHANGED <<memory, lock, pid, cached>>

-----------------------------------------------------------------------------
(* C_Initialize: all of it under the mutex                                 *)

C_Initialize(t) ==
    /\ Begin(t, "init_lock")
    /\ UNCHANGED <<memory, lock, postFailed, pid, cached, withdrawn>>

\* "already" is the return of CKR_CRYPTOKI_ALREADY_INITIALIZED.
init_lock(t) ==
    /\ At(t, "init_lock")
    /\ IF hsm # 0
       THEN /\ lock = NoThread
            /\ call' = [call EXCEPT ![t] = [@ EXCEPT !.pc = "already",
                                                     !.core = hsm]]
            /\ UNCHANGED lock
       ELSE Acquire(t) /\ Goto(t, "init_clear")
    /\ UNCHANGED <<memory, postFailed, pid, cached, withdrawn>>

already(t) ==
    /\ At(t, "already")
    /\ Return(t)
    /\ UNCHANGED <<memory, lock, postFailed, pid, cached, withdrawn>>

init_clear(t) ==
    /\ At(t, "init_clear")
    /\ postFailed' = FALSE
    /\ Goto(t, "init_post")
    /\ UNCHANGED <<memory, lock, pid, cached, withdrawn>>

\* The guard is dropped on every early return.
DropGuard(t) == Release(t)

\* run_post returns at the first self-test that fails.
run_post_fails(t) == postFailed' = TRUE /\ DropGuard(t) /\ Return(t)

\* run_post, then the configuration: either may fail.
init_post(t) ==
    /\ At(t, "init_post")
    /\ \/ run_post_fails(t)
       \/ DropGuard(t) /\ Return(t) /\ UNCHANGED postFailed
       \/ /\ created < MaxInstances
          /\ Goto(t, "init_pid") /\ UNCHANGED <<lock, postFailed>>
    /\ UNCHANGED <<memory, pid, cached, withdrawn>>

init_pid(t) ==
    /\ At(t, "init_pid")
    /\ initPid' = pid
    /\ Goto(t, "init_publish")
    /\ UNCHANGED <<hsm, lock, postFailed, generation, pid, cached, created,
                   owner, withdrawn>>

init_publish(t) ==
    /\ At(t, "init_publish")
    /\ created' = created + 1
    /\ owner' = [owner EXCEPT ![created + 1] = pid]
    /\ hsm' = created + 1
    /\ generation' = generation + 1
    /\ Goto(t, "unlock")
    /\ UNCHANGED <<lock, postFailed, initPid, pid, cached, withdrawn>>

unlock(t) ==
    /\ At(t, "unlock")
    /\ Release(t)
    /\ Return(t)
    /\ UNCHANGED <<memory, postFailed, pid, cached, withdrawn>>

-----------------------------------------------------------------------------
(* C_Finalize: it does not go through get_hsm                              *)

C_Finalize(t) ==
    /\ Begin(t, "fin_lock")
    /\ UNCHANGED <<memory, lock, postFailed, pid, cached, withdrawn>>

fin_lock(t) ==
    /\ At(t, "fin_lock")
    /\ IF hsm = 0
       THEN lock = NoThread /\ Return(t) /\ UNCHANGED <<hsm, lock>>
       ELSE /\ Acquire(t)
            /\ hsm' = 0
            /\ call' = [call EXCEPT ![t] = [@ EXCEPT !.pc = "fin_pid",
                                                     !.core = hsm]]
    /\ UNCHANGED <<postFailed, generation, initPid, pid, cached, created,
                   owner, withdrawn>>

fin_pid(t) ==
    /\ At(t, "fin_pid")
    /\ initPid' = 0
    /\ Goto(t, "fin_generation")
    /\ UNCHANGED <<hsm, lock, postFailed, generation, pid, cached, created,
                   owner, withdrawn>>

SameGeneration == generation

NextGeneration == generation + 1

\* The other threads' caches are invalidated, this thread's is emptied.
fin_generation(t) ==
    /\ At(t, "fin_generation")
    /\ generation' = NextGeneration
    /\ cached' = [cached EXCEPT ![t] = Empty]
    /\ withdrawn' = withdrawn \cup {call[t].core}
    /\ Goto(t, "unlock")
    /\ UNCHANGED <<hsm, lock, postFailed, initPid, pid, created, owner>>

-----------------------------------------------------------------------------
(* fork(2), between two calls of the thread: the child, where the other    *)
(* threads are gone, wherever they were, and a mutex one of them held      *)
(* stays held.                                                             *)

Fork(t) ==
    /\ At(t, "idle")
    /\ pid < MaxPid
    /\ pid' = pid + 1
    /\ call' = [u \in Threads |-> IF u = t THEN Idle
                                  ELSE [Idle EXCEPT !.pc = "gone"]]
    /\ UNCHANGED <<memory, lock, postFailed, cached, withdrawn>>

Locking(t) == get_locked(t) \/ init_lock(t) \/ fin_lock(t)

Running(t) ==
    \/ get_pid(t) \/ get_cached(t) \/ finish(t) \/ self_test_failed(t)
    \/ already(t) \/ init_clear(t) \/ init_post(t) \/ init_pid(t)
    \/ init_publish(t) \/ fin_pid(t) \/ fin_generation(t) \/ unlock(t)

Start(t) == get_hsm(t) \/ C_Initialize(t) \/ C_Finalize(t)

Next == \E t \in Threads : Start(t) \/ Locking(t) \/ Running(t) \/ Fork(t)

\* A thread inside a call keeps running, and parking_lot's mutex, which
\* hands itself over to a waiter from time to time, lets each of them in.
Spec == /\ Init /\ [][Next]_vars
        /\ \A t \in Threads : WF_vars(Running(t)) /\ SF_vars(Locking(t))

-----------------------------------------------------------------------------
(* Properties                                                              *)

(* Every call runs on an instance, get_hsm having failed if there is none, *)
(* and on none that was withdrawn before the call began:                   *)
(* neither on one whose C_Finalize had returned, which a thread-local      *)
(* cache may still hold, nor on one that had failed a self-test, although  *)
(* C_Initialize clears POST_FAILED while other threads are in get_hsm.     *)
NoWithdrawnInstance ==
    \A t \in Threads :
        At(t, "using") => call[t].core \in Instances \ call[t].barred

(* The fork check compares with the right process: while nobody holds the  *)
(* mutex, INIT_PID is the creator of the instance behind it, and zero if   *)
(* there is none, through failed initializations and child processes.      *)
PidTracksInstance ==
    lock = NoThread => initPid = IF hsm = 0 THEN 0 ELSE owner[hsm]

\* The mutex is held by a thread that does not exist: it was inside
\* C_Initialize or C_Finalize when another one forked.
Orphaned == lock \in Threads /\ At(lock, "gone")

(* A call that begins with get_hsm never works, in a child process, on the *)
(* instance the child inherited, whether it would come from the mutex or   *)
(* from the thread-local cache.  One window is left: C_Finalize clears     *)
(* INIT_PID before it invalidates the caches, so the child of a process    *)
(* forked between the two passes the check with a cache that looks valid.  *)
(* C_Finalize itself has no such check and is not meant here.              *)
ChildRefused ==
    \A t \in Threads :
        At(t, "using") => \/ owner[call[t].core] = pid
                          \/ Orphaned /\ initPid = 0

(* The two sides of the fork check of get_hsm: INIT_PID follows the        *)
(* instance, and the check refuses an inherited one.                       *)
ForkSafe == PidTracksInstance /\ ChildRefused

(* Every call returns, for no early return leaves the mutex HSM held: a    *)
(* thread waits for ever only in a child process whose copy of the mutex   *)
(* is held by a thread that was not copied.                                *)
CallsReturn ==
    \A t \in Threads :
        []<>(\/ At(t, "idle") \/ At(t, "gone")
             \/ Orphaned /\ call[t].pc \in {"get_locked", "init_lock", "fin_lock"})
=============================================================================

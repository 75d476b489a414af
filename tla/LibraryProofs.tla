---------------------------- MODULE LibraryProofs ---------------------------
(***************************************************************************)
(* The generation protocol of the thread-local cache, for any number of    *)
(* threads, instances and forks: no call runs on an instance that was      *)
(* finalized, or that failed a self-test, before the call began.  And of   *)
(* the random generator that C_Initialize tests and seeds: the health      *)
(* tests find what they are meant to find, nothing read after a failure    *)
(* reaches a DRBG, and no block is given out twice in a row.               *)
(***************************************************************************)
EXTENDS Library, Randomness, Integers, Sequences, FiniteSetTheorems, SequenceTheorems,
        WellFoundedInduction, TLAPS

Getting == {"get_pid", "get_cached", "get_locked"}

Holding == Initializing \cup Finalizing \cup {"unlock"}

\* A thread inside a critical section holds the mutex, and a mutex is held
\* by such a thread or by one that a fork removed.
MutexHeld ==
    /\ \A t \in Threads : call[t].pc \in Holding => lock = t
    /\ lock \in Threads => call[lock].pc \in Holding \cup {"gone"}
    /\ \A t \in Threads : call[t].pc \in Initializing \cup Finalizing => hsm = 0

\* Everything refers to instances that exist and generations that were.
Bounded ==
    /\ hsm <= created
    /\ \A i \in withdrawn : i <= created
    /\ \A t \in Threads :
         /\ cached[t].core <= created
         /\ cached[t].gen <= generation
         /\ call[t].core <= created
         /\ call[t].gen <= generation
         /\ \A i \in call[t].barred : i <= created
         /\ call[t].pc \in {"init_pid", "init_publish"}
              => created < MaxInstances
         /\ call[t].pc \in Finalizing => call[t].core # 0

\* What thread t would take from its cache now.
Valid(t) == cached[t].core # 0 /\ cached[t].gen = generation

\* With no instance behind a free mutex, or one that C_Initialize or the
\* end of C_Finalize holds, no cache is valid.
NoneValid ==
    (hsm = 0 /\ (lock \in Threads => call[lock].pc \in Initializing \cup {"unlock"}))
        => \A t \in Threads : ~Valid(t)

\* Outside the error state a valid cache, and the mutex, hold no withdrawn
\* instance.
NotWithdrawn ==
    ~postFailed => /\ hsm \notin withdrawn
                   /\ \A t \in Threads : Valid(t) => cached[t].core \notin withdrawn

\* A call in get_hsm cannot come by an instance withdrawn before it began,
\* even if the error state was entered and left since.
GettingSafe ==
    \A t \in Threads : call[t].pc \in Getting =>
        /\ hsm \notin call[t].barred
        /\ Valid(t) => cached[t].core \notin call[t].barred

LibraryInv ==
    /\ TypeOK
    /\ MutexHeld
    /\ Bounded
    /\ NoneValid
    /\ NotWithdrawn
    /\ GettingSafe
    /\ NoWithdrawnInstance

-----------------------------------------------------------------------------
\* The vocabulary of types and control, of use in every step.
USE DEF Core, Instances, Pids, Cache, Call, PC, Idle, Empty, At, Initializing,
        Finalizing, Holding, Getting, Valid

\* The thread moves on in its call.
LEMMA GotoType ==
    ASSUME TypeOK, NEW t \in Threads, NEW p \in PC, Goto(t, p)
    PROVE  call' \in [Threads -> Call]
<1>1. call[t] \in Call
  BY DEF TypeOK
<1>2. [call[t] EXCEPT !.pc = p] \in Call
  BY <1>1
<1> QED
  BY <1>2 DEF TypeOK, Goto

\* The call returns.
LEMMA ReturnType ==
    ASSUME TypeOK, NEW t \in Threads, Return(t)
    PROVE  call' \in [Threads -> Call]
<1>1. Idle \in Call
  OBVIOUS
<1> QED
  BY <1>1 DEF TypeOK, Return

\* A call enters get_hsm outside the error state.
LEMMA Step_get_hsm ==
    ASSUME LibraryInv, NEW t \in Threads, get_hsm(t)
    PROVE  LibraryInv'
<1> USE DEF LibraryInv, memory, get_hsm
<1>1. TypeOK'
  <2>1. [Idle EXCEPT !.pc = "get_pid", !.barred = withdrawn] \in Call
    BY DEF TypeOK
  <2>2. call' \in [Threads -> Call]
    BY <2>1 DEF TypeOK
  <2> QED
    BY <2>2 DEF TypeOK
<1>2. MutexHeld'
  BY ThreadAssumption DEF TypeOK, MutexHeld
<1>3. Bounded'
  BY SMTT(30), InstanceAssumption DEF TypeOK, MutexHeld, Bounded
<1>4. NoneValid'
  BY ThreadAssumption, InstanceAssumption
     DEF TypeOK, MutexHeld, Bounded, NoneValid
<1>5. NotWithdrawn'
  BY ThreadAssumption, InstanceAssumption
     DEF TypeOK, MutexHeld, Bounded, NoneValid, NotWithdrawn
<1>6. GettingSafe'
  BY ThreadAssumption, InstanceAssumption
     DEF TypeOK, MutexHeld, Bounded, NotWithdrawn, GettingSafe
<1>7. NoWithdrawnInstance'
  BY InstanceAssumption DEF TypeOK, GettingSafe, NoWithdrawnInstance
<1> QED
  BY <1>1, <1>2, <1>3, <1>4, <1>5, <1>6, <1>7 DEF LibraryInv

\* The fork check.
LEMMA Step_get_pid ==
    ASSUME LibraryInv, NEW t \in Threads, get_pid(t)
    PROVE  LibraryInv'
<1> USE DEF LibraryInv
<1>0. /\ call[t].pc = "get_pid"
      /\ UNCHANGED <<hsm, generation, initPid, created, owner, lock,
                     postFailed, pid, withdrawn>>
  BY DEF memory, TypeOK, get_pid, Return, Goto, Forked
<1>1. CASE Forked
  <2>0. /\ call' = [call EXCEPT ![t] = Idle]
        /\ cached' = [cached EXCEPT ![t] = Empty]
    BY <1>0, <1>1 DEF get_pid, Return, Goto, Forked
  <2>1. TypeOK'
    <3>1. call' \in [Threads -> Call]
      BY <2>0, ReturnType DEF Return
    <3> QED
      BY <1>0, <2>0, <3>1 DEF TypeOK
  <2>2. MutexHeld'
    BY <1>0, <1>1, <2>0, ThreadAssumption DEF TypeOK, MutexHeld
  <2>3. Bounded'
    BY <1>0, <1>1, <2>0, InstanceAssumption DEF TypeOK, MutexHeld, Bounded
  <2>4. NoneValid'
    BY <1>0, <1>1, <2>0, ThreadAssumption, InstanceAssumption
       DEF TypeOK, MutexHeld, Bounded, NoneValid
  <2>5. NotWithdrawn'
    BY <1>0, <1>1, <2>0, ThreadAssumption, InstanceAssumption
       DEF TypeOK, MutexHeld, Bounded, NoneValid, NotWithdrawn
  <2>6. GettingSafe'
    BY <1>0, <1>1, <2>0, ThreadAssumption, InstanceAssumption
       DEF TypeOK, MutexHeld, Bounded, NotWithdrawn, GettingSafe
  <2>7. NoWithdrawnInstance'
    BY <1>0, <1>1, <2>0, InstanceAssumption
       DEF TypeOK, GettingSafe, NoWithdrawnInstance
  <2> QED
    BY <2>1, <2>2, <2>3, <2>4, <2>5, <2>6, <2>7 DEF LibraryInv
<1>2. CASE ~Forked
  <2>0. call' = [call EXCEPT ![t].pc = "get_cached"] /\ cached' = cached
    BY <1>0, <1>2 DEF get_pid, Return, Goto, Forked
  <2>1. TypeOK'
    <3>1. call' \in [Threads -> Call]
      BY <2>0, GotoType DEF Goto
    <3> QED
      BY <1>0, <2>0, <3>1 DEF TypeOK
  <2>2. MutexHeld'
    BY <1>0, <1>2, <2>0, ThreadAssumption DEF TypeOK, MutexHeld
  <2>3. Bounded'
    BY <1>0, <1>2, <2>0, InstanceAssumption DEF TypeOK, MutexHeld, Bounded
  <2>4. NoneValid'
    BY <1>0, <1>2, <2>0, ThreadAssumption, InstanceAssumption
       DEF TypeOK, MutexHeld, Bounded, NoneValid
  <2>5. NotWithdrawn'
    BY <1>0, <1>2, <2>0, ThreadAssumption, InstanceAssumption
       DEF TypeOK, MutexHeld, Bounded, NoneValid, NotWithdrawn
  <2>6. GettingSafe'
    BY <1>0, <1>2, <2>0, ThreadAssumption, InstanceAssumption
       DEF TypeOK, MutexHeld, Bounded, NotWithdrawn, GettingSafe
  <2>7. NoWithdrawnInstance'
    BY <1>0, <1>2, <2>0, InstanceAssumption
       DEF TypeOK, GettingSafe, NoWithdrawnInstance
  <2> QED
    BY <2>1, <2>2, <2>3, <2>4, <2>5, <2>6, <2>7 DEF LibraryInv
<1> QED
  BY <1>1, <1>2

\* The fast path.
LEMMA Step_get_cached ==
    ASSUME LibraryInv, NEW t \in Threads, get_cached(t)
    PROVE  LibraryInv'
<1> USE DEF LibraryInv
<1>0. /\ call[t].pc = "get_cached"
      /\ UNCHANGED <<hsm, generation, initPid, created, owner, lock,
                     postFailed, pid, cached, withdrawn>>
  BY DEF memory, TypeOK, get_cached
<1>1. CASE Valid(t)
  <2>0. call' = [call EXCEPT ![t] =
                  [@ EXCEPT !.pc = "using", !.core = cached[t].core, !.gen = generation]]
    BY <1>0, <1>1 DEF get_cached
  <2>1. TypeOK'
    <3>1. cached[t].core \in Core \ {0}
      BY <1>1 DEF TypeOK
    <3>2. [call[t] EXCEPT !.pc = "using", !.core = cached[t].core,
                          !.gen = generation] \in Call
      BY <3>1 DEF TypeOK
    <3>3. call' \in [Threads -> Call]
      BY <2>0, <3>2 DEF TypeOK
    <3> QED
      BY <1>0, <3>3 DEF TypeOK
  <2>2. MutexHeld'
    BY <1>0, <1>1, <2>0, ThreadAssumption DEF TypeOK, MutexHeld
  <2>3. Bounded'
    BY <1>0, <1>1, <2>0, InstanceAssumption DEF TypeOK, MutexHeld, Bounded
  <2>4. NoneValid'
    BY <1>0, <1>1, <2>0, ThreadAssumption, InstanceAssumption
       DEF TypeOK, MutexHeld, Bounded, NoneValid
  <2>5. NotWithdrawn'
    BY <1>0, <1>1, <2>0, ThreadAssumption, InstanceAssumption
       DEF TypeOK, MutexHeld, Bounded, NoneValid, NotWithdrawn
  <2>6. GettingSafe'
    BY <1>0, <1>1, <2>0, ThreadAssumption, InstanceAssumption
       DEF TypeOK, MutexHeld, Bounded, NotWithdrawn, GettingSafe
  <2>7. NoWithdrawnInstance'
    BY <1>0, <1>1, <2>0, InstanceAssumption
       DEF TypeOK, GettingSafe, NoWithdrawnInstance
  <2> QED
    BY <2>1, <2>2, <2>3, <2>4, <2>5, <2>6, <2>7 DEF LibraryInv
<1>2. CASE ~Valid(t)
  <2>0. call' = [call EXCEPT ![t] =
                  [@ EXCEPT !.pc = "get_locked", !.core = 0, !.gen = generation]]
    BY <1>0, <1>2 DEF get_cached
  <2>1. TypeOK'
    <3>1. [call[t] EXCEPT !.pc = "get_locked", !.core = 0,
                          !.gen = generation] \in Call
      BY ZenonT(40) DEF TypeOK
    <3>2. call' \in [Threads -> Call]
      BY <2>0, <3>1 DEF TypeOK
    <3> QED
      BY <1>0, <3>2 DEF TypeOK
  <2>2. MutexHeld'
    BY <1>0, <1>2, <2>0, ThreadAssumption DEF TypeOK, MutexHeld
  <2>3. Bounded'
    BY <1>0, <1>2, <2>0, InstanceAssumption DEF TypeOK, MutexHeld, Bounded
  <2>4. NoneValid'
    BY <1>0, <1>2, <2>0, ThreadAssumption, InstanceAssumption
       DEF TypeOK, MutexHeld, Bounded, NoneValid
  <2>5. NotWithdrawn'
    BY <1>0, <1>2, <2>0, ThreadAssumption, InstanceAssumption
       DEF TypeOK, MutexHeld, Bounded, NoneValid, NotWithdrawn
  <2>6. GettingSafe'
    BY <1>0, <1>2, <2>0, ThreadAssumption, InstanceAssumption
       DEF TypeOK, MutexHeld, Bounded, NotWithdrawn, GettingSafe
  <2>7. NoWithdrawnInstance'
    BY <1>0, <1>2, <2>0, InstanceAssumption
       DEF TypeOK, GettingSafe, NoWithdrawnInstance
  <2> QED
    BY <2>1, <2>2, <2>3, <2>4, <2>5, <2>6, <2>7 DEF LibraryInv
<1> QED
  BY <1>1, <1>2

\* The slow path.
LEMMA Step_get_locked ==
    ASSUME LibraryInv, NEW t \in Threads, get_locked(t)
    PROVE  LibraryInv'
<1> USE DEF LibraryInv
<1>0. /\ call[t].pc = "get_locked"
      /\ UNCHANGED <<hsm, generation, initPid, created, owner, lock,
                     postFailed, pid, withdrawn>>
      /\ lock = NoThread
  BY DEF memory, TypeOK, get_locked, CloneCore, Return
<1>1. CASE hsm = 0
  <2>0. call' = [call EXCEPT ![t] = Idle] /\ cached' = cached
    BY <1>0, <1>1 DEF get_locked, CloneCore, Return
  <2>1. TypeOK'
    <3>1. call' \in [Threads -> Call]
      BY <2>0, ReturnType DEF Return
    <3> QED
      BY <1>0, <2>0, <3>1 DEF TypeOK
  <2>2. MutexHeld'
    BY <1>0, <1>1, <2>0, ThreadAssumption DEF TypeOK, MutexHeld
  <2>3. Bounded'
    BY <1>0, <1>1, <2>0, InstanceAssumption DEF TypeOK, MutexHeld, Bounded
  <2>4. NoneValid'
    BY <1>0, <1>1, <2>0, ThreadAssumption, InstanceAssumption
       DEF TypeOK, MutexHeld, Bounded, NoneValid
  <2>5. NotWithdrawn'
    BY <1>0, <1>1, <2>0, ThreadAssumption, InstanceAssumption
       DEF TypeOK, MutexHeld, Bounded, NoneValid, NotWithdrawn
  <2>6. GettingSafe'
    BY <1>0, <1>1, <2>0, ThreadAssumption, InstanceAssumption
       DEF TypeOK, MutexHeld, Bounded, NotWithdrawn, GettingSafe
  <2>7. NoWithdrawnInstance'
    BY <1>0, <1>1, <2>0, InstanceAssumption
       DEF TypeOK, GettingSafe, NoWithdrawnInstance
  <2> QED
    BY <2>1, <2>2, <2>3, <2>4, <2>5, <2>6, <2>7 DEF LibraryInv
<1>2. CASE hsm # 0
  <2>0. /\ call' = [call EXCEPT ![t] = [@ EXCEPT !.pc = "using", !.core = hsm]]
        /\ cached' = [cached EXCEPT ![t] = [core |-> hsm, gen |-> call[t].gen]]
    BY <1>0, <1>2 DEF get_locked, CloneCore, Return
  <2>1. TypeOK'
    <3>1. [call[t] EXCEPT !.pc = "using", !.core = hsm] \in Call
      BY DEF TypeOK
    <3>2. call' \in [Threads -> Call]
      BY <2>0, <3>1 DEF TypeOK
    <3>4. cached' \in [Threads -> Cache]
      BY <2>0 DEF TypeOK
    <3> QED
      BY <1>0, <2>0, <3>2, <3>4 DEF TypeOK
  <2>2. MutexHeld'
    BY <1>0, <1>2, <2>0, ThreadAssumption DEF TypeOK, MutexHeld
  <2>3. Bounded'
    BY <1>0, <1>2, <2>0, InstanceAssumption DEF TypeOK, MutexHeld, Bounded
  <2>4. NoneValid'
    BY <1>0, <1>2, <2>0, ThreadAssumption, InstanceAssumption
       DEF TypeOK, MutexHeld, Bounded, NoneValid
  <2>5. NotWithdrawn'
    BY <1>0, <1>2, <2>0, ThreadAssumption, InstanceAssumption
       DEF TypeOK, MutexHeld, Bounded, NoneValid, NotWithdrawn
  <2>6. GettingSafe'
    BY <1>0, <1>2, <2>0, ThreadAssumption, InstanceAssumption
       DEF TypeOK, MutexHeld, Bounded, NotWithdrawn, GettingSafe
  <2>7. NoWithdrawnInstance'
    BY <1>0, <1>2, <2>0, InstanceAssumption
       DEF TypeOK, GettingSafe, NoWithdrawnInstance
  <2> QED
    BY <2>1, <2>2, <2>3, <2>4, <2>5, <2>6, <2>7 DEF LibraryInv
<1> QED
  BY <1>1, <1>2

\* A call ends.
LEMMA Step_finish ==
    ASSUME LibraryInv, NEW t \in Threads, finish(t)
    PROVE  LibraryInv'
<1> USE DEF LibraryInv, memory, finish, Return
<1>1. TypeOK'
  <2>1. call' \in [Threads -> Call]
    BY ReturnType
  <2> QED
    BY <2>1 DEF TypeOK
<1>2. MutexHeld'
  BY ThreadAssumption DEF TypeOK, MutexHeld
<1>3. Bounded'
  BY SMTT(30), InstanceAssumption DEF TypeOK, MutexHeld, Bounded
<1>4. NoneValid'
  BY ThreadAssumption, InstanceAssumption
     DEF TypeOK, MutexHeld, Bounded, NoneValid
<1>5. NotWithdrawn'
  BY ThreadAssumption, InstanceAssumption
     DEF TypeOK, MutexHeld, Bounded, NoneValid, NotWithdrawn
<1>6. GettingSafe'
  BY ThreadAssumption, InstanceAssumption
     DEF TypeOK, MutexHeld, Bounded, NotWithdrawn, GettingSafe
<1>7. NoWithdrawnInstance'
  BY InstanceAssumption DEF TypeOK, GettingSafe, NoWithdrawnInstance
<1> QED
  BY <1>1, <1>2, <1>3, <1>4, <1>5, <1>6, <1>7 DEF LibraryInv

\* A self-test fails and the error state is entered.
LEMMA Step_self_test_failed ==
    ASSUME LibraryInv, NEW t \in Threads, self_test_failed(t)
    PROVE  LibraryInv'
<1> USE DEF LibraryInv, memory, self_test_failed, Return
<1>1. TypeOK'
  <2>1. call' \in [Threads -> Call]
    BY ReturnType
  <2>2. call[t].core \in Instances
    BY DEF NoWithdrawnInstance
  <2> QED
    BY <2>1, <2>2 DEF TypeOK
<1>2. MutexHeld'
  BY ThreadAssumption DEF TypeOK, MutexHeld
<1>3. Bounded'
  BY SMTT(30), InstanceAssumption DEF TypeOK, MutexHeld, Bounded
<1>4. NoneValid'
  BY ThreadAssumption, InstanceAssumption
     DEF TypeOK, MutexHeld, Bounded, NoneValid
<1>5. NotWithdrawn'
  BY ThreadAssumption, InstanceAssumption
     DEF TypeOK, MutexHeld, Bounded, NoneValid, NotWithdrawn
<1>6. GettingSafe'
  BY ThreadAssumption, InstanceAssumption
     DEF TypeOK, MutexHeld, Bounded, NotWithdrawn, GettingSafe
<1>7. NoWithdrawnInstance'
  BY InstanceAssumption DEF TypeOK, GettingSafe, NoWithdrawnInstance
<1> QED
  BY <1>1, <1>2, <1>3, <1>4, <1>5, <1>6, <1>7 DEF LibraryInv

\* C_Initialize begins.
LEMMA Step_C_Initialize ==
    ASSUME LibraryInv, NEW t \in Threads, C_Initialize(t)
    PROVE  LibraryInv'
<1> USE DEF LibraryInv, memory, C_Initialize, Begin, Goto
<1>1. TypeOK'
  <2>1. call' \in [Threads -> Call]
    BY GotoType
  <2> QED
    BY <2>1 DEF TypeOK
<1>2. MutexHeld'
  BY ThreadAssumption DEF TypeOK, MutexHeld
<1>3. Bounded'
  BY SMTT(30), InstanceAssumption DEF TypeOK, MutexHeld, Bounded
<1>4. NoneValid'
  BY ThreadAssumption, InstanceAssumption
     DEF TypeOK, MutexHeld, Bounded, NoneValid
<1>5. NotWithdrawn'
  BY ThreadAssumption, InstanceAssumption
     DEF TypeOK, MutexHeld, Bounded, NoneValid, NotWithdrawn
<1>6. GettingSafe'
  BY ThreadAssumption, InstanceAssumption
     DEF TypeOK, MutexHeld, Bounded, NotWithdrawn, GettingSafe
<1>7. NoWithdrawnInstance'
  BY InstanceAssumption DEF TypeOK, GettingSafe, NoWithdrawnInstance
<1> QED
  BY <1>1, <1>2, <1>3, <1>4, <1>5, <1>6, <1>7 DEF LibraryInv

\* C_Initialize takes the mutex.
LEMMA Step_init_lock ==
    ASSUME LibraryInv, NEW t \in Threads, init_lock(t)
    PROVE  LibraryInv'
<1> USE DEF LibraryInv
<1>0. /\ call[t].pc = "init_lock"
      /\ UNCHANGED <<hsm, generation, initPid, created, owner, postFailed,
                     pid, cached, withdrawn>>
  BY DEF memory, TypeOK, init_lock, Acquire, Goto
<1>1. CASE hsm # 0
  <2>0. /\ call' = [call EXCEPT ![t] =
                     [@ EXCEPT !.pc = "already", !.core = hsm]]
        /\ lock = NoThread
        /\ lock' = lock
    BY <1>0, <1>1 DEF init_lock, Acquire, Goto
  <2>1. TypeOK'
    <3>1. [call[t] EXCEPT !.pc = "already", !.core = hsm] \in Call
      BY ZenonT(40) DEF TypeOK
    <3>2. call' \in [Threads -> Call]
      BY <2>0, <3>1 DEF TypeOK
    <3> QED
      BY <1>0, <2>0, <3>2 DEF TypeOK
  <2>2. MutexHeld'
    BY <1>0, <1>1, <2>0, ThreadAssumption DEF TypeOK, MutexHeld
  <2>3. Bounded'
    BY <1>0, <1>1, <2>0, InstanceAssumption DEF TypeOK, MutexHeld, Bounded
  <2>4. NoneValid'
    BY <1>0, <1>1, <2>0, ThreadAssumption, InstanceAssumption
       DEF TypeOK, MutexHeld, Bounded, NoneValid
  <2>5. NotWithdrawn'
    BY <1>0, <1>1, <2>0, ThreadAssumption, InstanceAssumption
       DEF TypeOK, MutexHeld, Bounded, NoneValid, NotWithdrawn
  <2>6. GettingSafe'
    BY <1>0, <1>1, <2>0, ThreadAssumption, InstanceAssumption
       DEF TypeOK, MutexHeld, Bounded, NotWithdrawn, GettingSafe
  <2>7. NoWithdrawnInstance'
    BY <1>0, <1>1, <2>0, InstanceAssumption
       DEF TypeOK, GettingSafe, NoWithdrawnInstance
  <2> QED
    BY <2>1, <2>2, <2>3, <2>4, <2>5, <2>6, <2>7 DEF LibraryInv
<1>2. CASE hsm = 0
  <2>0. /\ call' = [call EXCEPT ![t].pc = "init_clear"]
        /\ lock = NoThread
        /\ lock' = t
    BY <1>0, <1>2 DEF init_lock, Acquire, Goto
  <2>1. TypeOK'
    <3>1. call' \in [Threads -> Call]
      BY <2>0, GotoType DEF Goto
    <3> QED
      BY <1>0, <2>0, <3>1 DEF TypeOK
  <2>2. MutexHeld'
    BY <1>0, <1>2, <2>0, ThreadAssumption DEF TypeOK, MutexHeld
  <2>3. Bounded'
    BY <1>0, <1>2, <2>0, InstanceAssumption DEF TypeOK, MutexHeld, Bounded
  <2>4. NoneValid'
    BY <1>0, <1>2, <2>0, ThreadAssumption, InstanceAssumption
       DEF TypeOK, MutexHeld, Bounded, NoneValid
  <2>5. NotWithdrawn'
    BY <1>0, <1>2, <2>0, ThreadAssumption, InstanceAssumption
       DEF TypeOK, MutexHeld, Bounded, NoneValid, NotWithdrawn
  <2>6. GettingSafe'
    BY <1>0, <1>2, <2>0, ThreadAssumption, InstanceAssumption
       DEF TypeOK, MutexHeld, Bounded, NotWithdrawn, GettingSafe
  <2>7. NoWithdrawnInstance'
    BY <1>0, <1>2, <2>0, InstanceAssumption
       DEF TypeOK, GettingSafe, NoWithdrawnInstance
  <2> QED
    BY <2>1, <2>2, <2>3, <2>4, <2>5, <2>6, <2>7 DEF LibraryInv
<1> QED
  BY <1>1, <1>2

\* C_Initialize returns on an initialized library.
LEMMA Step_already ==
    ASSUME LibraryInv, NEW t \in Threads, already(t)
    PROVE  LibraryInv'
<1> USE DEF LibraryInv, memory, already, Return
<1>1. TypeOK'
  <2>1. call' \in [Threads -> Call]
    BY ReturnType
  <2> QED
    BY <2>1 DEF TypeOK
<1>2. MutexHeld'
  BY ThreadAssumption DEF TypeOK, MutexHeld
<1>3. Bounded'
  BY SMTT(30), InstanceAssumption DEF TypeOK, MutexHeld, Bounded
<1>4. NoneValid'
  BY ThreadAssumption, InstanceAssumption
     DEF TypeOK, MutexHeld, Bounded, NoneValid
<1>5. NotWithdrawn'
  BY ThreadAssumption, InstanceAssumption
     DEF TypeOK, MutexHeld, Bounded, NoneValid, NotWithdrawn
<1>6. GettingSafe'
  BY ThreadAssumption, InstanceAssumption
     DEF TypeOK, MutexHeld, Bounded, NotWithdrawn, GettingSafe
<1>7. NoWithdrawnInstance'
  BY InstanceAssumption DEF TypeOK, GettingSafe, NoWithdrawnInstance
<1> QED
  BY <1>1, <1>2, <1>3, <1>4, <1>5, <1>6, <1>7 DEF LibraryInv

\* C_Initialize leaves the error state.
LEMMA Step_init_clear ==
    ASSUME LibraryInv, NEW t \in Threads, init_clear(t)
    PROVE  LibraryInv'
<1> USE DEF LibraryInv, memory, init_clear, Goto
<1>1. TypeOK'
  <2>1. call' \in [Threads -> Call]
    BY GotoType
  <2> QED
    BY <2>1 DEF TypeOK
<1>2. MutexHeld'
  BY ThreadAssumption DEF TypeOK, MutexHeld
<1>3. Bounded'
  BY SMTT(30), InstanceAssumption DEF TypeOK, MutexHeld, Bounded
<1>4. NoneValid'
  BY ThreadAssumption, InstanceAssumption
     DEF TypeOK, MutexHeld, Bounded, NoneValid
<1>5. NotWithdrawn'
  BY ThreadAssumption, InstanceAssumption
     DEF TypeOK, MutexHeld, Bounded, NoneValid, NotWithdrawn
<1>6. GettingSafe'
  BY ThreadAssumption, InstanceAssumption
     DEF TypeOK, MutexHeld, Bounded, NotWithdrawn, GettingSafe
<1>7. NoWithdrawnInstance'
  BY InstanceAssumption DEF TypeOK, GettingSafe, NoWithdrawnInstance
<1> QED
  BY <1>1, <1>2, <1>3, <1>4, <1>5, <1>6, <1>7 DEF LibraryInv

\* The power-on self-tests and the configuration.
LEMMA Step_init_post ==
    ASSUME LibraryInv, NEW t \in Threads, init_post(t)
    PROVE  LibraryInv'
<1> USE DEF LibraryInv
<1>0. /\ call[t].pc = "init_post"
      /\ UNCHANGED <<hsm, generation, initPid, created, owner, pid, cached,
                     withdrawn>>
      /\ postFailed' \in BOOLEAN
      /\ (postFailed => postFailed')
  BY DEF memory, TypeOK, init_post, run_post_fails, DropGuard, Release, Return, Goto
<1>1. CASE lock' = NoThread /\ call' = [call EXCEPT ![t] = Idle]
  <2>1. TypeOK'
    <3>1. call' \in [Threads -> Call]
      BY <1>1, ReturnType DEF Return
    <3> QED
      BY <1>0, <1>1, <3>1 DEF TypeOK
  <2>2. MutexHeld'
    BY <1>0, <1>1, ThreadAssumption DEF TypeOK, MutexHeld, Goto
  <2>3. Bounded'
    BY <1>0, <1>1, InstanceAssumption DEF TypeOK, MutexHeld, Bounded, Goto
  <2>4. NoneValid'
    BY <1>0, <1>1, ThreadAssumption, InstanceAssumption
       DEF TypeOK, MutexHeld, Bounded, NoneValid, Goto
  <2>5. NotWithdrawn'
    BY <1>0, <1>1, ThreadAssumption, InstanceAssumption
       DEF TypeOK, MutexHeld, Bounded, NoneValid, NotWithdrawn, Goto
  <2>6. GettingSafe'
    BY <1>0, <1>1, ThreadAssumption, InstanceAssumption
       DEF TypeOK, MutexHeld, Bounded, NotWithdrawn, GettingSafe, Goto
  <2>7. NoWithdrawnInstance'
    BY <1>0, <1>1, InstanceAssumption
       DEF TypeOK, GettingSafe, NoWithdrawnInstance, Goto
  <2> QED
    BY <2>1, <2>2, <2>3, <2>4, <2>5, <2>6, <2>7 DEF LibraryInv
<1>2. CASE created < MaxInstances /\ Goto(t, "init_pid") /\ UNCHANGED <<lock,
                                                                        postFailed>>
  <2>1. TypeOK'
    <3>1. call' \in [Threads -> Call]
      BY <1>2, GotoType
    <3> QED
      BY <1>0, <1>2, <3>1 DEF TypeOK
  <2>2. MutexHeld'
    BY <1>0, <1>2, ThreadAssumption DEF TypeOK, MutexHeld, Goto
  <2>3. Bounded'
    BY <1>0, <1>2, InstanceAssumption DEF TypeOK, MutexHeld, Bounded, Goto
  <2>4. NoneValid'
    BY <1>0, <1>2, ThreadAssumption, InstanceAssumption
       DEF TypeOK, MutexHeld, Bounded, NoneValid, Goto
  <2>5. NotWithdrawn'
    BY <1>0, <1>2, ThreadAssumption, InstanceAssumption
       DEF TypeOK, MutexHeld, Bounded, NoneValid, NotWithdrawn, Goto
  <2>6. GettingSafe'
    BY <1>0, <1>2, ThreadAssumption, InstanceAssumption
       DEF TypeOK, MutexHeld, Bounded, NotWithdrawn, GettingSafe, Goto
  <2>7. NoWithdrawnInstance'
    BY <1>0, <1>2, InstanceAssumption
       DEF TypeOK, GettingSafe, NoWithdrawnInstance, Goto
  <2> QED
    BY <2>1, <2>2, <2>3, <2>4, <2>5, <2>6, <2>7 DEF LibraryInv
<1> QED
  BY <1>1, <1>2 DEF init_post, run_post_fails, DropGuard, Release, Return, Goto

\* C_Initialize records the process.
LEMMA Step_init_pid ==
    ASSUME LibraryInv, NEW t \in Threads, init_pid(t)
    PROVE  LibraryInv'
<1> USE DEF LibraryInv, memory, init_pid, Goto
<1>1. TypeOK'
  <2>1. call' \in [Threads -> Call]
    BY GotoType
  <2> QED
    BY <2>1 DEF TypeOK
<1>2. MutexHeld'
  BY ThreadAssumption DEF TypeOK, MutexHeld
<1>3. Bounded'
  BY SMTT(30), InstanceAssumption DEF TypeOK, MutexHeld, Bounded
<1>4. NoneValid'
  BY ThreadAssumption, InstanceAssumption
     DEF TypeOK, MutexHeld, Bounded, NoneValid
<1>5. NotWithdrawn'
  BY ThreadAssumption, InstanceAssumption
     DEF TypeOK, MutexHeld, Bounded, NoneValid, NotWithdrawn
<1>6. GettingSafe'
  BY ThreadAssumption, InstanceAssumption
     DEF TypeOK, MutexHeld, Bounded, NotWithdrawn, GettingSafe
<1>7. NoWithdrawnInstance'
  BY InstanceAssumption DEF TypeOK, GettingSafe, NoWithdrawnInstance
<1> QED
  BY <1>1, <1>2, <1>3, <1>4, <1>5, <1>6, <1>7 DEF LibraryInv

\* C_Initialize publishes the instance.
LEMMA Step_init_publish ==
    ASSUME LibraryInv, NEW t \in Threads, init_publish(t)
    PROVE  LibraryInv'
<1> USE DEF LibraryInv, memory, init_publish, Goto
<1>0. created + 1 \in Instances
  BY SMTT(30), InstanceAssumption DEF TypeOK, Bounded
<1>1. TypeOK'
  <2>1. call' \in [Threads -> Call]
    BY GotoType
  <2>2. owner' \in [Instances -> Pids]
    BY <1>0 DEF TypeOK
  <2>4. generation' \in Nat /\ hsm' \in Core /\ created' \in Core
    BY <1>0 DEF TypeOK
  <2> QED
    BY <2>1, <2>2, <2>4 DEF TypeOK
<1>2. MutexHeld'
  BY ThreadAssumption DEF TypeOK, MutexHeld
<1>3. Bounded'
  <2>1. created \in Nat /\ generation \in Nat
    BY InstanceAssumption DEF TypeOK
  <2>2. \A u \in Threads : call[u].pc \in Holding => u = t
    BY DEF MutexHeld
  <2>3. \A u \in Threads : /\ cached[u].core \in Nat /\ cached[u].gen \in Nat
                           /\ call[u].core \in Nat /\ call[u].gen \in Nat
                           /\ call[u].barred \subseteq Nat
    <3>1. \A u \in Threads : cached[u] \in Cache /\ call[u] \in Call
      BY DEF TypeOK
    <3>2. Core \subseteq Nat /\ Instances \subseteq Nat
      BY InstanceAssumption
    <3> QED
      BY <3>1, <3>2
  <2>4. withdrawn \subseteq Nat
    BY InstanceAssumption DEF TypeOK
  <2>5. \A u \in Threads : u # t => call'[u] = call[u]
    BY DEF TypeOK
  <2>6. /\ call'[t].pc = "unlock" /\ call'[t].core = call[t].core
        /\ call'[t].gen = call[t].gen /\ call'[t].barred = call[t].barred
    BY DEF TypeOK
  <2>7. \A u \in Threads : /\ call'[u].core <= created' /\ call'[u].gen <= generation'
                           /\ \A i \in call'[u].barred : i <= created'
    BY <2>1, <2>3, <2>5, <2>6 DEF Bounded
  <2>8. \A u \in Threads : /\ call'[u].pc \notin {"init_pid", "init_publish"}
                           /\ call'[u].pc \notin Finalizing
    BY <2>2, <2>5, <2>6
  <2> QED
    BY <2>1, <2>3, <2>4, <2>7, <2>8 DEF Bounded
<1>4. NoneValid'
  BY ThreadAssumption, InstanceAssumption
     DEF TypeOK, MutexHeld, Bounded, NoneValid
<1>5. NotWithdrawn'
  BY ThreadAssumption, InstanceAssumption
     DEF TypeOK, MutexHeld, Bounded, NoneValid, NotWithdrawn
<1>6. GettingSafe'
  BY ThreadAssumption, InstanceAssumption
     DEF TypeOK, MutexHeld, Bounded, NotWithdrawn, GettingSafe
<1>7. NoWithdrawnInstance'
  BY InstanceAssumption DEF TypeOK, GettingSafe, NoWithdrawnInstance
<1> QED
  BY <1>1, <1>2, <1>3, <1>4, <1>5, <1>6, <1>7 DEF LibraryInv

\* The mutex is released.
LEMMA Step_unlock ==
    ASSUME LibraryInv, NEW t \in Threads, unlock(t)
    PROVE  LibraryInv'
<1> USE DEF LibraryInv, memory, unlock, Release, Return
<1>1. TypeOK'
  <2>1. call' \in [Threads -> Call]
    BY ReturnType
  <2> QED
    BY <2>1 DEF TypeOK
<1>2. MutexHeld'
  BY ThreadAssumption DEF TypeOK, MutexHeld
<1>3. Bounded'
  BY SMTT(30), InstanceAssumption DEF TypeOK, MutexHeld, Bounded
<1>4. NoneValid'
  BY ThreadAssumption, InstanceAssumption
     DEF TypeOK, MutexHeld, Bounded, NoneValid
<1>5. NotWithdrawn'
  BY ThreadAssumption, InstanceAssumption
     DEF TypeOK, MutexHeld, Bounded, NoneValid, NotWithdrawn
<1>6. GettingSafe'
  BY ThreadAssumption, InstanceAssumption
     DEF TypeOK, MutexHeld, Bounded, NotWithdrawn, GettingSafe
<1>7. NoWithdrawnInstance'
  BY InstanceAssumption DEF TypeOK, GettingSafe, NoWithdrawnInstance
<1> QED
  BY <1>1, <1>2, <1>3, <1>4, <1>5, <1>6, <1>7 DEF LibraryInv

\* C_Finalize begins.
LEMMA Step_C_Finalize ==
    ASSUME LibraryInv, NEW t \in Threads, C_Finalize(t)
    PROVE  LibraryInv'
<1> USE DEF LibraryInv, memory, C_Finalize, Begin, Goto
<1>1. TypeOK'
  <2>1. call' \in [Threads -> Call]
    BY GotoType
  <2> QED
    BY <2>1 DEF TypeOK
<1>2. MutexHeld'
  BY ThreadAssumption DEF TypeOK, MutexHeld
<1>3. Bounded'
  BY SMTT(30), InstanceAssumption DEF TypeOK, MutexHeld, Bounded
<1>4. NoneValid'
  BY ThreadAssumption, InstanceAssumption
     DEF TypeOK, MutexHeld, Bounded, NoneValid
<1>5. NotWithdrawn'
  BY ThreadAssumption, InstanceAssumption
     DEF TypeOK, MutexHeld, Bounded, NoneValid, NotWithdrawn
<1>6. GettingSafe'
  BY ThreadAssumption, InstanceAssumption
     DEF TypeOK, MutexHeld, Bounded, NotWithdrawn, GettingSafe
<1>7. NoWithdrawnInstance'
  BY InstanceAssumption DEF TypeOK, GettingSafe, NoWithdrawnInstance
<1> QED
  BY <1>1, <1>2, <1>3, <1>4, <1>5, <1>6, <1>7 DEF LibraryInv

\* C_Finalize takes the instance from behind the mutex.
LEMMA Step_fin_lock ==
    ASSUME LibraryInv, NEW t \in Threads, fin_lock(t)
    PROVE  LibraryInv'
<1> USE DEF LibraryInv
<1>0. /\ call[t].pc = "fin_lock"
      /\ UNCHANGED <<generation, initPid, created, owner, postFailed, pid,
                     cached, withdrawn>>
  BY DEF memory, TypeOK, fin_lock, Acquire, Return
<1>1. CASE hsm = 0
  <2>0. /\ call' = [call EXCEPT ![t] = Idle]
        /\ lock = NoThread
        /\ lock' = lock
        /\ hsm' = hsm
    BY <1>0, <1>1 DEF fin_lock, Acquire, Return
  <2>1. TypeOK'
    <3>1. call' \in [Threads -> Call]
      BY <2>0, ReturnType DEF Return
    <3> QED
      BY <1>0, <2>0, <3>1 DEF TypeOK
  <2>2. MutexHeld'
    BY <1>0, <1>1, <2>0, ThreadAssumption DEF TypeOK, MutexHeld
  <2>3. Bounded'
    BY <1>0, <1>1, <2>0, InstanceAssumption DEF TypeOK, MutexHeld, Bounded
  <2>4. NoneValid'
    BY <1>0, <1>1, <2>0, ThreadAssumption, InstanceAssumption
       DEF TypeOK, MutexHeld, Bounded, NoneValid
  <2>5. NotWithdrawn'
    BY <1>0, <1>1, <2>0, ThreadAssumption, InstanceAssumption
       DEF TypeOK, MutexHeld, Bounded, NoneValid, NotWithdrawn
  <2>6. GettingSafe'
    BY <1>0, <1>1, <2>0, ThreadAssumption, InstanceAssumption
       DEF TypeOK, MutexHeld, Bounded, NotWithdrawn, GettingSafe
  <2>7. NoWithdrawnInstance'
    BY <1>0, <1>1, <2>0, InstanceAssumption
       DEF TypeOK, GettingSafe, NoWithdrawnInstance
  <2> QED
    BY <2>1, <2>2, <2>3, <2>4, <2>5, <2>6, <2>7 DEF LibraryInv
<1>2. CASE hsm # 0
  <2>0. /\ call' = [call EXCEPT ![t] =
                     [@ EXCEPT !.pc = "fin_pid", !.core = hsm]]
        /\ lock = NoThread
        /\ lock' = t
        /\ hsm' = 0
    BY <1>0, <1>2 DEF fin_lock, Acquire, Return
  <2>1. TypeOK'
    <3>1. [call[t] EXCEPT !.pc = "fin_pid", !.core = hsm] \in Call
      BY ZenonT(40) DEF TypeOK
    <3>2. call' \in [Threads -> Call]
      BY <2>0, <3>1 DEF TypeOK
    <3> QED
      BY <1>0, <2>0, <3>2 DEF TypeOK
  <2>2. MutexHeld'
    BY <1>0, <1>2, <2>0, ThreadAssumption DEF TypeOK, MutexHeld
  <2>3. Bounded'
    BY <1>0, <1>2, <2>0, InstanceAssumption DEF TypeOK, MutexHeld, Bounded
  <2>4. NoneValid'
    BY <1>0, <1>2, <2>0, ThreadAssumption, InstanceAssumption
       DEF TypeOK, MutexHeld, Bounded, NoneValid
  <2>5. NotWithdrawn'
    BY <1>0, <1>2, <2>0, ThreadAssumption, InstanceAssumption
       DEF TypeOK, MutexHeld, Bounded, NoneValid, NotWithdrawn
  <2>6. GettingSafe'
    BY <1>0, <1>2, <2>0, ThreadAssumption, InstanceAssumption
       DEF TypeOK, MutexHeld, Bounded, NotWithdrawn, GettingSafe
  <2>7. NoWithdrawnInstance'
    BY <1>0, <1>2, <2>0, InstanceAssumption
       DEF TypeOK, GettingSafe, NoWithdrawnInstance
  <2> QED
    BY <2>1, <2>2, <2>3, <2>4, <2>5, <2>6, <2>7 DEF LibraryInv
<1> QED
  BY <1>1, <1>2

\* C_Finalize forgets the process.
LEMMA Step_fin_pid ==
    ASSUME LibraryInv, NEW t \in Threads, fin_pid(t)
    PROVE  LibraryInv'
<1> USE DEF LibraryInv, memory, fin_pid, Goto
<1>1. TypeOK'
  <2>1. call' \in [Threads -> Call]
    BY GotoType
  <2> QED
    BY <2>1 DEF TypeOK
<1>2. MutexHeld'
  BY ThreadAssumption DEF TypeOK, MutexHeld
<1>3. Bounded'
  BY SMTT(30), InstanceAssumption DEF TypeOK, MutexHeld, Bounded
<1>4. NoneValid'
  BY ThreadAssumption, InstanceAssumption
     DEF TypeOK, MutexHeld, Bounded, NoneValid
<1>5. NotWithdrawn'
  BY ThreadAssumption, InstanceAssumption
     DEF TypeOK, MutexHeld, Bounded, NoneValid, NotWithdrawn
<1>6. GettingSafe'
  BY ThreadAssumption, InstanceAssumption
     DEF TypeOK, MutexHeld, Bounded, NotWithdrawn, GettingSafe
<1>7. NoWithdrawnInstance'
  BY InstanceAssumption DEF TypeOK, GettingSafe, NoWithdrawnInstance
<1> QED
  BY <1>1, <1>2, <1>3, <1>4, <1>5, <1>6, <1>7 DEF LibraryInv

\* C_Finalize invalidates the caches.
LEMMA Step_fin_generation ==
    ASSUME LibraryInv, NEW t \in Threads, fin_generation(t)
    PROVE  LibraryInv'
<1> USE DEF LibraryInv, memory, fin_generation, NextGeneration, Goto
<1>0. call[t].core \in Instances
  BY DEF TypeOK, Bounded
<1>1. TypeOK'
  <2>1. call' \in [Threads -> Call]
    BY GotoType
  <2>2. cached' \in [Threads -> Cache]
    BY DEF TypeOK
  <2>3. generation' \in Nat /\ withdrawn' \subseteq Instances
    BY <1>0 DEF TypeOK
  <2> QED
    BY <2>1, <2>2, <2>3 DEF TypeOK
<1>2. MutexHeld'
  BY ThreadAssumption DEF TypeOK, MutexHeld
<1>3. Bounded'
  BY SMTT(30), InstanceAssumption DEF TypeOK, MutexHeld, Bounded
<1>4. NoneValid'
  BY ThreadAssumption, InstanceAssumption
     DEF TypeOK, MutexHeld, Bounded, NoneValid
<1>5. NotWithdrawn'
  <2>1. hsm = 0
    BY DEF MutexHeld
  <2>2. \A u \in Threads : ~Valid(u)'
    BY DEF TypeOK, Bounded
  <2> QED
    BY <1>0, <2>1, <2>2, InstanceAssumption DEF NotWithdrawn, TypeOK
<1>6. GettingSafe'
  BY ThreadAssumption, InstanceAssumption
     DEF TypeOK, MutexHeld, Bounded, NotWithdrawn, GettingSafe
<1>7. NoWithdrawnInstance'
  BY InstanceAssumption DEF TypeOK, GettingSafe, NoWithdrawnInstance
<1> QED
  BY <1>1, <1>2, <1>3, <1>4, <1>5, <1>6, <1>7 DEF LibraryInv

\* The process forks.
LEMMA Step_Fork ==
    ASSUME LibraryInv, NEW t \in Threads, Fork(t)
    PROVE  LibraryInv'
<1> USE DEF LibraryInv, memory, Fork
<1>1. TypeOK'
  <2>1. Idle \in Call /\ [Idle EXCEPT !.pc = "gone"] \in Call
    OBVIOUS
  <2>2. call' \in [Threads -> Call]
    BY <2>1
  <2>4. pid' \in Pids
    BY PidAssumption DEF TypeOK
  <2> QED
    BY <2>2, <2>4 DEF TypeOK
<1>2. MutexHeld'
  BY ThreadAssumption DEF TypeOK, MutexHeld
<1>3. Bounded'
  BY SMTT(30), InstanceAssumption DEF TypeOK, MutexHeld, Bounded
<1>4. NoneValid'
  BY ThreadAssumption, InstanceAssumption
     DEF TypeOK, MutexHeld, Bounded, NoneValid
<1>5. NotWithdrawn'
  BY ThreadAssumption, InstanceAssumption
     DEF TypeOK, MutexHeld, Bounded, NoneValid, NotWithdrawn
<1>6. GettingSafe'
  BY ThreadAssumption, InstanceAssumption
     DEF TypeOK, MutexHeld, Bounded, NotWithdrawn, GettingSafe
<1>7. NoWithdrawnInstance'
  BY InstanceAssumption DEF TypeOK, GettingSafe, NoWithdrawnInstance
<1> QED
  BY <1>1, <1>2, <1>3, <1>4, <1>5, <1>6, <1>7 DEF LibraryInv

-----------------------------------------------------------------------------

\* Nothing is initialized, nothing cached, no call in progress.
LEMMA InitInv == Init => LibraryInv
<1> SUFFICES ASSUME Init PROVE LibraryInv
  OBVIOUS
<1>1. TypeOK
  <2>1. Idle \in Call /\ Empty \in Cache
    OBVIOUS
  <2>2. call \in [Threads -> Call] /\ cached \in [Threads -> Cache]
    BY <2>1 DEF Init
  <2>4. owner \in [Instances -> Pids] /\ pid \in Pids /\ 0 \in Core
    BY PidAssumption DEF Init
  <2> QED
    BY <2>2, <2>4 DEF Init, TypeOK
<1>2. MutexHeld
  BY ThreadAssumption DEF Init, MutexHeld
<1>3. Bounded
  BY DEF Init, Bounded
<1>4. NoneValid /\ NotWithdrawn
  BY DEF Init, NoneValid, NotWithdrawn
<1>5. GettingSafe /\ NoWithdrawnInstance
  BY DEF Init, GettingSafe, NoWithdrawnInstance
<1> QED
  BY <1>1, <1>2, <1>3, <1>4, <1>5 DEF LibraryInv

\* The invariant speaks of the variables only.
LEMMA StutterInv == LibraryInv /\ UNCHANGED vars => LibraryInv'
BY DEF LibraryInv, vars, TypeOK, MutexHeld, Bounded, NoneValid, NotWithdrawn,
       GettingSafe, NoWithdrawnInstance, Valid, At

\* Every step of every thread keeps the invariant.
LEMMA NextInv == LibraryInv /\ [Next]_vars => LibraryInv'
<1> SUFFICES ASSUME LibraryInv, [Next]_vars PROVE LibraryInv'
  OBVIOUS
<1>1. CASE UNCHANGED vars
  BY <1>1, StutterInv
<1>2. CASE Next
  <2>1. PICK t \in Threads : Start(t) \/ Locking(t) \/ Running(t) \/ Fork(t)
    BY <1>2 DEF Next
  <2>2. CASE Start(t)
    BY <2>2, Step_get_hsm, Step_C_Initialize, Step_C_Finalize DEF Start
  <2>3. CASE Locking(t)
    BY <2>3, Step_get_locked, Step_init_lock, Step_fin_lock DEF Locking
  <2>4. CASE Running(t)
    BY <2>4, Step_get_pid, Step_get_cached, Step_finish, Step_self_test_failed,
       Step_already, Step_init_clear, Step_init_post, Step_init_pid,
       Step_init_publish, Step_fin_pid, Step_fin_generation, Step_unlock
       DEF Running
  <2>5. CASE Fork(t)
    BY <2>5, Step_Fork
  <2> QED
    BY <2>1, <2>2, <2>3, <2>4, <2>5
<1> QED
  BY <1>1, <1>2

(* For any number of threads, of initializations and of forks: no call     *)
(* runs without an instance (get_hsm fails instead), and none runs on an   *)
(* instance that had been finalized or had failed a self-test before the   *)
(* call began, although get_hsm trusts a thread-local cache and reads its  *)
(* three atomics one by one.                                               *)
THEOREM NoStaleInstance == Spec => [](TypeOK /\ NoWithdrawnInstance)
<1>1. LibraryInv => TypeOK /\ NoWithdrawnInstance
  BY DEF LibraryInv
<1> QED
  BY <1>1, InitInv, NextInv, PTL DEF Spec

-----------------------------------------------------------------------------
(* The fork check.  ForkInv is what holds while the mutex has no holder    *)
(* that a fork left behind; OrphanInv what holds from such a fork on, when *)
(* nothing that the mutex protects changes any more.                       *)

Creator == IF hsm = 0 THEN 0 ELSE owner[hsm]

\* INIT_PID at each place under the mutex.
PidAt(t) ==
    /\ call[t].pc \in {"init_clear", "init_post", "init_pid", "fin_generation"} => initPid = 0
    /\ call[t].pc = "init_publish" => initPid = pid
    /\ call[t].pc = "fin_pid" => initPid = owner[call[t].core]
    /\ call[t].pc = "unlock" => initPid = Creator

\* Children come after their parents, and a child has one thread.
ChildAlone ==
    /\ \A i \in Instances : owner[i] <= pid
    /\ pid # 1 => \A t, u \in Threads : At(t, "gone") \/ At(u, "gone") \/ t = u
    /\ \A t \in Threads : At(t, "gone") => lock # t

\* The instance behind the mutex, or the one being finalized.
Current(i) == i # 0 /\ (i = hsm \/ \E t \in Threads : call[t].pc \in Finalizing /\ call[t].core = i)

\* A call past the fork check finds instances of its own process only.
PastCheck ==
    \A t \in Threads : call[t].pc \in {"get_cached", "get_locked"} =>
        \A i \in Instances : Current(i) => owner[i] = pid

\* No call runs on an inherited instance.
OwnInstance ==
    \A t \in Threads : At(t, "using") => owner[call[t].core] = pid

ForkInv ==
    /\ PidTracksInstance
    /\ \A t \in Threads : PidAt(t)
    /\ ChildAlone
    /\ \A t \in Threads : Valid(t) => Current(cached[t].core)
    /\ PastCheck
    /\ OwnInstance

\* With INIT_PID that of an ancestor, no call is past the fork check.
OrphanInv ==
    /\ Orphaned
    /\ initPid # 0 =>
         /\ initPid < pid
         /\ \A t \in Threads :
              call[t].pc \notin {"get_cached", "get_locked", "using"}

\* The other threads stay where they are.
OnlyThread(t) == \A u \in Threads \ {t} : call'[u] = call[u]

LEMMA GotoFacts ==
    ASSUME TypeOK, NEW t \in Threads, NEW p, Goto(t, p)
    PROVE  call'[t].pc = p /\ call'[t].core = call[t].core /\ OnlyThread(t)
BY DEF TypeOK, Goto, OnlyThread

LEMMA CallFacts ==
    ASSUME TypeOK, NEW t \in Threads, NEW r, call' = [call EXCEPT ![t] = r]
    PROVE  call'[t] = r /\ OnlyThread(t)
BY DEF TypeOK, OnlyThread

LEMMA ReturnFacts ==
    ASSUME TypeOK, NEW t \in Threads, Return(t)
    PROVE  call'[t].pc = "idle" /\ OnlyThread(t)
BY DEF TypeOK, Return, OnlyThread

\* The thread at a free mutex is the only one there could be under it.
LEMMA HolderFacts ==
    ASSUME LibraryInv, ForkInv
    PROVE  /\ \A t, u \in Threads : call[t].pc \in Holding /\ call[u].pc \in Holding => t = u
           /\ lock \in Threads => call[lock].pc \in Holding
           /\ \A t \in Threads : call[t].pc \in Holding => lock # NoThread
           /\ \A i : Current(i) => i \in Instances
           /\ NoThread \notin Threads
<1> USE DEF LibraryInv, ForkInv
<1>1. \A t, u \in Threads : call[t].pc \in Holding /\ call[u].pc \in Holding => t = u
  BY DEF MutexHeld
<1>2. lock \in Threads => call[lock].pc \in Holding
  BY DEF MutexHeld, ChildAlone
<1>3. \A t \in Threads : call[t].pc \in Holding => lock # NoThread
  BY ThreadAssumption DEF MutexHeld
<1>4. \A i : Current(i) => i \in Instances
  BY DEF Current, TypeOK
<1> QED
  BY <1>1, <1>2, <1>3, <1>4, ThreadAssumption

\* A step outside the mutex of a thread that reads.
LEMMA OutsideStep ==
    ASSUME LibraryInv, ForkInv, NEW t \in Threads, OnlyThread(t),
           UNCHANGED <<hsm, lock, generation, initPid, pid, owner>>,
           \A u \in Threads \ {t} : cached'[u] = cached[u],
           call[t].pc \notin Holding \cup {"gone"}, call'[t].pc \notin Holding \cup {"gone"},
           Valid(t)' => Current(cached'[t].core),
           call'[t].pc \in {"get_cached", "get_locked"} =>
               \A i \in Instances : Current(i) => owner[i] = pid,
           call'[t].pc = "using" => owner[call'[t].core] = pid
    PROVE  ForkInv'
<1> USE DEF LibraryInv, ForkInv
<1>1. \A i : Current(i)' <=> Current(i)
  BY DEF Current, OnlyThread
<1>2. PidTracksInstance'
  BY DEF PidTracksInstance
<1>3. \A u \in Threads : PidAt(u)'
  BY DEF PidAt, OnlyThread, Creator
<1>4. ChildAlone'
  BY DEF ChildAlone, OnlyThread
<1>5. ASSUME NEW u \in Threads, Valid(u)' PROVE Current(cached[u].core)'
  <2>1. CASE u = t
    BY <1>1, <1>5, <2>1
  <2>2. CASE u # t
    BY <1>1, <1>5, <2>2
  <2> QED
    BY <2>1, <2>2
<1>6. PastCheck'
  BY <1>1 DEF PastCheck, OnlyThread
<1>7. OwnInstance'
  BY DEF OwnInstance, OnlyThread
<1> QED
  BY <1>2, <1>3, <1>4, <1>5, <1>6, <1>7

\* What a thread finds that passes the fork check.
LEMMA CheckPassed ==
    ASSUME LibraryInv, ForkInv, NEW t \in Threads, call[t].pc = "get_pid", ~Forked,
           NEW i \in Instances, Current(i)
    PROVE  owner[i] = pid
<1> USE DEF LibraryInv, ForkInv
<1>1. owner[i] \in Pids /\ pid \in Pids /\ i # 0 /\ initPid \in {0, pid}
  BY DEF TypeOK, Forked, Current
<1>2. CASE i = hsm
  <2>1. initPid = Creator
    <3>1. CASE lock = NoThread
      BY <3>1 DEF PidTracksInstance, Creator
    <3>2. CASE lock # NoThread
      <4>1. lock \in Threads /\ call[lock].pc \in Holding /\ hsm # 0
        BY <1>1, <1>2, <3>2, HolderFacts DEF TypeOK
      <4>2. call[lock].pc = "unlock"
        BY <4>1 DEF MutexHeld
      <4> QED
        BY <4>1, <4>2 DEF PidAt
    <3> QED
      BY <3>1, <3>2
  <2>2. initPid = owner[i] /\ owner[i] # 0
    BY <1>1, <1>2, <2>1, PidAssumption DEF Creator
  <2> QED
    BY <1>1, <2>2
<1>3. ASSUME NEW u \in Threads, call[u].pc \in Finalizing, call[u].core = i PROVE owner[i] = pid
  <2>1. CASE pid = 1
    <3>1. owner[i] <= 1
      BY <2>1 DEF ChildAlone
    <3> QED
      BY <1>1, <2>1, <3>1, PidAssumption
  <2>2. CASE pid # 1
    BY <1>3, <2>2 DEF ChildAlone
  <2> QED
    BY <2>1, <2>2
<1> QED
  BY <1>2, <1>3 DEF Current

\* Calls that begin, that return, or that read outside the mutex.
LEMMA OutsideKeeps ==
    ASSUME LibraryInv, ForkInv, NEW t \in Threads,
           \/ Start(t) \/ get_pid(t) \/ get_cached(t) \/ get_locked(t)
           \/ finish(t) \/ self_test_failed(t) \/ already(t)
    PROVE  ForkInv'
<1> USE DEF LibraryInv, ForkInv, memory
<1>1. CASE Start(t) \/ finish(t) \/ self_test_failed(t) \/ already(t)
  <2>1. /\ UNCHANGED <<hsm, lock, generation, initPid, pid, owner, cached>>
        /\ call[t].pc \in {"idle", "using", "already"}
    BY <1>1 DEF Start, get_hsm, C_Initialize, C_Finalize, Begin, finish, self_test_failed, already
  <2>2. OnlyThread(t) /\ call'[t].pc \in {"idle", "get_pid", "init_lock", "fin_lock"}
    <3>1. CASE get_hsm(t)
      BY <3>1 DEF get_hsm, TypeOK, OnlyThread
    <3>2. CASE C_Initialize(t) \/ C_Finalize(t)
      BY <3>2, GotoFacts DEF C_Initialize, C_Finalize, Begin
    <3>3. CASE finish(t) \/ self_test_failed(t) \/ already(t)
      BY <3>3, ReturnFacts DEF finish, self_test_failed, already
    <3> QED
      BY <1>1, <3>1, <3>2, <3>3 DEF Start
  <2> QED
    BY <2>1, <2>2, OutsideStep
<1>2. CASE get_pid(t)
  <2>1. UNCHANGED <<hsm, lock, generation, initPid, pid, owner>> /\ call[t].pc = "get_pid"
    BY <1>2 DEF get_pid
  <2>2. CASE Forked
    <3>1. cached' = [cached EXCEPT ![t] = Empty] /\ Return(t)
      BY <1>2, <2>2 DEF get_pid
    <3>2. ~Valid(t)' /\ \A u \in Threads \ {t} : cached'[u] = cached[u]
      BY <3>1 DEF TypeOK
    <3>3. call'[t].pc = "idle" /\ OnlyThread(t)
      BY <3>1, ReturnFacts
    <3> QED
      BY <2>1, <3>2, <3>3, OutsideStep
  <2>3. CASE ~Forked
    <3>1. UNCHANGED cached /\ Goto(t, "get_cached")
      BY <1>2, <2>3 DEF get_pid
    <3>2. call'[t].pc = "get_cached" /\ OnlyThread(t)
      BY <3>1, GotoFacts
    <3>3. \A i \in Instances : Current(i) => owner[i] = pid
      BY <2>1, <2>3, CheckPassed
    <3> QED
      BY <2>1, <3>1, <3>2, <3>3, OutsideStep
  <2> QED
    BY <2>2, <2>3
<1>3. CASE get_cached(t)
  <2>1. UNCHANGED <<hsm, lock, generation, initPid, pid, owner, cached>> /\ call[t].pc = "get_cached"
    BY <1>3 DEF get_cached
  <2>2. /\ OnlyThread(t) /\ call'[t].pc = IF Valid(t) THEN "using" ELSE "get_locked"
        /\ Valid(t) => call'[t].core = cached[t].core
    BY <1>3 DEF get_cached, TypeOK, OnlyThread
  <2>3. \A i \in Instances : Current(i) => owner[i] = pid
    BY <2>1 DEF PastCheck
  <2>4. Valid(t) => owner[cached[t].core] = pid
    BY <2>3, HolderFacts
  <2> QED
    BY <2>1, <2>2, <2>3, <2>4, OutsideStep
<1>4. CASE get_locked(t)
  <2>1. UNCHANGED <<hsm, lock, generation, initPid, pid, owner>> /\ call[t].pc = "get_locked"
    BY <1>4 DEF get_locked
  <2>2. CASE hsm = 0
    <3>1. Return(t) /\ UNCHANGED cached
      BY <1>4, <2>2 DEF get_locked, CloneCore
    <3>2. call'[t].pc = "idle" /\ OnlyThread(t)
      BY <3>1, ReturnFacts
    <3> QED
      BY <2>1, <3>1, <3>2, OutsideStep
  <2>3. CASE hsm # 0
    <3>1. /\ cached'[t].core = hsm /\ \A u \in Threads \ {t} : cached'[u] = cached[u]
          /\ call'[t].pc = "using" /\ call'[t].core = hsm /\ OnlyThread(t)
      <4>1. /\ cached' = [cached EXCEPT ![t] = [core |-> hsm, gen |-> call[t].gen]]
            /\ call' = [call EXCEPT ![t] = [call[t] EXCEPT !.pc = "using", !.core = hsm]]
        BY <1>4, <2>3 DEF get_locked, CloneCore
      <4>2. cached'[t].core = hsm /\ \A u \in Threads \ {t} : cached'[u] = cached[u]
        BY <4>1 DEF TypeOK
      <4>3. OnlyThread(t) /\ call'[t] = [call[t] EXCEPT !.pc = "using", !.core = hsm]
        BY <4>1, CallFacts
      <4>4. call'[t].pc = "using" /\ call'[t].core = hsm
        BY <4>3 DEF TypeOK
      <4> QED
        BY <4>2, <4>3, <4>4
    <3>2. Current(hsm) /\ hsm \in Instances
      BY <2>3 DEF Current, TypeOK
    <3>3. owner[hsm] = pid
      BY <2>1, <3>2 DEF PastCheck
    <3> QED
      BY <2>1, <3>1, <3>2, <3>3, OutsideStep
  <2> QED
    BY <2>2, <2>3
<1> QED
  BY <1>1, <1>2, <1>3, <1>4

\* A step under the mutex, or one that takes it.
LEMMA InsideStep ==
    ASSUME LibraryInv, ForkInv, NEW t \in Threads, OnlyThread(t), pid' = pid,
           call[t].pc # "gone",
           call'[t].pc \notin {"gone", "using", "get_cached", "get_locked"},
           \A u \in Threads \ {t} : call[u].pc \notin Holding,
           lock' \in {lock, t, NoThread},
           \A i \in Instances : owner'[i] \in {owner[i], pid},
           PidTracksInstance', PidAt(t)',
           \A u \in Threads : Valid(u)' => Current(cached[u].core)',
           \A i \in Instances : Current(i)' => Current(i) \/ owner'[i] = pid
    PROVE  ForkInv'
<1> USE DEF LibraryInv, ForkInv
<1>1. \A u \in Threads : PidAt(u)'
  <2>1. ASSUME NEW u \in Threads \ {t} PROVE PidAt(u)'
    <3>1. call'[u].pc \notin Holding
      BY DEF OnlyThread
    <3> QED
      BY <3>1 DEF PidAt
  <2> QED
    BY <2>1
<1>2. ChildAlone'
  <2>1. \A i \in Instances : owner'[i] <= pid'
    <3>1. pid \in Nat
      BY PidAssumption DEF TypeOK
    <3> QED
      BY <3>1 DEF ChildAlone
  <2>2. \A u \in Threads : call'[u].pc = "gone" <=> call[u].pc = "gone"
    BY DEF OnlyThread
  <2>3. \A u \in Threads : call'[u].pc = "gone" => lock' # u
    BY <2>2, ThreadAssumption DEF ChildAlone
  <2>4. pid' # 1 => \A v, u \in Threads : call'[v].pc = "gone" \/ call'[u].pc = "gone" \/ v = u
    BY <2>2 DEF ChildAlone
  <2> QED
    BY <2>1, <2>3, <2>4 DEF ChildAlone
<1>3. PastCheck'
  <2>1. SUFFICES ASSUME NEW u \in Threads, call'[u].pc \in {"get_cached", "get_locked"},
                        NEW i \in Instances, Current(i)'
                 PROVE  owner'[i] = pid
    BY DEF PastCheck
  <2>2. u # t /\ call[u].pc \in {"get_cached", "get_locked"}
    BY <2>1 DEF OnlyThread
  <2>3. Current(i) => owner[i] = pid
    BY <2>2 DEF PastCheck
  <2> QED
    BY <2>1, <2>3
<1>4. OwnInstance'
  <2>1. SUFFICES ASSUME NEW u \in Threads, call'[u].pc = "using" PROVE owner'[call'[u].core] = pid
    BY DEF OwnInstance
  <2>2. u # t /\ call'[u] = call[u]
    BY <2>1 DEF OnlyThread
  <2>3. call[u].core \in Instances /\ owner[call[u].core] = pid
    BY <2>1, <2>2 DEF OwnInstance, NoWithdrawnInstance
  <2> QED
    BY <2>2, <2>3
<1> QED
  BY <1>1, <1>2, <1>3, <1>4

\* C_Initialize up to the publication, with no instance behind the mutex.
LEMMA InitializeKeeps ==
    ASSUME LibraryInv, ForkInv, NEW t \in Threads,
           init_clear(t) \/ init_post(t) \/ init_pid(t)
    PROVE  ForkInv'
<1> USE DEF LibraryInv, ForkInv, memory
<1>1. /\ UNCHANGED <<hsm, generation, owner, pid, cached>>
      /\ call[t].pc \in {"init_clear", "init_post", "init_pid"}
  BY DEF init_clear, init_post, init_pid
<1>2. hsm = 0 /\ lock = t /\ \A u \in Threads \ {t} : call[u].pc \notin Holding
  BY <1>1, HolderFacts DEF MutexHeld
<1>3. initPid = 0
  BY <1>1 DEF PidAt
<1>4. /\ OnlyThread(t)
      /\ \/ call'[t].pc \in {"init_post", "init_pid"} /\ lock' = lock /\ initPid' = 0
         \/ call'[t].pc = "init_publish" /\ lock' = lock /\ initPid' = pid
         \/ call'[t].pc = "idle" /\ lock' = NoThread /\ initPid' = 0
  <2>1. CASE init_clear(t)
    BY <1>3, <2>1, GotoFacts DEF init_clear
  <2>2. CASE init_post(t)
    BY <1>3, <2>2, GotoFacts, ReturnFacts DEF init_post, run_post_fails, DropGuard, Release
  <2>3. CASE init_pid(t)
    BY <2>3, GotoFacts DEF init_pid
  <2> QED
    BY <2>1, <2>2, <2>3
<1>5. PidTracksInstance'
  BY <1>1, <1>2, <1>4, ThreadAssumption DEF PidTracksInstance
<1>6. PidAt(t)'
  BY <1>1, <1>4 DEF PidAt
<1>7. \A i : Current(i)' <=> Current(i)
  BY <1>1, <1>4 DEF Current, OnlyThread
<1>8. \A u \in Threads : Valid(u)' => Current(cached[u].core)'
  BY <1>1, <1>7
<1> QED
  BY <1>1, <1>2, <1>4, <1>5, <1>6, <1>7, <1>8, InsideStep

\* C_Initialize publishes an instance of this process.
LEMMA PublishKeeps ==
    ASSUME LibraryInv, ForkInv, NEW t \in Threads, init_publish(t)
    PROVE  ForkInv'
<1> USE DEF LibraryInv, ForkInv
<1>1. /\ UNCHANGED <<lock, initPid, pid, cached>> /\ call[t].pc = "init_publish"
      /\ hsm' = created + 1 /\ generation' = generation + 1
      /\ owner' = [owner EXCEPT ![created + 1] = pid]
  BY DEF init_publish
<1>2. hsm = 0 /\ lock = t /\ \A u \in Threads \ {t} : call[u].pc \notin Holding
  BY <1>1, HolderFacts DEF MutexHeld
<1>3. initPid = pid
  BY <1>1 DEF PidAt
<1>4. OnlyThread(t) /\ call'[t].pc = "unlock"
  BY GotoFacts DEF init_publish
<1>5. created + 1 \in Instances /\ created + 1 # 0
  BY <1>1, InstanceAssumption DEF TypeOK, Bounded
<1>6. /\ owner'[created + 1] = pid
      /\ \A i \in Instances : owner'[i] \in {owner[i], pid}
  BY <1>1, <1>5 DEF TypeOK
<1>7. PidTracksInstance'
  BY <1>1, <1>2, ThreadAssumption DEF PidTracksInstance
<1>8. PidAt(t)'
  BY <1>1, <1>3, <1>4, <1>5, <1>6 DEF PidAt, Creator
<1>9. \A i \in Instances : Current(i)' => owner'[i] = pid
  <2>1. \A u \in Threads : call'[u].pc \notin Finalizing
    BY <1>2, <1>4 DEF OnlyThread
  <2> QED
    BY <1>1, <1>6, <2>1 DEF Current
<1>10. \A u \in Threads : ~Valid(u)'
  <2>1. SUFFICES ASSUME NEW u \in Threads PROVE cached'[u].gen # generation'
    OBVIOUS
  <2>2. cached[u].gen <= generation /\ cached[u].gen \in Nat /\ generation \in Nat
    BY DEF TypeOK, Bounded
  <2> QED
    BY <1>1, <2>2
<1> QED
  BY <1>1, <1>2, <1>4, <1>6, <1>7, <1>8, <1>9, <1>10, InsideStep

\* The end of C_Initialize and C_Finalize frees the mutex.
LEMMA UnlockKeeps ==
    ASSUME LibraryInv, ForkInv, NEW t \in Threads, unlock(t)
    PROVE  ForkInv'
<1> USE DEF LibraryInv, ForkInv, memory
<1>1. /\ UNCHANGED <<hsm, generation, owner, pid, cached, initPid>>
      /\ call[t].pc = "unlock" /\ lock' = NoThread
  BY DEF unlock, Release
<1>2. \A u \in Threads \ {t} : call[u].pc \notin Holding
  BY <1>1, HolderFacts DEF MutexHeld
<1>3. initPid = Creator
  BY <1>1 DEF PidAt
<1>4. OnlyThread(t) /\ call'[t].pc = "idle"
  BY ReturnFacts DEF unlock
<1>5. PidTracksInstance'
  BY <1>1, <1>3 DEF PidTracksInstance, Creator
<1>6. PidAt(t)'
  BY <1>4 DEF PidAt
<1>7. \A i : Current(i)' <=> Current(i)
  BY <1>1, <1>4 DEF Current, OnlyThread
<1>8. \A u \in Threads : Valid(u)' => Current(cached[u].core)'
  BY <1>1, <1>7
<1> QED
  BY <1>1, <1>2, <1>4, <1>5, <1>6, <1>7, <1>8, InsideStep

\* C_Initialize takes the mutex, or finds an instance behind it.
LEMMA InitLockKeeps ==
    ASSUME LibraryInv, ForkInv, NEW t \in Threads, init_lock(t)
    PROVE  ForkInv'
<1> USE DEF LibraryInv, ForkInv, memory
<1>1. /\ UNCHANGED <<hsm, generation, owner, pid, cached, initPid>>
      /\ call[t].pc = "init_lock" /\ lock = NoThread
  BY DEF init_lock, Acquire
<1>2. CASE hsm # 0
  <2>1. lock' = lock /\ call' = [call EXCEPT ![t] = [call[t] EXCEPT !.pc = "already", !.core = hsm]]
    BY <1>2 DEF init_lock
  <2>2. OnlyThread(t) /\ call'[t] = [call[t] EXCEPT !.pc = "already", !.core = hsm]
    BY <2>1, CallFacts
  <2>3. call'[t].pc = "already"
    BY <2>2 DEF TypeOK
  <2> QED
    BY <1>1, <2>1, <2>2, <2>3, OutsideStep
<1>3. CASE hsm = 0
  <2>1. lock' = t /\ OnlyThread(t) /\ call'[t].pc = "init_clear"
    BY <1>3, GotoFacts DEF init_lock, Acquire
  <2>2. initPid = 0
    BY <1>1, <1>3 DEF PidTracksInstance
  <2>3. PidTracksInstance'
    BY <2>1, ThreadAssumption DEF PidTracksInstance
  <2>4. PidAt(t)'
    BY <1>1, <2>1, <2>2 DEF PidAt
  <2>5. \A i : Current(i)' <=> Current(i)
    BY <1>1, <2>1 DEF Current, OnlyThread
  <2>6. \A u \in Threads : Valid(u)' => Current(cached[u].core)'
    BY <1>1, <2>5
  <2>7. \A u \in Threads : call[u].pc \notin Holding
    BY <1>1, HolderFacts
  <2> QED
    BY <1>1, <2>1, <2>3, <2>4, <2>5, <2>6, <2>7, InsideStep
<1> QED
  BY <1>2, <1>3

\* C_Finalize takes the instance away, which stays current until the
\* generation changes.
LEMMA FinLockKeeps ==
    ASSUME LibraryInv, ForkInv, NEW t \in Threads, fin_lock(t)
    PROVE  ForkInv'
<1> USE DEF LibraryInv, ForkInv
<1>1. /\ UNCHANGED <<generation, owner, pid, cached, initPid>>
      /\ call[t].pc = "fin_lock" /\ lock = NoThread
  BY DEF fin_lock, Acquire
<1>2. CASE hsm = 0
  <2>1. lock' = lock /\ hsm' = hsm /\ Return(t)
    BY <1>2 DEF fin_lock
  <2>2. OnlyThread(t) /\ call'[t].pc = "idle"
    BY <2>1, ReturnFacts
  <2> QED
    BY <1>1, <2>1, <2>2, OutsideStep
<1>3. CASE hsm # 0
  <2>1. /\ lock' = t /\ hsm' = 0
        /\ call' = [call EXCEPT ![t] = [call[t] EXCEPT !.pc = "fin_pid", !.core = hsm]]
    BY <1>3 DEF fin_lock, Acquire
  <2>2. OnlyThread(t) /\ call'[t] = [call[t] EXCEPT !.pc = "fin_pid", !.core = hsm]
    BY <2>1, CallFacts
  <2>3. call'[t].pc = "fin_pid" /\ call'[t].core = hsm
    BY <2>2 DEF TypeOK
  <2>4. initPid = owner[hsm]
    BY <1>1, <1>3 DEF PidTracksInstance
  <2>5. PidTracksInstance'
    BY <2>1, ThreadAssumption DEF PidTracksInstance
  <2>6. PidAt(t)'
    BY <1>1, <2>3, <2>4 DEF PidAt
  <2>7. \A u \in Threads : call[u].pc \notin Holding
    BY <1>1, HolderFacts
  <2>8. \A i : Current(i)' <=> Current(i)
    BY <1>3, <2>1, <2>2, <2>3, <2>7 DEF Current, OnlyThread
  <2>9. \A u \in Threads : Valid(u)' => Current(cached[u].core)'
    BY <1>1, <2>8
  <2> QED
    BY <1>1, <2>1, <2>2, <2>3, <2>5, <2>6, <2>7, <2>8, <2>9, InsideStep
<1> QED
  BY <1>2, <1>3

\* C_Finalize clears INIT_PID, then changes the generation.
LEMMA FinalizeKeeps ==
    ASSUME LibraryInv, ForkInv, NEW t \in Threads, fin_pid(t) \/ fin_generation(t)
    PROVE  ForkInv'
<1> USE DEF LibraryInv, ForkInv
<1>1. UNCHANGED <<hsm, lock, owner, pid>> /\ call[t].pc \in Finalizing
  BY DEF fin_pid, fin_generation
<1>2. hsm = 0 /\ lock = t /\ \A u \in Threads \ {t} : call[u].pc \notin Holding
  BY <1>1, HolderFacts DEF MutexHeld
<1>3. PidTracksInstance'
  BY <1>1, <1>2, ThreadAssumption DEF PidTracksInstance
<1>4. CASE fin_pid(t)
  <2>1. UNCHANGED <<cached, generation>> /\ initPid' = 0 /\ call[t].pc = "fin_pid"
    BY <1>4 DEF fin_pid
  <2>2. call'[t].pc = "fin_generation" /\ call'[t].core = call[t].core /\ OnlyThread(t)
    BY <1>4, GotoFacts DEF fin_pid
  <2>3. PidAt(t)'
    BY <2>1, <2>2 DEF PidAt
  <2>4. \A i : Current(i)' <=> Current(i)
    BY <1>1, <2>1, <2>2 DEF Current, OnlyThread
  <2>5. \A u \in Threads : Valid(u)' => Current(cached[u].core)'
    BY <2>1, <2>4
  <2> QED
    BY <1>1, <1>2, <1>3, <2>2, <2>3, <2>4, <2>5, InsideStep
<1>5. CASE fin_generation(t)
  <2>1. /\ initPid' = initPid /\ call[t].pc = "fin_generation"
        /\ generation' = generation + 1 /\ cached' = [cached EXCEPT ![t] = Empty]
    BY <1>5 DEF fin_generation, NextGeneration
  <2>2. call'[t].pc = "unlock" /\ OnlyThread(t)
    BY <1>5, GotoFacts DEF fin_generation
  <2>3. initPid = 0
    BY <2>1 DEF PidAt
  <2>4. PidAt(t)'
    BY <1>1, <1>2, <2>1, <2>2, <2>3 DEF PidAt, Creator
  <2>5. \A i : Current(i)' => Current(i)
    BY <1>1, <2>2 DEF Current, OnlyThread
  <2>6. \A u \in Threads : ~Valid(u)'
    <3>1. ASSUME NEW u \in Threads \ {t} PROVE cached'[u].gen # generation'
      <4>1. cached[u].gen <= generation /\ cached[u].gen \in Nat /\ generation \in Nat
        BY DEF TypeOK, Bounded
      <4>2. cached'[u] = cached[u]
        BY <2>1 DEF TypeOK
      <4> QED
        BY <2>1, <4>1, <4>2
    <3>2. cached'[t].core = 0
      BY <2>1 DEF TypeOK
    <3> QED
      BY <3>1, <3>2
  <2> QED
    BY <1>1, <1>2, <1>3, <2>2, <2>4, <2>5, <2>6, InsideStep
<1> QED
  BY <1>4, <1>5

\* A fork with the mutex free: INIT_PID stays the parent's, and the child's
\* one thread is outside any call.
LEMMA ForkKeeps ==
    ASSUME LibraryInv, ForkInv, NEW t \in Threads, Fork(t), lock = NoThread
    PROVE  ForkInv'
<1> USE DEF LibraryInv, ForkInv, memory
<1>1. /\ UNCHANGED <<hsm, lock, generation, initPid, owner, cached>>
      /\ pid' = pid + 1 /\ lock = NoThread
  BY DEF Fork
<1>2. \A u \in Threads : call'[u].pc = IF u = t THEN "idle" ELSE "gone"
  BY DEF Fork
<1>3. PidTracksInstance'
  BY <1>1 DEF PidTracksInstance
<1>4. \A u \in Threads : PidAt(u)'
  BY <1>2 DEF PidAt
<1>5. ChildAlone'
  <2>1. \A i \in Instances : owner'[i] <= pid'
    BY <1>1, PidAssumption DEF ChildAlone, TypeOK
  <2> QED
    BY <1>1, <1>2, <2>1, ThreadAssumption DEF ChildAlone
<1>6. \A i : Current(i) => i = hsm /\ Current(i)'
  <2>1. \A u \in Threads : call[u].pc \notin Holding
    BY <1>1, HolderFacts
  <2> QED
    BY <1>1, <2>1 DEF Current
<1>7. \A u \in Threads : Valid(u)' => Current(cached[u].core)'
  BY <1>1, <1>6
<1>8. PastCheck' /\ OwnInstance'
  BY <1>2 DEF PastCheck, OwnInstance
<1> QED
  BY <1>3, <1>4, <1>5, <1>7, <1>8

\* A fork with the mutex held leaves it orphaned in the child.
LEMMA ForkOrphans ==
    ASSUME LibraryInv, ForkInv, NEW t \in Threads, Fork(t), lock # NoThread
    PROVE  OrphanInv'
<1> USE DEF LibraryInv, ForkInv, memory
<1>1. /\ UNCHANGED <<lock, initPid>> /\ pid' = pid + 1 /\ call[t].pc = "idle"
      /\ \A u \in Threads : call'[u].pc = IF u = t THEN "idle" ELSE "gone"
  BY DEF Fork
<1>2. lock \in Threads /\ call[lock].pc \in Holding
  BY HolderFacts DEF TypeOK
<1>3. Orphaned'
  BY <1>1, <1>2 DEF Orphaned
<1>4. ASSUME initPid # 0 PROVE initPid <= pid
  <2>1. PidAt(lock) /\ pid \in Nat /\ initPid \in Nat
    BY <1>2, PidAssumption DEF TypeOK
  <2>2. \A i \in Instances : owner[i] <= pid
    BY DEF ChildAlone
  <2>3. call[lock].core \in Instances \cup {0} /\ hsm \in Instances \cup {0}
    BY <1>2 DEF TypeOK
  <2>4. call[lock].pc \in Finalizing => call[lock].core # 0
    BY <1>2 DEF Bounded
  <2>5. CASE call[lock].pc = "unlock"
    BY <1>4, <2>1, <2>2, <2>3, <2>5 DEF PidAt, Creator
  <2>6. CASE call[lock].pc # "unlock"
    BY <1>2, <1>4, <2>1, <2>2, <2>3, <2>4, <2>6 DEF PidAt
  <2> QED BY <2>5, <2>6
<1>5. initPid' # 0 => initPid' < pid'
  <2>1. pid \in Nat /\ initPid \in Nat
    BY PidAssumption DEF TypeOK
  <2> QED BY <1>1, <1>4, <2>1
<1> QED
  BY <1>1, <1>3, <1>5 DEF OrphanInv

\* From then on the mutex is never taken, and a child of the process that
\* initialized the library stays refused.
LEMMA OrphanKeeps ==
    ASSUME LibraryInv, OrphanInv, [Next]_vars PROVE OrphanInv'
<1> USE DEF OrphanInv, memory
<1>1. CASE UNCHANGED vars
  BY <1>1 DEF vars, Orphaned
<1>h. /\ lock \in Threads /\ call[lock].pc = "gone" /\ lock # NoThread
      /\ \A t \in Threads : call[t].pc \notin Holding
  BY ThreadAssumption DEF Orphaned, LibraryInv, MutexHeld
<1>n. pid \in Nat /\ initPid \in Nat /\ TypeOK
  BY PidAssumption DEF LibraryInv, TypeOK
<1>o. ASSUME NEW t \in Threads, OnlyThread(t), call[t].pc # "gone",
             UNCHANGED <<lock, initPid, pid>>,
             initPid # 0 =>
               call'[t].pc \notin {"get_cached", "get_locked", "using"}
      PROVE  OrphanInv'
  <2>1. t # lock
    BY <1>h, <1>o
  <2>2. Orphaned'
    BY <1>h, <1>o, <2>1 DEF Orphaned, OnlyThread
  <2> QED
    BY <1>o, <2>2 DEF OnlyThread
<1>2. CASE Next
  <2>1. PICK t \in Threads : Start(t) \/ Locking(t) \/ Running(t) \/ Fork(t)
    BY <1>2 DEF Next
  <2>2. CASE Start(t)
    <3>1. UNCHANGED <<lock, initPid, pid>> /\ call[t].pc = "idle"
      BY <2>2 DEF Start, get_hsm, C_Initialize, C_Finalize, Begin
    <3>2. OnlyThread(t) /\ call'[t].pc \in {"get_pid", "init_lock", "fin_lock"}
      <4>1. CASE get_hsm(t)
        BY <1>n, <4>1 DEF get_hsm, TypeOK, OnlyThread
      <4>2. CASE C_Initialize(t) \/ C_Finalize(t)
        BY <1>n, <4>2, GotoFacts DEF C_Initialize, C_Finalize, Begin
      <4> QED BY <2>2, <4>1, <4>2 DEF Start
    <3> QED BY <1>o, <3>1, <3>2
  <2>3. CASE Locking(t)
    BY <1>h, <2>3 DEF Locking, get_locked, init_lock, fin_lock, Acquire
  <2>4. CASE Running(t)
    <3>1. CASE get_pid(t)
      <4>1. UNCHANGED <<lock, initPid, pid>> /\ call[t].pc = "get_pid"
        BY <3>1 DEF get_pid
      <4>2. CASE initPid # 0
        <5>1. Return(t)
          BY <1>n, <3>1, <4>2 DEF get_pid, Forked
        <5> QED BY <1>n, <1>o, <4>1, <5>1, ReturnFacts
      <4>3. CASE initPid = 0
        <5>1. OnlyThread(t)
          BY <1>n, <3>1, GotoFacts, ReturnFacts DEF get_pid
        <5> QED BY <1>o, <4>1, <4>3, <5>1
      <4> QED BY <4>2, <4>3
    <3>2. CASE get_cached(t)
      <4>1. UNCHANGED <<lock, initPid, pid>> /\ call[t].pc = "get_cached"
        BY <3>2 DEF get_cached
      <4>2. OnlyThread(t)
        BY <1>n, <3>2 DEF get_cached, TypeOK, OnlyThread
      <4>3. initPid = 0
        BY <4>1
      <4> QED BY <1>o, <4>1, <4>2, <4>3
    <3>3. CASE finish(t) \/ self_test_failed(t) \/ already(t)
      <4>1. /\ UNCHANGED <<lock, initPid, pid>> /\ Return(t)
            /\ call[t].pc \in {"using", "already"}
        BY <3>3 DEF finish, self_test_failed, already
      <4> QED BY <1>n, <1>o, <4>1, ReturnFacts
    <3>4. CASE call[t].pc \in Holding
      BY <1>h, <3>4
    <3> QED
      BY <2>4, <3>1, <3>2, <3>3, <3>4
      DEF Running, init_clear, init_post, init_pid, init_publish, fin_pid,
          fin_generation, unlock
  <2>5. CASE Fork(t)
    <3>1. /\ UNCHANGED <<lock, initPid>> /\ pid' = pid + 1 /\ call[t].pc = "idle"
          /\ \A u \in Threads : call'[u].pc = IF u = t THEN "idle" ELSE "gone"
      BY <2>5 DEF Fork
    <3>2. Orphaned'
      BY <1>h, <3>1 DEF Orphaned
    <3> QED BY <1>n, <3>1, <3>2
  <2> QED
    BY <2>1, <2>2, <2>3, <2>4, <2>5
<1> QED
  BY <1>1, <1>2

\* Nothing is initialized, and nothing was forked.
LEMMA InitFork == Init => ForkInv
<1> SUFFICES ASSUME Init PROVE ForkInv
  OBVIOUS
<1>1. PidTracksInstance /\ PastCheck /\ OwnInstance /\ \A t \in Threads : PidAt(t)
  BY DEF Init, PidTracksInstance, PastCheck, OwnInstance, PidAt
<1>2. ChildAlone
  BY DEF Init, ChildAlone
<1>3. \A t \in Threads : ~Valid(t)
  BY DEF Init
<1> QED
  BY <1>1, <1>2, <1>3 DEF ForkInv

\* Every step of every thread keeps the facts of the fork check.
LEMMA NextFork ==
    LibraryInv /\ ForkInv /\ [Next]_vars => ForkInv' \/ OrphanInv'
<1> SUFFICES ASSUME LibraryInv, ForkInv, [Next]_vars
             PROVE  ForkInv' \/ OrphanInv'
  OBVIOUS
<1>1. CASE UNCHANGED vars
  BY <1>1 DEF vars, ForkInv, PidTracksInstance, PidAt, Creator, ChildAlone,
              Current, PastCheck, OwnInstance
<1>2. CASE Next
  <2>1. PICK t \in Threads : Start(t) \/ Locking(t) \/ Running(t) \/ Fork(t)
    BY <1>2 DEF Next
  <2>2. CASE Start(t)
    BY <2>2, OutsideKeeps
  <2>3. CASE Locking(t)
    BY <2>3, OutsideKeeps, InitLockKeeps, FinLockKeeps DEF Locking
  <2>4. CASE Running(t)
    BY <2>4, OutsideKeeps, InitializeKeeps, PublishKeeps, FinalizeKeeps, UnlockKeeps
       DEF Running
  <2>5. CASE Fork(t)
    BY <2>5, ForkKeeps, ForkOrphans
  <2> QED
    BY <2>1, <2>2, <2>3, <2>4, <2>5
<1> QED
  BY <1>1, <1>2

(* For any number of threads, initializations and generations of children, *)
(* and forks at any instant: INIT_PID is the creator of the instance       *)
(* behind the free mutex, and no call that get_hsm let through, by its     *)
(* cache or by the mutex, runs in a child on an instance the child         *)
(* inherited, unless the fork met a C_Finalize past its reset of INIT_PID. *)
THEOREM ForkKept == Spec => []ForkSafe
<1>1. LibraryInv /\ (ForkInv \/ OrphanInv) /\ [Next]_vars
         => (LibraryInv /\ (ForkInv \/ OrphanInv))'
  BY NextInv, NextFork, OrphanKeeps
<1>2. LibraryInv /\ ForkInv => ForkSafe
  BY DEF ForkInv, ForkSafe, OwnInstance, ChildRefused
<1>3. LibraryInv /\ OrphanInv => ForkSafe
  BY ThreadAssumption
  DEF OrphanInv, Orphaned, ForkSafe, PidTracksInstance, ChildRefused
<1>4. Init => LibraryInv /\ ForkInv
  BY InitInv, InitFork
<1> QED
  BY <1>1, <1>2, <1>3, <1>4, PTL DEF Spec

-----------------------------------------------------------------------------
(* Randomness, which C_Initialize tests and seeds: for the same threads,   *)
(* any samples and blocks, and any cutoffs, window and lengths.            *)

\* What Randomness assumes of its constants.
RandomLimits ==
    /\ Samples # {} /\ ZeroBlock \in Blocks /\ NoBlock \notin Blocks
    /\ REPETITION_COUNT_CUTOFF \in Nat \ {0, 1}
    /\ ADAPTIVE_PROPORTION_CUTOFF \in Nat \ {0, 1}
    /\ ADAPTIVE_PROPORTION_WINDOW \in Nat \ {0, 1}
    /\ STARTUP_SAMPLES \in Nat \ {0} /\ RESEED_INTERVAL \in Nat \ {0, 1}
    /\ SeedLength \in Nat \ {0} /\ ReseedLength \in Nat \ {0} /\ MaxBlocks \in Nat \ {0}

LEMMA LimitsHold == RandomLimits
BY SampleAssumption, BlockAssumption, CutoffAssumption, LengthAssumption DEF RandomLimits

-----------------------------------------------------------------------------
(* The last samples of a sequence, and how often one occurs in them        *)

LEMMA LastOfFacts ==
    ASSUME NEW S, NEW s \in Seq(S), NEW n \in Nat
    PROVE  /\ LastOf(s, n) \in Seq(S)
           /\ Len(LastOf(s, n)) = IF Len(s) <= n THEN Len(s) ELSE n
           /\ \A i \in 1 .. Len(LastOf(s, n)) :
                 LastOf(s, n)[i] = s[Len(s) - Len(LastOf(s, n)) + i]
<1>1. CASE Len(s) <= n
  BY <1>1 DEF LastOf
<1>2. CASE ~(Len(s) <= n)
  <2>1. LastOf(s, n) = SubSeq(s, Len(s) - n + 1, Len(s))
    BY <1>2 DEF LastOf
  <2>2. /\ Len(s) \in Nat /\ Len(s) - n + 1 \in Int
        /\ \A i \in Len(s) - n + 1 .. Len(s) : s[i] \in S
    BY <1>2
  <2>3. /\ SubSeq(s, Len(s) - n + 1, Len(s)) \in Seq(S)
        /\ Len(SubSeq(s, Len(s) - n + 1, Len(s)))
             = IF Len(s) - n + 1 <= Len(s) THEN Len(s) - (Len(s) - n + 1) + 1 ELSE 0
        /\ \A i \in 1 .. Len(s) - (Len(s) - n + 1) + 1 :
             SubSeq(s, Len(s) - n + 1, Len(s))[i] = s[(Len(s) - n + 1) + i - 1]
    BY <2>2, SubSeqProperties
  <2> QED
    BY <1>2, <2>1, <2>2, <2>3
<1> QED
  BY <1>1, <1>2

\* The last ones of the last ones.
LEMMA LastOfLastOf ==
    ASSUME NEW S, NEW s \in Seq(S), NEW n \in Nat, NEW q \in Nat, q <= n
    PROVE  LastOf(LastOf(s, n), q) = LastOf(s, q)
<1>1. PICK u : u = LastOf(s, n)
  OBVIOUS
<1>2. /\ u \in Seq(S) /\ Len(u) = (IF Len(s) <= n THEN Len(s) ELSE n)
      /\ \A i \in 1 .. Len(u) : u[i] = s[Len(s) - Len(u) + i]
  BY <1>1, LastOfFacts
<1>3. PICK v : v = LastOf(u, q)
  OBVIOUS
<1>4. /\ v \in Seq(S) /\ Len(v) = (IF Len(u) <= q THEN Len(u) ELSE q)
      /\ \A i \in 1 .. Len(v) : v[i] = u[Len(u) - Len(v) + i]
  <2>1. u \in Seq(S)
    BY <1>2
  <2> QED
    BY <1>3, <2>1, LastOfFacts
<1>5. PICK w : w = LastOf(s, q)
  OBVIOUS
<1>6. /\ w \in Seq(S) /\ Len(w) = (IF Len(s) <= q THEN Len(s) ELSE q)
      /\ \A i \in 1 .. Len(w) : w[i] = s[Len(s) - Len(w) + i]
  BY <1>5, LastOfFacts
<1>7. Len(s) \in Nat /\ Len(u) \in Nat /\ Len(v) \in Nat /\ Len(w) \in Nat
  BY <1>2, <1>4, <1>6
<1>8. Len(v) = Len(w)
  BY <1>2, <1>4, <1>6, <1>7
<1>9. ASSUME NEW i \in 1 .. Len(v) PROVE v[i] = w[i]
  <2>1. Len(u) - Len(v) + i \in 1 .. Len(u)
    BY <1>4, <1>7
  <2>2. v[i] = s[Len(s) - Len(u) + (Len(u) - Len(v) + i)]
    BY <1>2, <1>4, <2>1
  <2>3. Len(s) - Len(u) + (Len(u) - Len(v) + i) = Len(s) - Len(w) + i
    BY <1>7, <1>8
  <2> QED
    BY <1>6, <1>8, <2>2, <2>3
<1>10. v = w
  BY <1>4, <1>6, <1>8, <1>9, SeqEqual
<1> QED
  BY <1>1, <1>3, <1>5, <1>10

\* One more at the end.
LEMMA LastOfAppend ==
    ASSUME NEW S, NEW s \in Seq(S), NEW x \in S, NEW q \in Nat, q <= Len(s)
    PROVE  LastOf(Append(s, x), q + 1) = Append(LastOf(s, q), x)
<1>1. PICK t : t = Append(s, x)
  OBVIOUS
<1>2. /\ t \in Seq(S) /\ Len(t) = Len(s) + 1 /\ t[Len(s) + 1] = x
      /\ \A i \in 1 .. Len(s) : t[i] = s[i]
  BY <1>1
<1>3. PICK u : u = LastOf(s, q)
  OBVIOUS
<1>4. /\ u \in Seq(S) /\ Len(u) = (IF Len(s) <= q THEN Len(s) ELSE q)
      /\ \A i \in 1 .. Len(u) : u[i] = s[Len(s) - Len(u) + i]
  BY <1>3, LastOfFacts
<1>5. PICK v : v = Append(u, x)
  OBVIOUS
<1>6. /\ v \in Seq(S) /\ Len(v) = Len(u) + 1 /\ v[Len(u) + 1] = x
      /\ \A i \in 1 .. Len(u) : v[i] = u[i]
  BY <1>4, <1>5
<1>70. PICK p \in Nat : p = q + 1
  OBVIOUS
<1>7. PICK w : w = LastOf(t, p)
  OBVIOUS
<1>8. /\ w \in Seq(S) /\ Len(w) = (IF Len(t) <= p THEN Len(t) ELSE p)
      /\ \A i \in 1 .. Len(w) : w[i] = t[Len(t) - Len(w) + i]
  <2>1. t \in Seq(S)
    BY <1>2
  <2> QED
    BY <1>7, <2>1, LastOfFacts
<1>9. Len(s) \in Nat /\ Len(u) = q /\ Len(v) = q + 1 /\ Len(w) = q + 1
  BY <1>2, <1>4, <1>6, <1>70, <1>8
<1>10. ASSUME NEW i \in 1 .. q + 1 PROVE w[i] = v[i]
  <2>0. Len(t) - Len(w) + i = Len(s) - q + i
    BY <1>2, <1>9
  <2>1. w[i] = t[Len(s) - q + i]
    BY <1>8, <1>9, <2>0
  <2>2. CASE i = q + 1
    BY <1>2, <1>6, <1>9, <2>1, <2>2
  <2>3. CASE i # q + 1
    <3>1. i \in 1 .. q /\ Len(s) - q + i \in 1 .. Len(s)
      BY <1>9, <2>3
    <3>2. v[i] = s[Len(s) - q + i]
      BY <1>4, <1>6, <1>9, <3>1
    <3> QED
      BY <1>2, <2>1, <3>1, <3>2
  <2> QED
    BY <2>2, <2>3
<1>11. w = v
  BY <1>6, <1>8, <1>9, <1>10, SeqEqual
<1> QED
  BY <1>1, <1>3, <1>5, <1>70, <1>7, <1>11

Occurrences(w, v) == Cardinality({i \in DOMAIN w : w[i] = v})

LEMMA OccurrencesFinite ==
    ASSUME NEW S, NEW w \in Seq(S), NEW v
    PROVE  IsFiniteSet({i \in DOMAIN w : w[i] = v}) /\ Occurrences(w, v) \in Nat
<1>1. IsFiniteSet(1 .. Len(w)) /\ {i \in DOMAIN w : w[i] = v} \in SUBSET (1 .. Len(w))
  BY FS_Interval
<1>2. IsFiniteSet({i \in DOMAIN w : w[i] = v})
  BY <1>1, FS_Subset
<1> QED
  BY <1>2, FS_CardinalityType DEF Occurrences

LEMMA OccurrencesAppend ==
    ASSUME NEW S, NEW w \in Seq(S), NEW x \in S, NEW v
    PROVE  Occurrences(Append(w, x), v) = Occurrences(w, v) + (IF x = v THEN 1 ELSE 0)
<1>1. PICK n : n = Len(w)
  OBVIOUS
<1>2. PICK t : t = Append(w, x)
  OBVIOUS
<1>3. /\ n \in Nat /\ DOMAIN w = 1 .. n /\ DOMAIN t = 1 .. n + 1 /\ t[n + 1] = x
      /\ \A i \in 1 .. n : t[i] = w[i]
  BY <1>1, <1>2
<1>4. PICK I : I = {i \in DOMAIN w : w[i] = v}
  OBVIOUS
<1>5. PICK J : J = {i \in DOMAIN t : t[i] = v}
  OBVIOUS
<1>6. IsFiniteSet(I) /\ Cardinality(I) \in Nat
  BY <1>4, OccurrencesFinite DEF Occurrences
<1>7. n + 1 \notin I
  BY <1>3, <1>4
<1>71. Occurrences(w, v) = Cardinality(I) /\ Occurrences(Append(w, x), v) = Cardinality(J)
  BY <1>2, <1>4, <1>5, Zenon DEF Occurrences
<1>8. CASE x = v
  <2>1. J = I \cup {n + 1}
    BY <1>3, <1>4, <1>5, <1>8
  <2>2. Cardinality(J) = Cardinality(I) + 1
    BY <1>6, <1>7, <2>1, FS_AddElement
  <2> QED
    BY <1>6, <1>71, <1>8, <2>2
<1>9. CASE x # v
  <2>1. J = I
    BY <1>3, <1>4, <1>5, <1>9
  <2> QED
    BY <1>6, <1>71, <1>9, <2>1
<1> QED
  BY <1>8, <1>9

\* A sequence of one.
LEMMA OccurrencesOne ==
    ASSUME NEW w, Len(w) = 1, DOMAIN w = {1}
    PROVE  Occurrences(w, w[1]) = 1
<1>1. {i \in DOMAIN w : w[i] = w[1]} = {1}
  OBVIOUS
<1> QED
  BY <1>1, FS_Singleton DEF Occurrences

-----------------------------------------------------------------------------
(* The health tests on one sample                                          *)

LEMMA RepetitionTest ==
    ASSUME RandomLimits, NEW m \in Monitor, NEW x \in Samples,
           NEW r, r = repetition_count_test(m, x)
    PROVE  /\ r \in Monitor
           /\ r.last = x /\ r.seen
           /\ r.value = m.value /\ r.count = m.count /\ r.pos = m.pos /\ r.open = m.open
           /\ m.seen /\ x = m.last => r.repetitions = m.repetitions + 1
           /\ ~(m.seen /\ x = m.last) => r.repetitions = 1 /\ r.verdict = "ok"
           /\ r.verdict = "ok" => r.repetitions < REPETITION_COUNT_CUTOFF
           /\ r.verdict \in {"ok", "failed"}
<1> DEFINE repeats == m.seen /\ x = m.last
           n == IF repeats THEN m.repetitions + 1 ELSE 1
           v == IF repeats /\ n >= REPETITION_COUNT_CUTOFF THEN "failed" ELSE "ok"
<1>1. /\ r = [m EXCEPT !.last = x, !.seen = TRUE, !.repetitions = n, !.verdict = v]
  BY DEF repetition_count_test
<1>2. m.repetitions \in Nat
  BY DEF Monitor
<1>3. n \in Nat /\ v \in {"ok", "failed", "panic"} /\ v \in {"ok", "failed"}
  BY <1>2
<1>4. /\ repeats => n = m.repetitions + 1
      /\ ~repeats => n = 1 /\ v = "ok"
      /\ v = "ok" => n < REPETITION_COUNT_CUTOFF
  BY <1>2 DEF RandomLimits
<1> HIDE DEF n, v, repeats
<1>5. /\ r \in Monitor
      /\ r.last = x /\ r.seen /\ r.repetitions = n /\ r.verdict = v
      /\ r.value = m.value /\ r.count = m.count /\ r.pos = m.pos /\ r.open = m.open
  BY <1>1, <1>3 DEF Monitor
<1> QED
  BY <1>3, <1>4, <1>5 DEF repeats

LEMMA ProportionTest ==
    ASSUME RandomLimits, NEW m \in Monitor, NEW x \in Samples,
           NEW a, a = adaptive_proportion_test(m, x), m.verdict = "ok",
           NEW n, n = IF x = m.value THEN m.count + 1 ELSE m.count
    PROVE  /\ a \in Monitor
           /\ a.last = m.last /\ a.seen = m.seen /\ a.repetitions = m.repetitions
           /\ m.pos < ADAPTIVE_PROPORTION_WINDOW => a.verdict \in {"ok", "failed"}
           /\ ~m.open => a.value = x /\ a.count = 1 /\ a.pos = 1 /\ a.open
           /\ m.open /\ a.verdict = "ok" =>
                /\ a.value = m.value /\ a.count = n /\ n < ADAPTIVE_PROPORTION_CUTOFF
                /\ m.pos # ADAPTIVE_PROPORTION_WINDOW
                /\ a.pos = (IF m.pos + 1 = ADAPTIVE_PROPORTION_WINDOW THEN 0 ELSE m.pos + 1)
                /\ (a.open <=> m.pos + 1 # ADAPTIVE_PROPORTION_WINDOW)
<1> DEFINE W == ADAPTIVE_PROPORTION_WINDOW
           full == m.pos + 1 >= W
<1>0. /\ m.count \in Nat /\ m.pos \in 0 .. W /\ W \in Nat /\ 1 \in 0 .. W
      /\ m.open \in BOOLEAN /\ n \in Nat
  BY DEF Monitor, RandomLimits
<1>1. CASE ~m.open
  <2>1. a = [m EXCEPT !.value = x, !.count = 1, !.pos = 1, !.open = TRUE]
    BY <1>1 DEF adaptive_proportion_test
  <2>2. PICK o \in BOOLEAN, k \in Nat, p \in 0 .. W : o = TRUE /\ k = 1 /\ p = 1
    BY <1>0
  <2>3. a = [m EXCEPT !.value = x, !.count = k, !.pos = p, !.open = o]
    BY <2>1, <2>2
  <2>4. /\ a \in Monitor
        /\ a.last = m.last /\ a.seen = m.seen /\ a.repetitions = m.repetitions
        /\ a.verdict = m.verdict /\ a.value = x /\ a.count = k /\ a.pos = p /\ a.open = o
    BY <2>3 DEF Monitor
  <2> QED
    BY <1>1, <2>2, <2>4
<1>2. CASE m.open /\ m.pos = W
  <2>1. a = [m EXCEPT !.verdict = "panic"]
    BY <1>2 DEF adaptive_proportion_test
  <2> QED
    BY <1>0, <1>2, <2>1 DEF Monitor
<1>3. CASE m.open /\ m.pos # W /\ n >= ADAPTIVE_PROPORTION_CUTOFF
  <2>1. a = [m EXCEPT !.count = n, !.pos = m.pos + 1, !.verdict = "failed"]
    BY <1>3 DEF adaptive_proportion_test
  <2>2. m.pos + 1 \in 0 .. W
    BY <1>0, <1>3
  <2> QED
    BY <1>0, <1>3, <2>1, <2>2 DEF Monitor
<1>4. CASE m.open /\ m.pos # W /\ ~(n >= ADAPTIVE_PROPORTION_CUTOFF)
  <2>1. PICK p : p = IF full THEN 0 ELSE m.pos + 1
    OBVIOUS
  <2>2. PICK o \in BOOLEAN : o = ~full
    OBVIOUS
  <2>3. a = [m EXCEPT !.count = n, !.pos = p, !.open = o]
    BY <1>4, <2>1, <2>2 DEF adaptive_proportion_test
  <2>4. /\ p \in 0 .. W
        /\ p = IF m.pos + 1 = W THEN 0 ELSE m.pos + 1
        /\ o = (m.pos + 1 # W)
    BY <1>0, <1>4, <2>1, <2>2
  <2>5. /\ a \in Monitor
        /\ a.last = m.last /\ a.seen = m.seen /\ a.repetitions = m.repetitions
        /\ a.verdict = "ok" /\ a.value = m.value /\ a.count = n /\ a.pos = p /\ a.open = o
    BY <1>0, <2>3, <2>4 DEF Monitor
  <2>6. n < ADAPTIVE_PROPORTION_CUTOFF
    BY <1>0, <1>4 DEF RandomLimits
  <2> QED
    BY <1>4, <2>4, <2>5, <2>6
<1> QED
  BY <1>1, <1>2, <1>3, <1>4

\* What a sample that passes makes of the monitor.
LEMMA FeedFacts ==
    ASSUME RandomLimits, NEW m \in Monitor, NEW x \in Samples,
           NEW f, f = Feed(m, x)
    PROVE  /\ f \in Monitor
           /\ m.verdict # "ok" => f = m
           /\ m.verdict = "ok" /\ m.pos < ADAPTIVE_PROPORTION_WINDOW => f.verdict # "panic"
           /\ m.verdict = "ok" /\ f.verdict = "ok" =>
                /\ f.last = x /\ f.seen
                /\ f.repetitions < REPETITION_COUNT_CUTOFF
                /\ f.repetitions = (IF m.seen /\ x = m.last THEN m.repetitions + 1 ELSE 1)
                /\ ~m.open => f.value = x /\ f.count = 1 /\ f.pos = 1 /\ f.open
                /\ m.open =>
                     /\ f.value = m.value
                     /\ f.count = (IF x = m.value THEN m.count + 1 ELSE m.count)
                     /\ f.count < ADAPTIVE_PROPORTION_CUTOFF
                     /\ f.pos = (IF m.pos + 1 = ADAPTIVE_PROPORTION_WINDOW THEN 0 ELSE m.pos + 1)
                     /\ (f.open <=> m.pos + 1 # ADAPTIVE_PROPORTION_WINDOW)
<1>1. CASE m.verdict # "ok"
  BY <1>1 DEF Feed
<1>2. CASE m.verdict = "ok"
  <2>1. PICK r : r = repetition_count_test(m, x)
    OBVIOUS
  <2>2. /\ r \in Monitor
        /\ r.last = x /\ r.seen
        /\ r.value = m.value /\ r.count = m.count /\ r.pos = m.pos /\ r.open = m.open
        /\ m.seen /\ x = m.last => r.repetitions = m.repetitions + 1
        /\ ~(m.seen /\ x = m.last) => r.repetitions = 1 /\ r.verdict = "ok"
        /\ r.verdict = "ok" => r.repetitions < REPETITION_COUNT_CUTOFF
        /\ r.verdict \in {"ok", "failed"}
    BY <2>1, RepetitionTest
  <2>3. f = IF r.verdict = "ok" THEN adaptive_proportion_test(r, x) ELSE r
    BY <1>2, <2>1 DEF Feed
  <2>4. CASE r.verdict # "ok"
    BY <1>2, <2>2, <2>3, <2>4
  <2>5. CASE r.verdict = "ok"
    <3>1. PICK n : n = IF x = r.value THEN r.count + 1 ELSE r.count
      OBVIOUS
    <3>2. f = adaptive_proportion_test(r, x)
      BY <2>3, <2>5
    <3>3. /\ f \in Monitor
          /\ f.last = r.last /\ f.seen = r.seen /\ f.repetitions = r.repetitions
          /\ r.pos < ADAPTIVE_PROPORTION_WINDOW => f.verdict \in {"ok", "failed"}
          /\ ~r.open => f.value = x /\ f.count = 1 /\ f.pos = 1 /\ f.open
          /\ r.open /\ f.verdict = "ok" =>
               /\ f.value = r.value /\ f.count = n /\ n < ADAPTIVE_PROPORTION_CUTOFF
               /\ r.pos # ADAPTIVE_PROPORTION_WINDOW
               /\ f.pos = (IF r.pos + 1 = ADAPTIVE_PROPORTION_WINDOW THEN 0 ELSE r.pos + 1)
               /\ (f.open <=> r.pos + 1 # ADAPTIVE_PROPORTION_WINDOW)
      <4>1. r \in Monitor /\ r.verdict = "ok"
        BY <2>2, <2>5
      <4> QED
        BY <3>1, <3>2, <4>1, ProportionTest
    <3> QED
      BY <1>2, <2>2, <2>5, <3>1, <3>3
  <2> QED
    BY <2>4, <2>5
<1> QED
  BY <1>1, <1>2

-----------------------------------------------------------------------------
(* What the monitor knows of the samples it has seen                       *)

\* The last k samples are the same.
LastSame(s, k) == \A i \in Len(s) - k + 1 .. Len(s) : s[i] = s[Len(s)]

\* The repetitions counted are no fewer than the run that s ends with.
RunTracked(m, s) ==
    /\ m.last = s[Len(s)]
    /\ \A k \in 1 .. Len(s) : LastSame(s, k) => k <= m.repetitions

\* The window under way after p samples, or the one just completed.
WindowLength(p) == IF p = 0 THEN ADAPTIVE_PROPORTION_WINDOW ELSE p
Window(s, p) == LastOf(s, WindowLength(p))

\* The count is that of the window's first sample in the window.
WindowTracked(m, s, p) ==
    /\ WindowLength(p) <= Len(s)
    /\ m.value = Window(s, p)[1]
    /\ m.count = Occurrences(Window(s, p), m.value)
    /\ m.count < ADAPTIVE_PROPORTION_CUTOFF

\* A monitor that has seen the samples s, at position p, and found no fault.
Tracks(m, s, p) ==
    /\ p \in 0 .. ADAPTIVE_PROPORTION_WINDOW - 1
    /\ m.pos = p /\ (m.open <=> p # 0)
    /\ m.repetitions < REPETITION_COUNT_CUTOFF
    /\ (m.seen <=> s # <<>>)
    /\ p # 0 => s # <<>>
    /\ s # <<>> => RunTracked(m, s) /\ WindowTracked(m, s, p)

NextPosition(p) == IF p + 1 = ADAPTIVE_PROPORTION_WINDOW THEN 0 ELSE p + 1

LEMMA RunStep ==
    ASSUME NEW s \in Seq(Samples), NEW x \in Samples, NEW m \in Monitor,
           (m.seen <=> s # <<>>), s # <<>> => RunTracked(m, s),
           NEW f, f.last = x,
           f.repetitions = IF m.seen /\ x = m.last THEN m.repetitions + 1 ELSE 1
    PROVE  RunTracked(f, Append(s, x))
<1>1. PICK t : t = Append(s, x)
  OBVIOUS
<1>2. PICK n \in Nat : n = Len(s)
  OBVIOUS
<1>3. /\ Len(t) = n + 1 /\ t[n + 1] = x
      /\ \A i \in 1 .. n : t[i] = s[i]
      /\ s = <<>> <=> n = 0
  BY <1>1, <1>2
<1>4. m.repetitions \in Nat
  BY DEF Monitor
<1>5. f.repetitions \in Nat /\ f.repetitions >= 1
  BY <1>4
<1>6. ASSUME NEW k \in 1 .. n + 1, LastSame(t, k)
      PROVE  k <= f.repetitions
  <2>1. \A i \in n + 1 - k + 1 .. n + 1 : t[i] = x
    BY <1>3, <1>6 DEF LastSame
  <2>2. CASE k = 1
    BY <1>5, <2>2
  <2>3. CASE k # 1
    <3>1. n \in n + 1 - k + 1 .. n + 1 /\ n # 0
      BY <1>6, <2>3
    <3>2. s[n] = x /\ s # <<>>
      BY <1>3, <2>1, <3>1
    <3>3. m.seen /\ m.last = x /\ RunTracked(m, s)
      BY <1>2, <3>2 DEF RunTracked
    <3>4. PICK j \in 1 .. n : j = k - 1
      BY <2>3
    <3>5. LastSame(s, j)
      <4>1. ASSUME NEW i \in n - j + 1 .. n PROVE s[i] = x
        <5>1. i \in n + 1 - k + 1 .. n + 1 /\ i \in 1 .. n
          BY <3>4
        <5> QED
          BY <1>3, <2>1, <5>1
      <4> QED
        BY <1>2, <3>2, <4>1 DEF LastSame
    <3>6. j <= m.repetitions
      BY <1>2, <3>3, <3>5 DEF RunTracked
    <3> QED
      BY <1>4, <3>3, <3>4, <3>6
  <2> QED
    BY <2>2, <2>3
<1> QED
  BY <1>1, <1>3, <1>6 DEF RunTracked

LEMMA WindowStep ==
    ASSUME RandomLimits, NEW s \in Seq(Samples), NEW x \in Samples, NEW m \in Monitor,
           NEW p \in 0 .. ADAPTIVE_PROPORTION_WINDOW - 1, (m.open <=> p # 0),
           p # 0 => WindowTracked(m, s, p),
           NEW f,
           ~m.open => f.value = x /\ f.count = 1,
           m.open => /\ f.value = m.value
                     /\ f.count = (IF x = m.value THEN m.count + 1 ELSE m.count)
                     /\ f.count < ADAPTIVE_PROPORTION_CUTOFF
    PROVE  WindowTracked(f, Append(s, x), NextPosition(p))
<1>1. PICK t : t = Append(s, x)
  OBVIOUS
<1>2. t \in Seq(Samples) /\ Len(t) = Len(s) + 1 /\ Len(s) \in Nat /\ t[Len(t)] = x
  BY <1>1
<1>3. WindowLength(NextPosition(p)) = p + 1
  BY DEF WindowLength, NextPosition, RandomLimits
<1>4. PICK w : w = Window(t, NextPosition(p))
  OBVIOUS
<1>5. w = LastOf(t, p + 1)
  BY <1>3, <1>4 DEF Window
<1>6. CASE p = 0
  <2>1. w = LastOf(t, 1)
    BY <1>5, <1>6
  <2>2. /\ w \in Seq(Samples) /\ Len(w) = (IF Len(t) <= 1 THEN Len(t) ELSE 1)
        /\ \A i \in 1 .. Len(w) : w[i] = t[Len(t) - Len(w) + i]
    <3>1. t \in Seq(Samples)
      BY <1>2
    <3>2. PICK q \in Nat : q = 1
      OBVIOUS
    <3>3. /\ LastOf(t, q) \in Seq(Samples)
          /\ Len(LastOf(t, q)) = IF Len(t) <= q THEN Len(t) ELSE q
          /\ \A i \in 1 .. Len(LastOf(t, q)) :
                LastOf(t, q)[i] = t[Len(t) - Len(LastOf(t, q)) + i]
      BY <3>1, LastOfFacts
    <3> QED
      BY <2>1, <3>2, <3>3
  <2>3. Len(w) = 1 /\ DOMAIN w = {1} /\ w[1] = x
    <3>1. Len(w) = 1
      BY <1>2, <2>2
    <3>2. DOMAIN w = {1}
      BY <2>2, <3>1
    <3>3. w[1] = t[Len(t) - Len(w) + 1]
      <4>1. 1 \in 1 .. Len(w)
        BY <3>1
      <4> QED
        BY <2>2, <4>1, Zenon
    <3>4. Len(t) - Len(w) + 1 = Len(t)
      BY <1>2, <3>1
    <3> QED
      BY <1>2, <3>1, <3>2, <3>3, <3>4
  <2>4. Occurrences(w, w[1]) = 1
    BY <2>3, OccurrencesOne
  <2>5. f.value = x /\ f.count = 1 /\ 1 < ADAPTIVE_PROPORTION_CUTOFF
    <3>1. ~m.open
      BY <1>6
    <3>2. f.value = x /\ f.count = 1
      BY <3>1, Zenon
    <3> QED
      BY <3>2 DEF RandomLimits
  <2>6. p + 1 <= Len(t)
    BY <1>2, <1>6
  <2> QED
    BY <1>1, <1>3, <1>4, <2>3, <2>4, <2>5, <2>6 DEF WindowTracked
<1>7. CASE p # 0
  <2>1. /\ p <= Len(s) /\ m.value = LastOf(s, p)[1]
        /\ m.count = Occurrences(LastOf(s, p), m.value)
    BY <1>7 DEF WindowTracked, WindowLength, Window
  <2>2. PICK v : v = LastOf(s, p)
    OBVIOUS
  <2>3. v \in Seq(Samples) /\ Len(v) = p
    <3>1. v \in Seq(Samples) /\ Len(v) = (IF Len(s) <= p THEN Len(s) ELSE p)
      BY <2>2, LastOfFacts
    <3> QED
      BY <1>2, <2>1, <3>1
  <2>4. w = Append(v, x)
    <3>1. p \in Nat
      OBVIOUS
    <3> QED
      BY <1>1, <1>5, <2>1, <2>2, <3>1, LastOfAppend
  <2>5. w[1] = v[1]
    BY <1>7, <2>3, <2>4
  <2>6. Occurrences(w, m.value) = Occurrences(v, m.value) + (IF x = m.value THEN 1 ELSE 0)
    BY <2>3, <2>4, OccurrencesAppend
  <2>7. m.count \in Nat
    BY DEF Monitor
  <2>71. /\ f.value = m.value
         /\ f.count = (IF x = m.value THEN m.count + 1 ELSE m.count)
         /\ f.count < ADAPTIVE_PROPORTION_CUTOFF
    BY <1>7
  <2>8. f.count = Occurrences(w, f.value)
    <3>1. m.count = Occurrences(v, m.value)
      BY <2>1, <2>2
    <3> QED
      BY <2>6, <2>7, <2>71, <3>1
  <2>9. p + 1 <= Len(t)
    BY <1>2, <2>1
  <2>10. f.value = w[1] /\ f.count < ADAPTIVE_PROPORTION_CUTOFF
    BY <1>7, <2>1, <2>2, <2>5
  <2> QED
    BY <1>1, <1>3, <1>4, <2>8, <2>9, <2>10 DEF WindowTracked
<1> QED
  BY <1>6, <1>7

\* A sample that passes both tests is known to the monitor.
LEMMA FeedTracks ==
    ASSUME RandomLimits, NEW s \in Seq(Samples), NEW x \in Samples, NEW m \in Monitor,
           NEW p, Tracks(m, s, p), m.verdict = "ok",
           NEW f, f = Feed(m, x), f.verdict = "ok"
    PROVE  Tracks(f, Append(s, x), NextPosition(p))
<1>1. /\ p \in 0 .. ADAPTIVE_PROPORTION_WINDOW - 1
      /\ m.pos = p /\ (m.open <=> p # 0)
      /\ (m.seen <=> s # <<>>)
      /\ p # 0 => s # <<>>
      /\ s # <<>> => RunTracked(m, s)
      /\ s # <<>> => WindowTracked(m, s, p)
  BY DEF Tracks
<1>2. /\ f.last = x /\ f.seen
      /\ f.repetitions < REPETITION_COUNT_CUTOFF
      /\ f.repetitions = (IF m.seen /\ x = m.last THEN m.repetitions + 1 ELSE 1)
      /\ ~m.open => f.value = x /\ f.count = 1 /\ f.pos = 1 /\ f.open
      /\ m.open =>
           /\ f.value = m.value
           /\ f.count = (IF x = m.value THEN m.count + 1 ELSE m.count)
           /\ f.count < ADAPTIVE_PROPORTION_CUTOFF
           /\ f.pos = (IF m.pos + 1 = ADAPTIVE_PROPORTION_WINDOW THEN 0 ELSE m.pos + 1)
           /\ (f.open <=> m.pos + 1 # ADAPTIVE_PROPORTION_WINDOW)
  BY FeedFacts
<1>3. RunTracked(f, Append(s, x))
  BY <1>1, <1>2, RunStep
<1>4. WindowTracked(f, Append(s, x), NextPosition(p))
  <2>1. p # 0 => WindowTracked(m, s, p)
    BY <1>1
  <2> QED
    BY <1>1, <1>2, <2>1, WindowStep
<1>5. f \in Monitor
  BY FeedFacts
<1>6. f.seen \in BOOLEAN /\ f.open \in BOOLEAN
  BY <1>5 DEF Monitor
<1>7. /\ NextPosition(p) \in 0 .. ADAPTIVE_PROPORTION_WINDOW - 1
      /\ f.pos = NextPosition(p) /\ (f.open <=> NextPosition(p) # 0)
  BY <1>1, <1>2, <1>6 DEF NextPosition, RandomLimits
<1>8. Append(s, x) # <<>> /\ (f.seen <=> Append(s, x) # <<>>)
  BY <1>2, <1>6
<1> QED
  BY <1>2, <1>3, <1>4, <1>7, <1>8 DEF Tracks

\* Only so many samples have to be remembered.
LEMMA TrackedByLast ==
    ASSUME RandomLimits, NEW s \in Seq(Samples), NEW m, NEW p, Tracks(m, s, p),
           NEW n \in Nat, ADAPTIVE_PROPORTION_WINDOW <= n
    PROVE  Tracks(m, LastOf(s, n), p)
<1>1. PICK u : u = LastOf(s, n)
  OBVIOUS
<1>2. /\ u \in Seq(Samples) /\ Len(u) = (IF Len(s) <= n THEN Len(s) ELSE n)
      /\ \A i \in 1 .. Len(u) : u[i] = s[Len(s) - Len(u) + i]
  BY <1>1, LastOfFacts
<1>3. Len(s) \in Nat /\ Len(u) \in Nat /\ n >= 2 /\ Len(u) <= Len(s)
  BY <1>2 DEF RandomLimits
<1>4. s # <<>> <=> u # <<>>
  BY <1>2, <1>3
<1>5. ASSUME s # <<>> PROVE RunTracked(m, u) /\ WindowTracked(m, u, p)
  <2>1. RunTracked(m, s) /\ WindowTracked(m, s, p) /\ p \in 0 .. ADAPTIVE_PROPORTION_WINDOW - 1
    BY <1>5 DEF Tracks
  <2>2. Len(u) >= 1 /\ Len(s) >= 1
    BY <1>2, <1>3, <1>4, <1>5
  <2>3. u[Len(u)] = s[Len(s)]
    <3>1. Len(u) \in 1 .. Len(u) /\ Len(s) - Len(u) + Len(u) = Len(s)
      BY <1>3, <2>2
    <3>2. u[Len(u)] = s[Len(s) - Len(u) + Len(u)]
      BY <1>2, <3>1, Zenon
    <3> QED
      BY <3>1, <3>2
  <2>4. ASSUME NEW k \in 1 .. Len(u), LastSame(u, k) PROVE k <= m.repetitions
    <3>1. ASSUME NEW i \in Len(s) - k + 1 .. Len(s) PROVE s[i] = s[Len(s)]
      <4>1. PICK j \in Int : j = i - (Len(s) - Len(u))
        BY <1>3
      <4>2. j \in 1 .. Len(u) /\ j \in Len(u) - k + 1 .. Len(u) /\ Len(s) - Len(u) + j = i
        BY <1>3, <4>1
      <4>3. u[j] = s[Len(s) - Len(u) + j]
        BY <1>2, <4>2, Zenon
      <4>4. u[j] = u[Len(u)]
        BY <2>4, <4>2, Zenon DEF LastSame
      <4> QED
        BY <2>3, <4>2, <4>3, <4>4
    <3>2. k \in 1 .. Len(s)
      BY <1>3
    <3> QED
      BY <2>1, <3>1, <3>2, Zenon DEF RunTracked, LastSame
  <2>5. WindowLength(p) \in Nat /\ WindowLength(p) <= n
    BY <2>1 DEF WindowLength, RandomLimits
  <2>6. Window(u, p) = Window(s, p)
    <3>1. PICK q \in Nat : q = WindowLength(p)
      BY <2>5
    <3>2. q <= n
      BY <2>5, <3>1
    <3>3. LastOf(LastOf(s, n), q) = LastOf(s, q)
      BY <3>2, LastOfLastOf
    <3> QED
      BY <1>1, <3>1, <3>3 DEF Window
  <2>7. WindowLength(p) <= Len(u)
    BY <1>2, <1>3, <2>1, <2>5 DEF WindowTracked
  <2>8. WindowTracked(m, u, p)
    BY <2>1, <2>6, <2>7, Zenon DEF WindowTracked
  <2>9. RunTracked(m, u)
    BY <2>1, <2>3, <2>4, Zenon DEF RunTracked
  <2> QED
    BY <2>8, <2>9
<1> QED
  BY <1>1, <1>4, <1>5, Zenon DEF Tracks

LEMMA LongestFacts ==
    ASSUME RandomLimits
    PROVE  /\ Longest \in Nat
           /\ REPETITION_COUNT_CUTOFF <= Longest
           /\ ADAPTIVE_PROPORTION_WINDOW <= Longest
<1>1. PICK a, b \in Nat : a = REPETITION_COUNT_CUTOFF /\ b = ADAPTIVE_PROPORTION_WINDOW
  BY DEF RandomLimits
<1>2. \E x \in {a, b} : \A y \in {a, b} : x >= y
  <2>1. a >= b \/ b >= a
    OBVIOUS
  <2> QED
    BY <2>1
<1>3. PICK c : c = Longest
  OBVIOUS
<1>4. c = CHOOSE x \in {a, b} : \A y \in {a, b} : x >= y
  BY <1>1, <1>3, Zenon DEF Longest, Max
<1>5. c \in {a, b} /\ \A y \in {a, b} : c >= y
  BY <1>2, <1>4, Zenon
<1> QED
  BY <1>1, <1>3, <1>5

-----------------------------------------------------------------------------
(* A buffer of samples                                                     *)

\* Induction over the natural numbers, for a set.
LEMMA EveryNat ==
    ASSUME NEW S, 0 \in S, \A n \in Nat : n \in S => n + 1 \in S
    PROVE  \A n \in Nat : n \in S
<1>1. SUFFICES ASSUME Nat \ S # {} PROVE FALSE
  OBVIOUS
<1>2. PICK x \in Nat \ S : \A y \in Nat \ S : <<y, x>> \notin OpToRel(<, Nat)
  BY <1>1, NatLessThanWellFounded, WFMin
<1>3. x # 0 /\ x - 1 \in Nat /\ x - 1 < x /\ (x - 1) + 1 = x
  <2>1. x \in Nat /\ x \notin S
    BY <1>2
  <2>2. x # 0
    BY <2>1
  <2> QED
    BY <2>1, <2>2
<1>4. PICK y : y = x - 1
  OBVIOUS
<1>5. y \in Nat /\ y < x /\ y + 1 = x
  BY <1>3, <1>4
<1>6. y \notin S
  BY <1>2, <1>5
<1>7. <<y, x>> \notin OpToRel(<, Nat)
  BY <1>2, <1>5, <1>6
<1>8. <<y, x>> \in Nat \X Nat /\ <<y, x>>[1] = y /\ <<y, x>>[2] = x
  BY <1>2, <1>5
<1>9. <<y, x>> \notin {ss \in Nat \X Nat : ss[1] < ss[2]}
  BY <1>7, Zenon DEF OpToRel
<1>10. ~(<<y, x>>[1] < <<y, x>>[2])
  BY <1>8, <1>9, Zenon
<1> QED
  BY <1>5, <1>8, <1>10

\* The loop over the first n bytes, as the monitors it goes through.
Loop(f, m, b, n) ==
    f = [i \in 0 .. n |-> IF i = 0 THEN m ELSE Feed(f[i - 1], b[i])]

LEMMA LoopExists ==
    ASSUME NEW m, NEW b
    PROVE  \A n \in Nat : \E f : Loop(f, m, b, n)
<1> DEFINE S == {n \in Nat : \E f : Loop(f, m, b, n)}
<1>1. 0 \in S
  <2>1. PICK f : f = [i \in 0 .. 0 |-> m]
    OBVIOUS
  <2>2. f = [i \in 0 .. 0 |-> IF i = 0 THEN m ELSE Feed(f[i - 1], b[i])]
    BY <2>1
  <2> QED
    BY <2>2 DEF Loop
<1>2. ASSUME NEW n \in Nat, n \in S PROVE n + 1 \in S
  <2>1. PICK f : Loop(f, m, b, n)
    BY <1>2
  <2>2. PICK g : g = [i \in 0 .. n + 1 |-> IF i <= n THEN f[i] ELSE Feed(f[n], b[n + 1])]
    OBVIOUS
  <2>3. PICK h : h = [i \in 0 .. n + 1 |-> IF i = 0 THEN m ELSE Feed(g[i - 1], b[i])]
    OBVIOUS
  <2>4. ASSUME NEW i \in 0 .. n + 1 PROVE g[i] = h[i]
    <3>1. CASE i = 0
      <4>1. f[0] = m
        BY <2>1 DEF Loop
      <4> QED
        BY <2>2, <2>3, <3>1, <4>1
    <3>2. CASE i # 0 /\ i <= n
      <4>1. f[i] = Feed(f[i - 1], b[i])
        BY <2>1, <3>2 DEF Loop
      <4>2. g[i - 1] = f[i - 1] /\ g[i] = f[i]
        BY <2>2, <3>2
      <4> QED
        BY <2>3, <3>2, <4>1, <4>2
    <3>3. CASE i = n + 1
      <4>1. g[n] = f[n] /\ g[i] = Feed(f[n], b[n + 1])
        BY <2>2, <3>3
      <4>2. h[i] = Feed(g[n], b[n + 1])
        BY <2>3, <3>3
      <4> QED
        BY <4>1, <4>2
    <3> QED
      BY <3>1, <3>2, <3>3
  <2>5. g = h
    BY <2>2, <2>3, <2>4
  <2>6. Loop(g, m, b, n + 1)
    BY <2>3, <2>5, Zenon DEF Loop
  <2> QED
    BY <2>6
<1>3. \A n \in Nat : n \in S
  <2> HIDE DEF S
  <2> QED
    BY <1>1, <1>2, EveryNat
<1> QED
  BY <1>3

LEMMA FeedAllLoop ==
    ASSUME NEW m, NEW b, Len(b) \in Nat
    PROVE  \E f : Loop(f, m, b, Len(b)) /\ FeedAll(m, b) = f[Len(b)]
<1>1. \E f : Loop(f, m, b, Len(b))
  BY LoopExists
<1>2. PICK f : f = CHOOSE g : Loop(g, m, b, Len(b))
  OBVIOUS
<1>3. Loop(f, m, b, Len(b))
  BY <1>1, <1>2, Zenon
<1>4. FeedAll(m, b) = f[Len(b)]
  BY <1>2, Zenon DEF FeedAll, Loop
<1> QED
  BY <1>3, <1>4

\* Whatever is fed, the monitor keeps its type, and never changes after a failure.
LEMMA FeedAllType ==
    ASSUME RandomLimits, NEW m \in Monitor, NEW b \in Seq(Samples)
    PROVE  FeedAll(m, b) \in Monitor
<1>0. Len(b) \in Nat
  OBVIOUS
<1>1. PICK f : Loop(f, m, b, Len(b)) /\ FeedAll(m, b) = f[Len(b)]
  BY <1>0, FeedAllLoop
<1>2. f = [i \in 0 .. Len(b) |-> IF i = 0 THEN m ELSE Feed(f[i - 1], b[i])]
  BY <1>1 DEF Loop
<1> DEFINE S == {n \in Nat : n <= Len(b) => f[n] \in Monitor}
<1>3. 0 \in S
  <2>1. f[0] = m
    BY <1>0, <1>2
  <2> QED
    BY <2>1
<1>4. ASSUME NEW n \in Nat, n \in S PROVE n + 1 \in S
  <2>1. SUFFICES ASSUME n + 1 <= Len(b) PROVE f[n + 1] \in Monitor
    OBVIOUS
  <2>2. f[n] \in Monitor
    BY <1>0, <1>4, <2>1
  <2>3. n + 1 \in 0 .. Len(b) /\ n + 1 # 0 /\ (n + 1) - 1 = n
    BY <1>0, <2>1
  <2>4. f[n + 1] = Feed(f[n], b[n + 1])
    BY <1>2, <2>3
  <2>5. b[n + 1] \in Samples
    BY <1>0, <2>1
  <2>6. PICK g, x : g = f[n] /\ x = b[n + 1]
    OBVIOUS
  <2>7. g \in Monitor /\ x \in Samples
    BY <2>2, <2>5, <2>6
  <2>8. Feed(g, x) \in Monitor
    BY <2>7, FeedFacts
  <2> QED
    BY <2>4, <2>6, <2>8
<1>5. \A n \in Nat : n \in S
  <2> HIDE DEF S
  <2> QED
    BY <1>3, <1>4, EveryNat
<1>6. f[Len(b)] \in Monitor
  BY <1>0, <1>5
<1> QED
  BY <1>1, <1>6

LEMMA Between ==
    ASSUME NEW w \in Nat, NEW d \in Int, -w < w * d, w * d < w
    PROVE  d = 0
<1>1. w > 0
  OBVIOUS
<1>2. CASE d >= 1
  <2>1. w * d >= w
    BY <1>1, <1>2
  <2> QED
    BY <2>1
<1>3. CASE d <= -1
  <2>1. w * d <= -w
    BY <1>1, <1>3
  <2> QED
    BY <2>1
<1> QED
  BY <1>2, <1>3

\* Counting modulo w.
LEMMA ModuloStep ==
    ASSUME NEW a \in Nat, NEW w \in Nat, w > 0
    PROVE  /\ a % w \in 0 .. (w - 1)
           /\ (a + 1) % w = IF (a % w) + 1 = w THEN 0 ELSE (a % w) + 1
<1>1. a % w \in 0 .. (w - 1) /\ (a + 1) % w \in 0 .. (w - 1)
  OBVIOUS
<1>2. a = w * (a \div w) + (a % w) /\ a \div w \in Int
  OBVIOUS
<1>3. a + 1 = w * ((a + 1) \div w) + ((a + 1) % w) /\ (a + 1) \div w \in Int
  <2>1. a + 1 \in Nat
    OBVIOUS
  <2> QED
    BY <2>1
<1>4. PICK q, r, q2, r2 : q = a \div w /\ r = a % w /\ q2 = (a + 1) \div w /\ r2 = (a + 1) % w
  OBVIOUS
<1>5. /\ q \in Int /\ q2 \in Int /\ r \in 0 .. (w - 1) /\ r2 \in 0 .. (w - 1)
      /\ a = w * q + r /\ a + 1 = w * q2 + r2
  BY <1>1, <1>2, <1>3, <1>4
<1>6. w * (q2 - q) = r + 1 - r2
  BY <1>5
<1>7. CASE r + 1 < w
  <2>1. q2 - q = 0
    BY <1>5, <1>6, <1>7, Between
  <2> QED
    BY <1>1, <1>4, <1>5, <1>6, <1>7, <2>1
<1>8. CASE r + 1 = w
  <2>1. w * (q2 - q - 1) = 0 - r2
    BY <1>5, <1>6, <1>8
  <2>2. q2 - q - 1 = 0
    BY <1>5, <2>1, Between
  <2> QED
    BY <1>1, <1>4, <1>5, <1>6, <1>8, <2>1, <2>2
<1> QED
  BY <1>4, <1>5, <1>7, <1>8

LEMMA ModuloSmall ==
    ASSUME NEW a \in Nat, NEW w \in Nat, a < w
    PROVE  a % w = a
OBVIOUS

\* A buffer that passes is known to the monitor, and it never runs out of its window.
LEMMA FeedAllTracks ==
    ASSUME RandomLimits, NEW s \in Seq(Samples), NEW b \in Seq(Samples),
           NEW m \in Monitor, NEW p, Tracks(m, s, p), m.verdict = "ok",
           NEW r, r = FeedAll(m, b)
    PROVE  /\ r.verdict \in {"ok", "failed"}
           /\ r.verdict = "ok" =>
                Tracks(r, s \o b, (p + Len(b)) % ADAPTIVE_PROPORTION_WINDOW)
<1> DEFINE W == ADAPTIVE_PROPORTION_WINDOW
<1>0. /\ Len(b) \in Nat /\ W \in Nat /\ W > 0
      /\ p \in Nat /\ p < W
  BY DEF Tracks, RandomLimits
<1>1. PICK f : Loop(f, m, b, Len(b)) /\ FeedAll(m, b) = f[Len(b)]
  BY <1>0, FeedAllLoop
<1>2. f = [i \in 0 .. Len(b) |-> IF i = 0 THEN m ELSE Feed(f[i - 1], b[i])]
  BY <1>1 DEF Loop
<1> DEFINE Known(g, n) == /\ g \in Monitor /\ g.verdict # "panic"
                          /\ g.verdict = "ok" => Tracks(g, s \o SubSeq(b, 1, n), (p + n) % W)
           S == {n \in Nat : n <= Len(b) => Known(f[n], n)}
<1>3. 0 \in S
  <2>1. f[0] = m
    BY <1>0, <1>2
  <2>2. s \o SubSeq(b, 1, 0) = s
    <3>1. SubSeq(b, 1, 0) = <<>>
      BY SubSeqEmpty
    <3>2. s \o <<>> = s
      BY ConcatEmptySeq
    <3> QED
      BY <3>1, <3>2
  <2>3. (p + 0) % W = p
    BY <1>0, ModuloSmall
  <2>4. Tracks(m, s \o SubSeq(b, 1, 0), (p + 0) % W)
    BY <2>2, <2>3
  <2> QED
    BY <2>1, <2>4
<1>4. ASSUME NEW n \in Nat, n \in S PROVE n + 1 \in S
  <2>1. SUFFICES ASSUME n + 1 <= Len(b) PROVE Known(f[n + 1], n + 1)
    OBVIOUS
  <2>2. Known(f[n], n)
    <3> HIDE DEF Known
    <3> QED
      BY <1>0, <1>4, <2>1
  <2>3. n + 1 \in 0 .. Len(b) /\ n + 1 # 0 /\ (n + 1) - 1 = n
    BY <1>0, <2>1
  <2>4. f[n + 1] = Feed(f[n], b[n + 1])
    BY <1>2, <2>3
  <2>5. b[n + 1] \in Samples
    BY <1>0, <2>1
  <2>6. PICK g, x, t, h, q : /\ g = f[n] /\ x = b[n + 1] /\ t = s \o SubSeq(b, 1, n)
                             /\ h = f[n + 1] /\ q = (p + n) % W
    OBVIOUS
  <2>7. /\ g \in Monitor /\ x \in Samples /\ g.verdict # "panic"
        /\ g.verdict = "ok" => Tracks(g, t, q)
        /\ h = Feed(g, x)
    BY <2>2, <2>4, <2>5, <2>6
  <2>8. t \in Seq(Samples) /\ Append(t, x) = s \o SubSeq(b, 1, n + 1)
    <3>1. SubSeq(b, 1, n) \in Seq(Samples) /\ SubSeq(b, 1, n + 1) = Append(SubSeq(b, 1, n), x)
      BY <1>0, <2>1, <2>6
    <3>2. PICK v : v = SubSeq(b, 1, n)
      OBVIOUS
    <3>3. v \in Seq(Samples)
      BY <3>1, <3>2
    <3>4. s \o Append(v, x) = Append(s \o v, x)
      BY <2>7, <3>3
    <3>5. t = s \o v /\ SubSeq(b, 1, n + 1) = Append(v, x)
      BY <2>6, <3>1, <3>2, Zenon
    <3>6. s \o v \in Seq(Samples)
      BY <3>3
    <3> QED
      BY <3>4, <3>5, <3>6, Zenon
  <2>9. NextPosition(q) = (p + (n + 1)) % W
    <3>1. PICK a \in Nat : a = p + n
      BY <1>0
    <3>2. (a + 1) % W = IF (a % W) + 1 = W THEN 0 ELSE (a % W) + 1
      BY <1>0, ModuloStep
    <3>3. a + 1 = p + (n + 1)
      BY <1>0, <3>1
    <3> QED
      BY <2>6, <3>1, <3>2, <3>3 DEF NextPosition
  <2>10. h \in Monitor /\ g.verdict # "ok" => h = g
    BY <2>7, FeedFacts
  <2>11. g.verdict = "ok" /\ h.verdict = "ok" => Tracks(h, Append(t, x), NextPosition(q))
    BY <2>7, <2>8, FeedTracks
  <2>12. g.verdict = "ok" => h.verdict # "panic"
    <3>1. SUFFICES ASSUME g.verdict = "ok" PROVE h.verdict # "panic"
      OBVIOUS
    <3>2. g.pos < W
      BY <1>0, <2>7, <3>1 DEF Tracks
    <3> QED
      BY <2>7, <3>1, <3>2, FeedFacts
  <2>13. h \in Monitor
    BY <2>7, FeedFacts
  <2>14. h.verdict = "ok" => Tracks(h, s \o SubSeq(b, 1, n + 1), (p + (n + 1)) % W)
    BY <2>8, <2>9, <2>10, <2>11, <2>13
  <2>15. Known(h, n + 1)
    BY <2>7, <2>10, <2>12, <2>13, <2>14
  <2> QED
    BY <2>6, <2>15
<1>5. \A n \in Nat : n \in S
  <2> HIDE DEF S
  <2> QED
    BY <1>3, <1>4, EveryNat
<1>6. Known(f[Len(b)], Len(b))
  <2> HIDE DEF Known
  <2> QED
    BY <1>0, <1>5
<1>7. SubSeq(b, 1, Len(b)) = b
  OBVIOUS
<1>8. Known(r, Len(b))
  BY <1>1, <1>6
<1> QED
  BY <1>7, <1>8 DEF Monitor

\* What Tracks says does not depend on the other fields of the monitor.
LEMMA TracksSame ==
    ASSUME NEW m, NEW r, NEW s, NEW p, Tracks(m, s, p),
           r.last = m.last, r.repetitions = m.repetitions, r.seen = m.seen, r.value = m.value,
           r.count = m.count, r.pos = m.pos, r.open = m.open
    PROVE  Tracks(r, s, p)
BY Zenon DEF Tracks, RunTracked, WindowTracked

LEMMA NewMonitorFacts ==
    ASSUME RandomLimits
    PROVE  /\ NewMonitor \in Monitor /\ NewMonitor.verdict = "ok"
           /\ Tracks(NewMonitor, <<>>, 0)
<1>1. PICK x : x = CHOOSE y \in Samples : TRUE
  OBVIOUS
<1>2. x \in Samples
  <2>1. \E y \in Samples : TRUE
    BY DEF RandomLimits
  <2> QED
    BY <1>1, <2>1, Zenon
<1>3. PICK no \in BOOLEAN : no = FALSE
  OBVIOUS
<1>4. PICK z \in Nat : z = 0 /\ z \in 0 .. ADAPTIVE_PROPORTION_WINDOW
  BY DEF RandomLimits
<1>5. NewMonitor = [last |-> x, repetitions |-> z, seen |-> no, value |-> x, count |-> z,
                           pos |-> z, open |-> no, passed |-> no, verdict |-> "ok"]
  BY <1>1, <1>3, <1>4, Zenon DEF NewMonitor
<1>6. NewMonitor \in Monitor
  BY <1>2, <1>4, <1>5 DEF Monitor
<1>7. /\ NewMonitor.pos = z /\ NewMonitor.open = no /\ NewMonitor.seen = no
      /\ NewMonitor.repetitions = z /\ NewMonitor.verdict = "ok"
  BY <1>5, Zenon
<1>8. Tracks(NewMonitor, <<>>, 0)
  BY <1>3, <1>4, <1>7 DEF Tracks, RandomLimits
<1> QED
  BY <1>6, <1>7, <1>8

\* startup_test: a new monitor, which passes or not.
LEMMA StartupFacts ==
    ASSUME RandomLimits, NEW b \in Seq(Samples), NEW r, r = startup_test(b)
    PROVE  /\ r \in Monitor /\ r.verdict \in {"ok", "failed"}
           /\ r.verdict = "ok" =>
                Tracks(r, <<>> \o b, (0 + Len(b)) % ADAPTIVE_PROPORTION_WINDOW)
<1>1. PICK m : m = FeedAll(NewMonitor, b)
  OBVIOUS
<1>2. PICK new : new = NewMonitor
  OBVIOUS
<1>3. new \in Monitor /\ new.verdict = "ok" /\ Tracks(new, <<>>, 0) /\ <<>> \in Seq(Samples)
  BY <1>2, NewMonitorFacts
<1>4. m = FeedAll(new, b)
  BY <1>1, <1>2
<1>5. m \in Monitor
  BY <1>3, <1>4, FeedAllType
<1>6. /\ m.verdict \in {"ok", "failed"}
      /\ m.verdict = "ok" => Tracks(m, <<>> \o b, (0 + Len(b)) % ADAPTIVE_PROPORTION_WINDOW)
  BY <1>3, <1>4, FeedAllTracks
<1>7. PICK ok \in BOOLEAN : ok = (m.verdict = "ok")
  OBVIOUS
<1>8. r = [m EXCEPT !.passed = ok]
  BY <1>1, <1>7, Zenon DEF startup_test
<1>9. /\ r \in Monitor /\ r.verdict = m.verdict
      /\ r.last = m.last /\ r.repetitions = m.repetitions /\ r.seen = m.seen /\ r.value = m.value
      /\ r.count = m.count /\ r.pos = m.pos /\ r.open = m.open
  BY <1>5, <1>8 DEF Monitor
<1> QED
  BY <1>6, <1>9, TracksSame

\* feed_bytes keeps the monitor's type, and knows what passed its tests.
LEMMA FeedBytesFacts ==
    ASSUME RandomLimits, NEW b \in Seq(Samples), NEW m \in Monitor,
           NEW r, r = feed_bytes(m, b)
    PROVE  /\ r \in Monitor
           /\ \A s \in Seq(Samples), p \in Nat : Tracks(m, s, p) =>
                /\ r.verdict \in {"ok", "failed"}
                /\ r.verdict = "ok" =>
                     Tracks(r, s \o b, (p + Len(b)) % ADAPTIVE_PROPORTION_WINDOW)
<1>1. CASE ~m.passed
  <2>1. r = [m EXCEPT !.verdict = "failed"]
    BY <1>1 DEF feed_bytes
  <2>2. r \in Monitor /\ r.verdict = "failed"
    BY <2>1 DEF Monitor
  <2> QED
    BY <2>2
<1>2. CASE m.passed
  <2>1. PICK n : n = [m EXCEPT !.verdict = "ok"]
    OBVIOUS
  <2>2. /\ n \in Monitor /\ n.verdict = "ok"
        /\ n.last = m.last /\ n.repetitions = m.repetitions /\ n.seen = m.seen /\ n.value = m.value
        /\ n.count = m.count /\ n.pos = m.pos /\ n.open = m.open
    BY <2>1 DEF Monitor
  <2>3. r = FeedAll(n, b)
    BY <1>2, <2>1 DEF feed_bytes
  <2>4. r \in Monitor
    BY <2>2, <2>3, FeedAllType
  <2>5. ASSUME NEW s \in Seq(Samples), NEW p \in Nat, Tracks(m, s, p)
        PROVE  /\ r.verdict \in {"ok", "failed"}
               /\ r.verdict = "ok" =>
                    Tracks(r, s \o b, (p + Len(b)) % ADAPTIVE_PROPORTION_WINDOW)
    <3>1. Tracks(n, s, p)
      BY <2>2, <2>5, TracksSame
    <3> QED
      BY <2>2, <2>3, <3>1, FeedAllTracks
  <2> QED
    BY <2>4, <2>5
<1> QED
  BY <1>1, <1>2

-----------------------------------------------------------------------------
(* The inductive invariant                                                 *)

RandomType ==
    /\ monitor \in Monitor
    /\ started \in BOOLEAN /\ error \in BOOLEAN /\ halted \in BOOLEAN
    /\ core \in {"none", "post", "tested", "building", "ready"}
    /\ drbg \in Drbg /\ drbgLock \in Threads \cup {NoThread}
    /\ draws \in [Threads -> Draw]
    /\ stream \in Seq(Samples) /\ position \in Nat /\ given \in Seq(Blocks)

\* Until a test fails, the monitor knows the samples.
MonitorInv ==
    /\ error => started
    /\ ~error => Tracks(monitor, stream, position) /\ (started <=> stream # <<>>)

\* HsmCore's DRBG compares with the block it gave out last.
OutputInv ==
    /\ Len(given) <= 2 /\ (Len(given) = 2 => given[1] # given[2])
    /\ given # <<>> => core = "ready" /\ drbg.last = given[Len(given)]

\* Where the draw c of thread t stands: the flag was clear when its bytes were
\* read, the start of the library waits for it, it holds the DRBG it uses, and
\* that one has just been reseeded when it makes blocks.
DrawOK(t, c, err, run, stage, held, d) ==
    /\ c.pc \in {"lazy", "recheck", "observe", "mix"} => ~c.late
    /\ c.pc = "check" /\ c.late => err
    /\ c.pc \in {"recheck", "observe"} => run
    /\ c.op = "post" => stage = "post"
    /\ c.op = "core" => stage = "building"
    /\ c.op = "shared" => stage = "ready"
    /\ c.op = "shared" /\ c.pc # "lock" => held = t
    /\ c.pc = "blocks" => (IF c.op = "shared" THEN d.counter ELSE c.drbg.counter) = 1

DrawInv(t) == DrawOK(t, draws[t], error, started, core, drbgLock, drbg)

Starts(c) == c.op \in {"post", "core"}

\* One thread at most tests or builds the core.
OneStarts == \A t, u \in Threads : Starts(draws[t]) /\ Starts(draws[u]) => t = u

RandomInv ==
    /\ RandomType /\ MonitorInv /\ OutputInv /\ OneStarts
    /\ \A t \in Threads : DrawInv(t)

LEMMA IdleFacts ==
    ASSUME RandomLimits
    PROVE  /\ NewDrbg \in Drbg /\ NewDrbg.counter = 1
           /\ NoDraw \in Draw
           /\ NoDraw.pc = "idle" /\ NoDraw.op = "bytes" /\ NoDraw.stage = "seed"
           /\ NoDraw.generates = 0 /\ NoDraw.late = FALSE
           /\ NoDraw.drbg = NewDrbg
<1>1. NewDrbg \in Drbg /\ NewDrbg.counter = 1
  BY DEF NewDrbg, Drbg
<1>2. PICK d : d = NewDrbg
  OBVIOUS
<1>21. PICK no \in BOOLEAN : no = FALSE
  OBVIOUS
<1>3. NoDraw = [pc |-> "idle", op |-> "bytes", stage |-> "seed", generates |-> 0,
                     late |-> no, drbg |-> d]
  BY <1>2, <1>21 DEF NoDraw
<1>4. d \in Drbg
  BY <1>1, <1>2
<1>5. NoDraw \in Draw
  BY <1>3, <1>4 DEF Draw
<1> QED
  BY <1>1, <1>2, <1>21, <1>3, <1>5

LEMMA RandomStarts ==
    ASSUME RandomLimits, RandomInit
    PROVE  RandomInv
<1>1. PICK idle, new, d : idle = NoDraw /\ new = NewMonitor /\ d = NewDrbg
  OBVIOUS
<1>2. /\ idle \in Draw /\ idle.pc = "idle" /\ idle.op = "bytes" /\ d \in Drbg
  BY <1>1, IdleFacts
<1>3. new \in Monitor /\ Tracks(new, <<>>, 0)
  BY <1>1, NewMonitorFacts
<1>4. /\ monitor = new /\ started = FALSE /\ error = FALSE /\ halted = FALSE
      /\ core = "none" /\ drbg = d /\ drbgLock = NoThread
      /\ draws = [t \in Threads |-> idle]
      /\ stream = <<>> /\ position = 0 /\ given = <<>>
  BY <1>1, Zenon DEF RandomInit
<1>5. RandomType
  <2>1. draws \in [Threads -> Draw]
    BY <1>2, <1>4
  <2>2. started \in BOOLEAN /\ error \in BOOLEAN /\ halted \in BOOLEAN
    BY <1>4, Zenon
  <2>3. stream \in Seq(Samples) /\ given \in Seq(Blocks) /\ position \in Nat
    BY <1>4
  <2> QED
    BY <1>2, <1>3, <1>4, <2>1, <2>2, <2>3 DEF RandomType
<1>6. MonitorInv
  BY <1>3, <1>4 DEF MonitorInv
<1>7. OutputInv
  BY <1>4 DEF OutputInv
<1>8. \A t \in Threads : draws[t] = idle
  BY <1>4
<1>9. OneStarts
  BY <1>2, <1>8 DEF OneStarts, Starts
<1>10. \A t \in Threads : DrawInv(t)
  BY <1>2, <1>8 DEF DrawInv, DrawOK
<1> QED
  BY <1>5, <1>6, <1>7, <1>9, <1>10 DEF RandomInv

\* What a step of t does to the others.
Spares(t) ==
    /\ error => error'
    /\ started => started'
    /\ core' # core => core \in {"none", "tested"} \/ (Starts(draws[t]) /\ core # "ready")
    /\ drbgLock' # drbgLock => drbgLock \in {NoThread, t}
    /\ drbg'.counter # drbg.counter => drbg'.counter = 1 \/ drbgLock = t

\* A step of t, whose draw becomes c.
Draws(t, c) ==
    /\ c \in Draw /\ Become(t, c)
    /\ Starts(c) => Starts(draws[t]) \/ core \in {"none", "tested"}
    /\ DrawOK(t, c, error', started', core', drbgLock', drbg')

LEMMA BecomeFacts ==
    ASSUME RandomType, NEW t \in Threads, NEW c \in Draw, Become(t, c)
    PROVE  /\ draws' \in [Threads -> Draw] /\ draws'[t] = c
           /\ \A u \in Threads : u # t => draws'[u] = draws[u]
BY DEF RandomType, Become

LEMMA DrawsStep ==
    ASSUME RandomInv, NEW t \in Threads, NEW c, Draws(t, c), Spares(t)
    PROVE  OneStarts' /\ \A u \in Threads : DrawInv(u)'
<1>1. /\ draws'[t] = c
      /\ \A u \in Threads : u # t => draws'[u] = draws[u]
  BY BecomeFacts DEF RandomInv, Draws
<1>2. RandomType /\ OneStarts /\ \A u \in Threads : DrawInv(u)
  BY DEF RandomInv
<1>3. ASSUME NEW u \in Threads, u # t, Starts(draws[u])
      PROVE  core \in {"post", "building"} /\ ~Starts(draws[t]) /\ ~Starts(c)
  <2>1. DrawOK(u, draws[u], error, started, core, drbgLock, drbg)
    BY <1>2 DEF DrawInv
  <2>2. core \in {"post", "building"}
    BY <1>3, <2>1 DEF DrawOK, Starts
  <2>3. ~Starts(draws[t])
    BY <1>2, <1>3 DEF OneStarts
  <2> QED
    BY <2>2, <2>3 DEF Draws
<1>4. OneStarts'
  <2>1. ASSUME NEW u \in Threads, NEW v \in Threads, Starts(draws'[u]), Starts(draws'[v])
        PROVE  u = v
    <3>1. CASE u # t /\ v # t
      BY <1>1, <1>2, <2>1, <3>1 DEF OneStarts
    <3>2. CASE u = t /\ v # t
      BY <1>1, <1>3, <2>1, <3>2
    <3>3. CASE u # t /\ v = t
      BY <1>1, <1>3, <2>1, <3>3
    <3> QED
      BY <3>1, <3>2, <3>3
  <2> QED
    BY <2>1 DEF OneStarts, Starts
<1>5. ASSUME NEW u \in Threads PROVE DrawInv(u)'
  <2>1. SUFFICES DrawOK(u, draws'[u], error', started', core', drbgLock', drbg')
    BY DEF DrawInv
  <2>2. CASE u = t
    BY <1>1, <2>2 DEF Draws
  <2>3. CASE u # t
    <3>1. PICK d : d = draws[u]
      OBVIOUS
    <3>2. draws'[u] = d
      BY <1>1, <2>3, <3>1
    <3>3. DrawOK(u, d, error, started, core, drbgLock, drbg)
      BY <1>2, <3>1 DEF DrawInv
    <3>4. Starts(d) => core' = core
      BY <1>2, <1>3, <2>3, <3>1 DEF Spares
    <3>5. d.op = "shared" => core' = core
      BY <3>3 DEF DrawOK, Spares
    <3>6. d.op = "shared" /\ d.pc # "lock" =>
             drbgLock' = drbgLock /\ (drbg'.counter = drbg.counter \/ drbg'.counter = 1)
      BY <2>3, <3>3, ThreadAssumption DEF DrawOK, Spares
    <3>7. /\ d.pc \in {"lazy", "recheck", "observe", "mix"} => ~d.late
          /\ d.pc = "check" /\ d.late => error'
          /\ d.pc \in {"recheck", "observe"} => started'
      BY <3>3 DEF DrawOK, Spares
    <3>8. /\ d.op = "post" => core' = "post"
          /\ d.op = "core" => core' = "building"
          /\ d.op = "shared" => core' = "ready"
          /\ d.op = "shared" /\ d.pc # "lock" => drbgLock' = u
      BY <3>3, <3>4, <3>5, <3>6 DEF DrawOK, Starts
    <3>9. d.pc = "blocks" => (IF d.op = "shared" THEN drbg'.counter ELSE d.drbg.counter) = 1
      BY <3>3, <3>6 DEF DrawOK
    <3> QED
      BY <3>2, <3>7, <3>8, <3>9 DEF DrawOK
  <2> QED
    BY <2>2, <2>3
<1> QED
  BY <1>4, <1>5

\* What a step has to establish.
Keeps ==
    /\ monitor' \in Monitor
    /\ started' \in BOOLEAN /\ error' \in BOOLEAN
    /\ stream' \in Seq(Samples) /\ position' \in Nat
    /\ MonitorInv'

LEMMA StepKeeps ==
    ASSUME RandomInv, NEW t \in Threads, NEW c, Draws(t, c), Spares(t), Keeps, OutputInv',
           halted' \in BOOLEAN, core' \in {"none", "post", "tested", "building", "ready"},
           drbg' \in Drbg, drbgLock' \in Threads \cup {NoThread}, given' \in Seq(Blocks)
    PROVE  RandomInv'
<1>1. OneStarts' /\ \A u \in Threads : DrawInv(u)'
  BY DrawsStep
<1>2. draws' \in [Threads -> Draw]
  BY BecomeFacts DEF RandomInv, Draws
<1>3. RandomType'
  BY <1>2 DEF RandomType, Keeps
<1> QED
  BY <1>1, <1>3 DEF RandomInv, Keeps

LEMMA UnwatchedKeeps ==
    ASSUME RandomInv, UNCHANGED watch
    PROVE  /\ Keeps
           /\ monitor' = monitor /\ started' = started /\ error' = error
           /\ stream' = stream /\ position' = position
<1>1. /\ monitor' = monitor /\ started' = started /\ error' = error
      /\ stream' = stream /\ position' = position
  BY DEF watch
<1>2. MonitorInv'
  BY <1>1 DEF MonitorInv, RandomInv
<1> QED
  BY <1>1, <1>2 DEF Keeps, RandomInv, RandomType

\* A step that changes nothing but the draw.
LEMMA QuietStep ==
    ASSUME RandomInv, NEW t \in Threads, NEW c \in Draw, Become(t, c),
           UNCHANGED <<watch, halted, core, drbg, drbgLock, given>>,
           Starts(c) => Starts(draws[t]),
           DrawOK(t, c, error, started, core, drbgLock, drbg)
    PROVE  RandomInv'
<1>1. UNCHANGED watch
  OBVIOUS
<1>2. /\ Keeps
      /\ monitor' = monitor /\ started' = started /\ error' = error
      /\ stream' = stream /\ position' = position
  BY <1>1, UnwatchedKeeps
<1>3. /\ halted' = halted /\ core' = core /\ drbg' = drbg /\ drbgLock' = drbgLock
      /\ given' = given
  OBVIOUS
<1>4. OutputInv'
  BY <1>3 DEF OutputInv, RandomInv
<1>5. Spares(t)
  BY <1>2, <1>3 DEF Spares
<1>6. Draws(t, c)
  BY <1>2, <1>3 DEF Draws
<1>7. RandomType
  BY DEF RandomInv
<1>8. /\ halted' \in BOOLEAN /\ core' \in {"none", "post", "tested", "building", "ready"}
      /\ drbg' \in Drbg /\ drbgLock' \in Threads \cup {NoThread} /\ given' \in Seq(Blocks)
  BY <1>3, <1>7 DEF RandomType
<1> QED
  BY <1>2, <1>4, <1>5, <1>6, <1>8, StepKeeps

LEMMA DrawFacts ==
    ASSUME RandomInv, NEW t \in Threads
    PROVE  /\ draws[t] \in Draw
           /\ DrawOK(t, draws[t], error, started, core, drbgLock, drbg)
           /\ error \in BOOLEAN
BY DEF RandomInv, RandomType, DrawInv

LEMMA FillStep ==
    ASSUME RandomInv, NEW t \in Threads, Fill(t)
    PROVE  RandomInv'
<1>1. PICK d, e : d = draws[t] /\ e = error
  OBVIOUS
<1>2. /\ d \in Draw /\ d.pc = "fill" /\ e \in BOOLEAN
      /\ DrawOK(t, d, e, started, core, drbgLock, drbg)
  BY <1>1, DrawFacts DEF Fill, DrawAt
<1>3. PICK c : c = [d EXCEPT !.pc = "check", !.late = e]
  OBVIOUS
<1>4. Become(t, c) /\ UNCHANGED <<watch, halted, core, drbg, drbgLock, given>>
  BY <1>1, <1>3 DEF Fill
<1>5. c \in Draw /\ c.pc = "check" /\ c.late = e /\ c.op = d.op /\ c.drbg = d.drbg
  BY <1>2, <1>3 DEF Draw
<1>6. DrawOK(t, c, e, started, core, drbgLock, drbg)
  BY <1>2, <1>5 DEF DrawOK
<1>7. Starts(c) => Starts(draws[t])
  BY <1>1, <1>5 DEF Starts
<1> QED
  BY <1>1, <1>4, <1>5, <1>6, <1>7, QuietStep

\* Check and Recheck: the flag is read.
LEMMA FlagStep ==
    ASSUME RandomInv, NEW t \in Threads, NEW q \in {"lazy", "observe"},
           draws[t].pc = IF q = "lazy" THEN "check" ELSE "recheck",
           FlagStops(t, q),
           UNCHANGED <<watch, halted, core, drbg, drbgLock, given>>
    PROVE  RandomInv'
<1>1. PICK d : d = draws[t]
  OBVIOUS
<1>2. /\ d \in Draw /\ d.pc = (IF q = "lazy" THEN "check" ELSE "recheck")
      /\ DrawOK(t, d, error, started, core, drbgLock, drbg)
  BY <1>1, DrawFacts
<1>3. PICK g : g = IF error THEN "abort" ELSE q
  OBVIOUS
<1>4. PICK c : c = [d EXCEPT !.pc = g]
  OBVIOUS
<1>5. Become(t, c)
  BY <1>1, <1>3, <1>4 DEF FlagStops, GotoDraw
<1>51. g \in {"abort", "lazy", "observe"} /\ (g # "abort" => g = q /\ ~error)
  BY <1>3
<1>6. c \in Draw /\ c.pc = g /\ c.late = d.late /\ c.op = d.op /\ c.drbg = d.drbg
  BY <1>2, <1>4, <1>51 DEF Draw
<1>7. DrawOK(t, c, error, started, core, drbgLock, drbg)
  BY <1>2, <1>51, <1>6 DEF DrawOK
<1>8. Starts(c) => Starts(draws[t])
  BY <1>1, <1>6 DEF Starts
<1> QED
  BY <1>5, <1>6, <1>7, <1>8, QuietStep

LEMMA CheckStep ==
    ASSUME RandomInv, NEW t \in Threads, Check(t)
    PROVE  RandomInv'
<1>1. draws[t].pc = "check" /\ FlagStops(t, "lazy")
  BY DEF Check, DrawAt
<1>2. UNCHANGED <<watch, halted, core, drbg, drbgLock, given>>
  BY DEF Check
<1>3. PICK q \in {"lazy", "observe"} : q = "lazy"
  OBVIOUS
<1>4. draws[t].pc = (IF q = "lazy" THEN "check" ELSE "recheck") /\ FlagStops(t, q)
  BY <1>1, <1>3
<1> QED
  BY <1>2, <1>4, FlagStep

LEMMA RecheckStep ==
    ASSUME RandomInv, NEW t \in Threads, Recheck(t)
    PROVE  RandomInv'
<1>1. draws[t].pc = "recheck" /\ FlagStops(t, "observe")
  BY DEF Recheck, DrawAt
<1>2. UNCHANGED <<watch, halted, core, drbg, drbgLock, given>>
  BY DEF Recheck
<1>3. PICK q \in {"lazy", "observe"} : q = "observe"
  OBVIOUS
<1>4. draws[t].pc = (IF q = "lazy" THEN "check" ELSE "recheck") /\ FlagStops(t, q)
  BY <1>1, <1>3
<1> QED
  BY <1>2, <1>4, FlagStep

LEMMA AbortStep ==
    ASSUME RandomInv, NEW t \in Threads, Abort(t)
    PROVE  RandomInv'
<1>1. UNCHANGED watch
  BY DEF Abort
<1>2. /\ Keeps
      /\ monitor' = monitor /\ started' = started /\ error' = error
      /\ stream' = stream /\ position' = position
  BY <1>1, UnwatchedKeeps
<1>3. /\ halted' = TRUE /\ core' = core /\ drbg' = drbg /\ drbgLock' = drbgLock
      /\ draws' = draws /\ given' = given
  BY DEF Abort
<1>4. RandomType' /\ OutputInv' /\ OneStarts'
  BY <1>2, <1>3 DEF RandomInv, RandomType, OutputInv, OneStarts, Keeps, Starts
<1>5. \A u \in Threads : DrawInv(u)'
  BY <1>2, <1>3 DEF RandomInv, DrawInv, DrawOK
<1> QED
  BY <1>2, <1>4, <1>5 DEF RandomInv, Keeps

\* A draw that begins.
Begun(o, n) == [NoDraw EXCEPT !.pc = "fill", !.op = o, !.generates = n]

LEMMA BeginFacts ==
    ASSUME RandomLimits, NEW n \in Nat, NEW o \in {"post", "core", "bytes", "rng"}
    PROVE  Begun(o, n) \in Draw /\ Begun(o, n).pc = "fill" /\ Begun(o, n).op = o
<1>1. PICK i : i = NoDraw
  OBVIOUS
<1>2. i \in Draw /\ Begun(o, n) = [i EXCEPT !.pc = "fill", !.op = o, !.generates = n]
  BY <1>1, IdleFacts DEF Begun
<1> QED
  BY <1>2 DEF Draw

\* Key generation and salts, once the core is there.
LEMMA DrawBegins ==
    ASSUME RandomLimits, RandomInv, NEW t \in Threads, NEW n \in Nat, NEW o \in {"bytes", "rng"},
           BeginDraw(t, o, n), UNCHANGED <<watch, halted, core, drbg, drbgLock, given>>
    PROVE  RandomInv'
<1>1. PICK c : c = Begun(o, n)
  OBVIOUS
<1>2. c \in Draw /\ c.pc = "fill" /\ c.op = o
  <2>1. o \in {"post", "core", "bytes", "rng"}
    OBVIOUS
  <2> QED
    BY <1>1, <2>1, BeginFacts
<1>3. Become(t, c)
  BY <1>1 DEF BeginDraw, Begun
<1>4. DrawOK(t, c, error, started, core, drbgLock, drbg)
  BY <1>2 DEF DrawOK
<1>5. Starts(c) => Starts(draws[t])
  BY <1>2 DEF Starts
<1> QED
  BY <1>2, <1>3, <1>4, <1>5, QuietStep

LEMMA generate_random_bytesStep ==
    ASSUME RandomLimits, RandomInv, NEW t \in Threads, generate_random_bytes(t)
    PROVE  RandomInv'
<1>1. PICK n \in Nat, o \in {"bytes", "rng"} : n = 1 /\ o = "bytes"
  OBVIOUS
<1>2. BeginDraw(t, o, n) /\ UNCHANGED <<watch, halted, core, drbg, drbgLock, given>>
  BY <1>1 DEF generate_random_bytes
<1> QED
  BY <1>2, DrawBegins

LEMMA RngFillsStep ==
    ASSUME RandomLimits, RandomInv, NEW t \in Threads, RngFills(t)
    PROVE  RandomInv'
<1>1. PICK n \in 1 .. 2 : BeginDraw(t, "rng", n)
  BY DEF RngFills
<1>2. PICK o \in {"bytes", "rng"} : o = "rng"
  OBVIOUS
<1>3. BeginDraw(t, o, n) /\ UNCHANGED <<watch, halted, core, drbg, drbgLock, given>>
  BY <1>1, <1>2 DEF RngFills
<1>4. n \in Nat
  OBVIOUS
<1> QED
  BY <1>3, <1>4, DrawBegins

LEMMA generate_randomStep ==
    ASSUME RandomLimits, RandomInv, NEW t \in Threads, generate_random(t)
    PROVE  RandomInv'
<1>1. PICK i : i = NoDraw
  OBVIOUS
<1>2. PICK c : c = [i EXCEPT !.pc = "lock", !.op = "shared", !.stage = "reseed", !.generates = 1]
  OBVIOUS
<1>3. i \in Draw
  BY <1>1, IdleFacts
<1>4. c \in Draw /\ c.pc = "lock" /\ c.op = "shared"
  BY <1>2, <1>3 DEF Draw
<1>5. /\ Become(t, c) /\ core = "ready"
      /\ UNCHANGED <<watch, halted, core, drbg, drbgLock, given>>
  BY <1>1, <1>2 DEF generate_random
<1>6. DrawOK(t, c, error, started, core, drbgLock, drbg)
  BY <1>4, <1>5 DEF DrawOK
<1>7. Starts(c) => Starts(draws[t])
  BY <1>4 DEF Starts
<1> QED
  BY <1>4, <1>5, <1>6, <1>7, QuietStep

\* The power-on self-test and the core's DRBG.
LEMMA CoreBegins ==
    ASSUME RandomLimits, RandomInv, NEW t \in Threads, NEW n \in Nat, NEW o \in {"post", "core"},
           BeginDraw(t, o, n), core \in {"none", "tested"},
           core' = IF o = "post" THEN "post" ELSE "building",
           UNCHANGED <<watch, halted, drbg, drbgLock, given>>
    PROVE  RandomInv'
<1>1. PICK c : c = Begun(o, n)
  OBVIOUS
<1>2. c \in Draw /\ c.pc = "fill" /\ c.op = o
  <2>1. o \in {"post", "core", "bytes", "rng"}
    OBVIOUS
  <2> QED
    BY <1>1, <2>1, BeginFacts
<1>3. Become(t, c)
  BY <1>1 DEF BeginDraw, Begun
<1>4. UNCHANGED watch
  OBVIOUS
<1>5. /\ Keeps
      /\ monitor' = monitor /\ started' = started /\ error' = error
      /\ stream' = stream /\ position' = position
  BY <1>4, UnwatchedKeeps
<1>6. halted' = halted /\ drbg' = drbg /\ drbgLock' = drbgLock /\ given' = given
  OBVIOUS
<1>7. Spares(t)
  BY <1>5, <1>6 DEF Spares
<1>8. Draws(t, c)
  BY <1>2, <1>3 DEF Draws, DrawOK
<1>9. OutputInv'
  BY <1>6 DEF OutputInv, RandomInv
<1>10. /\ halted' \in BOOLEAN /\ core' \in {"none", "post", "tested", "building", "ready"}
       /\ drbg' \in Drbg /\ drbgLock' \in Threads \cup {NoThread} /\ given' \in Seq(Blocks)
  BY <1>6 DEF RandomInv, RandomType
<1> QED
  BY <1>5, <1>7, <1>8, <1>9, <1>10, StepKeeps

LEMMA post_drbg_healthStep ==
    ASSUME RandomLimits, RandomInv, NEW t \in Threads, post_drbg_health(t)
    PROVE  RandomInv'
<1>1. PICK n \in Nat, o \in {"post", "core"} : n = 2 /\ o = "post"
  OBVIOUS
<1>2. /\ BeginDraw(t, o, n) /\ core \in {"none", "tested"}
      /\ core' = (IF o = "post" THEN "post" ELSE "building")
      /\ UNCHANGED <<watch, halted, drbg, drbgLock, given>>
  BY <1>1 DEF post_drbg_health
<1> QED
  BY <1>2, CoreBegins

LEMMA try_newStep ==
    ASSUME RandomLimits, RandomInv, NEW t \in Threads, try_new(t)
    PROVE  RandomInv'
<1>1. PICK n \in Nat, o \in {"post", "core"} : n = 0 /\ o = "core"
  OBVIOUS
<1>2. /\ BeginDraw(t, o, n) /\ core \in {"none", "tested"}
      /\ core' = (IF o = "post" THEN "post" ELSE "building")
      /\ UNCHANGED <<watch, halted, drbg, drbgLock, given>>
  BY <1>1 DEF try_new
<1> QED
  BY <1>2, CoreBegins

LEMMA AcquireStep ==
    ASSUME RandomInv, NEW t \in Threads, AcquireDrbg(t)
    PROVE  RandomInv'
<1>1. PICK d : d = draws[t]
  OBVIOUS
<1>2. /\ d \in Draw /\ d.pc = "lock"
      /\ DrawOK(t, d, error, started, core, drbgLock, drbg)
  BY <1>1, DrawFacts DEF AcquireDrbg, DrawAt
<1>3. PICK c : c = [d EXCEPT !.pc = "fill"]
  OBVIOUS
<1>4. c \in Draw /\ c.pc = "fill" /\ c.op = d.op
  BY <1>2, <1>3 DEF Draw
<1>5. Become(t, c) /\ drbgLock = NoThread /\ drbgLock' = t /\ UNCHANGED watch
  BY <1>1, <1>3 DEF AcquireDrbg, GotoDraw
<1>6. /\ Keeps
      /\ monitor' = monitor /\ started' = started /\ error' = error
      /\ stream' = stream /\ position' = position
  BY <1>5, UnwatchedKeeps
<1>7. halted' = halted /\ core' = core /\ drbg' = drbg /\ given' = given
  BY DEF AcquireDrbg
<1>8. Spares(t)
  BY <1>5, <1>6, <1>7 DEF Spares
<1>9. Draws(t, c)
  BY <1>1, <1>2, <1>4, <1>5, <1>7 DEF Draws, DrawOK, Starts
<1>10. OutputInv'
  BY <1>7 DEF OutputInv, RandomInv
<1>11. /\ halted' \in BOOLEAN /\ core' \in {"none", "post", "tested", "building", "ready"}
       /\ drbg' \in Drbg /\ drbgLock' \in Threads \cup {NoThread} /\ given' \in Seq(Blocks)
  BY <1>5, <1>7 DEF RandomInv, RandomType
<1> QED
  BY <1>6, <1>8, <1>9, <1>10, <1>11, StepKeeps

\* Samples that the monitor saw.
LEMMA SeenKeeps ==
    ASSUME RandomLimits, RandomInv, NEW b \in Seq(Samples), b # <<>>, Seen(b),
           monitor' \in Monitor, error' \in BOOLEAN, started' = TRUE,
           ~error' => Tracks(monitor', stream \o b,
                             (position + Len(b)) % ADAPTIVE_PROPORTION_WINDOW)
    PROVE  Keeps
<1>1. CASE error'
  <2>1. stream' = <<>> /\ position' = 0
    BY <1>1 DEF Seen
  <2>2. stream' \in Seq(Samples) /\ position' \in Nat
    BY <2>1
  <2>3. MonitorInv'
    BY <1>1 DEF MonitorInv
  <2> QED
    BY <2>2, <2>3 DEF Keeps
<1>2. CASE ~error'
  <2>1. PICK s, l, q : /\ s = stream \o b /\ l = Longest
                       /\ q = (position + Len(b)) % ADAPTIVE_PROPORTION_WINDOW
    OBVIOUS
  <2>2. s \in Seq(Samples) /\ Len(s) \in Nat /\ Len(s) > 0
    <3>1. stream \in Seq(Samples)
      BY DEF RandomInv, RandomType
    <3>2. Len(b) > 0 /\ Len(b) \in Nat /\ Len(stream) \in Nat
      BY <3>1
    <3>3. s \in Seq(Samples) /\ Len(s) = Len(stream) + Len(b)
      BY <2>1, <3>1
    <3> QED
      BY <3>2, <3>3
  <2>3. l \in Nat /\ ADAPTIVE_PROPORTION_WINDOW <= l /\ l > 0
    BY <2>1, LongestFacts DEF RandomLimits
  <2>4. stream' = LastOf(s, l) /\ position' = q
    BY <1>2, <2>1 DEF Seen
  <2>5. Tracks(monitor', s, q)
    BY <1>2, <2>1
  <2>6. PICK m : m = monitor'
    OBVIOUS
  <2>7. Tracks(m, s, q)
    BY <2>5, <2>6
  <2>8. Tracks(m, LastOf(s, l), q)
    BY <2>2, <2>3, <2>7, TrackedByLast
  <2>9. Tracks(monitor', stream', position')
    BY <2>4, <2>6, <2>8
  <2>10. stream' \in Seq(Samples) /\ stream' # <<>>
    <3>1. PICK u : u = LastOf(s, l)
      OBVIOUS
    <3>2. u \in Seq(Samples) /\ Len(u) = (IF Len(s) <= l THEN Len(s) ELSE l)
      BY <2>2, <2>3, <3>1, LastOfFacts
    <3>3. Len(u) # 0
      BY <2>2, <2>3, <3>2
    <3> QED
      BY <2>4, <3>1, <3>2, <3>3
  <2>11. position' \in Nat
    BY <2>9 DEF Tracks, RandomLimits
  <2>12. MonitorInv'
    BY <1>2, <2>9, <2>10 DEF MonitorInv
  <2> QED
    BY <2>10, <2>11, <2>12 DEF Keeps
<1> QED
  BY <1>1, <1>2

LEMMA BufferSeq ==
    ASSUME NEW n \in Nat \ {0}, NEW b \in [1 .. n -> Samples]
    PROVE  b \in Seq(Samples) /\ Len(b) = n /\ b # <<>>
OBVIOUS

LEMMA LazyStep ==
    ASSUME RandomLimits, RandomInv, NEW t \in Threads, Lazy(t)
    PROVE  RandomInv'
<1>1. PICK d : d = draws[t]
  OBVIOUS
<1>2. /\ d \in Draw /\ d.pc = "lazy"
      /\ DrawOK(t, d, error, started, core, drbgLock, drbg)
  BY <1>1, DrawFacts DEF Lazy, DrawAt
<1>3. PICK c : c = [d EXCEPT !.pc = "recheck"]
  OBVIOUS
<1>4. c \in Draw /\ c.pc = "recheck" /\ c.op = d.op /\ c.late = d.late
  BY <1>2, <1>3 DEF Draw
<1>5. Become(t, c)
  BY <1>1, <1>3 DEF Lazy, GotoDraw
<1>6. /\ halted' = halted /\ core' = core /\ drbg' = drbg /\ drbgLock' = drbgLock
      /\ given' = given
  BY DEF Lazy
<1>7. started' = TRUE /\ Keeps /\ (error => error')
  <2>1. CASE started
    <3>1. UNCHANGED watch
      BY <2>1 DEF Lazy
    <3>2. Keeps /\ started' = started /\ error' = error
      BY <3>1, UnwatchedKeeps
    <3>3. started \in BOOLEAN
      BY DEF RandomInv, RandomType
    <3> QED
      BY <2>1, <3>2, <3>3
  <2>2. CASE ~started
    <3>1. PICK b \in [1 .. STARTUP_SAMPLES -> Samples] :
            /\ started' = TRUE
            /\ monitor' = startup_test(b)
            /\ error' = (monitor'.verdict # "ok")
            /\ Seen(b)
      BY <2>2 DEF Lazy
    <3>2. b \in Seq(Samples) /\ b # <<>>
      BY BufferSeq DEF RandomLimits
    <3>3. ~error /\ stream = <<>> /\ position = 0
      BY <2>2 DEF RandomInv, MonitorInv, Tracks
    <3>4. PICK r : r = monitor'
      OBVIOUS
    <3>5. r = startup_test(b)
      BY <3>1, <3>4
    <3>6. /\ r \in Monitor /\ r.verdict \in {"ok", "failed"}
          /\ r.verdict = "ok" =>
               Tracks(r, <<>> \o b, (0 + Len(b)) % ADAPTIVE_PROPORTION_WINDOW)
      BY <3>2, <3>5, StartupFacts
    <3>7. monitor' \in Monitor /\ error' \in BOOLEAN
      BY <3>1, <3>4, <3>6
    <3>8. ~error' => r.verdict = "ok"
      BY <3>1, <3>4
    <3>9. ~error' => Tracks(monitor', stream \o b,
                            (position + Len(b)) % ADAPTIVE_PROPORTION_WINDOW)
      BY <3>3, <3>4, <3>6, <3>8
    <3>10. Keeps
      BY <3>1, <3>2, <3>7, <3>9, SeenKeeps
    <3> QED
      BY <3>1, <3>3, <3>10
  <2> QED
    BY <2>1, <2>2
<1>8. Spares(t)
  BY <1>6, <1>7 DEF Spares
<1>9. Draws(t, c)
  <2>1. DrawOK(t, c, error', started', core', drbgLock', drbg')
    BY <1>2, <1>4, <1>6, <1>7 DEF DrawOK
  <2> QED
    BY <1>1, <1>4, <1>5, <2>1 DEF Draws, Starts
<1>10. OutputInv'
  BY <1>6 DEF OutputInv, RandomInv
<1>11. /\ halted' \in BOOLEAN /\ core' \in {"none", "post", "tested", "building", "ready"}
       /\ drbg' \in Drbg /\ drbgLock' \in Threads \cup {NoThread} /\ given' \in Seq(Blocks)
  BY <1>6 DEF RandomInv, RandomType
<1> QED
  BY <1>7, <1>8, <1>9, <1>10, <1>11, StepKeeps

\* A call that fails leaves the others alone.
LEMMA FailsFacts ==
    ASSUME RandomLimits, RandomInv, NEW t \in Threads, Fails(t)
    PROVE  /\ Become(t, NoDraw)
           /\ core' # core => Starts(draws[t]) /\ core # "ready"
           /\ drbgLock' # drbgLock => drbgLock = t
           /\ core' \in {"none", "post", "tested", "building", "ready"}
           /\ drbgLock' \in Threads \cup {NoThread}
<1>1. PICK d : d = draws[t]
  OBVIOUS
<1>2. DrawOK(t, d, error, started, core, drbgLock, drbg)
  BY <1>1, DrawFacts
<1>3. /\ Become(t, NoDraw)
      /\ drbgLock' = IF drbgLock = t THEN NoThread ELSE drbgLock
      /\ core' = IF d.op \in {"post", "core"} THEN "none" ELSE core
  BY <1>1 DEF Fails
<1>4. core' # core => Starts(d) /\ core # "ready"
  BY <1>2, <1>3 DEF DrawOK, Starts
<1> QED
  BY <1>1, <1>3, <1>4 DEF RandomInv, RandomType

\* One that is over.
LEMMA EndedDraws ==
    ASSUME RandomLimits, NEW t \in Threads, Become(t, NoDraw)
    PROVE  Draws(t, NoDraw)
<1>1. PICK c : c = NoDraw
  OBVIOUS
<1>2. c \in Draw /\ c.pc = "idle" /\ c.op = "bytes"
  BY <1>1, IdleFacts
<1>3. DrawOK(t, c, error', started', core', drbgLock', drbg')
  BY <1>2 DEF DrawOK
<1> QED
  BY <1>1, <1>2, <1>3 DEF Draws, Starts

LEMMA ObserveStep ==
    ASSUME RandomLimits, RandomInv, NEW t \in Threads, Observe(t)
    PROVE  RandomInv'
<1>1. PICK d : d = draws[t]
  OBVIOUS
<1>2. /\ d \in Draw /\ d.pc = "observe"
      /\ DrawOK(t, d, error, started, core, drbgLock, drbg)
  BY <1>1, DrawFacts DEF Observe, DrawAt
<1>3. started /\ ~d.late
  BY <1>2 DEF DrawOK
<1>4. halted' = halted /\ drbg' = drbg /\ given' = given /\ started' = started
  BY DEF Observe
<1>5. PICK n \in Nat \ {0} : n = Wanted(t)
  BY DEF Wanted, RandomLimits
<1>6. PICK b \in [1 .. n -> Samples] :
        /\ monitor' = feed_bytes(monitor, b)
        /\ error' = (error \/ monitor'.verdict = "failed")
        /\ Seen(b)
  BY <1>5 DEF Observe
<1>7. b \in Seq(Samples) /\ b # <<>>
  BY BufferSeq
<1>8. PICK r, m : r = monitor' /\ m = monitor
  OBVIOUS
<1>9. /\ m \in Monitor /\ r = feed_bytes(m, b)
      /\ stream \in Seq(Samples) /\ position \in Nat
  BY <1>6, <1>8 DEF RandomInv, RandomType
<1>10. /\ r \in Monitor
       /\ \A s \in Seq(Samples), p \in Nat : Tracks(m, s, p) =>
            /\ r.verdict \in {"ok", "failed"}
            /\ r.verdict = "ok" =>
                 Tracks(r, s \o b, (p + Len(b)) % ADAPTIVE_PROPORTION_WINDOW)
  BY <1>7, <1>9, FeedBytesFacts
<1>11. error' \in BOOLEAN /\ (error => error') /\ (~error' => ~error /\ r.verdict # "failed")
  <2>1. error \in BOOLEAN
    BY DrawFacts
  <2> QED
    BY <1>6, <1>8, <2>1
<1>12. ~error' => Tracks(monitor', stream \o b,
                         (position + Len(b)) % ADAPTIVE_PROPORTION_WINDOW)
  <2>1. SUFFICES ASSUME ~error'
                 PROVE  Tracks(r, stream \o b, (position + Len(b)) % ADAPTIVE_PROPORTION_WINDOW)
    BY <1>8
  <2>2. Tracks(m, stream, position)
    BY <1>8, <1>11, <2>1 DEF RandomInv, MonitorInv
  <2>3. r.verdict = "ok"
    BY <1>9, <1>10, <1>11, <2>1, <2>2
  <2> QED
    BY <1>9, <1>10, <2>2, <2>3
<1>13. started' = TRUE
  BY <1>3, <1>4 DEF RandomInv, RandomType
<1>14. monitor' \in Monitor
  BY <1>8, <1>10
<1>15. Keeps
  BY <1>6, <1>7, <1>11, <1>12, <1>13, <1>14, SeenKeeps
<1>16. /\ halted' \in BOOLEAN /\ drbg' \in Drbg /\ given' \in Seq(Blocks)
  BY <1>4 DEF RandomInv, RandomType
<1>17. CASE r.verdict \in {"ok", "failed"}
  <2>1. PICK g \in {"mix", "abort"} : g = IF r.verdict = "ok" THEN "mix" ELSE "abort"
    OBVIOUS
  <2>2. GotoDraw(t, g) /\ drbgLock' = drbgLock /\ core' = core
    BY <1>8, <1>17, <2>1 DEF Observe
  <2>3. PICK c : c = [d EXCEPT !.pc = g]
    OBVIOUS
  <2>4. Become(t, c)
    BY <1>1, <2>2, <2>3 DEF GotoDraw
  <2>5. c \in Draw /\ c.pc = g /\ c.op = d.op /\ c.late = d.late
    BY <1>2, <2>3 DEF Draw
  <2>6. DrawOK(t, c, error', started', core', drbgLock', drbg')
    BY <1>2, <1>3, <2>1, <2>2, <2>5 DEF DrawOK
  <2>7. Draws(t, c)
    BY <1>1, <2>4, <2>5, <2>6 DEF Draws, Starts
  <2>8. Spares(t)
    BY <1>4, <1>11, <2>2 DEF Spares
  <2>9. OutputInv'
    BY <1>4, <2>2 DEF OutputInv, RandomInv
  <2>10. /\ core' \in {"none", "post", "tested", "building", "ready"}
         /\ drbgLock' \in Threads \cup {NoThread}
    BY <2>2 DEF RandomInv, RandomType
  <2> QED
    BY <1>15, <1>16, <2>7, <2>8, <2>9, <2>10, StepKeeps
<1>18. CASE r.verdict = "panic"
  <2>1. Fails(t)
    BY <1>8, <1>18 DEF Observe
  <2>2. /\ Become(t, NoDraw)
        /\ core' # core => Starts(draws[t]) /\ core # "ready"
        /\ drbgLock' # drbgLock => drbgLock = t
        /\ core' \in {"none", "post", "tested", "building", "ready"}
        /\ drbgLock' \in Threads \cup {NoThread}
    BY <2>1, FailsFacts
  <2>3. Draws(t, NoDraw)
    BY <2>2, EndedDraws
  <2>4. Spares(t)
    BY <1>4, <1>11, <2>2 DEF Spares
  <2>5. OutputInv'
    BY <1>4, <2>2 DEF OutputInv, RandomInv
  <2>6. PICK c : c = NoDraw
    OBVIOUS
  <2>7. Draws(t, c)
    BY <2>3, <2>6
  <2> QED
    BY <1>15, <1>16, <2>2, <2>4, <2>5, <2>7, StepKeeps
<1> QED
  BY <1>10, <1>17, <1>18 DEF Monitor

LEMMA MixStep ==
    ASSUME RandomLimits, RandomInv, NEW t \in Threads, Mix(t)
    PROVE  RandomInv'
<1>1. PICK d : d = draws[t]
  OBVIOUS
<1>2. /\ d \in Draw /\ d.pc = "mix"
      /\ DrawOK(t, d, error, started, core, drbgLock, drbg)
  BY <1>1, DrawFacts DEF Mix, DrawAt
<1>3. halted' = halted /\ drbgLock' = drbgLock /\ given' = given /\ UNCHANGED watch
  BY DEF Mix
<1>4. Keeps /\ started' = started /\ error' = error
  BY <1>3, UnwatchedKeeps
<1>5. /\ halted' \in BOOLEAN /\ drbgLock' \in Threads \cup {NoThread} /\ given' \in Seq(Blocks)
      /\ drbg \in Drbg /\ core \in {"none", "post", "tested", "building", "ready"}
  BY <1>3 DEF RandomInv, RandomType
<1>6. CASE d.stage = "seed" /\ d.op = "core"
  <2>1. drbg' = NewDrbg /\ core' = "ready" /\ Become(t, NoDraw)
    BY <1>1, <1>6 DEF Mix
  <2>2. drbg' \in Drbg /\ drbg'.counter = 1
    BY <2>1, IdleFacts
  <2>3. core = "building" /\ given = <<>>
    BY <1>2, <1>6 DEF DrawOK, RandomInv, OutputInv
  <2>4. OutputInv'
    BY <1>3, <2>3 DEF OutputInv
  <2>5. Spares(t)
    BY <1>1, <1>3, <1>4, <1>6, <2>2, <2>3 DEF Spares, Starts
  <2>6. PICK c : c = NoDraw
    OBVIOUS
  <2>7. Draws(t, c)
    BY <2>1, <2>6, EndedDraws
  <2> QED
    BY <1>4, <1>5, <2>1, <2>2, <2>4, <2>5, <2>7, StepKeeps
<1>7. CASE d.stage = "seed" /\ d.op # "core"
  <2>1. PICK c : c = [d EXCEPT !.pc = "fill", !.stage = "reseed"]
    OBVIOUS
  <2>2. Become(t, c) /\ drbg' = drbg /\ core' = core
    BY <1>1, <1>7, <2>1 DEF Mix
  <2>3. c \in Draw /\ c.pc = "fill" /\ c.op = d.op
    BY <1>2, <2>1 DEF Draw
  <2>4. DrawOK(t, c, error', started', core', drbgLock', drbg')
    BY <1>2, <1>3, <2>2, <2>3 DEF DrawOK
  <2>5. Draws(t, c)
    BY <1>1, <2>2, <2>3, <2>4 DEF Draws, Starts
  <2>6. Spares(t)
    BY <1>3, <1>4, <2>2 DEF Spares
  <2>7. OutputInv'
    BY <1>3, <2>2 DEF OutputInv, RandomInv
  <2> QED
    BY <1>4, <1>5, <2>2, <2>5, <2>6, <2>7, StepKeeps
<1>8. CASE d.stage # "seed"
  <2>1. PICK g \in {"fill", "blocks"} :
          g = IF Overdue(Own(t)) THEN "fill" ELSE "blocks"
    OBVIOUS
  <2>2. PICK x : x = [d.drbg EXCEPT !.counter = 1]
    OBVIOUS
  <2>3. PICK c : c = [d EXCEPT !.pc = g, !.drbg = x]
    OBVIOUS
  <2>4. /\ Become(t, c) /\ core' = core
        /\ drbg' = IF d.op = "shared" THEN [drbg EXCEPT !.counter = 1] ELSE drbg
    BY <1>1, <1>8, <2>1, <2>2, <2>3 DEF Mix, Reseeded, Shared
  <2>5. d.drbg \in Drbg
    BY <1>2 DEF Draw
  <2>6. x \in Drbg /\ x.counter = 1
    BY <2>2, <2>5 DEF Drbg
  <2>7. c \in Draw /\ c.pc = g /\ c.op = d.op /\ c.drbg = x
    BY <1>2, <2>3, <2>6 DEF Draw
  <2>8. /\ drbg' \in Drbg /\ drbg'.last = drbg.last
        /\ d.op = "shared" => drbg'.counter = 1
        /\ d.op # "shared" => drbg' = drbg
    <3>1. PICK y : y = [drbg EXCEPT !.counter = 1]
      OBVIOUS
    <3>2. y \in Drbg /\ y.last = drbg.last /\ y.counter = 1
      BY <1>5, <3>1 DEF Drbg
    <3> QED
      BY <1>5, <2>4, <3>1, <3>2
  <2>9. DrawOK(t, c, error', started', core', drbgLock', drbg')
    BY <1>2, <1>3, <2>4, <2>6, <2>7, <2>8 DEF DrawOK
  <2>10. Draws(t, c)
    BY <1>1, <2>4, <2>7, <2>9 DEF Draws, Starts
  <2>11. Spares(t)
    BY <1>3, <1>4, <2>4, <2>8 DEF Spares
  <2>12. OutputInv'
    BY <1>3, <2>4, <2>8 DEF OutputInv, RandomInv
  <2> QED
    BY <1>4, <1>5, <2>4, <2>8, <2>10, <2>11, <2>12, StepKeeps
<1> QED
  BY <1>6, <1>7, <1>8

LEMMA LeastOf ==
    ASSUME NEW n \in Nat, NEW S \in SUBSET (1 .. n), S # {}
    PROVE  Min(S) \in S
<1>1. S \subseteq Nat
  OBVIOUS
<1>2. PICK x \in S : \A y \in S : <<y, x>> \notin OpToRel(<, Nat)
  BY <1>1, NatLessThanWellFounded, WFMin
<1>3. ASSUME NEW y \in S PROVE x <= y
  <2>1. <<y, x>> \in Nat \X Nat /\ <<y, x>>[1] = y /\ <<y, x>>[2] = x
    BY <1>1
  <2>2. <<y, x>> \notin {ss \in Nat \X Nat : ss[1] < ss[2]}
    BY <1>2, Zenon DEF OpToRel
  <2>3. ~(<<y, x>>[1] < <<y, x>>[2])
    BY <2>1, <2>2, Zenon
  <2> QED
    BY <1>1, <2>1, <2>3
<1>4. \E z \in S : \A y \in S : z <= y
  BY <1>3
<1> QED
  BY <1>4, Zenon DEF Min

\* What is given out after blocks that passed health_check.
LEMMA OutputStep ==
    ASSUME NEW g \in Seq(Blocks), NEW n \in Nat \ {0}, NEW b \in [1 .. n -> Blocks],
           NEW d, g # <<>> => d.last = g[Len(g)], Stuck(d, b) = {},
           NEW h, h = LastOf(g \o b, 2)
    PROVE  /\ h \in Seq(Blocks) /\ Len(h) <= 2 /\ h # <<>> /\ h[Len(h)] = b[n]
           /\ Len(h) = 2 => h[1] # h[2]
<1>1. b \in Seq(Blocks) /\ Len(b) = n
  OBVIOUS
<1>2. PICK s : s = g \o b
  OBVIOUS
<1>3. /\ s \in Seq(Blocks) /\ Len(s) = Len(g) + n /\ Len(g) \in Nat
      /\ \A i \in 1 .. Len(s) : s[i] = IF i <= Len(g) THEN g[i] ELSE b[i - Len(g)]
  <2>1. /\ s \in Seq(Blocks) /\ Len(s) = Len(g) + Len(b)
        /\ \A i \in 1 .. Len(g) + Len(b) : s[i] = IF i <= Len(g) THEN g[i] ELSE b[i - Len(g)]
    BY <1>1, <1>2, ConcatProperties
  <2> QED
    BY <1>1, <2>1
<1>4. PICK q \in Nat : q = 2
  OBVIOUS
<1>5. h = LastOf(s, q)
  BY <1>2, <1>4
<1>6. /\ h \in Seq(Blocks) /\ Len(h) = (IF Len(s) <= q THEN Len(s) ELSE q)
      /\ \A i \in 1 .. Len(h) : h[i] = s[Len(s) - Len(h) + i]
  <2>1. s \in Seq(Blocks)
    BY <1>3
  <2>2. /\ LastOf(s, q) \in Seq(Blocks)
        /\ Len(LastOf(s, q)) = IF Len(s) <= q THEN Len(s) ELSE q
        /\ \A i \in 1 .. Len(LastOf(s, q)) :
              LastOf(s, q)[i] = s[Len(s) - Len(LastOf(s, q)) + i]
    BY <2>1, LastOfFacts
  <2> QED
    BY <1>5, <2>2, Zenon
<1>7. Len(h) \in Nat /\ Len(h) >= 1 /\ Len(h) <= 2 /\ Len(h) <= Len(s)
  <2>1. Len(s) \in Nat /\ Len(s) >= 1 /\ q \in Nat
    BY <1>3
  <2>2. PICK k, j : k = Len(h) /\ j = Len(s)
    OBVIOUS
  <2>3. j \in Nat /\ j >= 1 /\ k = IF j <= q THEN j ELSE q
    BY <1>6, <2>1, <2>2, Zenon
  <2>4. k \in Nat /\ k >= 1 /\ k <= 2 /\ k <= j
    BY <1>4, <2>3
  <2> QED
    BY <2>2, <2>4, Zenon
<1>8. h # <<>>
  BY <1>6, <1>7
<1>9. s[Len(s)] = b[n]
  <2>1. Len(s) \in 1 .. Len(s) /\ ~(Len(s) <= Len(g)) /\ Len(s) - Len(g) = n
    BY <1>3
  <2> QED
    BY <1>3, <2>1
<1>10. h[Len(h)] = b[n]
  <2>1. Len(h) \in 1 .. Len(h) /\ Len(s) - Len(h) + Len(h) = Len(s)
    BY <1>3, <1>7
  <2>2. h[Len(h)] = s[Len(s) - Len(h) + Len(h)]
    BY <1>6, <2>1, Zenon
  <2> QED
    BY <1>9, <2>1, <2>2
<1>11. ASSUME Len(h) = 2 PROVE h[1] # h[2]
  <2>1. Len(s) >= 2
    BY <1>3, <1>7, <1>11
  <2>2. h[1] = s[Len(s) - 1]
    <3>1. 1 \in 1 .. Len(h) /\ Len(s) - Len(h) + 1 = Len(s) - 1
      <4>1. PICK k, j : k = Len(h) /\ j = Len(s)
        OBVIOUS
      <4>2. j \in Nat
        BY <1>3, <4>1
      <4>3. k = 2
        BY <1>11, <4>1, Zenon
      <4>4. 1 \in 1 .. k /\ j - k + 1 = j - 1
        BY <4>2, <4>3
      <4> QED
        BY <4>1, <4>4, Zenon
    <3>2. h[1] = s[Len(s) - Len(h) + 1]
      BY <1>6, <3>1, Zenon
    <3> QED
      BY <3>1, <3>2
  <2>3. n \in DOMAIN b /\ b[n] # (IF n = 1 THEN d.last ELSE b[n - 1])
    <3>1. n \in DOMAIN b
      OBVIOUS
    <3>2. n \notin {i \in DOMAIN b : b[i] = (IF i = 1 THEN d.last ELSE b[i - 1])}
      BY Zenon DEF Stuck
    <3> QED
      BY <3>1, <3>2
  <2>4. CASE n = 1
    <3>1. g # <<>> /\ Len(s) - 1 = Len(g)
      BY <1>3, <2>1, <2>4
    <3>2. Len(s) - 1 \in 1 .. Len(s) /\ Len(s) - 1 <= Len(g)
      BY <1>3, <2>1, <3>1
    <3>3. s[Len(s) - 1] = g[Len(g)]
      BY <1>3, <3>1, <3>2
    <3> QED
      BY <1>10, <1>11, <2>2, <2>3, <2>4, <3>1, <3>3
  <2>5. CASE n # 1
    <3>1. Len(s) - 1 \in 1 .. Len(s) /\ ~(Len(s) - 1 <= Len(g)) /\ Len(s) - 1 - Len(g) = n - 1
      BY <1>3, <2>1, <2>5
    <3>2. s[Len(s) - 1] = b[n - 1]
      BY <1>3, <3>1
    <3> QED
      BY <1>10, <1>11, <2>2, <2>3, <2>5, <3>2
  <2> QED
    BY <2>4, <2>5
<1> QED
  BY <1>6, <1>7, <1>8, <1>10, <1>11

\* What generate leaves alone.
LEMMA generateRest ==
    ASSUME RandomInv, NEW t \in Threads, generate(t)
    PROVE  /\ Keeps /\ started' = started /\ error' = error /\ halted' \in BOOLEAN
           /\ draws[t].pc = "blocks"
<1>1. UNCHANGED watch /\ halted' = halted /\ draws[t].pc = "blocks"
  BY DEF generate, DrawAt
<1> QED
  BY <1>1, UnwatchedKeeps DEF RandomInv, RandomType

LEMMA GenerateFailsStep ==
    ASSUME RandomLimits, RandomInv, NEW t \in Threads, generate(t),
           NEW n \in Nat \ {0}, NEW b \in [1 .. n -> Blocks], GenerateFails(t, b)
    PROVE  RandomInv'
<1>1. PICK d : d = draws[t]
  OBVIOUS
<1>2. /\ d \in Draw /\ d.pc = "blocks"
      /\ DrawOK(t, d, error, started, core, drbgLock, drbg)
  BY <1>1, DrawFacts, generateRest
<1>3. Keeps /\ started' = started /\ error' = error /\ halted' \in BOOLEAN
  BY generateRest
<1>4. /\ drbg \in Drbg /\ core \in {"none", "post", "tested", "building", "ready"}
      /\ drbgLock \in Threads \cup {NoThread} /\ given \in Seq(Blocks)
  BY DEF RandomInv, RandomType
<1>5. PICK own : own = Own(t)
  OBVIOUS
<1>6. own \in Drbg /\ (d.op = "shared" => own = drbg)
  BY <1>1, <1>2, <1>4, <1>5 DEF Own, Shared, Draw
<1>7. PICK i : i = Min(Stuck(own, b))
  OBVIOUS
<1>8. i \in 1 .. n
  <2>1. Stuck(own, b) \in SUBSET (1 .. n)
    BY DEF Stuck
  <2>2. Stuck(own, b) # {}
    BY <1>5 DEF GenerateFails
  <2>3. PICK S : S = Stuck(own, b)
    OBVIOUS
  <2>4. S \in SUBSET (1 .. n) /\ S # {} /\ n \in Nat
    BY <2>1, <2>2, <2>3
  <2>5. Min(S) \in S
    BY <2>4, LeastOf
  <2> QED
    BY <1>7, <2>3, <2>4, <2>5
<1>9. PICK l : l = IF i = 1 THEN own.last ELSE b[i - 1]
  OBVIOUS
<1>10. l \in Blocks \cup {NoBlock}
  <2>1. CASE i = 1
    BY <1>6, <1>9, <2>1 DEF Drbg
  <2>2. CASE i # 1
    BY <1>8, <1>9, <2>2
  <2> QED
    BY <2>1, <2>2
<1>11. PICK x : x = [own EXCEPT !.last = l]
  OBVIOUS
<1>12. x \in Drbg /\ x.counter = own.counter
  BY <1>6, <1>10, <1>11 DEF Drbg
<1>13. /\ drbg' = IF d.op = "shared" THEN x ELSE drbg
       /\ given' = IF d.op = "shared" THEN <<>> ELSE given
       /\ IF d.op = "rng" THEN GotoDraw(t, "abort") /\ drbgLock' = drbgLock /\ core' = core
          ELSE Fails(t)
  BY <1>1, <1>5, <1>7, <1>9, <1>11 DEF GenerateFails, Shared
<1>14. drbg' \in Drbg /\ drbg'.counter = drbg.counter
  BY <1>4, <1>6, <1>12, <1>13
<1>15. given' \in Seq(Blocks)
  BY <1>4, <1>13
<1>16. ASSUME core = "ready" => core' = "ready" PROVE OutputInv'
  BY <1>13, <1>16 DEF OutputInv, RandomInv
<1>17. CASE d.op = "rng"
  <2>1. PICK c : c = [d EXCEPT !.pc = "abort"]
    OBVIOUS
  <2>2. Become(t, c) /\ drbgLock' = drbgLock /\ core' = core
    BY <1>1, <1>13, <1>17, <2>1 DEF GotoDraw
  <2>3. c \in Draw /\ c.pc = "abort" /\ c.op = "rng"
    BY <1>2, <1>17, <2>1 DEF Draw
  <2>4. DrawOK(t, c, error', started', core', drbgLock', drbg')
    BY <2>3 DEF DrawOK
  <2>5. Draws(t, c)
    BY <2>2, <2>3, <2>4 DEF Draws, Starts
  <2>6. Spares(t)
    BY <1>3, <1>14, <2>2 DEF Spares
  <2>7. OutputInv'
    BY <1>16, <2>2
  <2> QED
    BY <1>3, <1>4, <1>14, <1>15, <2>2, <2>5, <2>6, <2>7, StepKeeps
<1>18. CASE d.op # "rng"
  <2>1. Fails(t)
    BY <1>13, <1>18
  <2>2. /\ Become(t, NoDraw)
        /\ core' # core => Starts(draws[t]) /\ core # "ready"
        /\ drbgLock' # drbgLock => drbgLock = t
        /\ core' \in {"none", "post", "tested", "building", "ready"}
        /\ drbgLock' \in Threads \cup {NoThread}
    BY <2>1, FailsFacts
  <2>3. PICK c : c = NoDraw
    OBVIOUS
  <2>4. Draws(t, c)
    BY <2>2, <2>3, EndedDraws
  <2>5. Spares(t)
    BY <1>3, <1>14, <2>2 DEF Spares
  <2>6. OutputInv'
    BY <1>16, <2>2
  <2> QED
    BY <1>3, <1>14, <1>15, <2>2, <2>4, <2>5, <2>6, StepKeeps
<1> QED
  BY <1>17, <1>18

LEMMA GeneratedStep ==
    ASSUME RandomLimits, RandomInv, NEW t \in Threads, generate(t),
           NEW n \in Nat \ {0}, NEW b \in [1 .. n -> Blocks], Generated(t, b)
    PROVE  RandomInv'
<1>1. PICK d : d = draws[t]
  OBVIOUS
<1>2. /\ d \in Draw /\ d.pc = "blocks"
      /\ DrawOK(t, d, error, started, core, drbgLock, drbg)
  BY <1>1, DrawFacts, generateRest
<1>3. Keeps /\ started' = started /\ error' = error /\ halted' \in BOOLEAN
  BY generateRest
<1>4. /\ drbg \in Drbg /\ core \in {"none", "post", "tested", "building", "ready"}
      /\ drbgLock \in Threads \cup {NoThread} /\ given \in Seq(Blocks)
  BY DEF RandomInv, RandomType
<1>5. PICK own : own = Own(t)
  OBVIOUS
<1>6. own.counter = 1 /\ (d.op = "shared" => own = drbg /\ core = "ready" /\ drbgLock = t)
  BY <1>1, <1>2, <1>5 DEF Own, Shared, DrawOK
<1>7. Len(b) = n /\ b[n] \in Blocks
  OBVIOUS
<1>8. PICK x : x = [counter |-> own.counter + 1, last |-> b[n]]
  OBVIOUS
<1>9. x \in Drbg /\ x.last = b[n]
  BY <1>6, <1>7, <1>8 DEF Drbg
<1>10. PICK h : h = LastOf(given \o b, 2)
  OBVIOUS
<1>11. /\ Stuck(own, b) = {}
       /\ drbg' = IF d.op = "shared" THEN x ELSE drbg
       /\ given' = IF d.op = "shared" THEN h ELSE given
  BY <1>1, <1>5, <1>7, <1>8, <1>10 DEF Generated, Shared
<1>12. drbg' \in Drbg /\ (d.op # "shared" => drbg' = drbg)
  BY <1>4, <1>9, <1>11
<1>13. d.op = "shared" =>
         /\ h \in Seq(Blocks) /\ Len(h) <= 2 /\ h # <<>> /\ h[Len(h)] = b[n]
         /\ Len(h) = 2 => h[1] # h[2]
  <2>1. SUFFICES ASSUME d.op = "shared"
                 PROVE  /\ h \in Seq(Blocks) /\ Len(h) <= 2 /\ h # <<>> /\ h[Len(h)] = b[n]
                        /\ Len(h) = 2 => h[1] # h[2]
    OBVIOUS
  <2>2. PICK g : g = given
    OBVIOUS
  <2>3. g \in Seq(Blocks) /\ (g # <<>> => own.last = g[Len(g)]) /\ h = LastOf(g \o b, 2)
    BY <1>4, <1>6, <1>10, <2>1, <2>2 DEF RandomInv, OutputInv
  <2> QED
    BY <1>11, <2>3, OutputStep
<1>14. given' \in Seq(Blocks)
  BY <1>4, <1>11, <1>13
<1>15. ASSUME core = "ready" => core' = "ready" PROVE OutputInv'
  <2>1. CASE d.op = "shared"
    <3>1. given' = h /\ drbg' = x /\ core' = "ready"
      BY <1>6, <1>11, <1>15, <2>1
    <3> QED
      BY <1>9, <1>13, <2>1, <3>1 DEF OutputInv
  <2>2. CASE d.op # "shared"
    <3>1. given' = given /\ drbg' = drbg
      BY <1>11, <2>2
    <3> QED
      BY <1>15, <3>1 DEF OutputInv, RandomInv
  <2> QED
    BY <2>1, <2>2
<1>16. drbg'.counter # drbg.counter => drbgLock = t
  BY <1>6, <1>12
<1>17. CASE PostRefuses(t, b)
  <2>1. Fails(t)
    BY <1>17 DEF Generated
  <2>2. /\ Become(t, NoDraw)
        /\ core' # core => Starts(draws[t]) /\ core # "ready"
        /\ drbgLock' # drbgLock => drbgLock = t
        /\ core' \in {"none", "post", "tested", "building", "ready"}
        /\ drbgLock' \in Threads \cup {NoThread}
    BY <2>1, FailsFacts
  <2>3. PICK c : c = NoDraw
    OBVIOUS
  <2>4. Draws(t, c)
    BY <2>2, <2>3, EndedDraws
  <2>5. Spares(t)
    BY <1>3, <1>16, <2>2 DEF Spares
  <2>6. OutputInv'
    BY <1>15, <2>2
  <2> QED
    BY <1>3, <1>12, <1>14, <2>2, <2>4, <2>5, <2>6, StepKeeps
<1>18. CASE ~PostRefuses(t, b) /\ d.generates > 1
  <2>1. PICK k \in Nat : k = d.generates - 1
    BY <1>2, <1>18 DEF Draw
  <2>2. PICK c : c = [d EXCEPT !.pc = "fill", !.drbg = x, !.generates = k]
    OBVIOUS
  <2>3. Become(t, c) /\ drbgLock' = drbgLock /\ core' = core
    BY <1>1, <1>5, <1>7, <1>8, <1>18, <2>1, <2>2 DEF Generated
  <2>4. c \in Draw /\ c.pc = "fill" /\ c.op = d.op
    BY <1>2, <1>9, <2>2 DEF Draw
  <2>5. DrawOK(t, c, error', started', core', drbgLock', drbg')
    BY <1>2, <2>3, <2>4 DEF DrawOK
  <2>6. Draws(t, c)
    BY <1>1, <2>3, <2>4, <2>5 DEF Draws, Starts
  <2>7. Spares(t)
    BY <1>3, <1>16, <2>3 DEF Spares
  <2>8. OutputInv'
    BY <1>15, <2>3
  <2> QED
    BY <1>3, <1>4, <1>12, <1>14, <2>3, <2>6, <2>7, <2>8, StepKeeps
<1>19. CASE ~PostRefuses(t, b) /\ ~(d.generates > 1)
  <2>1. /\ Become(t, NoDraw)
        /\ drbgLock' = IF d.op = "shared" THEN NoThread ELSE drbgLock
        /\ core' = IF d.op = "post" THEN "tested" ELSE core
    BY <1>1, <1>19 DEF Generated, Shared
  <2>2. PICK c : c = NoDraw
    OBVIOUS
  <2>3. Draws(t, c)
    BY <2>1, <2>2, EndedDraws
  <2>4. d.op = "post" => core = "post"
    BY <1>2 DEF DrawOK
  <2>5. Spares(t)
    BY <1>1, <1>3, <1>6, <1>16, <2>1, <2>4 DEF Spares, Starts
  <2>6. OutputInv'
    BY <1>15, <2>1, <2>4
  <2>7. /\ core' \in {"none", "post", "tested", "building", "ready"}
        /\ drbgLock' \in Threads \cup {NoThread}
    BY <1>4, <2>1
  <2> QED
    BY <1>3, <1>12, <1>14, <2>3, <2>5, <2>6, <2>7, StepKeeps
<1> QED
  BY <1>17, <1>18, <1>19

LEMMA generateStep ==
    ASSUME RandomLimits, RandomInv, NEW t \in Threads, generate(t)
    PROVE  RandomInv'
<1>1. PICK n \in 1 .. (IF draws[t].op = "post" THEN 1 ELSE MaxBlocks) :
        \E b \in [1 .. n -> Blocks] : GenerateFails(t, b) \/ Generated(t, b)
  BY DEF generate
<1>2. n \in Nat \ {0}
  BY DEF RandomLimits
<1>3. PICK b \in [1 .. n -> Blocks] : GenerateFails(t, b) \/ Generated(t, b)
  BY <1>1
<1> QED
  BY <1>2, <1>3, GenerateFailsStep, GeneratedStep

LEMMA RandomKeeps ==
    ASSUME RandomLimits, RandomInv, [RandomNext]_randomVars
    PROVE  RandomInv'
<1>1. CASE UNCHANGED randomVars
  <2>1. /\ monitor' = monitor /\ started' = started /\ error' = error /\ halted' = halted
        /\ core' = core /\ drbg' = drbg /\ drbgLock' = drbgLock /\ draws' = draws
        /\ stream' = stream /\ position' = position /\ given' = given
    BY <1>1 DEF randomVars
  <2> QED
    BY <2>1 DEF RandomInv, RandomType, MonitorInv, OutputInv, OneStarts, Starts, DrawInv, DrawOK
<1>2. CASE RandomNext
  <2>1. PICK t \in Threads : StartDraw(t) \/ AcquireDrbg(t) \/ Step(t)
    BY <1>2 DEF RandomNext
  <2>2. CASE StartDraw(t)
    BY <2>2, post_drbg_healthStep, try_newStep, generate_random_bytesStep, RngFillsStep,
       generate_randomStep
       DEF StartDraw, generate_key_pair, new_rng
  <2>3. CASE AcquireDrbg(t)
    BY <2>3, AcquireStep
  <2>4. CASE Step(t)
    BY <2>4, FillStep, CheckStep, LazyStep, RecheckStep, ObserveStep, MixStep, generateStep,
       AbortStep
       DEF Step
  <2> QED
    BY <2>1, <2>2, <2>3, <2>4
<1> QED
  BY <1>1, <1>2

(* Inductive invariant of Randomness, with any number of threads: until a  *)
(* health test fails, the monitor's counters are those of the samples it   *)
(* saw, whoever drew them; a draw's bytes were read with the error flag    *)
(* clear; and HsmCore's DRBG compares a block with the one it gave out     *)
(* last.                                                                   *)
THEOREM RandomInvariant ==
    RandomSpec => []RandomInv
<1> USE LimitsHold
<1>1. RandomInit => RandomInv
  BY RandomStarts
<1>2. RandomInv /\ [RandomNext]_randomVars => RandomInv'
  BY RandomKeeps
<1> QED
  BY <1>1, <1>2, PTL DEF RandomSpec

(* Once a health test has failed, no entropy read after that reaches a     *)
(* DRBG, and generate_random never hands out two equal blocks one after    *)
(* the other, whatever the interleaving.                                   *)
THEOREM GeneratorIsSound ==
    RandomSpec => []GeneratorSound
<1> USE LimitsHold
<1>1. RandomInv => GeneratorSound
  <2>1. SUFFICES ASSUME RandomInv PROVE NoLateSeed /\ NoStuckOutput
    BY DEF GeneratorSound
  <2>2. NoLateSeed
    BY <2>1, DrawFacts DEF NoLateSeed, DrawAt, DrawOK
  <2>3. NoStuckOutput
    BY <2>1 DEF NoStuckOutput, RandomInv, OutputInv
  <2> QED
    BY <2>2, <2>3
<1> QED
  BY <1>1, RandomInvariant, PTL

\* A set of more than one.
LEMMA MoreThanOne ==
    ASSUME NEW S, IsFiniteSet(S), NEW x \in S, NEW y \in S, x # y
    PROVE  Cardinality(S) > 1
<1>1. PICK T : T = {x, y}
  OBVIOUS
<1>2. T \subseteq S
  BY <1>1
<1>3. Cardinality(T) = 2
  <2>1. IsFiniteSet({x}) /\ Cardinality({x}) = 1
    BY FS_Singleton
  <2>2. PICK U : U = {x}
    OBVIOUS
  <2>3. y \notin U /\ T = U \cup {y} /\ IsFiniteSet(U) /\ Cardinality(U) = 1
    BY <1>1, <2>1, <2>2
  <2>4. Cardinality(U \cup {y}) = Cardinality(U) + 1
    BY <2>3, FS_AddElement
  <2> QED
    BY <2>3, <2>4
<1>4. Cardinality(T) \in Nat /\ Cardinality(S) \in Nat /\ Cardinality(T) <= Cardinality(S)
  BY <1>2, <1>3, FS_Subset, FS_CardinalityType
<1> QED
  BY <1>3, <1>4

\* A run of the same sample that long has been found.
LEMMA RunFound ==
    ASSUME RandomLimits, NEW s \in Seq(Samples), NEW m \in Monitor, NEW p, Tracks(m, s, p),
           Len(LastOf(s, REPETITION_COUNT_CUTOFF)) = REPETITION_COUNT_CUTOFF
    PROVE  Cardinality(Range(LastOf(s, REPETITION_COUNT_CUTOFF))) > 1
<1>1. PICK k \in Nat : k = REPETITION_COUNT_CUTOFF /\ k > 1
  BY DEF RandomLimits
<1>2. PICK u : u = LastOf(s, k)
  OBVIOUS
<1>3. /\ u \in Seq(Samples) /\ Len(u) = (IF Len(s) <= k THEN Len(s) ELSE k)
      /\ \A i \in 1 .. Len(u) : u[i] = s[Len(s) - Len(u) + i]
  BY <1>2, LastOfFacts
<1>4. Len(u) = k /\ Len(s) \in Nat /\ k <= Len(s)
  BY <1>1, <1>2, <1>3
<1>5. s # <<>>
  BY <1>1, <1>4
<1>6. RunTracked(m, s) /\ m.repetitions < k /\ m.repetitions \in Nat
  BY <1>1, <1>5 DEF Tracks, Monitor
<1>7. ~LastSame(s, k)
  <2>1. k \in 1 .. Len(s)
    BY <1>1, <1>4
  <2>2. LastSame(s, k) => k <= m.repetitions
    BY <1>6, <2>1, Zenon DEF RunTracked
  <2> QED
    BY <1>6, <2>2
<1>8. PICK i \in Len(s) - k + 1 .. Len(s) : s[i] # s[Len(s)]
  BY <1>7 DEF LastSame
<1>9. PICK j \in Int : j = i - (Len(s) - k)
  BY <1>4
<1>10. /\ j \in 1 .. k /\ k \in 1 .. k
       /\ Len(s) - k + j = i /\ Len(s) - k + k = Len(s)
  BY <1>1, <1>4, <1>9
<1>11. u[j] = s[Len(s) - k + j] /\ u[k] = s[Len(s) - k + k]
  BY <1>3, <1>4, <1>10, Zenon
<1>12. u[j] # u[k]
  BY <1>8, <1>10, <1>11
<1>13. DOMAIN u = 1 .. k
  BY <1>3, <1>4
<1>14. PICK R : R = Range(u)
  OBVIOUS
<1>15. R = {u[q] : q \in 1 .. k}
  BY <1>13, <1>14 DEF Range
<1>16. u[j] \in R /\ u[k] \in R
  BY <1>10, <1>15
<1>17. IsFiniteSet(R)
  <2>1. IsFiniteSet(1 .. k)
    <3>1. 1 \in Int /\ k \in Int
      OBVIOUS
    <3> QED
      BY <3>1, FS_Interval
  <2>2. u \in [1 .. k -> R] /\ \A r \in R : \E q \in 1 .. k : u[q] = r
    BY <1>3, <1>4, <1>13, <1>15
  <2>3. u \in Surjection(1 .. k, R)
    BY <2>2 DEF Surjection
  <2> QED
    BY <2>1, <2>3, FS_Surjection
<1>18. Cardinality(R) > 1
  BY <1>12, <1>16, <1>17, MoreThanOne
<1> QED
  BY <1>1, <1>2, <1>14, <1>18

LEMMA RunDetected ==
    ASSUME RandomLimits, RandomInv
    PROVE  RepetitionDetected
<1>1. SUFFICES ASSUME ~error, NEW u, u = LastOf(stream, REPETITION_COUNT_CUTOFF),
                      Len(u) = REPETITION_COUNT_CUTOFF
               PROVE  Cardinality(Range(u)) > 1
  BY DEF RepetitionDetected
<1>2. PICK s, m, p : s = stream /\ m = monitor /\ p = position
  OBVIOUS
<1>3. s \in Seq(Samples) /\ m \in Monitor /\ Tracks(m, s, p)
  BY <1>1, <1>2 DEF RandomInv, RandomType, MonitorInv
<1>4. Len(LastOf(s, REPETITION_COUNT_CUTOFF)) = REPETITION_COUNT_CUTOFF
  BY <1>1, <1>2
<1>5. Cardinality(Range(LastOf(s, REPETITION_COUNT_CUTOFF))) > 1
  BY <1>3, <1>4, RunFound
<1> QED
  BY <1>1, <1>2, <1>5

LEMMA BiasDetected ==
    ASSUME RandomLimits, RandomInv
    PROVE  ProportionDetected
<1>1. PICK n : n = WindowLength(position)
  OBVIOUS
<1>2. PICK w : w = LastOf(stream, n)
  OBVIOUS
<1>3. SUFFICES ASSUME ~error, started
               PROVE  Cardinality({i \in DOMAIN w : w[i] = w[1]}) < ADAPTIVE_PROPORTION_CUTOFF
  BY <1>1, <1>2, Zenon DEF ProportionDetected, WindowLength
<1>4. WindowTracked(monitor, stream, position)
  BY <1>3 DEF RandomInv, MonitorInv, Tracks
<1>5. w = Window(stream, position)
  BY <1>1, <1>2 DEF Window
<1>6. Occurrences(w, w[1]) < ADAPTIVE_PROPORTION_CUTOFF
  BY <1>4, <1>5, Zenon DEF WindowTracked
<1> QED
  BY <1>6 DEF Occurrences

LEMMA TypeHolds ==
    ASSUME RandomLimits, RandomInv
    PROVE  RandomTypeOK
<1>1. \/ error
      \/ /\ monitor.repetitions < REPETITION_COUNT_CUTOFF
         /\ monitor.pos < ADAPTIVE_PROPORTION_WINDOW
  BY DEF RandomInv, MonitorInv, Tracks, RandomLimits
<1> QED
  BY <1>1, Zenon DEF RandomInv, RandomType, RandomTypeOK

(* observe finds both faults of SP 800-90B, with any cutoffs, window and   *)
(* number of threads: as long as the error flag is clear, the last         *)
(* REPETITION_COUNT_CUTOFF samples are not all the same, and the first     *)
(* sample of a window occurs in it fewer than ADAPTIVE_PROPORTION_CUTOFF   *)
(* times, whichever calls drew them.                                       *)
THEOREM FaultsAreDetected ==
    RandomSpec => []FaultsDetected
<1> USE LimitsHold
<1>1. RandomInv => FaultsDetected
  BY RunDetected, BiasDetected, TypeHolds DEF FaultsDetected
<1> QED
  BY <1>1, RandomInvariant, PTL
=============================================================================

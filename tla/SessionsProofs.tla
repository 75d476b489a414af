--------------------------- MODULE SessionsProofs ---------------------------
(***************************************************************************)
(* Proofs about Sessions: the session counts for any number of threads,    *)
(* and the logins as long as calls do not overlap.                         *)
(***************************************************************************)
EXTENDS Sessions, FiniteSetTheorems, WellFoundedInduction, TLAPS

-----------------------------------------------------------------------------
(* Types                                                                   *)

\* What a call has in hand: the handle of a session, and one of its own if it
\* is to be inserted.
PlaceOk(c, free) ==
    /\ c.pc \in {"open_insert", "close_finish", "use"} => c.h \in Handles
    /\ c.pc = "open_insert" => c.h \notin free

TypeInv == TypeOK /\ \A t \in Threads : PlaceOk(call[t], unused)

Moves(t, c) == call' = [call EXCEPT ![t] = c]

LEMMA TypeStep ==
    ASSUME TypeInv, NEW t \in Threads, NEW c \in Call, Moves(t, c), PlaceOk(c, unused'),
           sessions' \subseteq Handles, sess' \in [Handles -> Session],
           unused' \subseteq unused, unused' \cap sessions' = {},
           login' \in [Slots -> LoginState], count' \in [Slots -> 0 .. MaxSessions],
           rwCount' \in [Slots -> 0 .. MaxRwSessions], persistKey' \in Slots \cup {NoSlot}
    PROVE  TypeInv'
<1>1. call \in [Threads -> Call] /\ unused \subseteq Handles
  BY DEF TypeInv, TypeOK
<1>2. call' \in [Threads -> Call] /\ call'[t] = c /\ \A u \in Threads \ {t} : call'[u] = call[u]
  BY <1>1 DEF Moves
<1>3. TypeOK'
  BY <1>1, <1>2 DEF TypeOK, TypeInv
<1>4. \A u \in Threads : PlaceOk(call'[u], unused')
  BY <1>2 DEF TypeInv, PlaceOk
<1> QED
  BY <1>3, <1>4 DEF TypeInv

LEMMA AnySlotType == AnySlot \in Slots
BY SlotAssumption DEF AnySlot

LEMMA IdleType ==
    /\ Idle \in Call /\ Idle.pc = "idle" /\ Idle.slot = AnySlot /\ Idle.h = 0 /\ Idle.role = "Public"
    /\ Idle.cursor = 0 /\ Idle.todo = {} /\ Idle.done = {}
BY AnySlotType DEF Idle, Call, PC, LoginState

\* The calls that begin: what each of them puts into its locals.
Opened(p, s, rw) == [Idle EXCEPT !.pc = p, !.slot = s, !.rw = rw]

LEMMA StartOpen ==
    ASSUME NEW p \in PC, NEW s \in Slots, NEW rw \in BOOLEAN
    PROVE  \E c \in Call : /\ c = Opened(p, s, rw)
                          /\ c.pc = p /\ c.slot = s /\ c.rw = rw
<1>1. PICK i \in Call : i = Idle
  BY IdleType
<1>2. PICK c : c = [i EXCEPT !.pc = p, !.slot = s, !.rw = rw]
  OBVIOUS
<1>3. c \in Call /\ c.pc = p /\ c.slot = s /\ c.rw = rw
  BY <1>2 DEF Call
<1> QED
  BY <1>1, <1>2, <1>3 DEF Opened

OnSlot(p, s) == [Idle EXCEPT !.pc = p, !.slot = s]

LEMMA StartSlot ==
    ASSUME NEW p \in PC, NEW s \in Slots
    PROVE  \E c \in Call : /\ c = OnSlot(p, s)
                          /\ c.pc = p /\ c.slot = s /\ c.cursor = 0
<1>1. PICK i \in Call : i = Idle
  BY IdleType
<1>2. PICK c : c = [i EXCEPT !.pc = p, !.slot = s]
  OBVIOUS
<1>3. c \in Call /\ c.pc = p /\ c.slot = s /\ c.cursor = i.cursor
  BY <1>2 DEF Call
<1> QED
  BY <1>1, <1>2, <1>3, IdleType DEF OnSlot

LoggingIn(p, s, role) == [Idle EXCEPT !.pc = p, !.slot = s, !.role = role]

LEMMA StartLogin ==
    ASSUME NEW p \in PC, NEW s \in Slots, NEW role \in LoginState
    PROVE  \E c \in Call : /\ c = LoggingIn(p, s, role)
                          /\ c.pc = p /\ c.slot = s /\ c.role = role /\ c.cursor = 0 /\ c.todo = {}
<1>1. PICK i \in Call : i = Idle
  BY IdleType
<1>2. PICK c : c = [i EXCEPT !.pc = p, !.slot = s, !.role = role]
  OBVIOUS
<1>3. c \in Call /\ c.pc = p /\ c.slot = s /\ c.role = role /\ c.cursor = i.cursor /\ c.todo = i.todo
  BY <1>2 DEF Call
<1> QED
  BY <1>1, <1>2, <1>3, IdleType DEF LoggingIn

OnSession(p, h) == [Idle EXCEPT !.pc = p, !.h = h]

LEMMA StartSession ==
    ASSUME NEW p \in PC, NEW h \in Handles
    PROVE  \E c \in Call : /\ c = OnSession(p, h)
                          /\ c.pc = p /\ c.h = h
<1>1. PICK i \in Call : i = Idle
  BY IdleType
<1>2. PICK c : c = [i EXCEPT !.pc = p, !.h = h]
  OBVIOUS
<1>3. c \in Call /\ c.pc = p /\ c.h = h
  BY <1>2 DEF Call
<1> QED
  BY <1>1, <1>2, <1>3 DEF OnSession

LEMMA ReturnMoves ==
    ASSUME NEW t \in Threads, Return(t)
    PROVE  Moves(t, Idle)
BY DEF Return, Moves

LEMMA GotoMoves ==
    ASSUME TypeInv, NEW t \in Threads, NEW p \in PC, Goto(t, p)
    PROVE  \E c \in Call :
             /\ Moves(t, c) /\ c.pc = p /\ c.cursor = 0 /\ c.slot = call[t].slot
             /\ c.h = call[t].h /\ c.rw = call[t].rw /\ c.role = call[t].role
             /\ c.todo = call[t].todo /\ c.done = call[t].done
<1>1. PICK d \in Call : d = call[t]
  BY DEF TypeInv, TypeOK
<1>2. PICK c : c = [d EXCEPT !.pc = p, !.cursor = 0]
  OBVIOUS
<1>3. Moves(t, c)
  BY <1>1, <1>2 DEF Goto, Moves, TypeInv, TypeOK
<1>4. /\ c \in Call /\ c.pc = p /\ c.cursor = 0 /\ c.slot = d.slot
      /\ c.h = d.h /\ c.rw = d.rw /\ c.role = d.role /\ c.todo = d.todo /\ c.done = d.done
  BY <1>2 DEF Call
<1> QED
  BY <1>1, <1>3, <1>4

LEMMA AdvanceMoves ==
    ASSUME TypeInv, NEW t \in Threads, NEW h \in Handles, Advance(t, h)
    PROVE  \E c \in Call :
             /\ Moves(t, c) /\ c.pc = call[t].pc /\ c.cursor = h /\ c.slot = call[t].slot
             /\ c.h = call[t].h /\ c.rw = call[t].rw /\ c.role = call[t].role
             /\ c.todo = call[t].todo /\ c.done = call[t].done
<1>1. PICK d \in Call : d = call[t]
  BY DEF TypeInv, TypeOK
<1>2. PICK c : c = [d EXCEPT !.cursor = h]
  OBVIOUS
<1>3. Moves(t, c)
  BY <1>1, <1>2 DEF Advance, Moves, TypeInv, TypeOK
<1>4. /\ c \in Call /\ c.pc = d.pc /\ c.cursor = h /\ c.slot = d.slot
      /\ c.h = d.h /\ c.rw = d.rw /\ c.role = d.role /\ c.todo = d.todo /\ c.done = d.done
  BY <1>2 DEF Call
<1> QED
  BY <1>1, <1>3, <1>4

-----------------------------------------------------------------------------
(* Counting                                                                *)

\* The call holds a unit of the counter: w says which counter, the one of
\* read-write sessions or the one of all.
Flying == (Opening \ {"open_count"}) \cup {"close_finish"}

Takes(c, state, s, w) ==
    \/ c.pc \in Opening \ {"open_count"} /\ c.slot = s /\ (w => c.rw)
    \/ c.pc = "close_finish" /\ state[c.h].slot = s /\ (w => state[c.h].rw)

Counts(h, open, state, s, w) == h \in open /\ state[h].slot = s /\ (w => state[h].rw)

Counter(s, w) == IF w THEN rwCount[s] ELSE count[s]
Members(s, w) == {h \in Handles : Counts(h, sessions, sess, s, w)}
Flights(s, w) == {t \in Threads : Takes(call[t], sess, s, w)}

Exact ==
    \A s \in Slots, w \in BOOLEAN :
        Counter(s, w) = Cardinality(Members(s, w)) + Cardinality(Flights(s, w))

\* A session on its way in or out is in no map, and if it comes in, in no
\* other hand.
Moving == {"open_insert", "close_finish"}

HandsInv ==
    \A t \in Threads : call[t].pc \in Moving =>
        /\ call[t].h \notin sessions /\ call[t].h \notin unused
        /\ \A u \in Threads \ {t} :
             call[u].pc \in Moving /\ "open_insert" \in {call[t].pc, call[u].pc}
               => call[u].h # call[t].h

\* C_InitToken resets the counters: nobody is in it if it is not made.
Resetting == {"init_close", "init_clear", "init_token"}
MayReset(p) == p \in Resetting => "InitToken" \in Calls
NoReset == \A t \in Threads : MayReset(call[t].pc)

CountInv == HandsInv /\ NoReset /\ Exact

\* Two sets that differ in one element at most.
LEMMA CardChange ==
    ASSUME NEW S, NEW T, NEW x, IsFiniteSet(S), \A y : y # x => (y \in S <=> y \in T)
    PROVE  /\ Cardinality(S) \in Nat /\ Cardinality(T) \in Nat
           /\ (x \in S <=> x \in T) => Cardinality(T) = Cardinality(S)
           /\ x \notin S /\ x \in T => Cardinality(T) = Cardinality(S) + 1
           /\ x \in S /\ x \notin T => Cardinality(T) = Cardinality(S) - 1
           /\ x \in S => Cardinality(S) > 0
<1>0. Cardinality(S) \in Nat
  BY FS_CardinalityType
<1>1. CASE x \in S <=> x \in T
  <2>1. S = T
    BY <1>1
  <2>2. x \in S => Cardinality(S) # 0
    BY FS_EmptySet
  <2> QED
    BY <1>0, <1>1, <2>1, <2>2
<1>2. CASE x \notin S /\ x \in T
  <2>1. T = S \cup {x}
    BY <1>2
  <2>2. Cardinality(T) = Cardinality(S) + 1
    BY <1>2, <2>1, FS_AddElement
  <2> QED
    BY <1>0, <1>2, <2>2
<1>3. CASE x \in S /\ x \notin T
  <2>1. T = S \ {x}
    BY <1>3
  <2>2. Cardinality(T) = Cardinality(S) - 1
    BY <1>3, <2>1, FS_RemoveElement
  <2>3. Cardinality(S) # 0
    BY <1>3, FS_EmptySet
  <2> QED
    BY <1>0, <1>3, <2>2, <2>3
<1> QED
  BY <1>1, <1>2, <1>3

LEMMA FiniteParts ==
    ASSUME NEW s, NEW w
    PROVE  IsFiniteSet(Members(s, w)) /\ IsFiniteSet(Flights(s, w))
<1>1. IsFiniteSet(Handles)
  BY FS_Interval, BoundAssumption DEF Handles
<1> QED
  BY <1>1, FS_Subset, ThreadAssumption DEF Members, Flights

\* One session and one thread change: the counter has to follow them.
LEMMA ExactStep ==
    ASSUME Exact, NEW s \in Slots, NEW w \in BOOLEAN, NEW t, NEW h,
           \A u : u # t => (u \in Flights(s, w) <=> u \in Flights(s, w)'),
           \A g : g # h => (g \in Members(s, w) <=> g \in Members(s, w)')
    PROVE  /\ Cardinality(Members(s, w)') + Cardinality(Flights(s, w)') =
                Counter(s, w)
                + (IF t \in Flights(s, w)' THEN 1 ELSE 0) - (IF t \in Flights(s, w) THEN 1 ELSE 0)
                + (IF h \in Members(s, w)' THEN 1 ELSE 0) - (IF h \in Members(s, w) THEN 1 ELSE 0)
           /\ t \in Flights(s, w) \/ h \in Members(s, w) => Counter(s, w) > 0
<1>1. PICK M, F, N, G : /\ M = Members(s, w) /\ F = Flights(s, w)
                        /\ N = Members(s, w)' /\ G = Flights(s, w)'
  OBVIOUS
<1>2. IsFiniteSet(M) /\ IsFiniteSet(F)
  BY <1>1, FiniteParts
<1>3. Counter(s, w) = Cardinality(M) + Cardinality(F)
  BY <1>1 DEF Exact
<1>4. /\ Cardinality(F) \in Nat /\ Cardinality(G) \in Nat
      /\ (t \in F <=> t \in G) => Cardinality(G) = Cardinality(F)
      /\ t \notin F /\ t \in G => Cardinality(G) = Cardinality(F) + 1
      /\ t \in F /\ t \notin G => Cardinality(G) = Cardinality(F) - 1
      /\ t \in F => Cardinality(F) > 0
  BY <1>1, <1>2, CardChange
<1>5. /\ Cardinality(M) \in Nat /\ Cardinality(N) \in Nat
      /\ (h \in M <=> h \in N) => Cardinality(N) = Cardinality(M)
      /\ h \notin M /\ h \in N => Cardinality(N) = Cardinality(M) + 1
      /\ h \in M /\ h \notin N => Cardinality(N) = Cardinality(M) - 1
      /\ h \in M => Cardinality(M) > 0
  BY <1>1, <1>2, CardChange
<1> QED
  BY <1>1, <1>3, <1>4, <1>5

Same(g) == sess'[g].slot = sess[g].slot /\ sess'[g].rw = sess[g].rw

Unit(b) == IF b THEN 1 ELSE 0

\* A step of thread t, which leads to c and may open or close session h.
LEMMA CountStep ==
    ASSUME TypeInv, CountInv, NEW t \in Threads, NEW c \in Call, Moves(t, c), NEW h,
           MayReset(c.pc), sessions \subseteq Handles, sessions' \subseteq Handles,
           unused' \subseteq unused,
           \A g \in Handles : g # h => (g \in sessions' <=> g \in sessions) /\ Same(g),
           \A u \in Threads \ {t} : call[u].pc \in Moving =>
               call[u].h \notin sessions' /\ Same(call[u].h),
           c.pc \in Moving =>
               /\ c.h \notin sessions' /\ c.h \notin unused'
               /\ \A u \in Threads \ {t} :
                    call[u].pc \in Moving /\ "open_insert" \in {c.pc, call[u].pc} => call[u].h # c.h,
           \A s \in Slots, w \in BOOLEAN :
               (IF w THEN rwCount'[s] ELSE count'[s]) =
                  Counter(s, w)
                  + Unit(Takes(c, sess', s, w)) - Unit(Takes(call[t], sess, s, w))
                  + Unit(Counts(h, sessions', sess', s, w)) - Unit(Counts(h, sessions, sess, s, w))
    PROVE  CountInv'
<1>1. call'[t] = c /\ \A u \in Threads \ {t} : call'[u] = call[u]
  BY DEF Moves, TypeInv, TypeOK
<1>2. HandsInv'
  <2>1. ASSUME NEW u \in Threads, call'[u].pc \in Moving
        PROVE  /\ call'[u].h \notin sessions' /\ call'[u].h \notin unused'
               /\ \A v \in Threads \ {u} :
                    call'[v].pc \in Moving /\ "open_insert" \in {call'[u].pc, call'[v].pc}
                      => call'[v].h # call'[u].h
    BY <1>1, <2>1 DEF CountInv, HandsInv
  <2> QED
    BY <2>1 DEF HandsInv
<1>3. NoReset'
  BY <1>1 DEF CountInv, NoReset
<1>4. ASSUME NEW s \in Slots, NEW w \in BOOLEAN
      PROVE  Counter(s, w)' = Cardinality(Members(s, w)') + Cardinality(Flights(s, w)')
  <2>1. ASSUME NEW u, u # t PROVE u \in Flights(s, w) <=> u \in Flights(s, w)'
    BY <1>1, <2>1 DEF Flights, Takes, Same, Moving
  <2>2. ASSUME NEW g, g # h PROVE g \in Members(s, w) <=> g \in Members(s, w)'
    BY <2>2 DEF Members, Counts, Same
  <2>3. (t \in Flights(s, w) <=> Takes(call[t], sess, s, w)) /\ (t \in Flights(s, w)' <=> Takes(c, sess', s, w))
    BY <1>1 DEF Flights
  <2>4. /\ h \in Members(s, w) <=> Counts(h, sessions, sess, s, w)
        /\ h \in Members(s, w)' <=> Counts(h, sessions', sess', s, w)
    BY DEF Members, Counts
  <2>5. Cardinality(Members(s, w)') + Cardinality(Flights(s, w)') =
                Counter(s, w)
                + Unit(t \in Flights(s, w)') - Unit(t \in Flights(s, w))
                + Unit(h \in Members(s, w)') - Unit(h \in Members(s, w))
    BY <2>1, <2>2, ExactStep DEF CountInv, Unit
  <2>6. /\ Unit(t \in Flights(s, w)') = Unit(Takes(c, sess', s, w))
        /\ Unit(t \in Flights(s, w)) = Unit(Takes(call[t], sess, s, w))
        /\ Unit(h \in Members(s, w)') = Unit(Counts(h, sessions', sess', s, w))
        /\ Unit(h \in Members(s, w)) = Unit(Counts(h, sessions, sess, s, w))
    BY <2>3, <2>4 DEF Unit
  <2>7. Counter(s, w)' = IF w THEN rwCount'[s] ELSE count'[s]
    BY DEF Counter
  <2> QED
    BY <2>5, <2>6, <2>7
<1>5. Exact'
  BY <1>4 DEF Exact
<1> QED
  BY <1>2, <1>3, <1>5 DEF CountInv

-----------------------------------------------------------------------------
(* The steps that leave the counted sessions alone                         *)

Quiet(t) ==
    /\ call[t].pc \notin Flying
    /\ \E c \in Call :
         /\ Moves(t, c) /\ PlaceOk(c, unused) /\ c.pc \notin Flying
         /\ MayReset(call[t].pc) => MayReset(c.pc)
    /\ UNCHANGED <<sessions, unused, count, rwCount>>
    /\ sess' \in [Handles -> Session] /\ \A g \in Handles : Same(g)
    /\ login' \in [Slots -> LoginState] /\ persistKey' \in Slots \cup {NoSlot}

LEMMA QuietType ==
    ASSUME TypeInv, NEW t \in Threads, Quiet(t)
    PROVE  TypeInv'
<1>1. PICK c \in Call : Moves(t, c) /\ PlaceOk(c, unused)
  BY DEF Quiet
<1>2. UNCHANGED <<sessions, unused, count, rwCount>>
  BY DEF Quiet
<1>3. /\ sessions' \subseteq Handles /\ unused' \subseteq unused /\ unused' \cap sessions' = {}
      /\ count' \in [Slots -> 0 .. MaxSessions] /\ rwCount' \in [Slots -> 0 .. MaxRwSessions]
  BY <1>2 DEF TypeInv, TypeOK
<1>4. PlaceOk(c, unused')
  BY <1>1, <1>2
<1>5. /\ sess' \in [Handles -> Session]
      /\ login' \in [Slots -> LoginState] /\ persistKey' \in Slots \cup {NoSlot}
  BY DEF Quiet
<1> QED
  BY <1>1, <1>3, <1>4, <1>5, TypeStep

LEMMA QuietCounts ==
    ASSUME TypeInv, CountInv, NEW t \in Threads, Quiet(t)
    PROVE  CountInv'
<1>1. PICK c \in Call : /\ Moves(t, c) /\ c.pc \notin Flying
                        /\ MayReset(call[t].pc) => MayReset(c.pc)
  BY DEF Quiet
<1>2. /\ UNCHANGED <<sessions, unused, count, rwCount>> /\ \A g \in Handles : Same(g)
      /\ call[t].pc \notin Flying
  BY DEF Quiet
<1>3. MayReset(c.pc) /\ c.pc \notin Moving
  BY <1>1 DEF CountInv, NoReset, Moving, Flying, Opening
<1>4. sessions \subseteq Handles /\ sessions' \subseteq Handles /\ unused' \subseteq unused
  BY <1>2 DEF TypeInv, TypeOK
<1>5. \A g \in Handles : g # 0 => (g \in sessions' <=> g \in sessions) /\ Same(g)
  BY <1>2
<1>6. \A u \in Threads \ {t} : call[u].pc \in Moving => call[u].h \notin sessions' /\ Same(call[u].h)
  BY <1>2 DEF CountInv, HandsInv, TypeInv, PlaceOk, Moving
<1>7. c.pc \in Moving =>
        /\ c.h \notin sessions' /\ c.h \notin unused'
        /\ \A u \in Threads \ {t} :
             call[u].pc \in Moving /\ "open_insert" \in {c.pc, call[u].pc} => call[u].h # c.h
  BY <1>3
<1>8. ASSUME NEW s \in Slots, NEW w \in BOOLEAN
      PROVE  (IF w THEN rwCount'[s] ELSE count'[s]) =
                Counter(s, w)
                + Unit(Takes(c, sess', s, w)) - Unit(Takes(call[t], sess, s, w))
                + Unit(Counts(0, sessions', sess', s, w)) - Unit(Counts(0, sessions, sess, s, w))
  <2>1. ~Takes(c, sess', s, w) /\ ~Takes(call[t], sess, s, w)
    BY <1>1, <1>2 DEF Takes, Flying
  <2>2. ~Counts(0, sessions', sess', s, w) /\ ~Counts(0, sessions, sess, s, w)
    BY <1>4, BoundAssumption DEF Counts, Handles
  <2>3. Counter(s, w) \in Nat /\ (IF w THEN rwCount'[s] ELSE count'[s]) = Counter(s, w)
    BY <1>2, BoundAssumption DEF Counter, TypeInv, TypeOK
  <2>4. /\ Unit(Takes(c, sess', s, w)) = 0 /\ Unit(Takes(call[t], sess, s, w)) = 0
        /\ Unit(Counts(0, sessions', sess', s, w)) = 0 /\ Unit(Counts(0, sessions, sess, s, w)) = 0
    BY <2>1, <2>2 DEF Unit
  <2> QED
    BY <2>3, <2>4
<1> QED
  BY <1>1, <1>3, <1>4, <1>5, <1>6, <1>7, <1>8, CountStep

\* Places that hold nothing: neither a unit of a counter nor a handle.
Free == PC \ (Flying \cup Resetting \cup {"use"})

LEMMA QuietMove ==
    ASSUME TypeInv, NEW t \in Threads, call[t].pc \notin Flying,
           NEW c \in Call, Moves(t, c), c.pc \in Free,
           UNCHANGED <<sessions, sess, unused, count, rwCount>>,
           login' \in [Slots -> LoginState], persistKey' \in Slots \cup {NoSlot}
    PROVE  Quiet(t)
<1>1. PlaceOk(c, unused) /\ c.pc \notin Flying /\ MayReset(c.pc)
  BY DEF PlaceOk, Free, Flying, Opening, MayReset
<1>2. sess' \in [Handles -> Session] /\ \A g \in Handles : Same(g)
  BY DEF TypeInv, TypeOK, Same
<1> QED
  BY <1>1, <1>2 DEF Quiet

LEMMA TypeFacts ==
    ASSUME TypeInv
    PROVE  /\ sessions \subseteq Handles /\ unused \subseteq Handles \ sessions
           /\ sess \in [Handles -> Session] /\ login \in [Slots -> LoginState]
           /\ persistKey \in Slots \cup {NoSlot} /\ call \in [Threads -> Call]
           /\ count \in [Slots -> 0 .. MaxSessions] /\ rwCount \in [Slots -> 0 .. MaxRwSessions]
BY DEF TypeInv, TypeOK

\* A call that returns, or goes on, without touching a session.
LEMMA QuietReturn ==
    ASSUME TypeInv, NEW t \in Threads, call[t].pc \notin Flying, Return(t),
           UNCHANGED <<sessions, sess, unused, count, rwCount>>,
           login' \in [Slots -> LoginState], persistKey' \in Slots \cup {NoSlot}
    PROVE  Quiet(t)
<1>1. Idle \in Call /\ Idle.pc \in Free /\ Moves(t, Idle)
  BY IdleType, ReturnMoves DEF Free, PC, Flying, Opening, Resetting
<1> QED
  BY <1>1, QuietMove

LEMMA QuietGoto ==
    ASSUME TypeInv, NEW t \in Threads, call[t].pc \notin Flying, NEW p \in Free, Goto(t, p),
           UNCHANGED <<sessions, sess, unused, count, rwCount>>,
           login' \in [Slots -> LoginState], persistKey' \in Slots \cup {NoSlot}
    PROVE  Quiet(t)
<1>1. p \in PC
  BY DEF Free
<1>2. PICK c \in Call : Moves(t, c) /\ c.pc = p
  BY <1>1, GotoMoves
<1> QED
  BY <1>2, QuietMove

LEMMA QuietAdvance ==
    ASSUME TypeInv, NEW t \in Threads, call[t].pc \in Free, NEW h \in Handles, Advance(t, h),
           UNCHANGED <<sessions, sess, unused, count, rwCount, login, persistKey>>
    PROVE  Quiet(t)
<1>1. PICK c \in Call : Moves(t, c) /\ c.pc = call[t].pc
  BY AdvanceMoves
<1>2. call[t].pc \notin Flying
  BY DEF Free
<1> QED
  BY <1>1, <1>2, QuietMove, TypeFacts

LEMMA QuietStarts ==
    ASSUME TypeInv, NEW t \in Threads,
           \/ \E s \in Slots : \/ \E rw \in BOOLEAN : open_session(t, s, rw)
                               \/ C_CloseAllSessions(t, s)
                               \/ C_InitToken(t, s)
           \/ \E h \in sessions : \/ \E role \in {"USER", "SO"} : C_Login(t, h, role)
                                  \/ C_Logout(t, h)
                                  \/ get_session(t, h)
    PROVE  Quiet(t)
<1> USE DEF Begin, At
<1>1. ASSUME NEW s \in Slots, NEW rw \in BOOLEAN, open_session(t, s, rw)
      PROVE  Quiet(t)
  <2>1. "open_count" \in Free /\ "open_count" \in PC /\ "idle" \notin Flying
    BY DEF Free, PC, Opening, Flying, Resetting
  <2>2. PICK c \in Call : c = Opened("open_count", s, rw) /\ c.pc = "open_count"
    BY <2>1, StartOpen
  <2>3. Moves(t, c) /\ call[t].pc = "idle"
    BY <1>1, <2>2, Zenon DEF open_session, Moves, Opened
  <2>4. UNCHANGED <<sessions, sess, unused, login, count, rwCount, persistKey>>
    BY <1>1 DEF open_session
  <2> QED
    BY <2>1, <2>2, <2>3, <2>4, QuietMove, TypeFacts
<1>2. ASSUME NEW s \in Slots, C_CloseAllSessions(t, s)
      PROVE  Quiet(t)
  <2>1. "close_all" \in Free /\ "close_all" \in PC /\ "idle" \notin Flying
    BY DEF Free, PC, Opening, Iterating, Flying, Resetting
  <2>2. PICK c \in Call : c = OnSlot("close_all", s) /\ c.pc = "close_all"
    BY <2>1, StartSlot
  <2>3. Moves(t, c) /\ call[t].pc = "idle"
    BY <1>2, <2>2, Zenon DEF C_CloseAllSessions, Moves, OnSlot
  <2>4. UNCHANGED <<sessions, sess, unused, login, count, rwCount, persistKey>>
    BY <1>2 DEF C_CloseAllSessions
  <2> QED
    BY <2>1, <2>2, <2>3, <2>4, QuietMove, TypeFacts
<1>3. ASSUME NEW s \in Slots, C_InitToken(t, s)
      PROVE  Quiet(t)
  <2>1. "init_close" \in PC /\ "idle" \notin Flying
    BY DEF PC, Opening, Iterating, Flying
  <2>2. PICK c \in Call : c = OnSlot("init_close", s) /\ c.pc = "init_close"
    BY <2>1, StartSlot
  <2>3. Moves(t, c) /\ call[t].pc = "idle"
    BY <1>3, <2>2, Zenon DEF C_InitToken, Moves, OnSlot
  <2>4. UNCHANGED <<sessions, sess, unused, login, count, rwCount, persistKey>> /\ "InitToken" \in Calls
    BY <1>3 DEF C_InitToken
  <2>5. PlaceOk(c, unused) /\ c.pc \notin Flying /\ MayReset(c.pc)
    BY <2>2, <2>4 DEF PlaceOk, Flying, Opening, MayReset
  <2>6. sess' \in [Handles -> Session] /\ \A g \in Handles : Same(g)
    BY <2>4 DEF TypeInv, TypeOK, Same
  <2> QED
    BY <2>1, <2>2, <2>3, <2>4, <2>5, <2>6, TypeFacts DEF Quiet
<1>4. ASSUME NEW h \in sessions, NEW role \in {"USER", "SO"}, C_Login(t, h, role)
      PROVE  Quiet(t)
  <2>0. PICK p : p = (IF role = "SO" THEN "login_ro" ELSE "login_token")
    OBVIOUS
  <2>1. p \in Free /\ p \in PC /\ "idle" \notin Flying /\ sess[h].slot \in Slots /\ role \in LoginState
    BY <2>0, TypeFacts DEF Free, PC, Opening, Iterating, Flying, Resetting, LoginState, Session
  <2>2. PICK c \in Call : c = LoggingIn(p, sess[h].slot, role) /\ c.pc = p
    BY <2>1, StartLogin
  <2>3. Moves(t, c) /\ call[t].pc = "idle"
    BY <1>4, <2>0, <2>2, Zenon DEF C_Login, Moves, LoggingIn
  <2>4. UNCHANGED <<sessions, sess, unused, login, count, rwCount, persistKey>>
    BY <1>4 DEF C_Login
  <2> QED
    BY <2>1, <2>2, <2>3, <2>4, QuietMove, TypeFacts
<1>5. ASSUME NEW h \in sessions, C_Logout(t, h)
      PROVE  Quiet(t)
  <2>1. /\ "logout_cancel" \in Free /\ "logout_cancel" \in PC /\ "idle" \notin Flying
        /\ sess[h].slot \in Slots
    BY TypeFacts DEF Free, PC, Opening, Iterating, Flying, Resetting, Session
  <2>2. PICK c \in Call : /\ c = OnSlot("logout_cancel", sess[h].slot)
                          /\ c.pc = "logout_cancel"
    BY <2>1, StartSlot
  <2>3. Moves(t, c) /\ call[t].pc = "idle"
    BY <1>5, <2>2, Zenon DEF C_Logout, Moves, OnSlot
  <2>4. UNCHANGED <<sessions, sess, unused, count, rwCount, persistKey>> /\ login' \in [Slots -> LoginState]
    BY <1>5, TypeFacts DEF C_Logout, LoginState
  <2> QED
    BY <2>1, <2>2, <2>3, <2>4, QuietMove, TypeFacts
<1>6. ASSUME NEW h \in sessions, get_session(t, h)
      PROVE  Quiet(t)
  <2>1. "use" \in PC /\ "idle" \notin Flying /\ h \in Handles
    BY TypeFacts DEF PC, Opening, Flying
  <2>2. PICK c \in Call : c = OnSession("use", h) /\ c.pc = "use" /\ c.h = h
    BY <2>1, StartSession
  <2>3. Moves(t, c) /\ call[t].pc = "idle"
    BY <1>6, <2>2, Zenon DEF get_session, Moves, OnSession
  <2>4. UNCHANGED <<sessions, sess, unused, login, count, rwCount, persistKey>>
    BY <1>6 DEF get_session
  <2>5. PlaceOk(c, unused) /\ c.pc \notin Flying /\ MayReset(c.pc)
    BY <2>1, <2>2 DEF PlaceOk, Flying, Opening, Resetting, MayReset
  <2>6. sess' \in [Handles -> Session] /\ \A g \in Handles : Same(g)
    BY <2>4 DEF TypeInv, TypeOK, Same
  <2> QED
    BY <2>1, <2>2, <2>3, <2>4, <2>5, <2>6, TypeFacts DEF Quiet
<1> QED
  BY <1>1, <1>2, <1>3, <1>4, <1>5, <1>6

LEMMA QuietSteps ==
    ASSUME TypeInv, NEW t \in Threads,
           \/ close_all_done(t) \/ init_closed(t) \/ init_clear(t)
           \/ has_ro_sessions(t) \/ login_token(t) \/ login_all_done(t) \/ login_key(t)
           \/ logout_key(t)
    PROVE  Quiet(t)
<1> USE DEF At, AtEnd
<1>0. /\ {"close_all", "init_close", "init_clear", "login_ro", "login_token", "login_apply",
          "login_rollback", "login_key", "logout_key"} \cap Flying = {}
      /\ {"login_ro", "login_token", "login_collect", "login_apply", "login_rollback", "login_key",
          "logout_key"} \subseteq Free
  BY DEF Flying, Opening, Free, PC, Iterating, Resetting
<1>1. CASE close_all_done(t)
  BY <1>0, <1>1, QuietReturn, TypeFacts DEF close_all_done
<1>2. CASE init_closed(t) \/ init_clear(t)
  <2>1. PICK p \in {"init_clear", "init_token"} : Goto(t, p)
    BY <1>2 DEF init_closed, init_clear
  <2>2. p \in PC /\ p \notin Flying
    BY <2>1 DEF PC, Flying, Opening
  <2>3. PICK c \in Call : Moves(t, c) /\ c.pc = p
    BY <2>1, <2>2, GotoMoves
  <2>4. PlaceOk(c, unused) /\ c.pc \notin Flying
    BY <2>1, <2>2, <2>3 DEF PlaceOk
  <2>5. (MayReset(call[t].pc) => MayReset(c.pc)) /\ call[t].pc \notin Flying
    BY <1>0, <1>2 DEF init_closed, init_clear, Resetting, MayReset
  <2>6. UNCHANGED <<sessions, sess, unused, login, count, rwCount>> /\ persistKey' \in {persistKey, NoSlot}
    BY <1>2 DEF init_closed, init_clear
  <2>7. sess' \in [Handles -> Session] /\ \A g \in Handles : Same(g)
    BY <2>6 DEF TypeInv, TypeOK, Same
  <2> QED
    BY <2>3, <2>4, <2>5, <2>6, <2>7, TypeFacts DEF Quiet
<1>3. CASE has_ro_sessions(t)
  <2>1. UNCHANGED <<sessions, sess, unused, login, count, rwCount, persistKey>> /\ call[t].pc = "login_ro"
    BY <1>3 DEF has_ro_sessions, Visiting
  <2>2. CASE Goto(t, "login_token")
    BY <1>0, <2>1, <2>2, QuietGoto, TypeFacts
  <2>3. CASE Return(t)
    BY <1>0, <2>1, <2>3, QuietReturn, TypeFacts
  <2>4. ASSUME NEW h \in sessions, Advance(t, h) PROVE Quiet(t)
    BY <1>0, <2>1, <2>4, QuietAdvance, TypeFacts
  <2> QED
    BY <1>3, <2>2, <2>3, <2>4 DEF has_ro_sessions
<1>4. CASE login_token(t)
  <2>1. /\ UNCHANGED <<sessions, sess, unused, count, rwCount, persistKey>> /\ call[t].pc = "login_token"
        /\ Goto(t, "login_collect") \/ Return(t)
    BY <1>4 DEF login_token
  <2>2. call[t].role \in LoginState
    BY TypeFacts DEF Call
  <2>3. login' \in [Slots -> LoginState]
    BY <1>4, <2>2, TypeFacts DEF login_token
  <2> QED
    BY <1>0, <2>1, <2>3, QuietGoto, QuietReturn, TypeFacts
<1>5. CASE login_all_done(t)
  <2>1. /\ UNCHANGED <<sessions, sess, unused, login, count, rwCount, persistKey>> /\ Goto(t, "login_key")
        /\ call[t].pc \in {"login_apply", "login_rollback"}
    BY <1>5 DEF login_all_done
  <2> QED
    BY <1>0, <2>1, QuietGoto, TypeFacts
<1>6. CASE login_key(t)
  <2>1. /\ UNCHANGED <<sessions, sess, unused, login, count, rwCount>> /\ Return(t) /\ call[t].pc = "login_key"
        /\ persistKey' \in {persistKey, call[t].slot}
    BY <1>6 DEF login_key
  <2>2. call[t].slot \in Slots
    BY TypeFacts DEF Call
  <2> QED
    BY <1>0, <2>1, <2>2, QuietReturn, TypeFacts
<1>7. CASE logout_key(t)
  <2>1. /\ UNCHANGED <<sessions, sess, unused, login, count, rwCount>> /\ Return(t) /\ call[t].pc = "logout_key"
        /\ persistKey' = NoSlot
    BY <1>7 DEF logout_key, clear_persist_key
  <2> QED
    BY <1>0, <2>1, QuietReturn, TypeFacts
<1> QED
  BY <1>1, <1>2, <1>3, <1>4, <1>5, <1>6, <1>7

\* The steps that change a session, but neither its slot nor its mode.
LEMMA SessionsChange ==
    ASSUME TypeInv, NEW t \in Threads, call[t].pc \notin Flying,
           NEW c \in Call, Moves(t, c), c.pc \in Free,
           NEW h \in Handles, NEW r \in Session,
           r.slot = sess[h].slot, r.rw = sess[h].rw,
           sess' = [sess EXCEPT ![h] = r],
           UNCHANGED <<sessions, unused, count, rwCount, login, persistKey>>
    PROVE  Quiet(t)
<1>1. PlaceOk(c, unused) /\ c.pc \notin Flying /\ MayReset(c.pc)
  BY DEF PlaceOk, Free, Flying, Opening, MayReset
<1>2. sess' \in [Handles -> Session] /\ \A g \in Handles : Same(g)
  BY TypeFacts DEF Same
<1> QED
  BY <1>1, <1>2, TypeFacts DEF Quiet

LEMMA QuietLogins ==
    ASSUME TypeInv, NEW t \in Threads,
           login_collect(t) \/ login_apply(t) \/ login_rollback(t)
           \/ cancel_sessions_for_slot(t) \/ use_session(t)
    PROVE  Quiet(t)
<1> USE DEF At, AtEnd
<1>0. /\ {"login_collect", "login_apply", "login_rollback", "logout_cancel", "use"} \cap Flying = {}
      /\ {"login_collect", "login_apply", "login_rollback", "logout_cancel", "logout_key", "idle"}
           \subseteq Free
  BY DEF Flying, Opening, Free, PC, Iterating, Resetting
<1>a. PICK d \in Call : d = call[t]
  BY TypeFacts
<1>1. CASE login_collect(t)
  <2>1. UNCHANGED <<sessions, sess, unused, login, count, rwCount, persistKey>> /\ d.pc = "login_collect"
    BY <1>1, <1>a DEF login_collect, Visiting
  <2>2. CASE Goto(t, "login_apply")
    BY <1>0, <1>a, <2>1, <2>2, QuietGoto, TypeFacts
  <2>3. ASSUME NEW h \in sessions,
               call' = [call EXCEPT ![t].cursor = h,
                          ![t].todo = IF sess[h].slot = call[t].slot THEN @ \cup {h} ELSE @]
        PROVE  Quiet(t)
    <3>1. PICK todo \in SUBSET Handles :
            todo = IF sess[h].slot = call[t].slot THEN d.todo \cup {h} ELSE d.todo
      BY TypeFacts DEF Call
    <3>2. PICK c : c = [d EXCEPT !.cursor = h, !.todo = todo]
      OBVIOUS
    <3>3. c \in Call /\ c.pc = d.pc
      BY <3>2, TypeFacts DEF Call
    <3>4. Moves(t, c)
      BY <1>a, <2>3, <3>1, <3>2, TypeFacts DEF Moves
    <3> QED
      BY <1>0, <1>a, <2>1, <3>3, <3>4, QuietMove, TypeFacts
  <2> QED
    BY <1>1, <2>2, <2>3 DEF login_collect
<1>2. CASE login_apply(t)
  <2>1. UNCHANGED <<sessions, unused, login, count, rwCount, persistKey>> /\ d.pc = "login_apply"
    BY <1>2, <1>a DEF login_apply
  <2>2. CASE Goto(t, "login_rollback") /\ UNCHANGED sess
    BY <1>0, <1>a, <2>1, <2>2, QuietGoto, TypeFacts
  <2>3. ASSUME NEW h, NEW found \in BOOLEAN, found => h \in sessions,
               call' = [call EXCEPT ![t].todo = @ \ {h}, ![t].done = IF found THEN @ \cup {h} ELSE @],
               sess' = IF found THEN [sess EXCEPT ![h].role = call[t].role] ELSE sess
        PROVE  Quiet(t)
    <3>1. PICK done \in SUBSET Handles : done = IF found THEN d.done \cup {h} ELSE d.done
      BY <2>3, TypeFacts DEF Call
    <3>2. PICK c : c = [d EXCEPT !.todo = d.todo \ {h}, !.done = done]
      OBVIOUS
    <3>3. c \in Call /\ c.pc = d.pc
      BY <3>2, TypeFacts DEF Call
    <3>4. Moves(t, c)
      BY <1>a, <2>3, <3>1, <3>2, TypeFacts DEF Moves
    <3>5. CASE found
      <4>1. PICK e \in Session : e = sess[h] /\ h \in Handles
        BY <2>3, <3>5, TypeFacts
      <4>2. PICK r : r = [e EXCEPT !.role = d.role]
        OBVIOUS
      <4>3. r \in Session /\ r.slot = e.slot /\ r.rw = e.rw
        BY <4>2 DEF Session, Call
      <4>4. sess' = [sess EXCEPT ![h] = r]
        BY <1>a, <2>3, <3>5, <4>1, <4>2, TypeFacts
      <4> QED
        BY <1>0, <1>a, <2>1, <3>3, <3>4, <4>1, <4>3, <4>4, SessionsChange
    <3>6. CASE ~found
      BY <1>0, <1>a, <2>1, <2>3, <3>3, <3>4, <3>6, QuietMove, TypeFacts
    <3> QED
      BY <3>5, <3>6
  <2> QED
    BY <1>2, <2>2, <2>3 DEF login_apply
<1>3. CASE login_rollback(t)
  <2>1. UNCHANGED <<sessions, unused, login, count, rwCount, persistKey>> /\ d.pc = "login_rollback"
    BY <1>3, <1>a DEF login_rollback
  <2>2. PICK h : /\ call' = [call EXCEPT ![t].done = @ \ {h}]
                 /\ sess' = IF h \in sessions THEN [sess EXCEPT ![h] = LoggedOut(@)] ELSE sess
    BY <1>3 DEF login_rollback
  <2>3. PICK c : c = [d EXCEPT !.done = d.done \ {h}]
    OBVIOUS
  <2>4. c \in Call /\ c.pc = d.pc
    BY <2>3 DEF Call
  <2>5. Moves(t, c)
    BY <1>a, <2>2, <2>3, TypeFacts DEF Moves
  <2>6. CASE h \in sessions
    <3>1. PICK e \in Session : e = sess[h] /\ h \in Handles
      BY <2>6, TypeFacts
    <3>2. PICK r : r = LoggedOut(e)
      OBVIOUS
    <3>3. r \in Session /\ r.slot = e.slot /\ r.rw = e.rw
      BY <3>2 DEF Session, LoggedOut, LoginState
    <3>4. sess' = [sess EXCEPT ![h] = r]
      BY <2>2, <2>6, <3>1, <3>2, TypeFacts
    <3> QED
      BY <1>0, <1>a, <2>1, <2>4, <2>5, <3>1, <3>3, <3>4, SessionsChange
  <2>7. CASE h \notin sessions
    BY <1>0, <1>a, <2>1, <2>2, <2>4, <2>5, <2>7, QuietMove, TypeFacts
  <2> QED
    BY <2>6, <2>7
<1>4. CASE cancel_sessions_for_slot(t)
  <2>1. UNCHANGED <<sessions, unused, login, count, rwCount, persistKey>> /\ d.pc = "logout_cancel"
    BY <1>4, <1>a DEF cancel_sessions_for_slot, Visiting
  <2>2. CASE Goto(t, "logout_key") /\ UNCHANGED sess
    BY <1>0, <1>a, <2>1, <2>2, QuietGoto, TypeFacts
  <2>3. ASSUME NEW h \in sessions, Advance(t, h),
               sess' = IF sess[h].slot = call[t].slot THEN [sess EXCEPT ![h] = Cancelled(@)] ELSE sess
        PROVE  Quiet(t)
    <3>1. PICK c \in Call : Moves(t, c) /\ c.pc = call[t].pc
      BY <2>3, AdvanceMoves, TypeFacts
    <3>2. PICK e \in Session : e = sess[h] /\ h \in Handles
      BY TypeFacts
    <3>3. PICK r : r = Cancelled(e)
      OBVIOUS
    <3>4. r \in Session /\ r.slot = e.slot /\ r.rw = e.rw
      BY <3>3 DEF Session, Cancelled, LoginState
    <3>5. CASE sess[h].slot = call[t].slot
      <4>1. sess' = [sess EXCEPT ![h] = r]
        BY <2>3, <3>2, <3>3, <3>5, TypeFacts
      <4> QED
        BY <1>0, <1>a, <2>1, <3>1, <3>2, <3>4, <4>1, SessionsChange
    <3>6. CASE sess[h].slot # call[t].slot
      BY <1>0, <1>a, <2>1, <2>3, <3>1, <3>6, QuietMove, TypeFacts
    <3> QED
      BY <3>5, <3>6
  <2> QED
    BY <1>4, <2>2, <2>3 DEF cancel_sessions_for_slot
<1>5. CASE use_session(t)
  <2>1. UNCHANGED <<sessions, unused, login, count, rwCount, persistKey>> /\ d.pc = "use" /\ Return(t)
    BY <1>5, <1>a DEF use_session
  <2>2. PICK h \in Handles : h = d.h
    BY <1>a, <2>1 DEF TypeInv, PlaceOk
  <2>3. PICK e \in Session : e = sess[h]
    BY TypeFacts
  <2>4. PICK b \in BOOLEAN : sess' = [sess EXCEPT ![h].op = b]
    BY <1>5, <1>a, <2>2 DEF use_session
  <2>5. PICK r : r = [e EXCEPT !.op = b]
    OBVIOUS
  <2>6. r \in Session /\ r.slot = e.slot /\ r.rw = e.rw
    BY <2>5 DEF Session
  <2>7. sess' = [sess EXCEPT ![h] = r]
    BY <2>3, <2>4, <2>5, TypeFacts
  <2> QED
    BY <1>0, <1>a, <2>1, <2>3, <2>6, <2>7, SessionsChange, ReturnMoves, IdleType
<1> QED
  BY <1>1, <1>2, <1>3, <1>4, <1>5

-----------------------------------------------------------------------------
(* The steps that count                                                    *)

LEMMA HeldPositive ==
    ASSUME Exact, NEW s \in Slots, NEW w \in BOOLEAN,
           Flights(s, w) # {} \/ Members(s, w) # {}
    PROVE  Counter(s, w) > 0
<1>1. PICK M, F : M = Members(s, w) /\ F = Flights(s, w)
  OBVIOUS
<1>2. IsFiniteSet(M) /\ IsFiniteSet(F)
  BY <1>1, FiniteParts
<1>3. Cardinality(M) \in Nat /\ Cardinality(F) \in Nat
  BY <1>2, FS_CardinalityType
<1>4. (M # {} => Cardinality(M) # 0) /\ (F # {} => Cardinality(F) # 0)
  BY <1>2, FS_EmptySet
<1>5. Counter(s, w) = Cardinality(M) + Cardinality(F)
  BY <1>1 DEF Exact
<1> QED
  BY <1>1, <1>3, <1>4, <1>5

\* There are units to return for a session of slot s and mode rw.
Held(s, rw) == Counter(s, FALSE) > 0 /\ (rw => Counter(s, TRUE) > 0)

LEMMA HeldUnits ==
    ASSUME CountInv, NEW s \in Slots, NEW rw \in BOOLEAN,
           \/ \E t : t \in Flights(s, FALSE) /\ (rw => t \in Flights(s, TRUE))
           \/ \E h : h \in Members(s, FALSE) /\ (rw => h \in Members(s, TRUE))
    PROVE  Held(s, rw)
<1>1. Flights(s, FALSE) # {} \/ Members(s, FALSE) # {}
  OBVIOUS
<1>2. rw => Flights(s, TRUE) # {} \/ Members(s, TRUE) # {}
  OBVIOUS
<1>3. ASSUME NEW w \in BOOLEAN, Flights(s, w) # {} \/ Members(s, w) # {}
      PROVE  Counter(s, w) > 0
  BY <1>3, HeldPositive DEF CountInv
<1>4. Counter(s, FALSE) > 0
  BY <1>1, <1>3
<1>5. rw => Counter(s, TRUE) > 0
  BY <1>2, <1>3
<1> QED
  BY <1>4, <1>5 DEF Held

\* The unit of a session of slot s and mode rw in the counter w of slot x.
Unit1(x, w, s, rw) == Unit(x = s /\ (w => rw))

LEMMA DecrementType ==
    ASSUME TypeInv, NEW s \in Slots, NEW rw \in BOOLEAN, decrement_session_count(s, rw)
    PROVE  count' \in [Slots -> 0 .. MaxSessions] /\ rwCount' \in [Slots -> 0 .. MaxRwSessions]
BY TypeFacts, BoundAssumption DEF decrement_session_count

LEMMA DecrementCounts ==
    ASSUME TypeInv, NEW s \in Slots, NEW rw \in BOOLEAN, decrement_session_count(s, rw),
           Held(s, rw),
           NEW x \in Slots, NEW w \in BOOLEAN
    PROVE  (IF w THEN rwCount'[x] ELSE count'[x]) = Counter(x, w) - Unit1(x, w, s, rw)
<1>1. count[s] > 0 /\ (rw => rwCount[s] > 0)
  BY DEF Held, Counter
<1>2. count[s] \in Nat /\ rwCount[s] \in Nat /\ count[x] \in Nat /\ rwCount[x] \in Nat
  BY TypeFacts, BoundAssumption
<1>3. count' = [count EXCEPT ![s] = @ - 1]
  BY <1>1, <1>2 DEF decrement_session_count
<1>4. rwCount' = IF rw THEN [rwCount EXCEPT ![s] = @ - 1] ELSE rwCount
  BY <1>1, <1>2 DEF decrement_session_count
<1>5. CASE w
  <2>1. Counter(x, w) = rwCount[x] /\ Unit1(x, w, s, rw) = IF x = s /\ rw THEN 1 ELSE 0
    BY <1>5 DEF Counter, Unit1, Unit
  <2>2. rwCount'[x] = rwCount[x] - (IF x = s /\ rw THEN 1 ELSE 0)
    BY <1>2, <1>4, TypeFacts
  <2> QED
    BY <1>5, <2>1, <2>2
<1>6. CASE ~w
  <2>1. Counter(x, w) = count[x] /\ Unit1(x, w, s, rw) = IF x = s THEN 1 ELSE 0
    BY <1>6 DEF Counter, Unit1, Unit
  <2>2. count'[x] = count[x] - (IF x = s THEN 1 ELSE 0)
    BY <1>2, <1>3, TypeFacts
  <2> QED
    BY <1>6, <2>1, <2>2
<1> QED
  BY <1>5, <1>6

LEMMA IncrementCounts ==
    ASSUME TypeInv, NEW s \in Slots, NEW rw \in BOOLEAN, BelowLimits(s, rw),
           count' = [count EXCEPT ![s] = @ + 1],
           rwCount' = IF rw THEN [rwCount EXCEPT ![s] = @ + 1] ELSE rwCount
    PROVE  /\ count' \in [Slots -> 0 .. MaxSessions] /\ rwCount' \in [Slots -> 0 .. MaxRwSessions]
           /\ \A x \in Slots, w \in BOOLEAN :
                (IF w THEN rwCount'[x] ELSE count'[x]) = Counter(x, w) + Unit1(x, w, s, rw)
<1>1. count' \in [Slots -> 0 .. MaxSessions]
  BY TypeFacts, BoundAssumption DEF BelowLimits
<1>2. rwCount' \in [Slots -> 0 .. MaxRwSessions]
  BY TypeFacts, BoundAssumption DEF BelowLimits
<1>3. ASSUME NEW x \in Slots, NEW w \in BOOLEAN
      PROVE  (IF w THEN rwCount'[x] ELSE count'[x]) = Counter(x, w) + Unit1(x, w, s, rw)
  <2>0. count[x] \in Nat /\ rwCount[x] \in Nat
    BY TypeFacts, BoundAssumption
  <2>1. CASE w
    <3>1. Counter(x, w) = rwCount[x] /\ Unit1(x, w, s, rw) = IF x = s /\ rw THEN 1 ELSE 0
      BY <2>1 DEF Counter, Unit1, Unit
    <3>2. rwCount'[x] = rwCount[x] + (IF x = s /\ rw THEN 1 ELSE 0)
      BY <2>0, TypeFacts
    <3> QED
      BY <2>1, <3>1, <3>2
  <2>2. CASE ~w
    <3>1. Counter(x, w) = count[x] /\ Unit1(x, w, s, rw) = IF x = s THEN 1 ELSE 0
      BY <2>2 DEF Counter, Unit1, Unit
    <3>2. count'[x] = count[x] + (IF x = s THEN 1 ELSE 0)
      BY <2>0, TypeFacts
    <3> QED
      BY <2>2, <3>1, <3>2
  <2> QED
    BY <2>1, <2>2
<1> QED
  BY <1>1, <1>2, <1>3

\* A thread that holds no session and touches none: only its unit counts.
LEMMA UnitStep ==
    ASSUME TypeInv, CountInv, NEW t \in Threads, NEW c \in Call, Moves(t, c),
           MayReset(c.pc), c.pc \notin Moving,
           UNCHANGED <<sessions, unused>>, \A g \in Handles : Same(g),
           \A s \in Slots, w \in BOOLEAN :
               (IF w THEN rwCount'[s] ELSE count'[s]) =
                  Counter(s, w) + Unit(Takes(c, sess', s, w)) - Unit(Takes(call[t], sess, s, w))
    PROVE  CountInv'
<1>1. sessions \subseteq Handles /\ sessions' \subseteq Handles /\ unused' \subseteq unused
  BY DEF TypeInv, TypeOK
<1>2. \A g \in Handles : g # 0 => (g \in sessions' <=> g \in sessions) /\ Same(g)
  OBVIOUS
<1>3. \A u \in Threads \ {t} : call[u].pc \in Moving => call[u].h \notin sessions' /\ Same(call[u].h)
  BY DEF CountInv, HandsInv, TypeInv, PlaceOk, Moving
<1>4. c.pc \in Moving =>
        /\ c.h \notin sessions' /\ c.h \notin unused'
        /\ \A u \in Threads \ {t} :
             call[u].pc \in Moving /\ "open_insert" \in {c.pc, call[u].pc} => call[u].h # c.h
  OBVIOUS
<1>5. ASSUME NEW s \in Slots, NEW w \in BOOLEAN
      PROVE  (IF w THEN rwCount'[s] ELSE count'[s]) =
                Counter(s, w)
                + Unit(Takes(c, sess', s, w)) - Unit(Takes(call[t], sess, s, w))
                + Unit(Counts(0, sessions', sess', s, w)) - Unit(Counts(0, sessions, sess, s, w))
  <2>1. ~Counts(0, sessions', sess', s, w) /\ ~Counts(0, sessions, sess, s, w)
    BY <1>1, BoundAssumption DEF Counts, Handles
  <2>2. Unit(Counts(0, sessions', sess', s, w)) = 0 /\ Unit(Counts(0, sessions, sess, s, w)) = 0
    BY <2>1 DEF Unit
  <2>3. /\ Counter(s, w) \in Int
        /\ Unit(Takes(c, sess', s, w)) \in Int /\ Unit(Takes(call[t], sess, s, w)) \in Int
    BY TypeFacts, BoundAssumption DEF Counter, Unit
  <2>4. (IF w THEN rwCount'[s] ELSE count'[s]) =
           Counter(s, w) + Unit(Takes(c, sess', s, w)) - Unit(Takes(call[t], sess, s, w))
    OBVIOUS
  <2> QED
    BY <2>2, <2>3, <2>4
<1> QED
  BY <1>1, <1>2, <1>3, <1>4, <1>5, CountStep

LEMMA IncrementKeeps ==
    ASSUME TypeInv, NEW t \in Threads, increment_session_count(t)
    PROVE  TypeInv' /\ (CountInv => CountInv')
<1>1. PICK d \in Call : d = call[t] /\ d.pc = "open_count" /\ d.slot \in Slots /\ d.rw \in BOOLEAN
  BY TypeFacts DEF increment_session_count, At, Call
<1>2. UNCHANGED <<sessions, sess, unused, login, persistKey>>
  BY DEF increment_session_count
<1>3. CASE BelowLimits(d.slot, d.rw)
  <2>1. /\ count' = [count EXCEPT ![d.slot] = @ + 1]
        /\ rwCount' = IF d.rw THEN [rwCount EXCEPT ![d.slot] = @ + 1] ELSE rwCount
        /\ Goto(t, "open_inherit")
    BY <1>1, <1>3 DEF increment_session_count
  <2>2. "open_inherit" \in PC
    BY DEF PC, Opening
  <2>3. PICK c \in Call : Moves(t, c) /\ c.pc = "open_inherit" /\ c.slot = d.slot /\ c.rw = d.rw
    BY <1>1, <2>1, <2>2, GotoMoves
  <2>4. /\ count' \in [Slots -> 0 .. MaxSessions] /\ rwCount' \in [Slots -> 0 .. MaxRwSessions]
        /\ \A x \in Slots, w \in BOOLEAN :
             (IF w THEN rwCount'[x] ELSE count'[x]) = Counter(x, w) + Unit1(x, w, d.slot, d.rw)
    <3>1. PICK x \in Slots, b \in BOOLEAN : x = d.slot /\ b = d.rw
      BY <1>1
    <3>2. /\ BelowLimits(x, b) /\ count' = [count EXCEPT ![x] = @ + 1]
          /\ rwCount' = IF b THEN [rwCount EXCEPT ![x] = @ + 1] ELSE rwCount
      BY <1>3, <2>1, <3>1
    <3>3. /\ count' \in [Slots -> 0 .. MaxSessions] /\ rwCount' \in [Slots -> 0 .. MaxRwSessions]
          /\ \A y \in Slots, w \in BOOLEAN :
               (IF w THEN rwCount'[y] ELSE count'[y]) = Counter(y, w) + Unit1(y, w, x, b)
      BY <3>2, IncrementCounts
    <3> QED
      BY <3>1, <3>3
  <2>5. PlaceOk(c, unused') /\ MayReset(c.pc) /\ c.pc \notin Moving
    BY <2>3 DEF PlaceOk, Resetting, Moving, MayReset
  <2>6. TypeInv'
    <3>1. sessions' \subseteq Handles /\ unused' \subseteq unused /\ unused' \cap sessions' = {}
      BY <1>2, TypeFacts
    <3> QED
      BY <1>2, <2>3, <2>4, <2>5, <3>1, TypeStep, TypeFacts
  <2>7. ASSUME NEW s \in Slots, NEW w \in BOOLEAN
        PROVE  (IF w THEN rwCount'[s] ELSE count'[s]) =
                  Counter(s, w) + Unit(Takes(c, sess', s, w)) - Unit(Takes(call[t], sess, s, w))
    <3>1. ~Takes(call[t], sess, s, w)
      BY <1>1 DEF Takes
    <3>2. Takes(c, sess', s, w) <=> s = d.slot /\ (w => d.rw)
      BY <2>3 DEF Takes, Opening
    <3>3. Unit(Takes(call[t], sess, s, w)) = 0
      BY <3>1 DEF Unit
    <3>4. Unit(Takes(c, sess', s, w)) = Unit1(s, w, d.slot, d.rw)
      BY <3>2 DEF Unit, Unit1
    <3>5. Unit1(s, w, d.slot, d.rw) \in Int /\ Counter(s, w) \in Int
      BY TypeFacts, BoundAssumption DEF Unit, Unit1, Counter
    <3> QED
      BY <2>4, <3>3, <3>4, <3>5
  <2>8. ASSUME CountInv PROVE CountInv'
    <3>1. \A g \in Handles : Same(g)
      BY <1>2 DEF Same
    <3> QED
      BY <1>2, <2>3, <2>5, <2>7, <2>8, <3>1, UnitStep
  <2> QED
    BY <2>6, <2>8
<1>4. CASE ~BelowLimits(d.slot, d.rw)
  <2>1. Return(t) /\ UNCHANGED <<count, rwCount>>
    BY <1>1, <1>4 DEF increment_session_count
  <2>2. Quiet(t)
    <3>1. "open_count" \notin Flying
      BY DEF Flying, Opening
    <3> QED
      BY <1>1, <1>2, <2>1, <3>1, QuietReturn, TypeFacts
  <2>3. ASSUME CountInv PROVE CountInv'
    <3>1. \A g \in Handles : Same(g)
      BY <1>2 DEF Same
    <3>2. Idle \in Call /\ Moves(t, Idle) /\ MayReset(Idle.pc) /\ Idle.pc \notin Moving
      BY <2>1, IdleType, ReturnMoves DEF Resetting, Moving, MayReset
    <3>3. ASSUME NEW s \in Slots, NEW w \in BOOLEAN
          PROVE  (IF w THEN rwCount'[s] ELSE count'[s]) =
                    Counter(s, w) + Unit(Takes(Idle, sess', s, w)) - Unit(Takes(call[t], sess, s, w))
      <4>1. ~Takes(call[t], sess, s, w) /\ ~Takes(Idle, sess', s, w)
        BY <1>1, IdleType DEF Takes, Opening
      <4>2. Unit(Takes(call[t], sess, s, w)) = 0 /\ Unit(Takes(Idle, sess', s, w)) = 0
        BY <4>1 DEF Unit
      <4>3. Counter(s, w) \in Int /\ (IF w THEN rwCount'[s] ELSE count'[s]) = Counter(s, w)
        BY <2>1, TypeFacts, BoundAssumption DEF Counter
      <4> QED
        BY <4>2, <4>3
    <3> QED
      BY <1>2, <2>3, <3>1, <3>2, <3>3, UnitStep
  <2> QED
    BY <2>2, <2>3, QuietType
<1> QED
  BY <1>3, <1>4

LEMMA UndoKeeps ==
    ASSUME TypeInv, NEW t \in Threads, open_undo(t)
    PROVE  TypeInv' /\ (CountInv => CountInv')
<1>1. PICK d \in Call : d = call[t] /\ d.pc = "open_undo" /\ d.slot \in Slots /\ d.rw \in BOOLEAN
  BY TypeFacts DEF open_undo, At, Call
<1>2. UNCHANGED <<sessions, sess, unused, login, persistKey>> /\ decrement_session_count(d.slot, d.rw)
  BY <1>1 DEF open_undo
<1>3. Idle \in Call /\ Moves(t, Idle) /\ Idle.pc = "idle"
  BY IdleType, ReturnMoves DEF open_undo
<1>4. PlaceOk(Idle, unused') /\ MayReset(Idle.pc) /\ Idle.pc \notin Moving
  BY <1>3 DEF PlaceOk, Resetting, Moving, MayReset
<1>5. TypeInv'
  <2>1. sessions' \subseteq Handles /\ unused' \subseteq unused /\ unused' \cap sessions' = {}
    BY <1>2, TypeFacts
  <2>2. count' \in [Slots -> 0 .. MaxSessions] /\ rwCount' \in [Slots -> 0 .. MaxRwSessions]
    BY <1>1, <1>2, DecrementType
  <2> QED
    BY <1>2, <1>3, <1>4, <2>1, <2>2, TypeStep, TypeFacts
<1>6. ASSUME CountInv PROVE CountInv'
  <2>1. \A s \in Slots, w \in BOOLEAN : Takes(d, sess, s, w) <=> s = d.slot /\ (w => d.rw)
    BY <1>1 DEF Takes, Opening
  <2>2. t \in Flights(d.slot, FALSE) /\ (d.rw => t \in Flights(d.slot, TRUE))
    BY <1>1, <2>1 DEF Flights
  <2>3. Held(d.slot, d.rw)
    BY <1>1, <1>6, <2>2, HeldUnits
  <2>4. ASSUME NEW s \in Slots, NEW w \in BOOLEAN
        PROVE  (IF w THEN rwCount'[s] ELSE count'[s]) =
                  Counter(s, w) + Unit(Takes(Idle, sess', s, w)) - Unit(Takes(call[t], sess, s, w))
    <3>1. (IF w THEN rwCount'[s] ELSE count'[s]) = Counter(s, w) - Unit1(s, w, d.slot, d.rw)
      BY <1>1, <1>2, <2>3, DecrementCounts
    <3>2. Unit(Takes(call[t], sess, s, w)) = Unit1(s, w, d.slot, d.rw)
      BY <1>1, <2>1 DEF Unit, Unit1
    <3>3. Unit(Takes(Idle, sess', s, w)) = 0
      BY <1>3 DEF Unit, Takes, Opening
    <3>4. Unit1(s, w, d.slot, d.rw) \in Int /\ Counter(s, w) \in Int
      BY TypeFacts, BoundAssumption DEF Unit, Unit1, Counter
    <3> QED
      BY <3>1, <3>2, <3>3, <3>4
  <2>5. \A g \in Handles : Same(g)
    BY <1>2 DEF Same
  <2> QED
    BY <1>2, <1>3, <1>4, <1>6, <2>4, <2>5, UnitStep
<1> QED
  BY <1>5, <1>6

LEMMA InheritKeeps ==
    ASSUME TypeInv, NEW t \in Threads, open_inherit(t)
    PROVE  TypeInv' /\ (CountInv => CountInv')
<1>1. PICK d \in Call : d = call[t] /\ d.pc = "open_inherit" /\ d.slot \in Slots /\ d.rw \in BOOLEAN
  BY TypeFacts DEF open_inherit, At, Call
<1>2. UNCHANGED <<sessions, sess, login, count, rwCount, persistKey>>
  BY DEF open_inherit
<1>3. PICK h \in unused : /\ unused' = unused \ {h}
                          /\ \/ call' = [call EXCEPT ![t].pc = "open_insert", ![t].h = h,
                                                    ![t].role = InheritedRole(t)]
                             \/ Goto(t, "open_undo")
  BY DEF open_inherit
<1>4. PICK c \in Call :
        /\ Moves(t, c) /\ c.slot = d.slot /\ c.rw = d.rw
        /\ (c.pc = "open_insert" /\ c.h = h) \/ c.pc = "open_undo"
  <2>1. CASE Goto(t, "open_undo")
    <3>1. "open_undo" \in PC
      BY DEF PC, Opening
    <3> QED
      BY <1>1, <2>1, <3>1, GotoMoves
  <2>2. CASE call' = [call EXCEPT ![t].pc = "open_insert", ![t].h = h, ![t].role = InheritedRole(t)]
    <3>1. PICK r \in LoginState : r = InheritedRole(t)
      BY <1>1, TypeFacts DEF InheritedRole
    <3>2. PICK c : c = [d EXCEPT !.pc = "open_insert", !.h = h, !.role = r]
      OBVIOUS
    <3>3. h \in Handles /\ "open_insert" \in PC
      BY TypeFacts DEF PC, Opening
    <3>4. c \in Call /\ c.slot = d.slot /\ c.rw = d.rw /\ c.pc = "open_insert" /\ c.h = h
      BY <3>2, <3>3 DEF Call
    <3>5. Moves(t, c)
      BY <1>1, <2>2, <3>1, <3>2, TypeFacts DEF Moves
    <3> QED
      BY <3>4, <3>5
  <2> QED
    BY <1>3, <2>1, <2>2
<1>5. h \in Handles /\ h \notin sessions /\ h \notin unused' /\ unused' \subseteq unused
  BY <1>3, TypeFacts
<1>6. TypeInv'
  <2>1. sessions' \subseteq Handles /\ unused' \cap sessions' = {}
    BY <1>2, <1>5, TypeFacts
  <2>2. PlaceOk(c, unused')
    BY <1>4, <1>5 DEF PlaceOk
  <2> QED
    BY <1>2, <1>4, <1>5, <2>1, <2>2, TypeStep, TypeFacts
<1>7. ASSUME CountInv PROVE CountInv'
  <2>1. MayReset(c.pc)
    BY <1>4 DEF Resetting, MayReset
  <2>2. \A g \in Handles : g # 0 => (g \in sessions' <=> g \in sessions) /\ Same(g)
    BY <1>2 DEF Same
  <2>3. \A u \in Threads \ {t} : call[u].pc \in Moving =>
           call[u].h \notin sessions' /\ Same(call[u].h)
    BY <1>2, <1>7 DEF CountInv, HandsInv, Same
  <2>4. c.pc \in Moving =>
          /\ c.h \notin sessions' /\ c.h \notin unused'
          /\ \A u \in Threads \ {t} :
               call[u].pc \in Moving /\ "open_insert" \in {c.pc, call[u].pc} => call[u].h # c.h
    BY <1>2, <1>4, <1>5, <1>7 DEF CountInv, HandsInv, Moving
  <2>5. ASSUME NEW s \in Slots, NEW w \in BOOLEAN
        PROVE  (IF w THEN rwCount'[s] ELSE count'[s]) =
                  Counter(s, w)
                  + Unit(Takes(c, sess', s, w)) - Unit(Takes(call[t], sess, s, w))
                  + Unit(Counts(0, sessions', sess', s, w)) - Unit(Counts(0, sessions, sess, s, w))
    <3>1. Takes(c, sess', s, w) <=> Takes(call[t], sess, s, w)
      BY <1>1, <1>4 DEF Takes, Opening
    <3>2. Counts(0, sessions', sess', s, w) <=> Counts(0, sessions, sess, s, w)
      BY <1>2 DEF Counts
    <3>3. /\ Unit(Takes(c, sess', s, w)) = Unit(Takes(call[t], sess, s, w))
          /\ Unit(Counts(0, sessions', sess', s, w)) = Unit(Counts(0, sessions, sess, s, w))
          /\ Unit(Takes(call[t], sess, s, w)) \in Int /\ Unit(Counts(0, sessions, sess, s, w)) \in Int
      BY <3>1, <3>2 DEF Unit
    <3>4. Counter(s, w) \in Int /\ (IF w THEN rwCount'[s] ELSE count'[s]) = Counter(s, w)
      BY <1>2, TypeFacts, BoundAssumption DEF Counter
    <3> QED
      BY <3>3, <3>4
  <2>6. sessions \subseteq Handles /\ sessions' \subseteq Handles
    BY <1>2, TypeFacts
  <2> QED
    BY <1>4, <1>5, <1>7, <2>1, <2>2, <2>3, <2>4, <2>5, <2>6, CountStep
<1> QED
  BY <1>6, <1>7

LEMMA InsertKeeps ==
    ASSUME TypeInv, NEW t \in Threads, open_insert(t)
    PROVE  TypeInv' /\ (CountInv => CountInv')
<1>1. PICK d \in Call : d = call[t] /\ d.pc = "open_insert" /\ d.slot \in Slots /\ d.rw \in BOOLEAN
  BY TypeFacts DEF open_insert, At, Call
<1>2. PICK h \in Handles : h = d.h /\ h \notin unused
  BY <1>1 DEF TypeInv, PlaceOk
<1>3. PICK r \in Session : /\ sess' = [sess EXCEPT ![h] = r]
                           /\ r.slot = d.slot /\ r.rw = d.rw
  <2>1. PICK r : r = [slot |-> d.slot, rw |-> d.rw, role |-> d.role, op |-> FALSE, closed |-> FALSE]
    OBVIOUS
  <2>2. sess' = [sess EXCEPT ![h] = r]
    BY <1>1, <1>2, <2>1, Zenon DEF open_insert
  <2>3. d.role \in LoginState
    BY DEF Call
  <2>4. r \in Session /\ r.slot = d.slot /\ r.rw = d.rw
    BY <1>1, <2>1, <2>3 DEF Session
  <2> QED
    BY <2>2, <2>4
<1>4. /\ sessions' = sessions \cup {h} /\ sess' = [sess EXCEPT ![h] = r] /\ Return(t)
      /\ UNCHANGED <<unused, login, count, rwCount, persistKey>>
  BY <1>1, <1>2, <1>3 DEF open_insert
<1>5. Idle \in Call /\ Moves(t, Idle) /\ Idle.pc = "idle"
  BY <1>4, IdleType, ReturnMoves
<1>6. PlaceOk(Idle, unused') /\ MayReset(Idle.pc) /\ Idle.pc \notin Moving
  BY <1>5 DEF PlaceOk, Resetting, Moving, MayReset
<1>7. TypeInv'
  <2>1. /\ sessions' \subseteq Handles /\ unused' \subseteq unused /\ unused' \cap sessions' = {}
        /\ sess' \in [Handles -> Session]
    BY <1>2, <1>4, TypeFacts
  <2> QED
    BY <1>4, <1>5, <1>6, <2>1, TypeStep, TypeFacts
<1>8. ASSUME CountInv PROVE CountInv'
  <2>1. h \notin sessions /\ \A u \in Threads \ {t} : call[u].pc \in Moving => call[u].h # h
    BY <1>1, <1>2, <1>8 DEF CountInv, HandsInv, Moving
  <2>2. \A g \in Handles : g # h => (g \in sessions' <=> g \in sessions) /\ Same(g)
    BY <1>4 DEF Same
  <2>3. \A u \in Threads \ {t} : call[u].pc \in Moving =>
           call[u].h \notin sessions' /\ Same(call[u].h)
    <3>1. \A u \in Threads \ {t} : call[u].pc \in Moving =>
            call[u].h \in Handles /\ call[u].h # h /\ call[u].h \notin sessions
      BY <1>8, <2>1 DEF CountInv, HandsInv, Moving, TypeInv, PlaceOk
    <3> QED
      BY <1>4, <2>2, <3>1
  <2>4. ASSUME NEW s \in Slots, NEW w \in BOOLEAN
        PROVE  (IF w THEN rwCount'[s] ELSE count'[s]) =
                  Counter(s, w)
                  + Unit(Takes(Idle, sess', s, w)) - Unit(Takes(call[t], sess, s, w))
                  + Unit(Counts(h, sessions', sess', s, w)) - Unit(Counts(h, sessions, sess, s, w))
    <3>1. ~Takes(Idle, sess', s, w) /\ ~Counts(h, sessions, sess, s, w)
      BY <1>5, <2>1 DEF Takes, Opening, Counts
    <3>2. sess'[h] = r /\ h \in sessions'
      BY <1>4, TypeFacts
    <3>3. Takes(call[t], sess, s, w) <=> Counts(h, sessions', sess', s, w)
      BY <1>1, <1>3, <3>2 DEF Takes, Opening, Counts
    <3>4. /\ Unit(Takes(Idle, sess', s, w)) = 0 /\ Unit(Counts(h, sessions, sess, s, w)) = 0
          /\ Unit(Takes(call[t], sess, s, w)) = Unit(Counts(h, sessions', sess', s, w))
          /\ Unit(Takes(call[t], sess, s, w)) \in Int
      BY <3>1, <3>3 DEF Unit
    <3>5. Counter(s, w) \in Int /\ (IF w THEN rwCount'[s] ELSE count'[s]) = Counter(s, w)
      BY <1>4, TypeFacts, BoundAssumption DEF Counter
    <3> QED
      BY <3>4, <3>5
  <2>5. sessions \subseteq Handles /\ sessions' \subseteq Handles /\ unused' \subseteq unused
    BY <1>4, TypeFacts
  <2>6. Idle.pc \in Moving =>
          /\ Idle.h \notin sessions' /\ Idle.h \notin unused'
          /\ \A u \in Threads \ {t} :
               call[u].pc \in Moving /\ "open_insert" \in {Idle.pc, call[u].pc} => call[u].h # Idle.h
    BY <1>6
  <2> QED
    BY <1>5, <1>6, <1>8, <2>2, <2>3, <2>4, <2>5, <2>6, CountStep
<1> QED
  BY <1>7, <1>8

LEMMA CloseKeeps ==
    ASSUME TypeInv, NEW t \in Threads, NEW h \in sessions, close_session(t, h)
    PROVE  TypeInv' /\ (CountInv => CountInv')
<1>1. h \in Handles /\ h \notin unused /\ "close_finish" \in PC
  BY TypeFacts DEF PC
<1>2. PICK c \in Call : c = OnSession("close_finish", h) /\ c.pc = "close_finish" /\ c.h = h
  BY <1>1, StartSession
<1>3. Moves(t, c) /\ call[t].pc = "idle"
  BY <1>2, Zenon DEF close_session, Begin, At, Moves, OnSession
<1>4. sessions' = sessions \ {h} /\ UNCHANGED <<sess, unused, login, count, rwCount, persistKey>>
  BY DEF close_session
<1>5. TypeInv'
  <2>1. sessions' \subseteq Handles /\ unused' \subseteq unused /\ unused' \cap sessions' = {}
    BY <1>4, TypeFacts
  <2>2. PlaceOk(c, unused')
    BY <1>1, <1>2 DEF PlaceOk
  <2> QED
    BY <1>3, <1>4, <2>1, <2>2, TypeStep, TypeFacts
<1>6. ASSUME CountInv PROVE CountInv'
  <2>1. MayReset(c.pc)
    BY <1>2 DEF Resetting, MayReset
  <2>2. \A g \in Handles : g # h => (g \in sessions' <=> g \in sessions) /\ Same(g)
    BY <1>4 DEF Same
  <2>3. \A u \in Threads \ {t} : call[u].pc \in Moving =>
           call[u].h \notin sessions' /\ Same(call[u].h)
    BY <1>4, <1>6 DEF CountInv, HandsInv, Same
  <2>4. c.pc \in Moving =>
          /\ c.h \notin sessions' /\ c.h \notin unused'
          /\ \A u \in Threads \ {t} :
               call[u].pc \in Moving /\ "open_insert" \in {c.pc, call[u].pc} => call[u].h # c.h
    BY <1>1, <1>2, <1>4, <1>6 DEF CountInv, HandsInv
  <2>5. ASSUME NEW s \in Slots, NEW w \in BOOLEAN
        PROVE  (IF w THEN rwCount'[s] ELSE count'[s]) =
                  Counter(s, w)
                  + Unit(Takes(c, sess', s, w)) - Unit(Takes(call[t], sess, s, w))
                  + Unit(Counts(h, sessions', sess', s, w)) - Unit(Counts(h, sessions, sess, s, w))
    <3>1. ~Takes(call[t], sess, s, w) /\ ~Counts(h, sessions', sess', s, w)
      BY <1>3, <1>4 DEF Takes, Opening, Counts
    <3>2. Takes(c, sess', s, w) <=> Counts(h, sessions, sess, s, w)
      BY <1>2, <1>4 DEF Takes, Opening, Counts
    <3>3. /\ Unit(Takes(call[t], sess, s, w)) = 0 /\ Unit(Counts(h, sessions', sess', s, w)) = 0
          /\ Unit(Takes(c, sess', s, w)) = Unit(Counts(h, sessions, sess, s, w))
          /\ Unit(Takes(c, sess', s, w)) \in Int
      BY <3>1, <3>2 DEF Unit
    <3>4. Counter(s, w) \in Int /\ (IF w THEN rwCount'[s] ELSE count'[s]) = Counter(s, w)
      BY <1>4, TypeFacts, BoundAssumption DEF Counter
    <3> QED
      BY <3>3, <3>4
  <2>6. sessions \subseteq Handles /\ sessions' \subseteq Handles /\ unused' \subseteq unused
    BY <1>4, TypeFacts
  <2> QED
    BY <1>3, <1>6, <2>1, <2>2, <2>3, <2>4, <2>5, <2>6, CountStep
<1> QED
  BY <1>5, <1>6

LEMMA ClosedType ==
    ASSUME NEW e \in Session
    PROVE  /\ Closed(e) \in Session /\ Closed(e).slot = e.slot /\ Closed(e).rw = e.rw
           /\ Closed(e).role = e.role /\ ~Closed(e).op
BY DEF Closed, Session

LEMMA FinishKeeps ==
    ASSUME TypeInv, NEW t \in Threads, close_finish(t)
    PROVE  TypeInv' /\ (CountInv => CountInv')
<1>1. PICK d \in Call : d = call[t] /\ d.pc = "close_finish"
  BY TypeFacts DEF close_finish, At
<1>2. PICK h \in Handles : h = d.h
  BY <1>1 DEF TypeInv, PlaceOk
<1>3. PICK e \in Session : e = sess[h] /\ e.slot \in Slots /\ e.rw \in BOOLEAN
  BY TypeFacts DEF Session
<1>4. PICK r \in Session : r = Closed(e) /\ r.slot = e.slot /\ r.rw = e.rw
  BY ClosedType
<1>5. /\ sess' = [sess EXCEPT ![h] = r] /\ decrement_session_count(e.slot, e.rw) /\ Return(t)
      /\ UNCHANGED <<sessions, unused, login, persistKey>>
  BY <1>1, <1>2, <1>3, <1>4 DEF close_finish
<1>6. Idle \in Call /\ Moves(t, Idle) /\ Idle.pc = "idle"
  BY <1>5, IdleType, ReturnMoves
<1>7. PlaceOk(Idle, unused') /\ MayReset(Idle.pc) /\ Idle.pc \notin Moving
  BY <1>6 DEF PlaceOk, Resetting, Moving, MayReset
<1>8. TypeInv'
  <2>1. /\ sessions' \subseteq Handles /\ unused' \subseteq unused /\ unused' \cap sessions' = {}
        /\ sess' \in [Handles -> Session]
    BY <1>5, TypeFacts
  <2>2. count' \in [Slots -> 0 .. MaxSessions] /\ rwCount' \in [Slots -> 0 .. MaxRwSessions]
    BY <1>3, <1>5, DecrementType
  <2> QED
    BY <1>5, <1>6, <1>7, <2>1, <2>2, TypeStep, TypeFacts
<1>9. ASSUME CountInv PROVE CountInv'
  <2>1. \A s \in Slots, w \in BOOLEAN : Takes(d, sess, s, w) <=> s = e.slot /\ (w => e.rw)
    BY <1>1, <1>2, <1>3 DEF Takes, Opening
  <2>2. t \in Flights(e.slot, FALSE) /\ (e.rw => t \in Flights(e.slot, TRUE))
    BY <1>1, <1>3, <2>1 DEF Flights
  <2>3. Held(e.slot, e.rw)
    BY <1>3, <1>9, <2>2, HeldUnits
  <2>4. ASSUME NEW s \in Slots, NEW w \in BOOLEAN
        PROVE  (IF w THEN rwCount'[s] ELSE count'[s]) =
                  Counter(s, w) + Unit(Takes(Idle, sess', s, w)) - Unit(Takes(call[t], sess, s, w))
    <3>1. (IF w THEN rwCount'[s] ELSE count'[s]) = Counter(s, w) - Unit1(s, w, e.slot, e.rw)
      BY <1>3, <1>5, <2>3, DecrementCounts
    <3>2. Unit(Takes(call[t], sess, s, w)) = Unit1(s, w, e.slot, e.rw)
      BY <1>1, <2>1 DEF Unit, Unit1
    <3>3. Unit(Takes(Idle, sess', s, w)) = 0
      BY <1>6 DEF Unit, Takes, Opening
    <3>4. Unit1(s, w, e.slot, e.rw) \in Int /\ Counter(s, w) \in Int
      BY TypeFacts, BoundAssumption DEF Unit, Unit1, Counter
    <3> QED
      BY <3>1, <3>2, <3>3, <3>4
  <2>5. \A g \in Handles : Same(g)
    BY <1>3, <1>4, <1>5, TypeFacts DEF Same
  <2> QED
    BY <1>5, <1>6, <1>7, <1>9, <2>4, <2>5, UnitStep
<1> QED
  BY <1>8, <1>9

LEMMA CloseAllKeeps ==
    ASSUME TypeInv, NEW t \in Threads, NEW p \in {"close_all", "init_close"},
           close_all_sessions(t, p)
    PROVE  TypeInv' /\ (CountInv => CountInv')
<1>1. PICK h \in sessions :
        /\ call[t].pc = p /\ Advance(t, h)
        /\ IF sess[h].slot = call[t].slot
           THEN /\ sessions' = sessions \ {h}
                /\ sess' = [sess EXCEPT ![h] = Closed(@)]
                /\ decrement_session_count(sess[h].slot, sess[h].rw)
           ELSE UNCHANGED <<sessions, sess, count, rwCount>>
        /\ UNCHANGED <<unused, login, persistKey>>
  BY DEF close_all_sessions, Visiting, At
<1>2. h \in Handles
  BY TypeFacts
<1>3. PICK c \in Call : Moves(t, c) /\ c.pc = p
  BY <1>1, <1>2, AdvanceMoves
<1>4. PlaceOk(c, unused) /\ PlaceOk(c, unused') /\ c.pc \notin Flying /\ call[t].pc \notin Flying
  BY <1>1, <1>3 DEF PlaceOk, Flying, Opening
<1>5. CASE sess[h].slot # call[t].slot
  <2>1. UNCHANGED <<sessions, sess, count, rwCount>>
    BY <1>1, <1>5
  <2>2. Quiet(t)
    <3>1. sess' \in [Handles -> Session] /\ \A g \in Handles : Same(g)
      BY <2>1, TypeFacts DEF Same
    <3> QED
      BY <1>1, <1>3, <1>4, <2>1, <3>1, TypeFacts DEF Quiet
  <2> QED
    BY <2>2, QuietType, QuietCounts
<1>6. CASE sess[h].slot = call[t].slot
  <2>1. PICK e \in Session : e = sess[h] /\ e.slot \in Slots /\ e.rw \in BOOLEAN
    BY <1>2, TypeFacts DEF Session
  <2>2. PICK r \in Session : r = Closed(e)
    BY ClosedType
  <2>3. /\ sessions' = sessions \ {h} /\ sess' = [sess EXCEPT ![h] = r]
        /\ decrement_session_count(e.slot, e.rw)
    BY <1>1, <1>6, <2>1, <2>2
  <2>4. /\ sessions' \subseteq Handles /\ unused' \subseteq unused /\ unused' \cap sessions' = {}
        /\ sess' \in [Handles -> Session]
    BY <1>1, <1>2, <2>3, TypeFacts
  <2>5. TypeInv'
    <3>1. count' \in [Slots -> 0 .. MaxSessions] /\ rwCount' \in [Slots -> 0 .. MaxRwSessions]
      BY <2>1, <2>3, DecrementType
    <3> QED
      BY <1>1, <1>3, <1>4, <2>4, <3>1, TypeStep, TypeFacts
  <2>6. ASSUME CountInv PROVE CountInv'
    <3>1. \A s \in Slots, w \in BOOLEAN : Counts(h, sessions, sess, s, w) <=> s = e.slot /\ (w => e.rw)
      BY <2>1 DEF Counts
    <3>2. h \in Members(e.slot, FALSE) /\ (e.rw => h \in Members(e.slot, TRUE))
      BY <1>2, <2>1, <3>1 DEF Members
    <3>3. Held(e.slot, e.rw)
      BY <2>1, <2>6, <3>2, HeldUnits
    <3>4. ASSUME NEW s \in Slots, NEW w \in BOOLEAN
          PROVE  (IF w THEN rwCount'[s] ELSE count'[s]) =
                    Counter(s, w)
                    + Unit(Takes(c, sess', s, w)) - Unit(Takes(call[t], sess, s, w))
                    + Unit(Counts(h, sessions', sess', s, w)) - Unit(Counts(h, sessions, sess, s, w))
      <4>1. (IF w THEN rwCount'[s] ELSE count'[s]) = Counter(s, w) - Unit1(s, w, e.slot, e.rw)
        BY <2>1, <2>3, <3>3, DecrementCounts
      <4>2. Unit(Counts(h, sessions, sess, s, w)) = Unit1(s, w, e.slot, e.rw)
        BY <3>1 DEF Unit, Unit1
      <4>3. ~Counts(h, sessions', sess', s, w) /\ ~Takes(c, sess', s, w) /\ ~Takes(call[t], sess, s, w)
        BY <1>1, <1>3, <1>4, <2>3 DEF Counts, Takes, Flying
      <4>4. /\ Unit(Counts(h, sessions', sess', s, w)) = 0
            /\ Unit(Takes(c, sess', s, w)) = 0 /\ Unit(Takes(call[t], sess, s, w)) = 0
        BY <4>3 DEF Unit
      <4>5. Unit1(s, w, e.slot, e.rw) \in Int /\ Counter(s, w) \in Int
        BY TypeFacts, BoundAssumption DEF Unit, Unit1, Counter
      <4> QED
        BY <4>1, <4>2, <4>4, <4>5
    <3>5. MayReset(c.pc) /\ c.pc \notin Moving
      BY <1>1, <1>3, <2>6 DEF CountInv, NoReset, Moving
    <3>6. \A g \in Handles : g # h => (g \in sessions' <=> g \in sessions) /\ Same(g)
      BY <2>3 DEF Same
    <3>7. \A u \in Threads \ {t} : call[u].pc \in Moving =>
             call[u].h \notin sessions' /\ Same(call[u].h)
      <4>1. \A u \in Threads \ {t} : call[u].pc \in Moving => call[u].h \in Handles /\ call[u].h \notin sessions
        BY <2>6 DEF CountInv, HandsInv, Moving, TypeInv, PlaceOk
      <4> QED
        BY <2>3, <3>6, <4>1
    <3>8. c.pc \in Moving =>
            /\ c.h \notin sessions' /\ c.h \notin unused'
            /\ \A u \in Threads \ {t} :
                 call[u].pc \in Moving /\ "open_insert" \in {c.pc, call[u].pc} => call[u].h # c.h
      BY <3>5
    <3>9. sessions \subseteq Handles
      BY TypeFacts
    <3> QED
      BY <1>3, <2>4, <2>6, <3>4, <3>5, <3>6, <3>7, <3>8, <3>9, CountStep
  <2> QED
    BY <2>5, <2>6
<1> QED
  BY <1>5, <1>6

LEMMA ResetType ==
    ASSUME TypeInv, NEW t \in Threads, init_token(t)
    PROVE  TypeInv'
<1>1. /\ call[t].pc = "init_token" /\ Return(t)
      /\ UNCHANGED <<sessions, sess, unused, persistKey>>
  BY DEF init_token, At
<1>2. /\ login' \in [Slots -> LoginState]
      /\ count' \in [Slots -> 0 .. MaxSessions] /\ rwCount' \in [Slots -> 0 .. MaxRwSessions]
  BY TypeFacts, BoundAssumption DEF init_token, LoginState
<1>3. Idle \in Call /\ Moves(t, Idle) /\ PlaceOk(Idle, unused')
  BY <1>1, IdleType, ReturnMoves DEF PlaceOk
<1>4. sessions' \subseteq Handles /\ unused' \subseteq unused /\ unused' \cap sessions' = {}
  BY <1>1, TypeFacts
<1> QED
  BY <1>1, <1>2, <1>3, <1>4, TypeStep, TypeFacts

LEMMA InitTypeCount == Init => TypeInv /\ CountInv
<1> SUFFICES ASSUME Init PROVE TypeInv /\ CountInv
  OBVIOUS
<1>1. TypeInv
  <2>1. sess \in [Handles -> Session]
    BY AnySlotType DEF Init, Session, LoginState
  <2>2. \A t \in Threads : call[t] = Idle
    BY DEF Init
  <2>3. call \in [Threads -> Call]
    BY IdleType DEF Init
  <2>4. /\ sessions \subseteq Handles /\ unused \subseteq Handles \ sessions
        /\ login \in [Slots -> LoginState] /\ persistKey \in Slots \cup {NoSlot}
        /\ count \in [Slots -> 0 .. MaxSessions] /\ rwCount \in [Slots -> 0 .. MaxRwSessions]
    BY BoundAssumption DEF Init, LoginState
  <2>5. \A t \in Threads : PlaceOk(call[t], unused)
    BY <2>2, IdleType DEF PlaceOk
  <2> QED
    BY <2>1, <2>3, <2>4, <2>5 DEF TypeInv, TypeOK
<1>2. \A t \in Threads : call[t].pc = "idle"
  BY IdleType DEF Init
<1>3. HandsInv /\ NoReset
  BY <1>2 DEF HandsInv, NoReset, Moving, MayReset, Resetting
<1>4. ASSUME NEW s \in Slots, NEW w \in BOOLEAN
      PROVE  Counter(s, w) = Cardinality(Members(s, w)) + Cardinality(Flights(s, w))
  <2>1. Members(s, w) = {} /\ Flights(s, w) = {}
    BY <1>2 DEF Init, Members, Counts, Flights, Takes, Opening
  <2>2. Counter(s, w) = 0
    BY DEF Init, Counter
  <2>3. Cardinality({}) = 0
    BY FS_EmptySet
  <2> QED
    BY <2>1, <2>2, <2>3
<1> QED
  BY <1>1, <1>3, <1>4 DEF CountInv, Exact

\* Every step but the reset of C_InitToken keeps the counts.
LEMMA TypeCountNext ==
    ASSUME TypeInv, [Next]_vars
    PROVE  /\ TypeInv'
           /\ CountInv => CountInv' \/ \E t \in Threads : init_token(t)
<1>1. CASE UNCHANGED vars
  <2>1. TypeInv'
    BY <1>1 DEF vars, TypeInv, TypeOK, PlaceOk
  <2>2. HandsInv /\ NoReset => (HandsInv /\ NoReset)'
    BY <1>1 DEF vars, HandsInv, NoReset
  <2>3. Exact => Exact'
    BY <1>1 DEF vars, Exact, Counter, Members, Flights
  <2> QED
    BY <2>1, <2>2, <2>3 DEF CountInv
<1>2. CASE Next
  <2>1. PICK t \in Threads : Start(t) \/ Step(t)
    BY <1>2 DEF Next
  <2>2. ASSUME Quiet(t)
        PROVE  TypeInv' /\ (CountInv => CountInv')
    BY <2>2, QuietType, QuietCounts
  <2>3. CASE Start(t)
    <3>1. \/ \E h \in sessions : close_session(t, h)
          \/ \E s \in Slots : \/ \E rw \in BOOLEAN : open_session(t, s, rw)
                              \/ C_CloseAllSessions(t, s)
                              \/ C_InitToken(t, s)
          \/ \E h \in sessions : \/ \E role \in {"USER", "SO"} : C_Login(t, h, role)
                                 \/ C_Logout(t, h)
                                 \/ get_session(t, h)
      BY <2>3 DEF Start
    <3> QED
      BY <2>2, <3>1, QuietStarts, CloseKeeps
  <2>4. CASE Step(t)
    BY <2>2, <2>4, QuietSteps, QuietLogins, IncrementKeeps, InheritKeeps, UndoKeeps, InsertKeeps,
       FinishKeeps, CloseAllKeeps, ResetType DEF Step
  <2> QED
    BY <2>1, <2>3, <2>4
<1> QED
  BY <1>1, <1>2

LEMMA CountedFromInv ==
    ASSUME TypeInv, CountInv
    PROVE  SessionsCounted
<1>1. ASSUME NEW s \in Slots
      PROVE  /\ count[s] = Cardinality(Of(s)) + Cardinality(InFlight(s))
             /\ rwCount[s] = Cardinality({h \in Of(s) : sess[h].rw})
                             + Cardinality({t \in InFlight(s) : FlightRw(t)})
             /\ Cardinality(Of(s)) <= MaxSessions
             /\ Cardinality({h \in Of(s) : sess[h].rw}) <= MaxRwSessions
  <2>1. Of(s) = Members(s, FALSE) /\ {h \in Of(s) : sess[h].rw} = Members(s, TRUE)
    BY TypeFacts DEF Of, Members, Counts
  <2>2. InFlight(s) = Flights(s, FALSE)
    BY DEF InFlight, Flights, Takes, At
  <2>3. {t \in InFlight(s) : FlightRw(t)} = Flights(s, TRUE)
    BY DEF InFlight, Flights, Takes, At, FlightRw, Opening
  <2>4. ASSUME NEW w \in BOOLEAN
        PROVE  /\ Counter(s, w) = Cardinality(Members(s, w)) + Cardinality(Flights(s, w))
               /\ Cardinality(Members(s, w)) \in Nat /\ Cardinality(Flights(s, w)) \in Nat
    BY FiniteParts, FS_CardinalityType DEF CountInv, Exact
  <2>5. Counter(s, FALSE) = count[s] /\ Counter(s, TRUE) = rwCount[s]
    BY DEF Counter
  <2>6. count[s] \in 0 .. MaxSessions /\ rwCount[s] \in 0 .. MaxRwSessions
    BY TypeFacts
  <2>7. /\ count[s] = Cardinality(Of(s)) + Cardinality(InFlight(s))
        /\ Cardinality(Of(s)) \in Nat /\ Cardinality(InFlight(s)) \in Nat
    BY <2>1, <2>2, <2>4, <2>5
  <2>8. /\ rwCount[s] = Cardinality({h \in Of(s) : sess[h].rw})
                             + Cardinality({t \in InFlight(s) : FlightRw(t)})
        /\ Cardinality({h \in Of(s) : sess[h].rw}) \in Nat
        /\ Cardinality({t \in InFlight(s) : FlightRw(t)}) \in Nat
    BY <2>1, <2>3, <2>4, <2>5
  <2> QED
    BY <2>6, <2>7, <2>8, BoundAssumption
<1>2. CountsExact /\ LimitsHold
  BY <1>1 DEF CountsExact, LimitsHold
<1> QED
  BY <1>2 DEF TypeInv, SessionsCounted

(* increment_session_count and decrement_session_count in token.rs: while  *)
(* any number of threads open and close sessions, close all of a slot, log *)
(* in and out and use them, the two counters of every slot are exact at    *)
(* every step, so no close underflows them, and the limits of the          *)
(* configuration hold for the sessions in the map.  C_InitToken, which     *)
(* writes zero over both counters, is not called meanwhile.                *)
THEOREM CountsKept ==
    ASSUME "InitToken" \notin Calls
    PROVE  Spec => []SessionsCounted
<1>1. Init => TypeInv /\ CountInv
  BY InitTypeCount
<1>2. TypeInv /\ CountInv /\ [Next]_vars => (TypeInv /\ CountInv)'
  <2> SUFFICES ASSUME TypeInv, CountInv, [Next]_vars PROVE TypeInv' /\ CountInv'
    OBVIOUS
  <2>1. \A t \in Threads : ~init_token(t)
    BY DEF CountInv, NoReset, MayReset, Resetting, init_token, At
  <2> QED
    BY <2>1, TypeCountNext
<1>3. TypeInv /\ CountInv => SessionsCounted
  BY CountedFromInv
<1> QED
  BY <1>1, <1>2, <1>3, PTL DEF Spec

-----------------------------------------------------------------------------
(* One thread                                                              *)

OneThread == \E t : Threads = {t}

Agrees(h) == sess[h].role = login[sess[h].slot]

\* A session whose copy of the login state a login or logout is yet to change.
Behind(c, h) ==
    \/ c.pc = "login_collect" /\ sess[h].slot = c.slot
    \/ c.pc = "login_apply" /\ h \in c.todo
    \/ c.pc = "logout_cancel" /\ sess[h].slot = c.slot /\ h > c.cursor

\* The logins, sessions and secrets between two steps of a call.
SOInv == \A h \in sessions : login[sess[h].slot] = "SO" => sess[h].rw
AgreeInv(c) == \A h \in sessions : Agrees(h) \/ Behind(c, h)
OpInv(c) ==
    \A h \in Handles : sess[h].op =>
       \/ h \in sessions /\ login[sess[h].slot] # "Public"
       \/ h \in sessions /\ c.pc = "logout_cancel" /\ sess[h].slot = c.slot /\ h > c.cursor
       \/ c.pc = "close_finish" /\ h = c.h
KeyInv(c) ==
    persistKey # NoSlot =>
       \/ login[persistKey] = "USER"
       \/ c.pc \in {"logout_cancel", "logout_key"} /\ persistKey = c.slot

LoginInv(c) == SOInv /\ AgreeInv(c) /\ OpInv(c) /\ KeyInv(c)

\* What a call relies on at each place.
RelyInv(c) ==
    /\ c.pc \in Opening => c.rw \/ login[c.slot] # "SO"
    /\ c.pc = "open_insert" => c.role = login[c.slot]
    /\ c.pc \in {"open_insert", "close_finish"} => c.h \in Handles \ sessions
    /\ c.pc = "use" => c.h \in sessions
    /\ c.pc = "init_close" => \A h \in sessions : h <= c.cursor => sess[h].slot # c.slot
    /\ c.pc \in {"init_clear", "init_token"} => \A h \in sessions : sess[h].slot # c.slot
    /\ c.pc = "init_token" => persistKey = NoSlot
    /\ c.pc \in {"login_ro", "login_token"} => c.role \in {"USER", "SO"} /\ c.todo = {}
    /\ c.pc = "login_ro" => \A h \in sessions :
         h <= c.cursor /\ sess[h].slot = c.slot => sess[h].rw
    /\ c.pc = "login_token" /\ c.role = "SO" => \A h \in sessions :
         sess[h].slot = c.slot => sess[h].rw
    /\ c.pc \in {"login_collect", "login_apply", "login_key"} =>
         login[c.slot] = c.role /\ c.role \in {"USER", "SO"}
    /\ c.pc = "login_collect" =>
         /\ \A h \in sessions : sess[h].slot = c.slot => sess[h].role = "Public"
         /\ c.todo = {h \in sessions : sess[h].slot = c.slot /\ h <= c.cursor}
    /\ c.pc = "login_apply" => \A h \in c.todo :
         h \in sessions /\ sess[h].slot = c.slot /\ sess[h].role = "Public"
    /\ c.pc # "login_rollback"
    /\ c.pc \in {"logout_cancel", "logout_key"} => login[c.slot] = "Public"

OneInv == \A t \in Threads : LoginInv(call[t]) /\ RelyInv(call[t])

LEMMA OneStep ==
    ASSUME OneThread, TypeInv, NEW t \in Threads, NEW c \in Call, Moves(t, c),
           LoginInv(c)', RelyInv(c)'
    PROVE  OneInv'
<1>1. Threads = {t} /\ call'[t] = c
  BY TypeFacts DEF OneThread, Moves
<1> QED
  BY <1>1 DEF OneInv

\* The iteration over the map visits the least handle ahead of its cursor.
LEMMA Least ==
    ASSUME NEW S \in SUBSET Handles, S # {}
    PROVE  Min(S) \in S /\ \A g \in S : Min(S) <= g
<1>1. S \subseteq Nat
  BY BoundAssumption DEF Handles
<1>2. PICK x \in S : \A y \in S : <<y, x>> \notin OpToRel(<, Nat)
  BY <1>1, NatLessThanWellFounded, WFMin
<1>3. ASSUME NEW y \in S PROVE x <= y
  <2>1. <<y, x>> \in Nat \X Nat
    BY <1>1
  <2>2. <<y, x>>[1] = y /\ <<y, x>>[2] = x
    OBVIOUS
  <2>3. <<y, x>> \notin {ss \in Nat \X Nat : ss[1] < ss[2]}
    BY <1>2, Zenon DEF OpToRel
  <2>4. ~(<<y, x>>[1] < <<y, x>>[2])
    BY <2>1, <2>3, Zenon
  <2>5. ~(y < x)
    BY <2>2, <2>4
  <2> QED
    BY <1>1, <2>5
<1> QED
  BY <1>3 DEF Min

LEMMA VisitsLeast ==
    ASSUME TypeInv, NEW t, NEW p, NEW h, Visiting(t, p, h)
    PROVE  /\ call[t].pc = p /\ h \in sessions /\ h > call[t].cursor
           /\ \A g \in sessions : g > call[t].cursor => h <= g
<1>1. Ahead(t) \in SUBSET Handles /\ Ahead(t) # {} /\ h = Min(Ahead(t)) /\ call[t].pc = p
  BY TypeFacts DEF Ahead, Visiting, At
<1>2. h \in Ahead(t) /\ \A g \in Ahead(t) : h <= g
  BY <1>1, Least
<1> QED
  BY <1>1, <1>2 DEF Ahead

\* Places at which a call owes no change to a session or to the key.
Settled == PC \ {"login_collect", "login_apply", "logout_cancel", "logout_key", "close_finish"}

LEMMA StillLogin ==
    ASSUME NEW d, LoginInv(d), d.pc \in Settled, NEW c,
           UNCHANGED <<sessions, sess, login, persistKey>>
    PROVE  LoginInv(c)'
<1>1. SOInv' /\ AgreeInv(c)'
  <2>1. ASSUME NEW h \in sessions PROVE Agrees(h)
    <3>1. ~Behind(d, h)
      BY DEF Behind, Settled
    <3> QED
      BY <3>1 DEF LoginInv, AgreeInv
  <2> QED
    BY <2>1 DEF LoginInv, SOInv, AgreeInv, Agrees
<1>2. OpInv(c)' /\ KeyInv(c)'
  BY DEF LoginInv, OpInv, KeyInv, Settled
<1> QED
  BY <1>1, <1>2 DEF LoginInv

LEMMA StillStep ==
    ASSUME OneThread, TypeInv, OneInv, NEW t \in Threads, call[t].pc \in Settled,
           NEW c \in Call, Moves(t, c), RelyInv(c),
           UNCHANGED <<sessions, sess, login, persistKey>>
    PROVE  OneInv'
<1>1. LoginInv(c)'
  BY StillLogin DEF OneInv
<1>2. RelyInv(c)'
  BY DEF RelyInv
<1> QED
  BY <1>1, <1>2, OneStep

\* Places at which a call relies on nothing.
Easy == {"idle", "close_all"}

LEMMA EasyRely ==
    ASSUME NEW c, c.pc \in Easy
    PROVE  RelyInv(c)
BY DEF RelyInv, Easy, Opening

LEMMA OneStarts ==
    ASSUME OneThread, TypeInv, OneInv, NEW t \in Threads,
           \/ \E s \in Slots : \/ \E rw \in BOOLEAN : open_session(t, s, rw)
                               \/ C_CloseAllSessions(t, s)
                               \/ C_InitToken(t, s)
           \/ \E h \in sessions : \/ \E role \in {"USER", "SO"} : C_Login(t, h, role)
                                  \/ get_session(t, h)
    PROVE  OneInv'
<1> USE DEF Begin, At
<1>0. "idle" \in Settled
  BY DEF Settled, PC
<1>1. ASSUME NEW s \in Slots, NEW rw \in BOOLEAN, open_session(t, s, rw)
      PROVE  OneInv'
  <2>1. "open_count" \in PC
    BY DEF PC, Opening
  <2>2. PICK c \in Call : c = Opened("open_count", s, rw) /\ c.pc = "open_count" /\ c.slot = s /\ c.rw = rw
    BY <2>1, StartOpen
  <2>3. Moves(t, c) /\ call[t].pc = "idle"
    BY <1>1, <2>2, Zenon DEF open_session, Moves, Opened
  <2>4. UNCHANGED <<sessions, sess, login, persistKey>> /\ (rw \/ login[s] # "SO")
    BY <1>1 DEF open_session
  <2>5. RelyInv(c)
    BY <2>2, <2>4 DEF RelyInv, Opening
  <2> QED
    BY <1>0, <2>3, <2>4, <2>5, StillStep
<1>2. ASSUME NEW s \in Slots, C_CloseAllSessions(t, s)
      PROVE  OneInv'
  <2>1. "close_all" \in PC
    BY DEF PC, Iterating
  <2>2. PICK c \in Call : c = OnSlot("close_all", s) /\ c.pc = "close_all"
    BY <2>1, StartSlot
  <2>3. Moves(t, c) /\ call[t].pc = "idle"
    BY <1>2, <2>2, Zenon DEF C_CloseAllSessions, Moves, OnSlot
  <2>4. UNCHANGED <<sessions, sess, login, persistKey>>
    BY <1>2 DEF C_CloseAllSessions
  <2>5. RelyInv(c)
    BY <2>2, EasyRely DEF Easy
  <2> QED
    BY <1>0, <2>3, <2>4, <2>5, StillStep
<1>3. ASSUME NEW s \in Slots, C_InitToken(t, s)
      PROVE  OneInv'
  <2>1. "init_close" \in PC
    BY DEF PC, Iterating
  <2>2. PICK c \in Call : c = OnSlot("init_close", s) /\ c.pc = "init_close" /\ c.cursor = 0
    BY <2>1, StartSlot
  <2>3. Moves(t, c) /\ call[t].pc = "idle"
    BY <1>3, <2>2, Zenon DEF C_InitToken, Moves, OnSlot
  <2>4. UNCHANGED <<sessions, sess, login, persistKey>>
    BY <1>3 DEF C_InitToken
  <2>5. \A h \in sessions : ~(h <= 0)
    BY TypeFacts, BoundAssumption DEF Handles
  <2>6. RelyInv(c)
    BY <2>2, <2>5 DEF RelyInv, Opening
  <2> QED
    BY <1>0, <2>3, <2>4, <2>6, StillStep
<1>4. ASSUME NEW h \in sessions, NEW role \in {"USER", "SO"}, C_Login(t, h, role)
      PROVE  OneInv'
  <2>0. PICK p : p = (IF role = "SO" THEN "login_ro" ELSE "login_token")
    OBVIOUS
  <2>1. p \in PC /\ sess[h].slot \in Slots /\ role \in LoginState
    BY <2>0, TypeFacts DEF PC, Iterating, LoginState, Session
  <2>2. PICK c \in Call : /\ c = LoggingIn(p, sess[h].slot, role) /\ c.pc = p
                          /\ c.role = role /\ c.cursor = 0 /\ c.todo = {}
    BY <2>1, StartLogin
  <2>3. Moves(t, c) /\ call[t].pc = "idle"
    BY <1>4, <2>0, <2>2, Zenon DEF C_Login, Moves, LoggingIn
  <2>4. UNCHANGED <<sessions, sess, login, persistKey>>
    BY <1>4 DEF C_Login
  <2>5. \A g \in sessions : ~(g <= 0)
    BY TypeFacts, BoundAssumption DEF Handles
  <2>6. RelyInv(c)
    BY <2>0, <2>2, <2>5 DEF RelyInv, Opening
  <2> QED
    BY <1>0, <2>3, <2>4, <2>6, StillStep
<1>5. ASSUME NEW h \in sessions, get_session(t, h)
      PROVE  OneInv'
  <2>1. "use" \in PC /\ h \in Handles
    BY TypeFacts DEF PC
  <2>2. PICK c \in Call : c = OnSession("use", h) /\ c.pc = "use" /\ c.h = h
    BY <2>1, StartSession
  <2>3. Moves(t, c) /\ call[t].pc = "idle"
    BY <1>5, <2>2, Zenon DEF get_session, Moves, OnSession
  <2>4. UNCHANGED <<sessions, sess, login, persistKey>>
    BY <1>5 DEF get_session
  <2>5. RelyInv(c)
    BY <2>2 DEF RelyInv, Opening
  <2> QED
    BY <1>0, <2>3, <2>4, <2>5, StillStep
<1> QED
  BY <1>1, <1>2, <1>3, <1>4, <1>5

LEMMA StillReturn ==
    ASSUME OneThread, TypeInv, OneInv, NEW t \in Threads, call[t].pc \in Settled, Return(t),
           UNCHANGED <<sessions, sess, login, persistKey>>
    PROVE  OneInv'
<1>1. Idle \in Call /\ Moves(t, Idle) /\ RelyInv(Idle)
  BY IdleType, ReturnMoves, EasyRely DEF Easy
<1> QED
  BY <1>1, StillStep

LEMMA OneStill ==
    ASSUME OneThread, TypeInv, OneInv, NEW t \in Threads,
           \/ increment_session_count(t) \/ open_inherit(t) \/ open_undo(t)
           \/ close_all_done(t) \/ init_closed(t) \/ has_ro_sessions(t)
    PROVE  OneInv'
<1> USE DEF At, AtEnd
<1>0. {"open_count", "open_inherit", "open_undo", "close_all", "init_close", "login_ro"} \subseteq Settled
  BY DEF Settled, PC, Opening, Iterating
<1>1. PICK d \in Call : d = call[t] /\ RelyInv(d)
  BY TypeFacts DEF OneInv
<1>2. CASE increment_session_count(t)
  <2>1. UNCHANGED <<sessions, sess, login, persistKey>> /\ d.pc = "open_count"
    BY <1>1, <1>2 DEF increment_session_count
  <2>2. CASE Return(t)
    BY <1>0, <1>1, <2>1, <2>2, StillReturn
  <2>3. CASE Goto(t, "open_inherit")
    <3>1. "open_inherit" \in PC
      BY DEF PC, Opening
    <3>2. PICK c \in Call : Moves(t, c) /\ c.pc = "open_inherit" /\ c.slot = d.slot /\ c.rw = d.rw
      BY <1>1, <2>3, <3>1, GotoMoves
    <3>3. RelyInv(c)
      BY <1>1, <2>1, <3>2 DEF RelyInv, Opening
    <3> QED
      BY <1>0, <1>1, <2>1, <3>2, <3>3, StillStep
  <2> QED
    BY <1>2, <2>2, <2>3 DEF increment_session_count
<1>3. CASE open_inherit(t)
  <2>1. UNCHANGED <<sessions, sess, login, persistKey>> /\ d.pc = "open_inherit"
    BY <1>1, <1>3 DEF open_inherit
  <2>2. d.rw \/ login[d.slot] # "SO"
    BY <1>1, <2>1 DEF RelyInv, Opening
  <2>3. PICK h \in unused :
          call' = [call EXCEPT ![t].pc = "open_insert", ![t].h = h, ![t].role = InheritedRole(t)]
    BY <1>1, <1>3, <2>2 DEF open_inherit, InheritedRole
  <2>4. PICK r \in LoginState : r = login[d.slot] /\ r = InheritedRole(t)
    BY <1>1, TypeFacts DEF InheritedRole, Call
  <2>5. PICK c : c = [d EXCEPT !.pc = "open_insert", !.h = h, !.role = r]
    OBVIOUS
  <2>6. h \in Handles \ sessions /\ "open_insert" \in PC
    BY TypeFacts DEF PC, Opening
  <2>7. /\ c \in Call /\ c.slot = d.slot /\ c.rw = d.rw /\ c.pc = "open_insert" /\ c.h = h
        /\ c.role = r
    BY <2>5, <2>6 DEF Call
  <2>8. Moves(t, c)
    BY <1>1, <2>3, <2>4, <2>5, TypeFacts DEF Moves
  <2>9. RelyInv(c)
    BY <2>2, <2>4, <2>6, <2>7 DEF RelyInv
  <2> QED
    BY <1>0, <1>1, <2>1, <2>7, <2>8, <2>9, StillStep
<1>4. CASE open_undo(t)
  BY <1>0, <1>4, StillReturn DEF open_undo
<1>5. CASE close_all_done(t)
  BY <1>0, <1>5, StillReturn DEF close_all_done
<1>6. CASE init_closed(t)
  <2>1. /\ UNCHANGED <<sessions, sess, login, persistKey>> /\ d.pc = "init_close"
        /\ Ahead(t) = {} /\ Goto(t, "init_clear")
    BY <1>1, <1>6 DEF init_closed
  <2>2. "init_clear" \in PC
    BY DEF PC
  <2>3. PICK c \in Call : Moves(t, c) /\ c.pc = "init_clear" /\ c.slot = d.slot
    BY <1>1, <2>1, <2>2, GotoMoves
  <2>4. \A h \in sessions : h <= d.cursor
    BY <1>1, <2>1, TypeFacts, BoundAssumption DEF Ahead, Call, Handles
  <2>5. \A h \in sessions : sess[h].slot # d.slot
    BY <1>1, <2>1, <2>4 DEF RelyInv
  <2>6. RelyInv(c)
    BY <2>3, <2>5 DEF RelyInv, Opening
  <2> QED
    BY <1>0, <1>1, <2>1, <2>3, <2>6, StillStep
<1>7. CASE has_ro_sessions(t)
  <2>1. UNCHANGED <<sessions, sess, login, persistKey>> /\ d.pc = "login_ro"
    BY <1>1, <1>7 DEF has_ro_sessions, Visiting
  <2>2. /\ d.role \in {"USER", "SO"} /\ d.todo = {}
        /\ \A h \in sessions : h <= d.cursor /\ sess[h].slot = d.slot => sess[h].rw
    BY <1>1, <2>1 DEF RelyInv
  <2>3. CASE Ahead(t) = {} /\ Goto(t, "login_token")
    <3>1. "login_token" \in PC
      BY DEF PC
    <3>2. PICK c \in Call : /\ Moves(t, c) /\ c.pc = "login_token" /\ c.slot = d.slot
                            /\ c.role = d.role /\ c.todo = d.todo
      BY <1>1, <2>3, <3>1, GotoMoves
    <3>3. \A h \in sessions : h <= d.cursor
      BY <1>1, <2>3, TypeFacts, BoundAssumption DEF Ahead, Call, Handles
    <3>4. RelyInv(c)
      BY <2>2, <3>2, <3>3 DEF RelyInv, Opening
    <3> QED
      BY <1>0, <1>1, <2>1, <3>2, <3>4, StillStep
  <2>4. CASE Return(t)
    BY <1>0, <1>1, <2>1, <2>4, StillReturn
  <2>5. ASSUME NEW h \in sessions, Visiting(t, "login_ro", h), ~ReadOnly(h, call[t].slot), Advance(t, h)
        PROVE  OneInv'
    <3>1. h \in Handles /\ \A g \in sessions : g > d.cursor => h <= g
      BY <1>1, <2>5, VisitsLeast, TypeFacts
    <3>2. PICK c \in Call : /\ Moves(t, c) /\ c.pc = "login_ro" /\ c.slot = d.slot
                            /\ c.role = d.role /\ c.todo = d.todo /\ c.cursor = h
      BY <1>1, <2>1, <2>5, <3>1, AdvanceMoves
    <3>3. ASSUME NEW g \in sessions, g <= h, sess[g].slot = d.slot PROVE sess[g].rw
      <4>1. g <= d.cursor \/ g = h
        <5>1. g \in Int /\ h \in Int /\ d.cursor \in Int
          BY TypeFacts, BoundAssumption DEF Call, Handles
        <5> QED
          BY <3>1, <3>3, <5>1
      <4> QED
        BY <1>1, <2>2, <2>5, <3>3, <4>1 DEF ReadOnly
    <3>4. RelyInv(c)
      BY <2>2, <3>2, <3>3 DEF RelyInv, Opening
    <3> QED
      BY <1>0, <1>1, <2>1, <3>2, <3>4, StillStep
  <2> QED
    BY <1>7, <2>3, <2>4, <2>5 DEF has_ro_sessions
<1> QED
  BY <1>2, <1>3, <1>4, <1>5, <1>6, <1>7

\* What the invariants say of a thread.
LEMMA OneFacts ==
    ASSUME TypeInv, OneInv, NEW t \in Threads
    PROVE  \E d \in Call : /\ d = call[t] /\ RelyInv(d)
                           /\ SOInv /\ AgreeInv(d) /\ OpInv(d) /\ KeyInv(d)
BY TypeFacts DEF OneInv, LoginInv

\* If the call owes nothing every open session agrees with its token.
LEMMA SettledAgree ==
    ASSUME NEW d, d.pc \in Settled \cup {"close_finish"}, AgreeInv(d)
    PROVE  \A h \in sessions : Agrees(h)
<1>1. \A h \in sessions : ~Behind(d, h)
  BY DEF Behind, Settled
<1> QED
  BY <1>1 DEF AgreeInv

LEMMA OneInsert ==
    ASSUME OneThread, TypeInv, OneInv, NEW t \in Threads, open_insert(t)
    PROVE  OneInv'
<1>1. PICK d \in Call : /\ d = call[t] /\ RelyInv(d)
                        /\ SOInv /\ AgreeInv(d) /\ OpInv(d) /\ KeyInv(d)
  BY OneFacts
<1>2. d.pc = "open_insert" /\ d.pc \in Settled
  BY <1>1 DEF open_insert, At, Settled, PC, Opening
<1>3. PICK h \in Handles \ sessions : h = d.h
  BY <1>1, <1>2 DEF RelyInv
<1>4. d.role = login[d.slot] /\ (d.rw \/ login[d.slot] # "SO") /\ d.rw \in BOOLEAN /\ d.slot \in Slots
  BY <1>1, <1>2 DEF RelyInv, Opening, Call
<1>5. PICK r : r = [slot |-> d.slot, rw |-> d.rw, role |-> d.role, op |-> FALSE, closed |-> FALSE]
  OBVIOUS
<1>6. r.slot = d.slot /\ r.rw = d.rw /\ r.role = d.role /\ ~r.op
  BY <1>5
<1>7. sess' = [sess EXCEPT ![h] = r]
  BY <1>1, <1>3, <1>5, Zenon DEF open_insert
<1>8. sessions' = sessions \cup {h} /\ UNCHANGED <<login, persistKey>> /\ Return(t)
  BY <1>1, <1>3 DEF open_insert
<1>9. sess'[h] = r /\ \A g \in Handles : g # h => sess'[g] = sess[g]
  BY <1>7, TypeFacts
<1>10. SOInv'
  BY <1>1, <1>4, <1>6, <1>8, <1>9, TypeFacts DEF SOInv
<1>11. AgreeInv(Idle)'
  <2>1. \A g \in sessions : Agrees(g)
    BY <1>1, <1>2, SettledAgree
  <2>2. \A g \in sessions' : sess'[g].role = login'[sess'[g].slot]
    BY <1>4, <1>6, <1>8, <1>9, <2>1, TypeFacts DEF Agrees
  <2> QED
    BY <2>2 DEF AgreeInv, Agrees
<1>12. OpInv(Idle)'
  BY <1>1, <1>2, <1>6, <1>8, <1>9 DEF OpInv
<1>13. KeyInv(Idle)'
  BY <1>1, <1>2, <1>8 DEF KeyInv
<1>14. RelyInv(Idle)'
  BY IdleType DEF RelyInv, Opening
<1> QED
  BY <1>8, <1>10, <1>11, <1>12, <1>13, <1>14, IdleType, ReturnMoves, OneStep DEF LoginInv

LEMMA OneClose ==
    ASSUME OneThread, TypeInv, OneInv, NEW t \in Threads, NEW h \in sessions, close_session(t, h)
    PROVE  OneInv'
<1>1. PICK d \in Call : /\ d = call[t] /\ RelyInv(d)
                        /\ SOInv /\ AgreeInv(d) /\ OpInv(d) /\ KeyInv(d)
  BY OneFacts
<1>2. h \in Handles /\ "close_finish" \in PC
  BY TypeFacts DEF PC
<1>3. PICK c \in Call : c = OnSession("close_finish", h) /\ c.pc = "close_finish" /\ c.h = h
  BY <1>2, StartSession
<1>4. Moves(t, c) /\ d.pc = "idle" /\ d.pc \in Settled
  BY <1>1, <1>3 DEF close_session, Begin, At, Moves, OnSession, Settled, PC
<1>5. sessions' = sessions \ {h} /\ UNCHANGED <<sess, login, persistKey>>
  BY DEF close_session
<1>6. SOInv'
  BY <1>1, <1>5 DEF SOInv
<1>7. AgreeInv(c)'
  <2>1. \A g \in sessions : Agrees(g)
    BY <1>1, <1>4, SettledAgree
  <2> QED
    BY <1>5, <2>1 DEF AgreeInv, Agrees
<1>8. OpInv(c)'
  BY <1>1, <1>3, <1>4, <1>5 DEF OpInv
<1>9. KeyInv(c)'
  BY <1>1, <1>4, <1>5 DEF KeyInv
<1>10. RelyInv(c)'
  BY <1>2, <1>3, <1>5 DEF RelyInv, Opening
<1> QED
  BY <1>4, <1>6, <1>7, <1>8, <1>9, <1>10, OneStep DEF LoginInv

LEMMA OneFinish ==
    ASSUME OneThread, TypeInv, OneInv, NEW t \in Threads, close_finish(t)
    PROVE  OneInv'
<1>1. PICK d \in Call : /\ d = call[t] /\ RelyInv(d)
                        /\ SOInv /\ AgreeInv(d) /\ OpInv(d) /\ KeyInv(d)
  BY OneFacts
<1>2. d.pc = "close_finish"
  BY <1>1 DEF close_finish, At
<1>3. PICK h \in Handles \ sessions : h = d.h
  BY <1>1, <1>2 DEF RelyInv
<1>4. PICK r : r = Closed(sess[h]) /\ ~r.op
  BY ClosedType, TypeFacts
<1>5. sess' = [sess EXCEPT ![h] = r] /\ UNCHANGED <<sessions, login, persistKey>> /\ Return(t)
  BY <1>1, <1>3, <1>4 DEF close_finish
<1>6. sess'[h] = r /\ \A g \in Handles : g # h => sess'[g] = sess[g]
  BY <1>5, TypeFacts
<1>7. \A g \in sessions : sess'[g] = sess[g]
  BY <1>6, TypeFacts
<1>8. SOInv'
  BY <1>1, <1>5, <1>7 DEF SOInv
<1>9. AgreeInv(Idle)'
  <2>1. \A g \in sessions : Agrees(g)
    BY <1>1, <1>2, SettledAgree
  <2> QED
    BY <1>5, <1>7, <2>1 DEF AgreeInv, Agrees
<1>10. OpInv(Idle)'
  BY <1>1, <1>2, <1>3, <1>4, <1>5, <1>6 DEF OpInv
<1>11. KeyInv(Idle)'
  BY <1>1, <1>2, <1>5 DEF KeyInv
<1>12. RelyInv(Idle)'
  BY IdleType DEF RelyInv, Opening
<1> QED
  BY <1>5, <1>8, <1>9, <1>10, <1>11, <1>12, IdleType, ReturnMoves, OneStep DEF LoginInv

LEMMA OneCloseAll ==
    ASSUME OneThread, TypeInv, OneInv, NEW t \in Threads, NEW p \in {"close_all", "init_close"},
           close_all_sessions(t, p)
    PROVE  OneInv'
<1>1. PICK d \in Call : /\ d = call[t] /\ RelyInv(d)
                        /\ SOInv /\ AgreeInv(d) /\ OpInv(d) /\ KeyInv(d)
  BY OneFacts
<1>2. PICK h \in sessions :
        /\ Visiting(t, p, h) /\ Advance(t, h)
        /\ IF sess[h].slot = call[t].slot
           THEN /\ sessions' = sessions \ {h}
                /\ sess' = [sess EXCEPT ![h] = Closed(@)]
           ELSE UNCHANGED <<sessions, sess>>
        /\ UNCHANGED <<login, persistKey>>
  BY DEF close_all_sessions
<1>3. h \in Handles /\ d.pc = p /\ \A g \in sessions : g > d.cursor => h <= g
  BY <1>1, <1>2, VisitsLeast, TypeFacts
<1>4. PICK c \in Call : Moves(t, c) /\ c.pc = p /\ c.slot = d.slot /\ c.cursor = h
  BY <1>1, <1>2, <1>3, AdvanceMoves
<1>5. d.pc \in Settled
  BY <1>3 DEF Settled, PC, Iterating
<1>6. \A g \in sessions : Agrees(g)
  BY <1>1, <1>5, SettledAgree
<1>7. \A g \in sessions : g <= h => g <= d.cursor \/ g = h
  BY <1>3, TypeFacts, BoundAssumption DEF Call, Handles
<1>8. CASE sess[h].slot # d.slot
  <2>1. UNCHANGED <<sessions, sess, login, persistKey>>
    BY <1>1, <1>2, <1>8
  <2>2. RelyInv(c)
    <3>1. p = "init_close" => \A g \in sessions : g <= h => sess[g].slot # d.slot
      BY <1>1, <1>3, <1>7, <1>8 DEF RelyInv
    <3> QED
      BY <1>4, <3>1 DEF RelyInv, Opening
  <2> QED
    BY <1>1, <1>4, <1>5, <2>1, <2>2, StillStep
<1>9. CASE sess[h].slot = d.slot
  <2>1. PICK r : r = Closed(sess[h]) /\ ~r.op
    BY <1>3, ClosedType, TypeFacts
  <2>2. /\ sess' = [sess EXCEPT ![h] = r] /\ sessions' = sessions \ {h}
        /\ UNCHANGED <<login, persistKey>>
    BY <1>1, <1>2, <1>9, <2>1
  <2>3. sess'[h] = r /\ \A g \in Handles : g # h => sess'[g] = sess[g]
    BY <1>3, <2>2, TypeFacts
  <2>4. \A g \in sessions' : g \in sessions /\ g # h /\ sess'[g] = sess[g]
    BY <2>2, <2>3, TypeFacts
  <2>5. SOInv'
    BY <1>1, <2>2, <2>4 DEF SOInv
  <2>6. AgreeInv(c)'
    BY <1>6, <2>2, <2>4 DEF AgreeInv, Agrees
  <2>7. OpInv(c)'
    BY <1>1, <1>3, <2>1, <2>2, <2>3 DEF OpInv
  <2>8. KeyInv(c)'
    BY <1>1, <1>3, <2>2 DEF KeyInv
  <2>9. RelyInv(c)'
    <3>1. p = "init_close" => \A g \in sessions' : g <= h => sess'[g].slot # d.slot
      BY <1>1, <1>3, <1>7, <2>4 DEF RelyInv
    <3> QED
      BY <1>4, <3>1 DEF RelyInv, Opening
  <2> QED
    BY <1>4, <2>5, <2>6, <2>7, <2>8, <2>9, OneStep DEF LoginInv
<1> QED
  BY <1>8, <1>9

LEMMA OneInit ==
    ASSUME OneThread, TypeInv, OneInv, NEW t \in Threads, init_clear(t) \/ init_token(t)
    PROVE  OneInv'
<1>1. PICK d \in Call : /\ d = call[t] /\ RelyInv(d)
                        /\ SOInv /\ AgreeInv(d) /\ OpInv(d) /\ KeyInv(d)
  BY OneFacts
<1>2. d.pc \in {"init_clear", "init_token"} /\ d.pc \in Settled
  BY <1>1 DEF init_clear, init_token, At, Settled, PC
<1>3. \A h \in sessions : sess[h].slot # d.slot
  BY <1>1, <1>2 DEF RelyInv
<1>4. \A g \in sessions : Agrees(g)
  BY <1>1, <1>2, SettledAgree
<1>5. UNCHANGED <<sessions, sess>>
  BY DEF init_clear, init_token
<1>6. \A g \in sessions : login'[sess[g].slot] = login[sess[g].slot]
  BY <1>1, <1>3, TypeFacts DEF init_clear, init_token, Session
<1>7. persistKey' = NoSlot
  BY <1>1, <1>2 DEF init_clear, init_token, At, RelyInv
<1>8. SOInv'
  BY <1>1, <1>5, <1>6 DEF SOInv
<1>9. ASSUME NEW c PROVE AgreeInv(c)' /\ OpInv(c)' /\ KeyInv(c)'
  <2>1. AgreeInv(c)'
    BY <1>4, <1>5, <1>6 DEF AgreeInv, Agrees
  <2>2. OpInv(c)'
    BY <1>1, <1>2, <1>5, <1>6 DEF OpInv
  <2> QED
    BY <1>7, <2>1, <2>2 DEF KeyInv
<1>10. CASE init_clear(t)
  <2>1. Goto(t, "init_token") /\ "init_token" \in PC
    BY <1>10 DEF init_clear, PC
  <2>2. PICK c \in Call : Moves(t, c) /\ c.pc = "init_token" /\ c.slot = d.slot
    BY <1>1, <2>1, GotoMoves
  <2>3. RelyInv(c)'
    BY <1>3, <1>5, <1>7, <2>2 DEF RelyInv, Opening
  <2> QED
    BY <1>8, <1>9, <2>2, <2>3, OneStep DEF LoginInv
<1>11. CASE init_token(t)
  <2>1. Idle \in Call /\ Moves(t, Idle) /\ Idle.pc = "idle"
    BY <1>11, IdleType, ReturnMoves DEF init_token
  <2>2. RelyInv(Idle)'
    BY <2>1 DEF RelyInv, Opening
  <2> QED
    BY <1>8, <1>9, <2>1, <2>2, OneStep DEF LoginInv
<1> QED
  BY <1>10, <1>11

LEMMA OneLoginToken ==
    ASSUME OneThread, TypeInv, OneInv, NEW t \in Threads, login_token(t)
    PROVE  OneInv'
<1>1. PICK d \in Call : /\ d = call[t] /\ RelyInv(d)
                        /\ SOInv /\ AgreeInv(d) /\ OpInv(d) /\ KeyInv(d)
  BY OneFacts
<1>2. /\ d.pc = "login_token" /\ d.pc \in Settled /\ d.slot \in Slots
      /\ UNCHANGED <<sessions, sess, persistKey>>
  BY <1>1 DEF login_token, At, Settled, PC, Call
<1>3. CASE Return(t) /\ UNCHANGED login
  BY <1>1, <1>2, <1>3, StillReturn
<1>4. CASE /\ login[d.slot] = "Public" /\ login' = [login EXCEPT ![d.slot] = d.role]
           /\ Goto(t, "login_collect")
  <2>1. "login_collect" \in PC
    BY DEF PC, Iterating
  <2>2. PICK c \in Call : /\ Moves(t, c) /\ c.pc = "login_collect" /\ c.slot = d.slot
                          /\ c.role = d.role /\ c.todo = d.todo /\ c.cursor = 0
    BY <1>1, <1>4, <2>1, GotoMoves
  <2>3. /\ d.role \in {"USER", "SO"} /\ d.todo = {}
        /\ d.role = "SO" => \A h \in sessions : sess[h].slot = d.slot => sess[h].rw
    BY <1>1, <1>2 DEF RelyInv
  <2>4. login'[d.slot] = d.role /\ \A s \in Slots : s # d.slot => login'[s] = login[s]
    BY <1>2, <1>4, TypeFacts
  <2>5. \A h \in Handles : sess[h].slot \in Slots
    BY TypeFacts DEF Session
  <2>6. \A h \in sessions : Agrees(h) /\ h \in Handles
    BY <1>1, <1>2, SettledAgree, TypeFacts
  <2>7. SOInv'
    BY <1>1, <1>2, <2>3, <2>4, <2>5, <2>6 DEF SOInv
  <2>8. AgreeInv(c)'
    BY <1>2, <2>2, <2>4, <2>5, <2>6 DEF AgreeInv, Agrees, Behind
  <2>9. OpInv(c)'
    BY <1>1, <1>2, <2>3, <2>4, <2>5 DEF OpInv
  <2>10. KeyInv(c)'
    <3>1. persistKey # NoSlot => persistKey \in Slots /\ login[persistKey] = "USER"
      BY <1>1, <1>2, TypeFacts DEF KeyInv
    <3> QED
      BY <1>2, <1>4, <2>4, <3>1 DEF KeyInv
  <2>11. RelyInv(c)'
    <3>1. \A h \in sessions : sess[h].slot = d.slot => sess[h].role = "Public"
      BY <1>4, <2>6 DEF Agrees
    <3>2. \A h \in sessions : ~(h <= 0)
      BY TypeFacts, BoundAssumption DEF Handles
    <3>3. c.todo = {h \in sessions : sess[h].slot = c.slot /\ h <= c.cursor}
      BY <2>2, <2>3, <3>2
    <3> QED
      BY <1>2, <2>2, <2>3, <2>4, <3>1, <3>3 DEF RelyInv, Opening
  <2> QED
    BY <2>2, <2>7, <2>8, <2>9, <2>10, <2>11, OneStep DEF LoginInv
<1> QED
  BY <1>1, <1>3, <1>4 DEF login_token

LEMMA OneCollect ==
    ASSUME OneThread, TypeInv, OneInv, NEW t \in Threads, login_collect(t)
    PROVE  OneInv'
<1>1. PICK d \in Call : /\ d = call[t] /\ RelyInv(d)
                        /\ SOInv /\ AgreeInv(d) /\ OpInv(d) /\ KeyInv(d)
  BY OneFacts
<1>2. d.pc = "login_collect" /\ UNCHANGED <<sessions, sess, login, persistKey>>
  BY <1>1 DEF login_collect, At, AtEnd, Visiting
<1>3. /\ login[d.slot] = d.role /\ d.role \in {"USER", "SO"}
      /\ \A h \in sessions : sess[h].slot = d.slot => sess[h].role = "Public"
      /\ d.todo = {h \in sessions : sess[h].slot = d.slot /\ h <= d.cursor}
  BY <1>1, <1>2 DEF RelyInv
<1>4. \A h \in sessions : Agrees(h) \/ sess[h].slot = d.slot
  BY <1>1, <1>2 DEF AgreeInv, Behind
<1>5. ASSUME NEW c PROVE SOInv' /\ OpInv(c)' /\ KeyInv(c)'
  BY <1>1, <1>2 DEF SOInv, OpInv, KeyInv
<1>6. CASE Ahead(t) = {} /\ Goto(t, "login_apply")
  <2>1. "login_apply" \in PC
    BY DEF PC
  <2>2. PICK c \in Call : /\ Moves(t, c) /\ c.pc = "login_apply" /\ c.slot = d.slot
                          /\ c.role = d.role /\ c.todo = d.todo
    BY <1>1, <1>6, <2>1, GotoMoves
  <2>3. \A h \in sessions : h <= d.cursor
    BY <1>1, <1>6, TypeFacts, BoundAssumption DEF Ahead, Call, Handles
  <2>4. AgreeInv(c)'
    BY <1>2, <1>3, <1>4, <2>2, <2>3 DEF AgreeInv, Agrees, Behind
  <2>5. RelyInv(c)'
    BY <1>2, <1>3, <2>2 DEF RelyInv, Opening
  <2> QED
    BY <1>5, <2>2, <2>4, <2>5, OneStep DEF LoginInv
<1>7. ASSUME NEW h \in sessions, Visiting(t, "login_collect", h),
             call' = [call EXCEPT ![t].cursor = h,
                          ![t].todo = IF sess[h].slot = call[t].slot THEN @ \cup {h} ELSE @]
      PROVE  OneInv'
  <2>1. PICK todo \in SUBSET Handles : todo = IF sess[h].slot = d.slot THEN d.todo \cup {h} ELSE d.todo
    BY TypeFacts DEF Call
  <2>2. PICK c : c = [d EXCEPT !.cursor = h, !.todo = todo]
    OBVIOUS
  <2>3. /\ c \in Call /\ c.pc = d.pc /\ c.slot = d.slot /\ c.role = d.role
        /\ c.todo = todo /\ c.cursor = h
    BY <2>2, TypeFacts DEF Call
  <2>4. Moves(t, c)
    BY <1>1, <1>7, <2>1, <2>2, TypeFacts DEF Moves
  <2>5. h > d.cursor /\ \A g \in sessions : g > d.cursor => h <= g
    BY <1>1, <1>7, VisitsLeast
  <2>6. ASSUME NEW g \in sessions PROVE g <= h <=> g <= d.cursor \/ g = h
    <3>1. g \in Int /\ h \in Int /\ d.cursor \in Int
      BY TypeFacts, BoundAssumption DEF Call, Handles
    <3> QED
      BY <2>5, <3>1
  <2>7. todo = {g \in sessions : sess[g].slot = d.slot /\ g <= h}
    BY <1>3, <2>1, <2>6
  <2>8. AgreeInv(c)'
    BY <1>2, <1>4, <2>3 DEF AgreeInv, Agrees, Behind
  <2>9. RelyInv(c)'
    BY <1>2, <1>3, <2>3, <2>7 DEF RelyInv, Opening
  <2> QED
    BY <1>5, <2>3, <2>4, <2>8, <2>9, OneStep DEF LoginInv
<1> QED
  BY <1>6, <1>7 DEF login_collect, AtEnd

LEMMA OneApply ==
    ASSUME OneThread, TypeInv, OneInv, NEW t \in Threads, login_apply(t)
    PROVE  OneInv'
<1>1. PICK d \in Call : /\ d = call[t] /\ RelyInv(d)
                        /\ SOInv /\ AgreeInv(d) /\ OpInv(d) /\ KeyInv(d)
  BY OneFacts
<1>2. d.pc = "login_apply" /\ UNCHANGED <<sessions, login, persistKey>> /\ d.todo # {}
  BY <1>1 DEF login_apply, At
<1>3. /\ login[d.slot] = d.role /\ d.role \in {"USER", "SO"}
      /\ \A h \in d.todo : h \in sessions /\ sess[h].slot = d.slot /\ sess[h].role = "Public"
  BY <1>1, <1>2 DEF RelyInv
<1>4. PICK h : h = Min(d.todo) /\ h \in d.todo
  BY <1>2, Least DEF Call
<1>5. h \in sessions /\ h \in Handles /\ sess[h].slot = d.slot /\ sess[h].role = "Public"
  BY <1>3, <1>4, TypeFacts
<1>6. CanLogIn(sess[h], d.role)
  BY <1>1, <1>3, <1>5 DEF CanLogIn, SOInv
<1>7. /\ call' = [call EXCEPT ![t].todo = @ \ {h}, ![t].done = @ \cup {h}]
      /\ sess' = [sess EXCEPT ![h].role = d.role]
  BY <1>1, <1>4, <1>5, <1>6 DEF login_apply
<1>8. PICK c : c = [d EXCEPT !.todo = d.todo \ {h}, !.done = d.done \cup {h}]
  OBVIOUS
<1>9. c \in Call /\ c.pc = d.pc /\ c.slot = d.slot /\ c.role = d.role /\ c.todo = d.todo \ {h}
  BY <1>5, <1>8 DEF Call
<1>10. Moves(t, c)
  BY <1>1, <1>7, <1>8, TypeFacts DEF Moves
<1>11. PICK e \in Session : e = sess[h]
  BY <1>5, TypeFacts
<1>12. PICK r : r = [e EXCEPT !.role = d.role]
  OBVIOUS
<1>13. r.slot = e.slot /\ r.rw = e.rw /\ r.op = e.op /\ r.role = d.role
  BY <1>12 DEF Session
<1>14. sess'[h] = r /\ \A g \in Handles : g # h => sess'[g] = sess[g]
  BY <1>5, <1>7, <1>11, <1>12, TypeFacts
<1>15. SOInv'
  BY <1>1, <1>2, <1>11, <1>13, <1>14, TypeFacts DEF SOInv
<1>16. AgreeInv(c)'
  <2>1. ASSUME NEW g \in sessions, g # h PROVE (Agrees(g) \/ Behind(c, g))'
    <3>1. Agrees(g) \/ g \in d.todo
      BY <1>1, <1>2 DEF AgreeInv, Behind
    <3>2. sess'[g] = sess[g] /\ login' = login
      BY <1>2, <1>14, <2>1, TypeFacts
    <3> QED
      BY <1>2, <1>9, <2>1, <3>1, <3>2 DEF Agrees, Behind
  <2>2. Agrees(h)'
    BY <1>2, <1>3, <1>5, <1>11, <1>13, <1>14 DEF Agrees
  <2> QED
    BY <1>2, <2>1, <2>2 DEF AgreeInv
<1>17. OpInv(c)'
  <2>1. \A g \in Handles : sess'[g].op = sess[g].op /\ sess'[g].slot = sess[g].slot
    BY <1>11, <1>13, <1>14
  <2> QED
    BY <1>1, <1>2, <1>9, <2>1 DEF OpInv
<1>18. KeyInv(c)'
  BY <1>1, <1>2 DEF KeyInv
<1>19. RelyInv(c)'
  <2>1. \A g \in c.todo : g \in sessions' /\ sess'[g].slot = c.slot /\ sess'[g].role = "Public"
    BY <1>2, <1>3, <1>9, <1>14, TypeFacts
  <2> QED
    BY <1>2, <1>3, <1>9, <2>1 DEF RelyInv, Opening
<1> QED
  BY <1>9, <1>10, <1>15, <1>16, <1>17, <1>18, <1>19, OneStep DEF LoginInv

LEMMA OneLoginEnd ==
    ASSUME OneThread, TypeInv, OneInv, NEW t \in Threads,
           login_rollback(t) \/ login_all_done(t) \/ login_key(t)
    PROVE  OneInv'
<1>1. PICK d \in Call : /\ d = call[t] /\ RelyInv(d)
                        /\ SOInv /\ AgreeInv(d) /\ OpInv(d) /\ KeyInv(d)
  BY OneFacts
<1>2. ~login_rollback(t)
  BY <1>1 DEF RelyInv, login_rollback, At
<1>3. CASE login_all_done(t)
  <2>1. /\ d.pc = "login_apply" /\ d.todo = {} /\ UNCHANGED <<sessions, sess, login, persistKey>>
        /\ Goto(t, "login_key") /\ "login_key" \in PC
    BY <1>1, <1>3 DEF RelyInv, login_all_done, At, PC
  <2>2. PICK c \in Call : Moves(t, c) /\ c.pc = "login_key" /\ c.slot = d.slot /\ c.role = d.role
    BY <1>1, <2>1, GotoMoves
  <2>3. \A h \in sessions : Agrees(h)
    BY <1>1, <2>1 DEF AgreeInv, Behind
  <2>4. SOInv' /\ AgreeInv(c)'
    BY <1>1, <2>1, <2>3 DEF SOInv, AgreeInv, Agrees
  <2>5. OpInv(c)' /\ KeyInv(c)'
    BY <1>1, <2>1 DEF OpInv, KeyInv
  <2>6. RelyInv(c)'
    BY <1>1, <2>1, <2>2 DEF RelyInv, Opening
  <2> QED
    BY <2>2, <2>4, <2>5, <2>6, OneStep DEF LoginInv
<1>4. CASE login_key(t)
  <2>1. /\ d.pc = "login_key" /\ d.pc \in Settled /\ UNCHANGED <<sessions, sess, login>> /\ Return(t)
        /\ persistKey' = persistKey \/ (persistKey' = d.slot /\ d.role = "USER")
    BY <1>1, <1>4 DEF login_key, At, Settled, PC
  <2>2. login[d.slot] = d.role
    BY <1>1, <2>1 DEF RelyInv
  <2>3. \A h \in sessions : Agrees(h)
    BY <1>1, <2>1, SettledAgree
  <2>4. SOInv' /\ AgreeInv(Idle)'
    BY <1>1, <2>1, <2>3 DEF SOInv, AgreeInv, Agrees
  <2>5. OpInv(Idle)'
    BY <1>1, <2>1 DEF OpInv
  <2>6. KeyInv(Idle)'
    BY <1>1, <2>1, <2>2 DEF KeyInv
  <2>7. RelyInv(Idle)'
    BY IdleType DEF RelyInv, Opening
  <2> QED
    BY <2>1, <2>4, <2>5, <2>6, <2>7, IdleType, ReturnMoves, OneStep DEF LoginInv
<1> QED
  BY <1>2, <1>3, <1>4

LEMMA OneLogout ==
    ASSUME OneThread, TypeInv, OneInv, NEW t \in Threads, NEW k \in sessions, C_Logout(t, k)
    PROVE  OneInv'
<1>1. PICK d \in Call : /\ d = call[t] /\ RelyInv(d)
                        /\ SOInv /\ AgreeInv(d) /\ OpInv(d) /\ KeyInv(d)
  BY OneFacts
<1>2. PICK s \in Slots : s = sess[k].slot
  BY TypeFacts DEF Session
<1>3. "logout_cancel" \in PC
  BY DEF PC, Iterating
<1>4. PICK c \in Call : c = OnSlot("logout_cancel", s) /\ c.pc = "logout_cancel" /\ c.slot = s /\ c.cursor = 0
  BY <1>3, StartSlot
<1>5. Moves(t, c) /\ d.pc = "idle" /\ d.pc \in Settled
  <2>1. Moves(t, c) /\ call[t].pc = "idle"
    BY <1>2, <1>4, Zenon DEF C_Logout, Begin, At, Moves, OnSlot
  <2> QED
    BY <1>1, <2>1 DEF Settled, PC
<1>6. login' = [login EXCEPT ![s] = "Public"] /\ UNCHANGED <<sessions, sess, persistKey>>
  BY <1>2 DEF C_Logout
<1>7. login'[s] = "Public" /\ \A x \in Slots : x # s => login'[x] = login[x]
  BY <1>6, TypeFacts
<1>8. \A h \in Handles : sess[h].slot \in Slots
  BY TypeFacts DEF Session
<1>9. \A h \in sessions : Agrees(h) /\ h \in Handles /\ h > 0
  BY <1>1, <1>5, SettledAgree, TypeFacts, BoundAssumption DEF Handles
<1>10. SOInv'
  BY <1>1, <1>6, <1>7, <1>8, <1>9 DEF SOInv
<1>11. AgreeInv(c)'
  BY <1>4, <1>6, <1>7, <1>8, <1>9 DEF AgreeInv, Agrees, Behind
<1>12. OpInv(c)'
  BY <1>1, <1>4, <1>5, <1>6, <1>7, <1>8, <1>9 DEF OpInv
<1>13. KeyInv(c)'
  BY <1>1, <1>4, <1>5, <1>6, <1>7, TypeFacts DEF KeyInv
<1>14. RelyInv(c)'
  BY <1>4, <1>7 DEF RelyInv, Opening
<1> QED
  BY <1>5, <1>10, <1>11, <1>12, <1>13, <1>14, OneStep DEF LoginInv

LEMMA OneCancel ==
    ASSUME OneThread, TypeInv, OneInv, NEW t \in Threads, cancel_sessions_for_slot(t)
    PROVE  OneInv'
<1>1. PICK d \in Call : /\ d = call[t] /\ RelyInv(d)
                        /\ SOInv /\ AgreeInv(d) /\ OpInv(d) /\ KeyInv(d)
  BY OneFacts
<1>2. d.pc = "logout_cancel" /\ UNCHANGED <<sessions, login, persistKey>>
  BY <1>1 DEF cancel_sessions_for_slot, At, AtEnd, Visiting
<1>3. login[d.slot] = "Public"
  BY <1>1, <1>2 DEF RelyInv
<1>4. \A h \in sessions : Agrees(h) \/ (sess[h].slot = d.slot /\ h > d.cursor)
  BY <1>1, <1>2 DEF AgreeInv, Behind
<1>5. \A h \in Handles : sess[h].op =>
        h \in sessions /\ (login[sess[h].slot] # "Public" \/ (sess[h].slot = d.slot /\ h > d.cursor))
  BY <1>1, <1>2 DEF OpInv
<1>6. CASE Ahead(t) = {} /\ Goto(t, "logout_key") /\ UNCHANGED sess
  <2>1. "logout_key" \in PC
    BY DEF PC
  <2>2. PICK c \in Call : Moves(t, c) /\ c.pc = "logout_key" /\ c.slot = d.slot
    BY <1>1, <1>6, <2>1, GotoMoves
  <2>3. \A h \in sessions : ~(h > d.cursor)
    BY <1>1, <1>6 DEF Ahead
  <2>4. SOInv' /\ AgreeInv(c)'
    BY <1>1, <1>2, <1>4, <1>6, <2>3 DEF SOInv, AgreeInv, Agrees
  <2>5. OpInv(c)'
    BY <1>2, <1>5, <1>6, <2>3 DEF OpInv
  <2>6. KeyInv(c)'
    BY <1>1, <1>2, <2>2 DEF KeyInv
  <2>7. RelyInv(c)'
    BY <1>2, <1>3, <2>2 DEF RelyInv, Opening
  <2> QED
    BY <2>2, <2>4, <2>5, <2>6, <2>7, OneStep DEF LoginInv
<1>7. ASSUME NEW h \in sessions, Visiting(t, "logout_cancel", h), Advance(t, h),
             sess' = IF sess[h].slot = call[t].slot THEN [sess EXCEPT ![h] = Cancelled(@)] ELSE sess
      PROVE  OneInv'
  <2>1. h \in Handles /\ \A g \in sessions : g > d.cursor /\ g # h => g > h
    BY <1>1, <1>7, VisitsLeast, TypeFacts, BoundAssumption DEF Handles
  <2>2. PICK c \in Call : Moves(t, c) /\ c.pc = "logout_cancel" /\ c.slot = d.slot /\ c.cursor = h
    BY <1>1, <1>2, <1>7, <2>1, AdvanceMoves
  <2>3. PICK e \in Session : e = sess[h]
    BY <2>1, TypeFacts
  <2>4. PICK r : r = IF e.slot = d.slot THEN Cancelled(e) ELSE e
    OBVIOUS
  <2>5. /\ r.slot = e.slot /\ r.rw = e.rw
        /\ e.slot = d.slot => r.role = "Public" /\ ~r.op
        /\ e.slot # d.slot => r = e
    BY <2>4 DEF Cancelled, Session
  <2>6. sess'[h] = r /\ \A g \in Handles : g # h => sess'[g] = sess[g]
    BY <1>1, <1>7, <2>1, <2>3, <2>4, TypeFacts
  <2>7. SOInv'
    BY <1>1, <1>2, <2>3, <2>5, <2>6, TypeFacts DEF SOInv
  <2>8. AgreeInv(c)'
    <3>1. ASSUME NEW g \in sessions, g # h PROVE (Agrees(g) \/ Behind(c, g))'
      <4>1. sess'[g] = sess[g] /\ login' = login
        BY <1>2, <2>6, <3>1, TypeFacts
      <4>2. Agrees(g) \/ (sess[g].slot = d.slot /\ g > h)
        BY <1>4, <2>1, <3>1
      <4> QED
        BY <2>2, <4>1, <4>2 DEF Agrees, Behind
    <3>2. Agrees(h)'
      <4>1. CASE e.slot = d.slot
        BY <1>2, <1>3, <2>3, <2>5, <2>6, <4>1 DEF Agrees
      <4>2. CASE e.slot # d.slot
        BY <1>2, <1>4, <2>3, <2>5, <2>6, <4>2 DEF Agrees
      <4> QED
        BY <4>1, <4>2
    <3> QED
      BY <1>2, <3>1, <3>2 DEF AgreeInv
  <2>9. OpInv(c)'
    <3>1. ASSUME NEW g \in Handles, sess'[g].op
          PROVE  /\ g \in sessions
                 /\ login[sess'[g].slot] # "Public" \/ (sess'[g].slot = d.slot /\ g > h)
      <4>1. CASE g # h
        BY <1>5, <2>1, <2>6, <3>1, <4>1
      <4>2. CASE g = h
        BY <1>5, <2>3, <2>5, <2>6, <3>1, <4>2
      <4> QED
        BY <4>1, <4>2
    <3> QED
      BY <1>2, <2>2, <3>1 DEF OpInv
  <2>10. KeyInv(c)'
    BY <1>1, <1>2, <2>2 DEF KeyInv
  <2>11. RelyInv(c)'
    BY <1>2, <1>3, <2>2 DEF RelyInv, Opening
  <2> QED
    BY <2>2, <2>7, <2>8, <2>9, <2>10, <2>11, OneStep DEF LoginInv
<1> QED
  BY <1>6, <1>7 DEF cancel_sessions_for_slot, AtEnd

LEMMA OneLogoutKey ==
    ASSUME OneThread, TypeInv, OneInv, NEW t \in Threads, logout_key(t)
    PROVE  OneInv'
<1>1. PICK d \in Call : /\ d = call[t] /\ RelyInv(d)
                        /\ SOInv /\ AgreeInv(d) /\ OpInv(d) /\ KeyInv(d)
  BY OneFacts
<1>2. d.pc = "logout_key" /\ UNCHANGED <<sessions, sess, login>> /\ persistKey' = NoSlot /\ Return(t)
  BY <1>1 DEF logout_key, clear_persist_key, At
<1>3. SOInv' /\ AgreeInv(Idle)'
  BY <1>1, <1>2 DEF SOInv, AgreeInv, Agrees, Behind
<1>4. OpInv(Idle)' /\ KeyInv(Idle)'
  BY <1>1, <1>2 DEF OpInv, KeyInv
<1>5. RelyInv(Idle)'
  BY IdleType DEF RelyInv, Opening
<1> QED
  BY <1>2, <1>3, <1>4, <1>5, IdleType, ReturnMoves, OneStep DEF LoginInv

LEMMA OneUse ==
    ASSUME OneThread, TypeInv, OneInv, NEW t \in Threads, use_session(t)
    PROVE  OneInv'
<1>1. PICK d \in Call : /\ d = call[t] /\ RelyInv(d)
                        /\ SOInv /\ AgreeInv(d) /\ OpInv(d) /\ KeyInv(d)
  BY OneFacts
<1>2. /\ d.pc = "use" /\ d.pc \in Settled /\ UNCHANGED <<sessions, login, persistKey>> /\ Return(t)
  BY <1>1 DEF use_session, At, Settled, PC
<1>3. PICK h \in sessions : h = d.h /\ h \in Handles
  BY <1>1, <1>2, TypeFacts DEF RelyInv
<1>4. PICK e \in Session : e = sess[h]
  BY <1>3, TypeFacts
<1>5. PICK b \in BOOLEAN : sess' = [sess EXCEPT ![h].op = b] /\ (b => e.role # "Public")
  BY <1>1, <1>3, <1>4 DEF use_session
<1>6. PICK r : r = [e EXCEPT !.op = b]
  OBVIOUS
<1>7. r.slot = e.slot /\ r.rw = e.rw /\ r.role = e.role /\ r.op = b
  BY <1>6 DEF Session
<1>8. sess'[h] = r /\ \A g \in Handles : g # h => sess'[g] = sess[g]
  BY <1>3, <1>4, <1>5, <1>6, TypeFacts
<1>9. \A g \in sessions : Agrees(g)
  BY <1>1, <1>2, SettledAgree
<1>10. \A g \in Handles :
         sess'[g].slot = sess[g].slot /\ sess'[g].rw = sess[g].rw /\ sess'[g].role = sess[g].role
  BY <1>4, <1>7, <1>8
<1>11. SOInv' /\ AgreeInv(Idle)'
  BY <1>1, <1>2, <1>9, <1>10, TypeFacts DEF SOInv, AgreeInv, Agrees
<1>12. OpInv(Idle)'
  <2>1. b => login[e.slot] # "Public"
    BY <1>3, <1>4, <1>5, <1>9 DEF Agrees
  <2> QED
    BY <1>1, <1>2, <1>3, <1>4, <1>7, <1>8, <2>1 DEF OpInv
<1>13. KeyInv(Idle)'
  BY <1>1, <1>2 DEF KeyInv
<1>14. RelyInv(Idle)'
  BY IdleType DEF RelyInv, Opening
<1> QED
  BY <1>2, <1>11, <1>12, <1>13, <1>14, IdleType, ReturnMoves, OneStep DEF LoginInv

LEMMA OneInit0 == Init => OneInv
<1> SUFFICES ASSUME Init PROVE OneInv
  OBVIOUS
<1>1. sessions = {} /\ persistKey = NoSlot /\ \A t \in Threads : call[t] = Idle
  BY DEF Init
<1>2. \A h \in Handles : ~sess[h].op
  BY DEF Init
<1>3. LoginInv(Idle)
  BY <1>1, <1>2 DEF LoginInv, SOInv, AgreeInv, OpInv, KeyInv
<1>4. RelyInv(Idle)
  BY IdleType, EasyRely DEF Easy
<1> QED
  BY <1>1, <1>3, <1>4 DEF OneInv

LEMMA OneNext ==
    ASSUME OneThread, TypeInv, OneInv, [Next]_vars
    PROVE  OneInv'
<1>1. CASE UNCHANGED vars
  <2>1. ASSUME NEW c PROVE LoginInv(c) /\ RelyInv(c) => (LoginInv(c) /\ RelyInv(c))'
    <3>1. LoginInv(c) => LoginInv(c)'
      BY <1>1 DEF vars, LoginInv, SOInv, AgreeInv, Agrees, Behind, OpInv, KeyInv
    <3>2. RelyInv(c) => RelyInv(c)'
      BY <1>1 DEF vars, RelyInv
    <3> QED
      BY <3>1, <3>2
  <2>2. call' = call
    BY <1>1 DEF vars
  <2> QED
    BY <2>1, <2>2 DEF OneInv
<1>2. CASE Next
  <2>1. PICK t \in Threads : Start(t) \/ Step(t)
    BY <1>2 DEF Next
  <2>2. CASE Start(t)
    <3>1. \/ \E h \in sessions : close_session(t, h)
          \/ \E h \in sessions : C_Logout(t, h)
          \/ \E s \in Slots : \/ \E rw \in BOOLEAN : open_session(t, s, rw)
                              \/ C_CloseAllSessions(t, s)
                              \/ C_InitToken(t, s)
          \/ \E h \in sessions : \/ \E role \in {"USER", "SO"} : C_Login(t, h, role)
                                 \/ get_session(t, h)
      BY <2>2 DEF Start
    <3> QED
      BY <3>1, OneStarts, OneClose, OneLogout
  <2>3. CASE Step(t)
    BY <2>3, OneStill, OneInsert, OneFinish, OneCloseAll, OneInit, OneLoginToken, OneCollect,
       OneApply, OneLoginEnd, OneCancel, OneLogoutKey, OneUse DEF Step
  <2> QED
    BY <2>1, <2>2, <2>3
<1> QED
  BY <1>1, <1>2

\* The reset of C_InitToken finds the counters at zero already.
LEMMA OneReset ==
    ASSUME OneThread, TypeInv, CountInv, OneInv, NEW t \in Threads, init_token(t)
    PROVE  CountInv'
<1>1. PICK d \in Call : d = call[t] /\ RelyInv(d) /\ d.pc = "init_token" /\ d.slot \in Slots
  BY TypeFacts DEF OneInv, init_token, At, Call
<1>2. Threads = {t}
  BY DEF OneThread
<1>3. \A h \in sessions : sess[h].slot # d.slot
  BY <1>1 DEF RelyInv
<1>4. ASSUME NEW w \in BOOLEAN PROVE Counter(d.slot, w) = 0
  <2>1. Members(d.slot, w) = {} /\ Flights(d.slot, w) = {}
    BY <1>1, <1>2, <1>3 DEF Members, Counts, Flights, Takes, Opening
  <2>2. Cardinality({}) = 0
    BY FS_EmptySet
  <2> QED
    BY <1>1, <2>1, <2>2 DEF CountInv, Exact
<1>5. count[d.slot] = 0 /\ rwCount[d.slot] = 0
  <2>1. Counter(d.slot, FALSE) = 0 /\ Counter(d.slot, TRUE) = 0
    BY <1>4
  <2> QED
    BY <2>1 DEF Counter
<1>6. count' = count /\ rwCount' = rwCount
  <2>1. CASE UNCHANGED <<count, rwCount>>
    BY <2>1
  <2>2. CASE count' = [count EXCEPT ![d.slot] = 0] /\ rwCount' = [rwCount EXCEPT ![d.slot] = 0]
    BY <1>5, <2>2, TypeFacts
  <2> QED
    BY <1>1, <2>1, <2>2 DEF init_token
<1>7. Quiet(t)
  <2>1. Idle \in Call /\ Moves(t, Idle) /\ Idle.pc = "idle"
    BY IdleType, ReturnMoves DEF init_token
  <2>2. PlaceOk(Idle, unused) /\ Idle.pc \notin Flying /\ MayReset(Idle.pc)
    BY <2>1 DEF PlaceOk, Flying, Opening, MayReset, Resetting
  <2>3. UNCHANGED <<sessions, sess, unused, persistKey>> /\ login' \in [Slots -> LoginState]
    BY TypeFacts DEF init_token, LoginState
  <2>4. sess' \in [Handles -> Session] /\ \A g \in Handles : Same(g)
    BY <2>3, TypeFacts DEF Same
  <2>5. call[t].pc \notin Flying
    BY <1>1 DEF Flying, Opening
  <2> QED
    BY <1>6, <2>1, <2>2, <2>3, <2>4, <2>5, TypeFacts DEF Quiet
<1> QED
  BY <1>7, QuietCounts

\* All three invariants together.
LEMMA AllKept ==
    ASSUME OneThread
    PROVE  Spec => [](TypeInv /\ CountInv /\ OneInv)
<1>1. Init => TypeInv /\ CountInv /\ OneInv
  BY InitTypeCount, OneInit0
<1>2. TypeInv /\ CountInv /\ OneInv /\ [Next]_vars => (TypeInv /\ CountInv /\ OneInv)'
  BY TypeCountNext, OneNext, OneReset
<1> QED
  BY <1>1, <1>2, PTL DEF Spec

(* While no two calls overlap C_InitToken does not disturb the counters    *)
(* either: close_all_sessions has brought them to zero before Token::init  *)
(* writes zero.                                                            *)
THEOREM CountsKeptAcrossInit ==
    ASSUME OneThread
    PROVE  Spec => []SessionsCounted
<1>1. TypeInv /\ CountInv => SessionsCounted
  BY CountedFromInv
<1> QED
  BY <1>1, AllKept, PTL

(* login_all and cancel_sessions_for_slot: in the hands of one thread every*)
(* open session shows, between calls, the role that is logged in to its    *)
(* token, whatever was opened, closed and logged in before.                *)
THEOREM RolesAgree ==
    ASSUME OneThread
    PROVE  Spec => []SessionsAgree
<1>1. TypeInv /\ OneInv => SessionsAgree
  <2> SUFFICES ASSUME TypeInv, OneInv, Quiescent, NEW h \in sessions
               PROVE  sess[h].role = login[sess[h].slot]
    BY DEF SessionsAgree
  <2>1. PICK t \in Threads : TRUE
    BY DEF OneThread
  <2>2. call[t].pc = "idle" /\ AgreeInv(call[t])
    BY DEF Quiescent, At, OneInv, LoginInv
  <2> QED
    BY <2>2 DEF AgreeInv, Agrees, Behind
<1> QED
  BY <1>1, AllKept, PTL

(* has_ro_sessions of C_Login and the check of open_session: in the hands  *)
(* of one thread a slot whose SO is logged in has no read-only session.    *)
THEOREM NoReadOnlyUnderSO ==
    ASSUME OneThread
    PROVE  Spec => []SOExcludesReadOnly
<1>1. OneInv => SOExcludesReadOnly
  BY DEF OneThread, OneInv, LoginInv, SOInv, SOExcludesReadOnly
<1> QED
  BY <1>1, AllKept, PTL

(* Session::close, on_logout and clear_persist_key: in the hands of one    *)
(* thread, operation state is left only in open sessions of a logged-in    *)
(* token, and the object master key only while its user is logged in.      *)
THEOREM SecretsGone ==
    ASSUME OneThread
    PROVE  Spec => []SecretsErased
<1>1. TypeInv /\ OneInv => SecretsErased
  <2> SUFFICES ASSUME TypeInv, OneInv, Quiescent
               PROVE  /\ \A h \in Handles :
                           sess[h].op => h \in sessions /\ login[sess[h].slot] # "Public"
                      /\ persistKey # NoSlot => login[persistKey] = "USER"
    BY DEF SecretsErased, OperationsErased, KeyNeedsUser
  <2>1. PICK t \in Threads : TRUE
    BY DEF OneThread
  <2>2. call[t].pc = "idle" /\ OpInv(call[t]) /\ KeyInv(call[t])
    BY DEF Quiescent, At, OneInv, LoginInv
  <2> QED
    BY <2>2 DEF OpInv, KeyInv
<1> QED
  BY <1>1, AllKept, PTL
=============================================================================

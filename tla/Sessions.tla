------------------------------ MODULE Sessions ------------------------------
(***************************************************************************)
(* Threads calling the session functions of the C ABI: C_OpenSession,      *)
(* C_CloseSession, C_CloseAllSessions, C_Login, C_Logout, C_InitToken and  *)
(* an operation on a session (pkcs11_abi/functions.rs), over the           *)
(* SessionManager (session/manager.rs), the per-session state              *)
(* (session/session.rs) and the token's login state and session counts     *)
(* (token/token.rs).                                                       *)
(*                                                                         *)
(* There is no lock around a whole call.  A step here is what runs under   *)
(* one lock: the token's `auth` mutex, or one DashMap shard together with  *)
(* the lock of the session found there.  DashMap iterates shard by shard   *)
(* in a fixed order; the handle scrambler scatters handles over shards, so *)
(* a new session takes any unused handle, each handle is its own shard and *)
(* an iteration visits handles in increasing order behind a cursor.        *)
(*                                                                         *)
(* PINs, counters and files are TokenAuth's business: here a PIN is right  *)
(* or wrong.                                                               *)
(***************************************************************************)
EXTENDS Naturals, FiniteSets, FiniteSetsExt

CONSTANTS
    Threads,        \* application threads
    Slots,
    NoSlot,         \* no object-encryption key is held
    MaxHandle,      \* bound: session handles are 1 .. MaxHandle
    MaxSessions,    \* token.max_sessions
    MaxRwSessions,  \* token.max_rw_sessions
    PersistObjects, \* token.persist_objects
    Calls           \* the calls the threads make

ASSUME ThreadAssumption == IsFiniteSet(Threads)
ASSUME SlotAssumption == Slots # {} /\ NoSlot \notin Slots
ASSUME BoundAssumption ==
    {MaxHandle, MaxSessions, MaxRwSessions} \subseteq Nat
ASSUME CallAssumption ==
    Calls \subseteq {"Open", "Close", "CloseAll", "Login", "Logout",
                     "InitToken", "Use"}

VARIABLES
    sessions,   \* the handles in the session map
    sess,       \* [Handles -> Session]; outlives removal, as an Arc does
    unused,     \* handles not allocated yet
    login,      \* [Slots -> LoginState]: AuthState.login
    count,      \* [Slots -> Nat]: session_count
    rwCount,    \* [Slots -> Nat]: rw_session_count
    persistKey, \* the slot whose object key the object store holds
    call        \* [Threads -> Call]: where each thread is, and its locals

vars == <<sessions, sess, unused, login, count, rwCount, persistKey, call>>

Handles == 1 .. MaxHandle
LoginState == {"Public", "USER", "SO"}

\* SessionState is rw and role together: RoPublic .. RwSO.
Session == [slot : Slots, rw : BOOLEAN, role : LoginState,
            op : BOOLEAN, closed : BOOLEAN]

Opening == {"open_count", "open_inherit", "open_insert", "open_undo"}
Iterating == {"close_all", "init_close", "login_ro", "login_collect",
              "logout_cancel"}
PC == {"idle", "close_finish", "init_clear", "init_token", "login_token",
       "login_apply", "login_rollback", "login_key", "logout_key", "use"}
      \cup Opening \cup Iterating

Call == [pc : PC, slot : Slots, h : Handles \cup {0}, rw : BOOLEAN,
         role : LoginState, cursor : Handles \cup {0},
         todo : SUBSET Handles, done : SUBSET Handles]

AnySlot == CHOOSE s \in Slots : TRUE

Idle == [pc |-> "idle", slot |-> AnySlot, h |-> 0, rw |-> FALSE,
         role |-> "Public", cursor |-> 0, todo |-> {}, done |-> {}]

TypeOK ==
    /\ sessions \subseteq Handles
    /\ sess \in [Handles -> Session]
    /\ unused \subseteq Handles \ sessions
    /\ login \in [Slots -> LoginState]
    /\ count \in [Slots -> 0 .. MaxSessions]
    /\ rwCount \in [Slots -> 0 .. MaxRwSessions]
    /\ persistKey \in Slots \cup {NoSlot}
    /\ call \in [Threads -> Call]

Init ==
    /\ sessions = {}
    /\ sess = [h \in Handles |-> [slot |-> AnySlot, rw |-> FALSE,
                                  role |-> "Public", op |-> FALSE,
                                  closed |-> FALSE]]
    /\ unused = Handles
    /\ login = [s \in Slots |-> "Public"]
    /\ count = [s \in Slots |-> 0]
    /\ rwCount = [s \in Slots |-> 0]
    /\ persistKey = NoSlot
    /\ call = [t \in Threads |-> Idle]

-----------------------------------------------------------------------------
(* Control of a thread                                                     *)

At(t, pc) == call[t].pc = pc

Begin(t, c) == At(t, "idle") /\ call' = [call EXCEPT ![t] = c]

Goto(t, pc) == call' = [call EXCEPT ![t].pc = pc, ![t].cursor = 0]

Return(t) == call' = [call EXCEPT ![t] = Idle]

\* The sessions an iteration has not reached yet.
Ahead(t) == {h \in sessions : h > call[t].cursor}

AtEnd(t, pc) == At(t, pc) /\ Ahead(t) = {}

Visiting(t, pc, h) == At(t, pc) /\ Ahead(t) # {} /\ h = Min(Ahead(t))

Advance(t, h) == call' = [call EXCEPT ![t].cursor = h]

-----------------------------------------------------------------------------
(* Session counts                                                          *)

DecNothing(s, rw) == UNCHANGED <<count, rwCount>>

\* decrement_session_count: an error, logged or returned, on underflow.
decrement_session_count(s, rw) ==
    IF count[s] = 0 THEN UNCHANGED <<count, rwCount>>
    ELSE /\ count' = [count EXCEPT ![s] = @ - 1]
         /\ rwCount' = IF rw /\ rwCount[s] > 0
                       THEN [rwCount EXCEPT ![s] = @ - 1] ELSE rwCount

-----------------------------------------------------------------------------
(* SessionManager::open_session                                            *)

\* Bound: a call that may need a handle starts only while one is left.
HandleLeft == Cardinality(unused) >
                 Cardinality({t \in Threads : call[t].pc \in Opening})

open_session(t, s, rw) ==
    /\ "Open" \in Calls
    /\ HandleLeft
    /\ rw \/ login[s] # "SO"
    /\ Begin(t, [Idle EXCEPT !.pc = "open_count", !.slot = s, !.rw = rw])
    /\ UNCHANGED <<sessions, sess, unused, login, count, rwCount, persistKey>>

BelowLimits(s, rw) == /\ count[s] < MaxSessions
                      /\ rw => rwCount[s] < MaxRwSessions

increment_session_count(t) ==
    LET s == call[t].slot
        rw == call[t].rw
    IN  /\ At(t, "open_count")
        /\ IF BelowLimits(s, rw)
           THEN /\ count' = [count EXCEPT ![s] = @ + 1]
                /\ rwCount' = IF rw THEN [rwCount EXCEPT ![s] = @ + 1]
                              ELSE rwCount
                /\ Goto(t, "open_inherit")
           ELSE Return(t) /\ UNCHANGED <<count, rwCount>>
        /\ UNCHANGED <<sessions, sess, unused, login, persistKey>>

InheritNothing(t) == "Public"

InheritedRole(t) == login[call[t].slot]

\* A fresh handle, and the login state the token has at this moment; a
\* read-only session cannot take the SO state.
open_inherit(t) ==
    /\ At(t, "open_inherit")
    /\ \E h \in unused :
         /\ unused' = unused \ {h}
         /\ IF call[t].rw \/ InheritedRole(t) # "SO"
            THEN call' = [call EXCEPT ![t].pc = "open_insert", ![t].h = h,
                                      ![t].role = InheritedRole(t)]
            ELSE Goto(t, "open_undo")
    /\ UNCHANGED <<sessions, sess, login, count, rwCount, persistKey>>

open_undo(t) ==
    /\ At(t, "open_undo")
    /\ decrement_session_count(call[t].slot, call[t].rw)
    /\ Return(t)
    /\ UNCHANGED <<sessions, sess, unused, login, persistKey>>

open_insert(t) ==
    LET c == call[t]
    IN  /\ At(t, "open_insert")
        /\ sessions' = sessions \cup {c.h}
        /\ sess' = [sess EXCEPT ![c.h] =
                      [slot |-> c.slot, rw |-> c.rw, role |-> c.role,
                       op |-> FALSE, closed |-> FALSE]]
        /\ Return(t)
        /\ UNCHANGED <<unused, login, count, rwCount, persistKey>>

-----------------------------------------------------------------------------
(* SessionManager::close_session and close_all_sessions                    *)

CloseKeepingOperation(r) == [r EXCEPT !.closed = TRUE]

Closed(r) == [r EXCEPT !.closed = TRUE, !.op = FALSE]

close_session(t, h) ==
    /\ "Close" \in Calls
    /\ h \in sessions
    /\ Begin(t, [Idle EXCEPT !.pc = "close_finish", !.h = h])
    /\ sessions' = sessions \ {h}
    /\ UNCHANGED <<sess, unused, login, count, rwCount, persistKey>>

close_finish(t) ==
    LET h == call[t].h
    IN  /\ At(t, "close_finish")
        /\ sess' = [sess EXCEPT ![h] = Closed(@)]
        /\ decrement_session_count(sess[h].slot, sess[h].rw)
        /\ Return(t)
        /\ UNCHANGED <<sessions, unused, login, persistKey>>

C_CloseAllSessions(t, s) ==
    /\ "CloseAll" \in Calls
    /\ Begin(t, [Idle EXCEPT !.pc = "close_all", !.slot = s])
    /\ UNCHANGED <<sessions, sess, unused, login, count, rwCount, persistKey>>

\* One entry of the retain loop of close_all_sessions.
close_all_sessions(t, pc) ==
    \E h \in sessions :
        /\ Visiting(t, pc, h)
        /\ Advance(t, h)
        /\ IF sess[h].slot = call[t].slot
           THEN /\ sessions' = sessions \ {h}
                /\ sess' = [sess EXCEPT ![h] = Closed(@)]
                /\ decrement_session_count(sess[h].slot, sess[h].rw)
           ELSE UNCHANGED <<sessions, sess, count, rwCount>>
        /\ UNCHANGED <<unused, login, persistKey>>

close_all_done(t) ==
    /\ AtEnd(t, "close_all")
    /\ Return(t)
    /\ UNCHANGED <<sessions, sess, unused, login, count, rwCount, persistKey>>

-----------------------------------------------------------------------------
(* C_InitToken: sessions and objects go before the SO PIN is verified      *)

C_InitToken(t, s) ==
    /\ "InitToken" \in Calls
    /\ Begin(t, [Idle EXCEPT !.pc = "init_close", !.slot = s])
    /\ UNCHANGED <<sessions, sess, unused, login, count, rwCount, persistKey>>

init_closed(t) ==
    /\ AtEnd(t, "init_close")
    /\ Goto(t, "init_clear")
    /\ UNCHANGED <<sessions, sess, unused, login, count, rwCount, persistKey>>

init_clear(t) ==
    /\ At(t, "init_clear")
    /\ persistKey' = NoSlot
    /\ Goto(t, "init_token")
    /\ UNCHANGED <<sessions, sess, unused, login, count, rwCount>>

init_token(t) ==
    LET s == call[t].slot
    IN  /\ At(t, "init_token")
        /\ \/ /\ login' = [login EXCEPT ![s] = "Public"]
              /\ count' = [count EXCEPT ![s] = 0]
              /\ rwCount' = [rwCount EXCEPT ![s] = 0]
           \/ UNCHANGED <<login, count, rwCount>>          \* wrong SO PIN
        /\ Return(t)
        /\ UNCHANGED <<sessions, sess, unused, persistKey>>

-----------------------------------------------------------------------------
(* C_Login and SessionManager::login_all                                   *)

C_Login(t, h, role) ==
    /\ "Login" \in Calls
    /\ h \in sessions
    /\ Begin(t, [Idle EXCEPT !.pc = IF role = "SO" THEN "login_ro"
                                    ELSE "login_token",
                             !.slot = sess[h].slot, !.role = role])
    /\ UNCHANGED <<sessions, sess, unused, login, count, rwCount, persistKey>>

NeverReadOnly(h, s) == FALSE

ReadOnly(h, s) == sess[h].slot = s /\ ~sess[h].rw

\* has_ro_sessions: any read-only session of the slot refuses the SO.
has_ro_sessions(t) ==
    /\ \/ AtEnd(t, "login_ro") /\ Goto(t, "login_token")
       \/ \E h \in sessions :
            /\ Visiting(t, "login_ro", h)
            /\ IF ReadOnly(h, call[t].slot) THEN Return(t) ELSE Advance(t, h)
    /\ UNCHANGED <<sessions, sess, unused, login, count, rwCount, persistKey>>

\* Token::login; the PIN may be wrong, or a role already logged in.
login_token(t) ==
    LET s == call[t].slot
    IN  /\ At(t, "login_token")
        /\ \/ /\ login[s] = "Public"
              /\ login' = [login EXCEPT ![s] = call[t].role]
              /\ Goto(t, "login_collect")
           \/ Return(t) /\ UNCHANGED login
        /\ UNCHANGED <<sessions, sess, unused, count, rwCount, persistKey>>

\* Phase 1 of login_all: the handles of the slot's sessions.
login_collect(t) ==
    /\ \/ AtEnd(t, "login_collect") /\ Goto(t, "login_apply")
       \/ \E h \in sessions :
            /\ Visiting(t, "login_collect", h)
            /\ call' = [call EXCEPT ![t].cursor = h,
                          ![t].todo = IF sess[h].slot = call[t].slot
                                      THEN @ \cup {h} ELSE @]
    /\ UNCHANGED <<sessions, sess, unused, login, count, rwCount, persistKey>>

\* on_user_login and on_so_login succeed from a public state only.
CanLogIn(r, role) == r.role = "Public" /\ (role = "SO" => r.rw)

LoggedOut(r) == IF r.role = "Public" THEN r
                ELSE [r EXCEPT !.role = "Public", !.op = FALSE]

\* Phase 2: a handle that is gone is skipped, a session that refuses the
\* login makes login_all undo the ones before it.
login_apply(t) ==
    LET h == Min(call[t].todo)
        found == h \in sessions /\ sess[h].slot = call[t].slot
    IN  /\ At(t, "login_apply")
        /\ call[t].todo # {}
        /\ IF found /\ ~CanLogIn(sess[h], call[t].role)
           THEN Goto(t, "login_rollback") /\ UNCHANGED sess
           ELSE /\ call' = [call EXCEPT ![t].todo = @ \ {h},
                              ![t].done = IF found THEN @ \cup {h} ELSE @]
                /\ sess' = IF found
                           THEN [sess EXCEPT ![h].role = call[t].role]
                           ELSE sess
        /\ UNCHANGED <<sessions, unused, login, count, rwCount, persistKey>>

login_rollback(t) ==
    LET h == Min(call[t].done)
    IN  /\ At(t, "login_rollback")
        /\ call[t].done # {}
        /\ call' = [call EXCEPT ![t].done = @ \ {h}]
        /\ sess' = IF h \in sessions THEN [sess EXCEPT ![h] = LoggedOut(@)]
                   ELSE sess
        /\ UNCHANGED <<sessions, unused, login, count, rwCount, persistKey>>

\* login_all has returned, well or not: C_Login ignores its result.
login_all_done(t) ==
    /\ \/ At(t, "login_apply") /\ call[t].todo = {}
       \/ At(t, "login_rollback") /\ call[t].done = {}
    /\ Goto(t, "login_key")
    /\ UNCHANGED <<sessions, sess, unused, login, count, rwCount, persistKey>>

\* set_persist_key with the unwrapped object master key; users only.
login_key(t) ==
    /\ At(t, "login_key")
    /\ persistKey' = IF PersistObjects /\ call[t].role = "USER"
                     THEN call[t].slot ELSE persistKey
    /\ Return(t)
    /\ UNCHANGED <<sessions, sess, unused, login, count, rwCount>>

-----------------------------------------------------------------------------
(* C_Logout and cancel_sessions_for_slot                                   *)

C_Logout(t, h) ==
    /\ "Logout" \in Calls
    /\ h \in sessions
    /\ login[sess[h].slot] # "Public"
    /\ login' = [login EXCEPT ![sess[h].slot] = "Public"]
    /\ Begin(t, [Idle EXCEPT !.pc = "logout_cancel", !.slot = sess[h].slot])
    /\ UNCHANGED <<sessions, sess, unused, count, rwCount, persistKey>>

OperationKept(r) == [r EXCEPT !.role = "Public"]

Cancelled(r) == [r EXCEPT !.role = "Public", !.op = FALSE]

cancel_sessions_for_slot(t) ==
    \/ \E h \in sessions :
         /\ Visiting(t, "logout_cancel", h)
         /\ Advance(t, h)
         /\ sess' = IF sess[h].slot = call[t].slot
                    THEN [sess EXCEPT ![h] = Cancelled(@)] ELSE sess
         /\ UNCHANGED <<sessions, unused, login, count, rwCount, persistKey>>
    \/ /\ AtEnd(t, "logout_cancel")
       /\ Goto(t, "logout_key")
       /\ UNCHANGED <<sessions, sess, unused, login, count, rwCount, persistKey>>

clear_persist_key(t) == persistKey' = NoSlot

logout_key(t) ==
    /\ At(t, "logout_key")
    /\ clear_persist_key(t)
    /\ Return(t)
    /\ UNCHANGED <<sessions, sess, unused, login, count, rwCount>>

-----------------------------------------------------------------------------
(* An operation on a session, such as C_SignInit and C_Sign: get_session   *)
(* clones the Arc, and the session's lock is taken afterwards.             *)

get_session(t, h) ==
    /\ "Use" \in Calls
    /\ h \in sessions
    /\ Begin(t, [Idle EXCEPT !.pc = "use", !.h = h])
    /\ UNCHANGED <<sessions, sess, unused, login, count, rwCount, persistKey>>

\* C_SignInit needs a logged-in session; C_Sign ends the operation.
use_session(t) ==
    LET h == call[t].h
    IN  /\ At(t, "use")
        /\ sess' = IF sess[h].op THEN [sess EXCEPT ![h].op = FALSE]
                   ELSE [sess EXCEPT ![h].op = (sess[h].role # "Public")]
        /\ Return(t)
        /\ UNCHANGED <<sessions, unused, login, count, rwCount, persistKey>>

-----------------------------------------------------------------------------
Step(t) ==
    \/ increment_session_count(t) \/ open_inherit(t)
    \/ open_undo(t) \/ open_insert(t)
    \/ close_finish(t)
    \/ close_all_sessions(t, "close_all") \/ close_all_done(t)
    \/ close_all_sessions(t, "init_close") \/ init_closed(t)
    \/ init_clear(t) \/ init_token(t)
    \/ has_ro_sessions(t) \/ login_token(t) \/ login_collect(t)
    \/ login_apply(t) \/ login_rollback(t) \/ login_all_done(t) \/ login_key(t)
    \/ cancel_sessions_for_slot(t) \/ logout_key(t)
    \/ use_session(t)

Start(t) ==
    \/ \E s \in Slots : \/ \E rw \in BOOLEAN : open_session(t, s, rw)
                        \/ C_CloseAllSessions(t, s)
                        \/ C_InitToken(t, s)
    \/ \E h \in sessions : \/ close_session(t, h)
                           \/ \E role \in {"USER", "SO"} : C_Login(t, h, role)
                           \/ C_Logout(t, h)
                           \/ get_session(t, h)

Next == \E t \in Threads : Start(t) \/ Step(t)

Spec == Init /\ [][Next]_vars

-----------------------------------------------------------------------------
(* Properties                                                              *)

Quiescent == \A t \in Threads : At(t, "idle")

Of(s) == {h \in sessions : sess[h].slot = s}

\* Session-count units held by calls in progress: taken by an open that has
\* not inserted its session, or still to be returned by a close.
InFlight(s) == {t \in Threads :
                  \/ /\ call[t].pc \in Opening \ {"open_count"}
                     /\ call[t].slot = s
                  \/ At(t, "close_finish") /\ sess[call[t].h].slot = s}

FlightRw(t) == IF At(t, "close_finish") THEN sess[call[t].h].rw ELSE call[t].rw

(* The token's two session counters are exact at every step of every       *)
(* interleaving of opens and closes: each counted unit is an open session  *)
(* or is held by a call in progress, so no close underflows.               *)
CountsExact ==
    \A s \in Slots :
        /\ count[s] = Cardinality(Of(s)) + Cardinality(InFlight(s))
        /\ rwCount[s] = Cardinality({h \in Of(s) : sess[h].rw})
                        + Cardinality({t \in InFlight(s) : FlightRw(t)})

(* The limits of the configuration hold for the sessions in the map.       *)
LimitsHold ==
    \A s \in Slots :
        /\ Cardinality(Of(s)) <= MaxSessions
        /\ Cardinality({h \in Of(s) : sess[h].rw}) <= MaxRwSessions

(* The accounting of increment_session_count and decrement_session_count:  *)
(* counters of their type, exact, and with that the limits.                *)
SessionsCounted == TypeOK /\ CountsExact /\ LimitsHold

(* Between calls every session of a slot shows the role that is logged in  *)
(* to the slot's token: the ABI decides access to private objects by the   *)
(* session's copy.                                                         *)
SessionsAgree ==
    Quiescent => \A h \in sessions : sess[h].role = login[sess[h].slot]

(* PKCS#11 and the check of C_Login: while the SO is logged in the slot    *)
(* has no read-only session.                                               *)
SOExcludesReadOnly ==
    Quiescent => \A h \in sessions :
                    login[sess[h].slot] = "SO" => sess[h].rw

(* Operation state, which holds keys, exists only in open sessions of a    *)
(* logged-in token: closing, logging out and re-initializing erase it.     *)
OperationsErased ==
    Quiescent => \A h \in Handles :
        sess[h].op => h \in sessions /\ login[sess[h].slot] # "Public"

(* The object store holds the object master key only while the user of the *)
(* slot it came from is logged in.                                         *)
KeyNeedsUser ==
    Quiescent /\ persistKey # NoSlot => login[persistKey] = "USER"

(* What a login put into memory, logout, close and C_InitToken take away.  *)
SecretsErased == OperationsErased /\ KeyNeedsUser
=============================================================================

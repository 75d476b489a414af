------------------------------- MODULE Daemon -------------------------------
(***************************************************************************)
(* The requests of the gRPC daemon (craton-hsm-daemon/src/server.rs).      *)
(* Handlers run on many tasks and never wait inside, so a request is a     *)
(* sequence of accesses to the session table, the tokens and the object    *)
(* store, with accesses of other requests in between.  Unlike the C API    *)
(* the daemon calls the token itself: Login and Logout do not touch the    *)
(* sessions, InitToken closes none and destroys no object.                 *)
(*                                                                         *)
(* PIN checks are in TokenAuth, the throttle before them in LoginThrottle. *)
(* Mechanisms, data and usage flags only decide whether a request is       *)
(* refused, which changes nothing.  The audit record every handler ends    *)
(* with is in AuditLog: if it fails the client gets an error, and what the *)
(* request did stays done.                                                 *)
(***************************************************************************)
EXTENDS Requests, Naturals, Sequences, FiniteSets

CONSTANTS
    MaxSessions,      \* bound: sessions opened
    MaxObjects,       \* bound: objects created
    max_sessions,     \* the limit of a token
    max_rw_sessions,
    MAX_OBJECTS,      \* the limit of the object store
    Outside           \* key material that is not the daemon's alone

ASSUME BoundsAssumption == MaxSessions \in Nat /\ MaxObjects \in Nat
ASSUME LimitsAssumption ==
    /\ max_sessions \in Nat /\ max_rw_sessions \in Nat /\ MAX_OBJECTS \in Nat \ {0}
ASSUME OutsideAssumption == Outside # {} /\ Outside \cap Nat = {}

Public == "Public"
User == "User"
SO == "SO"

VARIABLES
    token,      \* [Slots -> the initialisation and the login state of a token]
    count,      \* [Slots -> session_count and rw_session_count]
    sessions,   \* the session table, by handle
    objects,    \* the object store, by handle
    call,       \* [Calls -> the request a task runs, with its locals]
    opened,     \* session handles issued: 1 .. opened
    created,    \* object handles issued: 1 .. created
    revealed,   \* key material answered to a client
    reset       \* slots last reinitialised while sessions on them were open

vars == <<token, count, sessions, objects, call, opened, created, revealed, reset>>
ghosts == <<revealed, reset>>

Token == [setup : {"so", "user"}, login : {Public, User, SO}]
Count == [all : Nat, rw : Nat]
Session == [slot : Slots, rw : BOOLEAN, state : {Public, User, SO}]

\* A StoredObject.  Its material is the number of the secret the daemon generated,
\* or one of Outside: a public key, or a value that a client gave, wrapped or agreed
\* on with the daemon, and may use on any slot.
\* CKA_PRIVATE is left out: templates set it freely, and without it a session is
\* enough to read the attributes of an object.
Object ==
    [slot : Slots, sensitive : BOOLEAN, extractable : BOOLEAN, material : Nat \cup Outside]

\* A template that sets the two flags, and CKA_VALUE if value is not 0.
Template == [sensitive : BOOLEAN, extractable : BOOLEAN, value : {0} \cup Outside]

Idle == [pc |-> "idle"]
Call ==
    {Idle} \cup
    [pc : {"open_count", "open_insert", "close_count"}, slot : Slots, rw : BOOLEAN] \cup
    [pc : {"ready", "init_pin"}, slot : Slots] \cup
    [pc : {"insert"}, queue : Seq([handle : 1 .. MaxObjects, object : Object])]

TypeOK ==
    /\ token \in [Slots -> Token]
    /\ count \in [Slots -> Count]
    /\ DOMAIN sessions \subseteq 1 .. opened /\ sessions \in [DOMAIN sessions -> Session]
    /\ DOMAIN objects \subseteq 1 .. created /\ objects \in [DOMAIN objects -> Object]
    /\ call \in [Calls -> Call]
    /\ opened \in 0 .. MaxSessions /\ created \in 0 .. MaxObjects
    /\ revealed \subseteq (1 .. created) \cup Outside /\ reset \subseteq Slots

\* main: an HsmCore with the tokens as the token state files left them,
\* initialised, with or without a user PIN.
Init ==
    /\ token \in [Slots -> {t \in Token : t.login = Public}]
    /\ count = [s \in Slots |-> [all |-> 0, rw |-> 0]]
    /\ sessions = <<>> /\ objects = <<>>
    /\ call = [c \in Calls |-> Idle]
    /\ opened = 0 /\ created = 0
    /\ revealed = {} /\ reset = {}

Pc(c) == call[c].pc
Becomes(c, local) == call' = [call EXCEPT ![c] = local]
Returns(c) == Becomes(c, Idle)   \* with an answer or an error
Drop(f, x) == [y \in DOMAIN f \ {x} |-> f[y]]
Put(f, x, v) == [y \in DOMAIN f \cup {x} |-> IF y = x THEN v ELSE f[y]]
LoggedIn(s) == token[s].login # Public

-----------------------------------------------------------------------------
\* increment_session_count and decrement_session_count, under the auth lock.
MayCount(s, rw) == count[s].all < max_sessions /\ (rw => count[s].rw < max_rw_sessions)

Counted(n, rw) == [all |-> n.all + 1, rw |-> n.rw + (IF rw THEN 1 ELSE 0)]

\* Mutant of Uncounted: a read-write session leaves the total alone.
UncountedOnce(n, rw) ==
    CASE rw /\ n.rw > 0 -> [n EXCEPT !.rw = @ - 1]
      [] ~rw /\ n.all > 0 -> [n EXCEPT !.all = @ - 1]
      [] OTHER -> n

Uncounted(n, rw) ==
    CASE n.all = 0 -> n
      [] n.all > 0 /\ (~rw \/ n.rw = 0) -> [n EXCEPT !.all = @ - 1]
      [] OTHER -> [all |-> n.all - 1, rw |-> n.rw - 1]

Opening == {c \in Calls : Pc(c) \in {"open_count", "open_insert"}}

\* open_session: no read-only session while the SO is logged in.
OpenChecks(c, s, rw) ==
    /\ Pc(c) = "idle" /\ opened + Cardinality(Opening) < MaxSessions
    /\ rw \/ token[s].login # SO
    /\ Becomes(c, [pc |-> "open_count", slot |-> s, rw |-> rw])
    /\ UNCHANGED <<token, count, sessions, objects, opened, created, ghosts>>

OpenCounts(c) ==
    LET s == call[c].slot
        rw == call[c].rw
    IN  /\ Pc(c) = "open_count"
        /\ \/ /\ MayCount(s, rw)
              /\ count' = [count EXCEPT ![s] = Counted(@, rw)]
              /\ Becomes(c, [call[c] EXCEPT !.pc = "open_insert"])
           \/ /\ ~MayCount(s, rw)
              /\ Returns(c)
              /\ UNCHANGED count
        /\ UNCHANGED <<token, sessions, objects, opened, created, ghosts>>

\* Mutant of OpenInserts: on_so_login is not allowed to fail.
OpenInsertsAny(c) ==
    LET s == call[c].slot
    IN  /\ Pc(c) = "open_insert"
        /\ opened' = opened + 1
        /\ sessions' = Put(sessions, opened + 1,
                           [slot |-> s, rw |-> call[c].rw, state |-> token[s].login])
        /\ Returns(c)
        /\ UNCHANGED <<token, count, objects, created, ghosts>>

\* The session takes over the token's login state; on_so_login fails for a
\* read-only one, and the count is taken back.
OpenInserts(c) ==
    LET s == call[c].slot
        rw == call[c].rw
    IN  /\ Pc(c) = "open_insert"
        /\ opened' = opened + 1
        /\ \/ /\ rw \/ token[s].login # SO
              /\ sessions' = Put(sessions, opened + 1,
                                 [slot |-> s, rw |-> rw, state |-> token[s].login])
              /\ Returns(c)
              /\ UNCHANGED count
           \/ /\ ~rw /\ token[s].login = SO
              /\ count' = [count EXCEPT ![s] = Uncounted(@, rw)]
              /\ Returns(c)
              /\ UNCHANGED sessions
        /\ UNCHANGED <<token, objects, created, ghosts>>

\* close_session: the entry is removed, then the token's count goes down; an
\* underflow is an error to the client, with the session gone all the same.
CloseRemoves(c, h) ==
    /\ Pc(c) = "idle" /\ h \in DOMAIN sessions
    /\ sessions' = Drop(sessions, h)
    /\ Becomes(c, [pc |-> "close_count", slot |-> sessions[h].slot, rw |-> sessions[h].rw])
    /\ UNCHANGED <<token, count, objects, opened, created, ghosts>>

CloseCounts(c) ==
    LET s == call[c].slot
        rw == call[c].rw
    IN  /\ Pc(c) = "close_count"
        /\ count' = [count EXCEPT ![s] = Uncounted(@, rw)]
        /\ Returns(c)
        /\ UNCHANGED <<token, sessions, objects, opened, created, ghosts>>

-----------------------------------------------------------------------------
\* login and logout: the slot of a session, then the token; the sessions keep
\* the state they were opened with.  That the session may be closed in between
\* makes no difference to either step.
Login(c, h, role) ==
    /\ Pc(c) = "idle" /\ h \in DOMAIN sessions
    /\ LET s == sessions[h].slot
       IN  /\ token[s].login = Public
           /\ role = User => token[s].setup = "user"
           /\ token' = [token EXCEPT ![s].login = role]
    /\ UNCHANGED <<count, sessions, objects, call, opened, created, ghosts>>

Logout(c, h) ==
    /\ Pc(c) = "idle" /\ h \in DOMAIN sessions
    /\ LoggedIn(sessions[h].slot)
    /\ token' = [token EXCEPT ![sessions[h].slot].login = Public]
    /\ UNCHANGED <<count, sessions, objects, call, opened, created, ghosts>>

\* Sessions of a slot, and requests between counting one and its entry.
OpenOn(s, rws) == {h \in DOMAIN sessions : sessions[h].slot = s /\ sessions[h].rw \in rws}
HalfOpen(s, rws) ==
    {c \in Calls : /\ Pc(c) \in {"open_insert", "close_count"}
                   /\ call[c].slot = s /\ call[c].rw \in rws}

\* init_token with the SO PIN: auth state and session counts are reset.
InitToken(c, s) ==
    /\ Pc(c) = "idle"
    /\ token' = [token EXCEPT ![s] = [setup |-> "so", login |-> Public]]
    /\ count' = [count EXCEPT ![s] = [all |-> 0, rw |-> 0]]
    /\ reset' = IF OpenOn(s, BOOLEAN) = {} /\ HalfOpen(s, BOOLEAN) = {}
                THEN reset \ {s} ELSE reset \cup {s}
    /\ Returns(c)
    /\ UNCHANGED <<sessions, objects, opened, created, revealed>>

-----------------------------------------------------------------------------
\* require_authenticated_session: what follows may run after a logout.
Authorise(c, h) ==
    /\ Pc(c) = "idle" /\ h \in DOMAIN sessions
    /\ LoggedIn(sessions[h].slot)
    /\ Becomes(c, [pc |-> "ready", slot |-> sessions[h].slot])
    /\ UNCHANGED <<token, count, sessions, objects, opened, created, ghosts>>

\* init_pin: the state the session was opened with, then the token's own.
InitPinChecks(c, h) ==
    /\ Pc(c) = "idle" /\ h \in DOMAIN sessions
    /\ LoggedIn(sessions[h].slot) /\ sessions[h].state = SO
    /\ Becomes(c, [pc |-> "init_pin", slot |-> sessions[h].slot])
    /\ UNCHANGED <<token, count, sessions, objects, opened, created, ghosts>>

InitPin(c) ==
    LET s == call[c].slot
    IN  /\ Pc(c) = "init_pin"
        /\ token' = [token EXCEPT ![s].setup = IF token[s].login = SO THEN "user" ELSE @]
        /\ Returns(c)
        /\ UNCHANGED <<count, sessions, objects, opened, created, ghosts>>

\* Mutant of InSlot: the object's slot is not compared.
InAnySlot(c) == DOMAIN objects

InSlot(c) == {o \in DOMAIN objects : objects[o].slot = call[c].slot}

\* apply_attribute over a template: the two latches, and CKA_VALUE, which takes
\* the place of the key material whatever that is.
Applies(o, t) == (o.sensitive => t.sensitive) /\ (~o.extractable => ~t.extractable)
Applied(o, t) ==
    [o EXCEPT !.sensitive = t.sensitive, !.extractable = t.extractable,
              !.material = IF t.value = 0 THEN @ ELSE t.value]

\* Mutant of NewKey: CKA_EXTRACTABLE is left to the template.
NewKeyExtractable(s, material) ==
    [slot |-> s, sensitive |-> TRUE, extractable |-> TRUE, material |-> material]

\* StoredObject::new with what generate_key, unwrap_key and derive_key set.
NewKey(s, material) ==
    [slot |-> s, sensitive |-> TRUE, extractable |-> FALSE, material |-> material]

\* next_handle for each object, which insert_object then stores one by one.
Makes(c, made) ==
    /\ created + Len(made) <= MaxObjects
    /\ created' = created + Len(made)
    /\ Becomes(c, [pc |-> "insert", queue |-> made])
    /\ UNCHANGED <<token, count, sessions, objects, opened, ghosts>>

Made(n, object) == [handle |-> created + n, object |-> object]

GenerateKey(c, t) ==
    LET key == NewKey(call[c].slot, created + 1)
    IN  /\ Pc(c) = "ready" /\ Applies(key, t)
        /\ Makes(c, <<Made(1, Applied(key, t))>>)

\* generate_key_pair: the public key is the first to be stored.
MakesPair(c, public, private, t) ==
    /\ Applies(private, t)
    /\ Makes(c, <<Made(1, public), Made(2, Applied(private, t))>>)

GenerateKeyPair(c, t) ==
    /\ Pc(c) = "ready"
    /\ \E m \in Outside :
          MakesPair(c, NewKey(call[c].slot, m), NewKey(call[c].slot, created + 2), t)

\* A key made with another key of the session's slot, of material that the client
\* has a part in.
MakesWith(c, material, t) ==
    LET key == NewKey(call[c].slot, material)
    IN  /\ Pc(c) = "ready" /\ InSlot(c) # {} /\ Applies(key, t)
        /\ Makes(c, <<Made(1, Applied(key, t))>>)

\* unwrap_key: what the client's blob holds, the keys WrapKey let out among it.
UnwrapKey(c, t) == \E m \in Outside \cup revealed : MakesWith(c, m, t)

\* derive_key: an ECDH secret is that of the peer's key too, and the peer's key
\* may be on another slot, where the same secret is derived with this one's.
DeriveKey(c, t) == \E m \in Outside : MakesWith(c, m, t)

\* copy_object: the template is applied to the copy, the latches checked again.
CopyObject(c, o, t) ==
    LET copy == [objects[o] EXCEPT !.slot = call[c].slot]
    IN  /\ Pc(c) = "ready" /\ o \in InSlot(c) /\ Applies(copy, t)
        /\ Makes(c, <<Made(1, Applied(copy, t))>>)

\* insert_object, whose own steps are in ObjectStore.  A key pair of which only
\* the first key finds room leaves that one behind.
Inserts(c) ==
    LET made == Head(call[c].queue)
        room == Cardinality(DOMAIN objects) < MAX_OBJECTS
    IN  /\ Pc(c) = "insert"
        /\ objects' = IF room THEN Put(objects, made.handle, made.object) ELSE objects
        /\ IF room /\ Len(call[c].queue) > 1
           THEN Becomes(c, [call[c] EXCEPT !.queue = Tail(@)])
           ELSE Returns(c)
        /\ UNCHANGED <<token, count, sessions, opened, created, ghosts>>

\* destroy_object: the slot of the object, then ObjectStore::destroy_object,
\* which finds the same object or, handles not being used again, none.
DestroyObject(c, o) ==
    /\ Pc(c) = "ready" /\ o \in InSlot(c)
    /\ objects' = Drop(objects, o)
    /\ Returns(c)
    /\ UNCHANGED <<token, count, sessions, opened, created, ghosts>>

\* A request that works with a key of the slot and stores nothing.
UsesKey(c) ==
    /\ Pc(c) = "ready" /\ InSlot(c) # {}
    /\ Returns(c)
    /\ UNCHANGED <<token, count, sessions, objects, opened, created, ghosts>>

Sign(c) == UsesKey(c)
Verify(c) == UsesKey(c)
Encrypt(c) == UsesKey(c)
Decrypt(c) == UsesKey(c)

\* A request that its own checks refuse (mechanism, policy, template, usage
\* flags), and those that change nothing here.
ReturnsOnly(c) ==
    /\ Pc(c) = "ready"
    /\ Returns(c)
    /\ UNCHANGED <<token, count, sessions, objects, opened, created, ghosts>>

\* set_pin: the PIN itself and its failures are in TokenAuth.
SetPin(c) == ReturnsOnly(c)
FindObjects(c) == ReturnsOnly(c)

\* wrap_key under a key of the slot, this one or another: the answer lets the
\* client have the key, who may hold the other one.
WrapKey(c, o) ==
    /\ Pc(c) = "ready" /\ o \in InSlot(c)
    /\ revealed' = revealed \cup IF objects[o].extractable THEN {objects[o].material} ELSE {}
    /\ Returns(c)
    /\ UNCHANGED <<token, count, sessions, objects, opened, created, reset>>

\* get_attribute_value of CKA_VALUE, on any session of the slot: read_attribute
\* guards the value.
GetAttributeValue(c, o) ==
    LET obj == objects[o]
        readable == ~(obj.sensitive /\ ~obj.extractable)
    IN  /\ Pc(c) = "idle" /\ OpenOn(obj.slot, BOOLEAN) # {}
        /\ revealed' = revealed \cup (IF readable THEN {obj.material} ELSE {})
        /\ Returns(c)
        /\ UNCHANGED <<token, count, sessions, objects, opened, created, reset>>

-----------------------------------------------------------------------------
SessionStep(c) ==
    \/ \E s \in Slots, rw \in BOOLEAN : OpenChecks(c, s, rw)
    \/ OpenCounts(c) \/ OpenInserts(c)
    \/ \E h \in DOMAIN sessions : CloseRemoves(c, h)
    \/ CloseCounts(c)

TokenStep(c) ==
    \/ \E h \in DOMAIN sessions :
          \/ \E role \in {User, SO} : Login(c, h, role)
          \/ Logout(c, h)
          \/ InitPinChecks(c, h)
    \/ InitPin(c)
    \/ \E s \in Slots : InitToken(c, s)

ObjectStep(c) ==
    \/ \E h \in DOMAIN sessions : Authorise(c, h)
    \/ \E t \in Template :
          \/ GenerateKey(c, t) \/ GenerateKeyPair(c, t)
          \/ UnwrapKey(c, t) \/ DeriveKey(c, t)
          \/ \E o \in DOMAIN objects : CopyObject(c, o, t)
    \/ Inserts(c)
    \/ Sign(c) \/ Verify(c) \/ Encrypt(c) \/ Decrypt(c)
    \/ SetPin(c) \/ FindObjects(c)
    \/ \E o \in DOMAIN objects : DestroyObject(c, o) \/ WrapKey(c, o) \/ GetAttributeValue(c, o)

Next ==
    \E c \in Calls : SessionStep(c) \/ TokenStep(c) \/ ObjectStep(c)

Spec == Init /\ [][Next]_vars

-----------------------------------------------------------------------------
\* Key material of stored objects, generated, unwrapped, derived or given, is never
\* in an answer to a client, by WrapKey, by GetAttributeValue of CKA_VALUE, or after
\* a copy with other attributes.  The client has some of it from elsewhere.
KeysStay == revealed = {}

\* A key that generate_key or generate_key_pair made, its copies and copies of
\* copies, are on the slot of the session that asked for it.  Not so the material of
\* Outside: clients may give one CKA_VALUE, unwrap one blob or agree on one ECDH
\* secret on two slots.
MaterialInOneSlot ==
    \A o, p \in DOMAIN objects :
        objects[o].material = objects[p].material /\ objects[o].material \in Nat =>
            objects[o].slot = objects[p].slot

\* A token never counts more sessions than are open, being opened or being
\* closed, and it counts exactly those, the read-write ones too, unless the last
\* InitToken reset the counts under open sessions.
CountsFollowSessions ==
    \A s \in Slots :
        LET all == Cardinality(OpenOn(s, BOOLEAN)) + Cardinality(HalfOpen(s, BOOLEAN))
            rw == Cardinality(OpenOn(s, {TRUE})) + Cardinality(HalfOpen(s, {TRUE}))
        IN  /\ count[s].all <= all
            /\ s \notin reset => count[s] = [all |-> all, rw |-> rw]

\* decrement_session_count never goes below zero, and the counts are right.
CountersSound == TypeOK /\ CountsFollowSessions

\* No read-only session takes over an SO login, although the check of open_session
\* and the insertion are apart and Login does not look for read-only sessions.
ReadOnlyNeverSO == \A h \in DOMAIN sessions : sessions[h].state = SO => sessions[h].rw

\* No user is logged in with a PIN the token does not have: InitToken takes the
\* user PIN away under open sessions, and with it the login.
LoginNeedsPin ==
    \A s \in Slots : token[s].login = User => token[s].setup = "user"

\* The roles of sessions and tokens are roles that open_session, login and
\* init_token may give, in any interleaving of them.
RolesSound == ReadOnlyNeverSO /\ LoginNeedsPin
=============================================================================

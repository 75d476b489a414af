---------------------------- MODULE DaemonProofs ----------------------------
(***************************************************************************)
(* For any slots, any number of requests in flight and any limits: keys    *)
(* stay inside, the ones the daemon generates stay on one slot, session    *)
(* counts are right, and roles are where they may be.  And of the throttle *)
(* before the PIN checks: it bounds guesses and tables, and a lockout      *)
(* holds.                                                                  *)
(***************************************************************************)
EXTENDS Daemon, LoginThrottle, FiniteSetTheorems, TLAPS

\* Objects in the store and objects a request is about to store.
Queued(c) == {call[c].queue[i].object : i \in DOMAIN call[c].queue}
Held ==
    {objects[h] : h \in DOMAIN objects}
    \cup UNION {Queued(c) : c \in {d \in Calls : Pc(d) = "insert"}}

\* A key of its type, with guards, whose material, if the daemon generated it, has
\* been numbered.
Guarded(o, n) ==
    /\ o \in Object /\ o.sensitive /\ ~o.extractable
    /\ o.material \in Nat => o.material <= n

SameSlot(o, p) ==
    o.material = p.material /\ o.material \in Nat => o.slot = p.slot

\* Every object there is, stored or about to be, is guarded, and objects with
\* the same generated material are on the same slot.
HeldInv ==
    /\ \A o \in Held : Guarded(o, created)
    /\ \A o, p \in Held : SameSlot(o, p)

\* Every handle a request holds was issued, and there is one for each request
\* that is opening a session.
CallInv ==
    /\ \A c \in Calls : Pc(c) = "insert" =>
          /\ call[c].queue # <<>>
          /\ \A i \in DOMAIN call[c].queue : call[c].queue[i].handle <= created
    /\ opened + Cardinality(Opening) <= MaxSessions

DaemonInv ==
    /\ TypeOK /\ HeldInv /\ CallInv
    /\ KeysStay /\ CountsFollowSessions /\ RolesSound

-----------------------------------------------------------------------------
(* The requests that only move from one place to another                   *)

\* A request moves on, and no session, object or counter changes.
Moves(c) ==
    /\ Pc(c) \in {"idle", "ready", "init_pin"}
    /\ \E x \in {Idle} \cup [pc : {"ready", "init_pin"}, slot : Slots] :
          call' = [call EXCEPT ![c] = x]
    /\ UNCHANGED <<count, sessions, objects, opened, created, reset>>

\* A request has made one or two objects.
MakesObjects(c) ==
    \E made \in Seq([handle : 1 .. MaxObjects, object : Object]) :
        /\ Pc(c) = "ready"
        /\ made # <<>>
        /\ created' \in created + 1 .. MaxObjects
        /\ \A i \in DOMAIN made : made[i].handle \in created + 1 .. created'
        /\ \A i \in DOMAIN made : Guarded(made[i].object, created')
        /\ \A i, j \in DOMAIN made : SameSlot(made[i].object, made[j].object)
        /\ \A i \in DOMAIN made : \A o \in Held : SameSlot(made[i].object, o)
        /\ call' = [call EXCEPT ![c] = [pc |-> "insert", queue |-> made]]
        /\ UNCHANGED <<token, count, sessions, objects, opened, ghosts>>
-----------------------------------------------------------------------------
\* The locals of a request, by where it is.
LEMMA CallTypes ==
    ASSUME TypeOK, NEW c \in Calls
    PROVE  /\ call[c] \in Call
           /\ Pc(c) \in {"open_count", "open_insert", "close_count"} =>
                /\ call[c].slot \in Slots /\ call[c].rw \in BOOLEAN
                /\ call[c] = [pc |-> Pc(c), slot |-> call[c].slot, rw |-> call[c].rw]
           /\ Pc(c) \in {"ready", "init_pin"} => call[c].slot \in Slots
           /\ Pc(c) = "insert" =>
                /\ call[c].queue \in Seq([handle : 1 .. MaxObjects, object : Object])
                /\ call[c] = [pc |-> "insert", queue |-> call[c].queue]
<1>1. call[c] \in Call
  BY DEF TypeOK
<1> QED
  BY <1>1 DEF Call, Idle, Pc

\* apply_attribute keeps the guards and the slot, and the material unless it puts
\* in the client's.
LEMMA AppliedKeeps ==
    ASSUME NEW o \in Object, NEW t \in Template, NEW n,
           Guarded(o, n), Applies(o, t)
    PROVE  /\ Guarded(Applied(o, t), n)
           /\ Applied(o, t).material \in {o.material} \cup Outside
           /\ Applied(o, t).slot = o.slot
<1>1. t.value \in {0} \cup Outside /\ t.value # 0 => t.value \notin Nat
  BY OutsideAssumption DEF Template
<1> QED
  BY <1>1 DEF Guarded, Applies, Applied, Object, Template

\* A key made of numbered material, or of some of Outside.
LEMMA NewKeyGuarded ==
    ASSUME NEW s \in Slots, NEW m \in Nat \cup Outside, NEW n \in Nat, m \in Nat => m <= n
    PROVE  /\ NewKey(s, m) \in Object /\ Guarded(NewKey(s, m), n)
           /\ NewKey(s, m).material = m /\ NewKey(s, m).slot = s
  BY DEF NewKey, Object, Guarded

\* One new object whose material is new, that of an object of its slot, or of
\* Outside.
LEMMA MakesOne ==
    ASSUME TypeOK, HeldInv, NEW c \in Calls, Pc(c) = "ready", NEW obj,
           Guarded(obj, created + 1),
           \A o \in Held : SameSlot(obj, o),
           Makes(c, <<Made(1, obj)>>)
    PROVE  MakesObjects(c)
<1> DEFINE m == Made(1, obj)
<1>1. created \in Nat /\ created' = created + 1 /\ created' <= MaxObjects /\ MaxObjects \in Nat
  BY BoundsAssumption DEF Makes, TypeOK
<1>2. m \in [handle : 1 .. MaxObjects, object : Object] /\ m.handle = created + 1 /\ m.object = obj
  BY <1>1 DEF Made, Guarded
<1> HIDE DEF m
<1>3. <<m>> \in Seq([handle : 1 .. MaxObjects, object : Object]) /\ <<m>> # <<>>
  BY <1>2
<1>4. \A i \in DOMAIN <<m>> : <<m>>[i] = m
  OBVIOUS
<1>5. /\ call' = [call EXCEPT ![c] = [pc |-> "insert", queue |-> <<m>>]]
      /\ UNCHANGED <<token, count, sessions, objects, opened, ghosts>>
  BY DEF Makes, Becomes, m
<1> DEFINE made == <<m>>
<1>6. /\ \A i \in DOMAIN made : made[i].handle \in created + 1 .. created'
      /\ \A i \in DOMAIN made : Guarded(made[i].object, created')
      /\ \A i, j \in DOMAIN made : SameSlot(made[i].object, made[j].object)
      /\ \A i \in DOMAIN made : \A o \in Held : SameSlot(made[i].object, o)
  BY <1>1, <1>2, <1>4 DEF SameSlot
<1>7. created' \in created + 1 .. MaxObjects
  BY <1>1
<1> HIDE DEF made
<1> QED
  BY <1>3, <1>5, <1>6, <1>7 DEF MakesObjects, made

LEMMA GenerateMakes ==
    ASSUME TypeOK, HeldInv, KeysStay, NEW c \in Calls, NEW t \in Template,
           GenerateKey(c, t) \/ UnwrapKey(c, t) \/ DeriveKey(c, t)
    PROVE  MakesObjects(c)
<1>1. PICK m \in {created + 1} \cup Outside :
          /\ Pc(c) = "ready" /\ Applies(NewKey(call[c].slot, m), t)
          /\ Makes(c, <<Made(1, Applied(NewKey(call[c].slot, m), t))>>)
  BY DEF GenerateKey, UnwrapKey, DeriveKey, MakesWith, KeysStay
<1>2. call[c].slot \in Slots /\ created \in Nat
  BY <1>1, CallTypes, BoundsAssumption DEF TypeOK
<1> DEFINE key == NewKey(call[c].slot, m)
<1>3. key \in Object /\ Guarded(key, created + 1) /\ key.material = m
  <2>1. m \in Nat \cup Outside /\ (m \in Nat => m <= created + 1) /\ created + 1 \in Nat
    BY <1>2, OutsideAssumption
  <2> QED
    BY <1>2, <2>1, NewKeyGuarded
<1>4. Applies(key, t) /\ Makes(c, <<Made(1, Applied(key, t))>>)
  BY <1>1
<1> HIDE DEF key
<1>5. /\ Guarded(Applied(key, t), created + 1)
      /\ Applied(key, t).material \in {created + 1} \cup Outside
  BY <1>3, <1>4, AppliedKeeps
<1>6. \A o \in Held : o.material \in Nat => o.material <= created
  BY DEF HeldInv, Guarded
<1>7. \A o \in Held : SameSlot(Applied(key, t), o)
  BY <1>2, <1>5, <1>6, OutsideAssumption DEF SameSlot
<1> QED
  BY <1>1, <1>4, <1>5, <1>7, MakesOne

LEMMA CopyMakes ==
    ASSUME TypeOK, HeldInv, NEW c \in Calls, NEW t \in Template,
           NEW o \in DOMAIN objects, CopyObject(c, o, t)
    PROVE  MakesObjects(c)
<1> DEFINE copy == [objects[o] EXCEPT !.slot = call[c].slot]
<1>1. /\ Pc(c) = "ready" /\ objects[o].slot = call[c].slot /\ Applies(copy, t)
      /\ Makes(c, <<Made(1, Applied(copy, t))>>)
  BY DEF CopyObject, InSlot
<1>2. objects[o] \in Held /\ objects[o] \in Object /\ created \in Nat
  BY BoundsAssumption DEF Held, TypeOK
<1>3. copy = objects[o]
  BY <1>1, <1>2 DEF Object
<1> HIDE DEF copy
<1>4. copy \in Object /\ Guarded(copy, created + 1)
  BY <1>2, <1>3 DEF HeldInv, Guarded, Object
<1>5. /\ Guarded(Applied(copy, t), created + 1)
      /\ Applied(copy, t).material \in {objects[o].material} \cup Outside
      /\ Applied(copy, t).slot = objects[o].slot
  BY <1>1, <1>3, <1>4, AppliedKeeps
<1>6. \A p \in Held : SameSlot(Applied(copy, t), p)
  BY <1>2, <1>5, OutsideAssumption DEF HeldInv, SameSlot
<1> QED
  BY <1>1, <1>5, <1>6, MakesOne

LEMMA PairMakes ==
    ASSUME TypeOK, HeldInv, NEW c \in Calls, NEW t \in Template, GenerateKeyPair(c, t)
    PROVE  MakesObjects(c)
<1>0. PICK m \in Outside :
          MakesPair(c, NewKey(call[c].slot, m), NewKey(call[c].slot, created + 2), t)
  BY DEF GenerateKeyPair
<1> DEFINE public == NewKey(call[c].slot, m)
           private == NewKey(call[c].slot, created + 2)
           m1 == Made(1, public)
           m2 == Made(2, Applied(private, t))
           Item == [handle : 1 .. MaxObjects, object : Object]
<1>1. /\ Pc(c) = "ready" /\ Applies(private, t)
      /\ Makes(c, <<m1, m2>>)
  BY <1>0 DEF GenerateKeyPair, MakesPair
<1>2. call[c].slot \in Slots /\ created \in Nat /\ MaxObjects \in Nat
  BY <1>1, CallTypes, BoundsAssumption DEF TypeOK
<1>3. /\ public \in Object /\ Guarded(public, created + 2) /\ public.material \in Outside
      /\ private \in Object /\ Guarded(private, created + 2) /\ private.material = created + 2
  <2>1. m \in Nat \cup Outside /\ m \notin Nat
    BY OutsideAssumption
  <2>2. created + 2 \in Nat /\ created + 2 <= created + 2
    BY <1>2
  <2>3. public \in Object /\ Guarded(public, created + 2) /\ public.material = m
    BY <1>2, <2>1, <2>2, NewKeyGuarded
  <2>4. private \in Object /\ Guarded(private, created + 2) /\ private.material = created + 2
    BY <1>2, <2>2, NewKeyGuarded
  <2> QED
    BY <2>3, <2>4
<1> HIDE DEF public, private
<1>4. /\ Guarded(Applied(private, t), created + 2)
      /\ Applied(private, t).material \in {created + 2} \cup Outside
  BY <1>1, <1>3, AppliedKeeps
<1>5. created' = created + 2 /\ created' <= MaxObjects
  BY <1>1, <1>2 DEF Makes
<1>6. /\ m1 \in Item /\ m1.object = public /\ m1.handle = created + 1
      /\ m2 \in Item /\ m2.object = Applied(private, t) /\ m2.handle = created + 2
  BY <1>2, <1>3, <1>4, <1>5 DEF Made, Guarded
<1>7. /\ call' = [call EXCEPT ![c] = [pc |-> "insert", queue |-> <<m1, m2>>]]
      /\ UNCHANGED <<token, count, sessions, objects, opened, ghosts>>
  BY <1>1 DEF Makes, Becomes
<1> HIDE DEF m1, m2
<1>8. \A o \in Held : o.material \in Nat => o.material <= created
  BY DEF HeldInv, Guarded
<1>9. /\ \A x \in {m1, m2} : \A o \in Held : SameSlot(x.object, o)
      /\ \A x, y \in {m1, m2} : SameSlot(x.object, y.object)
  BY <1>2, <1>3, <1>4, <1>6, <1>8, OutsideAssumption DEF SameSlot
<1>10. <<m1, m2>> \in Seq(Item) /\ <<m1, m2>> # <<>> /\ \A i \in DOMAIN <<m1, m2>> : <<m1, m2>>[i] \in {m1, m2}
  BY <1>6
<1>11. \A x \in {m1, m2} : x.handle \in created + 1 .. created' /\ Guarded(x.object, created')
  BY <1>2, <1>3, <1>4, <1>5, <1>6
<1> DEFINE made == <<m1, m2>>
<1>12. /\ \A i \in DOMAIN made : made[i].handle \in created + 1 .. created'
       /\ \A i \in DOMAIN made : Guarded(made[i].object, created')
       /\ \A i, j \in DOMAIN made : SameSlot(made[i].object, made[j].object)
       /\ \A i \in DOMAIN made : \A o \in Held : SameSlot(made[i].object, o)
  BY <1>9, <1>10, <1>11
<1>13. created' \in created + 1 .. MaxObjects
  BY <1>2, <1>5
<1>14. made \in Seq(Item) /\ made # <<>>
  BY <1>10
<1> HIDE DEF made
<1> QED
  BY <1>1, <1>7, <1>12, <1>13, <1>14 DEF MakesObjects, made
-----------------------------------------------------------------------------
(* What a step of a request is, as far as the invariant is concerned       *)

\* Only two answers carry key material, and no object is one they would give.
LEMMA NothingRevealed ==
    ASSUME DaemonInv, NEW c \in Calls, NEW o \in DOMAIN objects,
           WrapKey(c, o) \/ GetAttributeValue(c, o)
    PROVE  revealed' = revealed
<1>1. objects[o] \in Held
  BY DEF Held
<1>2. objects[o].sensitive /\ ~objects[o].extractable
  BY <1>1 DEF DaemonInv, HeldInv, Guarded
<1> QED
  BY <1>2 DEF WrapKey, GetAttributeValue

LEMMA TokenStepKinds ==
    ASSUME DaemonInv, NEW c \in Calls, TokenStep(c)
    PROVE  (Moves(c) /\ UNCHANGED revealed) \/ \E s \in Slots : InitToken(c, s)
<1> USE DEF DaemonInv
<1>1. ASSUME Pc(c) = "idle" PROVE call = [call EXCEPT ![c] = Idle]
  BY <1>1, CallTypes DEF Call, Idle, Pc, TypeOK
<1>2. ASSUME NEW h \in DOMAIN sessions PROVE sessions[h].slot \in Slots
  BY DEF TypeOK, Session
<1>3. ASSUME NEW h \in DOMAIN sessions,
             (\E role \in {User, SO} : Login(c, h, role)) \/ Logout(c, h)
      PROVE  Moves(c) /\ UNCHANGED revealed
  BY <1>1, <1>3 DEF Login, Logout, Moves, ghosts
<1>4. ASSUME NEW h \in DOMAIN sessions, InitPinChecks(c, h)
      PROVE  Moves(c) /\ UNCHANGED revealed
  <2>1. [pc |-> "init_pin", slot |-> sessions[h].slot] \in
            [pc : {"ready", "init_pin"}, slot : Slots]
    BY <1>2
  <2> QED
    BY <1>4, <2>1 DEF InitPinChecks, Becomes, Moves, ghosts
<1>5. ASSUME InitPin(c) PROVE Moves(c) /\ UNCHANGED revealed
  BY <1>5 DEF InitPin, Returns, Becomes, Moves, ghosts
<1> QED
  BY <1>3, <1>4, <1>5 DEF TokenStep

LEMMA ObjectStepKinds ==
    ASSUME DaemonInv, NEW c \in Calls, ObjectStep(c)
    PROVE  /\ UNCHANGED <<token, revealed>>
           /\ \/ Moves(c) \/ MakesObjects(c) \/ Inserts(c)
              \/ \E o \in DOMAIN objects : DestroyObject(c, o)
<1> USE DEF DaemonInv
<1>1. ASSUME NEW h \in DOMAIN sessions, Authorise(c, h)
      PROVE  Moves(c) /\ UNCHANGED <<token, revealed>>
  <2>1. [pc |-> "ready", slot |-> sessions[h].slot] \in
            [pc : {"ready", "init_pin"}, slot : Slots]
    BY DEF TypeOK, Session
  <2> QED
    BY <1>1, <2>1 DEF Authorise, Becomes, Moves, ghosts
<1>2. ASSUME NEW t \in Template,
             \/ GenerateKey(c, t) \/ GenerateKeyPair(c, t)
             \/ UnwrapKey(c, t) \/ DeriveKey(c, t)
             \/ \E o \in DOMAIN objects : CopyObject(c, o, t)
      PROVE  MakesObjects(c)
  BY <1>2, GenerateMakes, PairMakes, CopyMakes
<1>3. MakesObjects(c) => UNCHANGED <<token, revealed>>
  BY DEF MakesObjects, ghosts
<1>4. Inserts(c) => UNCHANGED <<token, revealed>>
  BY DEF Inserts, ghosts
<1>5. ASSUME NEW o \in DOMAIN objects, DestroyObject(c, o)
      PROVE  UNCHANGED <<token, revealed>>
  BY <1>5 DEF DestroyObject, ghosts
<1>6. ASSUME UsesKey(c) \/ ReturnsOnly(c)
      PROVE  Moves(c) /\ UNCHANGED <<token, revealed>>
  BY <1>6 DEF UsesKey, ReturnsOnly, Returns, Becomes, Moves, ghosts
<1>7. ASSUME NEW o \in DOMAIN objects,
             WrapKey(c, o) \/ GetAttributeValue(c, o)
      PROVE  Moves(c) /\ UNCHANGED <<token, revealed>>
  <2>1. UNCHANGED revealed
    BY <1>7, NothingRevealed
  <2> QED
    BY <1>7, <2>1 DEF WrapKey, GetAttributeValue, Returns, Becomes, Moves
<1> QED
  BY <1>1, <1>2, <1>3, <1>4, <1>5, <1>6, <1>7
  DEF ObjectStep, Sign, Verify, Encrypt, Decrypt, SetPin, FindObjects

-----------------------------------------------------------------------------
(* The objects                                                             *)

\* Objects that are held after a step are old ones, or guarded new ones of
\* new material or of the slot of the old ones with their material.
LEMMA HeldKept ==
    ASSUME HeldInv, created \in Nat, created' \in Nat, created <= created',
           NEW new, Held' \subseteq Held \cup new,
           \A o \in new : Guarded(o, created'),
           \A o, p \in new : SameSlot(o, p),
           \A o \in new : \A p \in Held : SameSlot(o, p)
    PROVE  HeldInv'
<1>1. \A o \in Held : Guarded(o, created')
  BY DEF HeldInv, Guarded, Object
<1>2. \A o, p \in Held \cup new : SameSlot(o, p)
  BY DEF HeldInv, SameSlot
<1>3. \A o \in Held' : Guarded(o, created')
  BY <1>1
<1>4. \A o, p \in Held' : SameSlot(o, p)
  BY <1>2
<1> QED
  BY <1>3, <1>4 DEF HeldInv, Guarded, SameSlot

LEMMA HeldShrinks ==
    ASSUME HeldInv, created \in Nat, UNCHANGED created, Held' \subseteq Held
    PROVE  HeldInv'
  BY DEF HeldInv, Guarded, SameSlot

LEMMA TailFacts ==
    ASSUME NEW S, NEW q \in Seq(S), q # <<>>
    PROVE  /\ Head(q) = q[1] /\ Head(q) \in S /\ 1 \in DOMAIN q
           /\ Tail(q) \in Seq(S)
           /\ Len(q) > 1 => Tail(q) # <<>>
           /\ \A i \in DOMAIN Tail(q) : i + 1 \in DOMAIN q /\ Tail(q)[i] = q[i + 1]
<1>1. Tail(q) \in Seq(S) /\ Len(Tail(q)) = Len(q) - 1 /\ Len(q) \in Nat /\ Len(q) > 0
  OBVIOUS
<1>2. \A i \in 1 .. Len(Tail(q)) : i + 1 \in 1 .. Len(q) /\ Tail(q)[i] = q[i + 1]
  BY <1>1
<1>3. Len(q) > 1 => Tail(q) # <<>>
  <2>1. Len(<<>>) = 0
    OBVIOUS
  <2>2. Tail(q) = <<>> => Len(Tail(q)) = Len(<<>>)
    OBVIOUS
  <2> QED
    BY <1>1, <2>1, <2>2
<1> QED
  BY <1>1, <1>2, <1>3

\* A request that stores nothing leaves the held objects alone.
LEMMA HeldUnchanged ==
    ASSUME DaemonInv, NEW c \in Calls, NEW x,
           call' = [call EXCEPT ![c] = x], x.pc # "insert", UNCHANGED <<objects, created>>
    PROVE  HeldInv'
<1>1. created \in Nat
  BY BoundsAssumption DEF DaemonInv, TypeOK
<1>2. \A d \in Calls : Pc(d)' = "insert" => Pc(d) = "insert" /\ call'[d] = call[d]
  BY DEF DaemonInv, TypeOK, Pc
<1>3. \A d \in Calls : Pc(d)' = "insert" => Queued(d)' = Queued(d)
  BY <1>2 DEF Queued
<1>4. Held' \subseteq Held
  BY <1>2, <1>3 DEF Held
<1> QED
  BY <1>1, <1>4, HeldShrinks DEF DaemonInv

LEMMA HeldMade ==
    ASSUME DaemonInv, NEW c \in Calls, MakesObjects(c)
    PROVE  HeldInv'
<1>1. PICK made \in Seq([handle : 1 .. MaxObjects, object : Object]) :
        /\ Pc(c) = "ready"
        /\ created' \in created + 1 .. MaxObjects
        /\ \A i \in DOMAIN made : Guarded(made[i].object, created')
        /\ \A i, j \in DOMAIN made : SameSlot(made[i].object, made[j].object)
        /\ \A i \in DOMAIN made : \A o \in Held : SameSlot(made[i].object, o)
        /\ call' = [call EXCEPT ![c] = [pc |-> "insert", queue |-> made]]
        /\ UNCHANGED <<token, count, sessions, objects, opened, ghosts>>
  BY DEF MakesObjects
<1> DEFINE new == {made[i].object : i \in DOMAIN made}
<1>2. created \in Nat /\ created' \in Nat /\ created <= created'
  BY <1>1, BoundsAssumption DEF DaemonInv, TypeOK
<1>3. call'[c].queue = made /\ \A d \in Calls \ {c} : call'[d] = call[d]
  BY <1>1 DEF DaemonInv, TypeOK
<1>4. Queued(c)' = new /\ \A d \in Calls \ {c} : Queued(d)' = Queued(d) /\ Pc(d)' = Pc(d)
  BY <1>3 DEF Queued, Pc
<1>5. Held' \subseteq Held \cup new
  BY <1>1, <1>4 DEF Held
<1>6. /\ \A o \in new : Guarded(o, created')
      /\ \A o, p \in new : SameSlot(o, p)
      /\ \A o \in new : \A p \in Held : SameSlot(o, p)
  BY <1>1
<1> HIDE DEF new
<1> QED
  BY <1>2, <1>5, <1>6, HeldKept DEF DaemonInv

\* insert_object moves an object from the request to the store.
LEMMA HeldInserted ==
    ASSUME DaemonInv, NEW c \in Calls, Inserts(c)
    PROVE  HeldInv' /\ (TypeOK /\ CallInv)'
<1> DEFINE q == call[c].queue
           Item == [handle : 1 .. MaxObjects, object : Object]
<1>1. Pc(c) = "insert" /\ q \in Seq(Item) /\ q # <<>>
  BY CallTypes DEF Inserts, DaemonInv, CallInv
<1>2. Head(q) = q[1] /\ 1 \in DOMAIN q /\ Head(q) \in Item /\ Head(q).handle <= created
  BY <1>1, TailFacts DEF DaemonInv, CallInv
<1>3. /\ created \in Nat /\ created \in 0 .. MaxObjects /\ MaxObjects \in Nat
      /\ created' = created /\ UNCHANGED <<token, count, sessions, opened, revealed, reset>>
  BY BoundsAssumption DEF DaemonInv, TypeOK, Inserts, ghosts
<1>4. /\ DOMAIN objects' \subseteq DOMAIN objects \cup {Head(q).handle}
      /\ objects' \in [DOMAIN objects' -> Object]
      /\ \A h \in DOMAIN objects' : objects'[h] \in {objects[g] : g \in DOMAIN objects} \cup {Head(q).object}
  <2>1. CASE objects' = objects
    BY <2>1 DEF DaemonInv, TypeOK
  <2>2. CASE objects' = Put(objects, Head(q).handle, Head(q).object)
    BY <2>2, <1>2 DEF Put, DaemonInv, TypeOK
  <2> QED
    BY <2>1, <2>2 DEF Inserts
<1>5. \/ call' = [call EXCEPT ![c] = Idle]
      \/ Len(q) > 1 /\ call' = [call EXCEPT ![c] = [pc |-> "insert", queue |-> Tail(q)]]
  <2>1. [call[c] EXCEPT !.queue = Tail(q)] = [pc |-> "insert", queue |-> Tail(q)]
    <3>1. call[c] = [pc |-> "insert", queue |-> q]
      BY <1>1, CallTypes DEF DaemonInv
    <3> HIDE DEF q
    <3>2. ASSUME NEW v PROVE [[pc |-> "insert", queue |-> q] EXCEPT !.queue = v] =
                               [pc |-> "insert", queue |-> v]
      OBVIOUS
    <3> QED
      BY <3>1, <3>2
  <2> QED
    BY <2>1 DEF Inserts, Returns, Becomes
<1>6. /\ Tail(q) \in Seq(Item)
      /\ Len(q) > 1 => Tail(q) # <<>>
      /\ \A i \in DOMAIN Tail(q) : i + 1 \in DOMAIN q /\ Tail(q)[i] = q[i + 1]
  BY <1>1, TailFacts
<1>7. Held' \subseteq Held
  <2>1. \A o \in Queued(c) : o \in Held
    BY <1>1 DEF Held
  <2>2. Head(q).object \in Held
    BY <1>2, <2>1 DEF Queued
  <2>3. Pc(c)' = "insert" => Queued(c)' \subseteq Queued(c)
    <3>1. CASE call' = [call EXCEPT ![c] = Idle]
      BY <3>1 DEF Pc, Idle, DaemonInv, TypeOK
    <3>2. CASE call' = [call EXCEPT ![c] = [pc |-> "insert", queue |-> Tail(q)]]
      <4>1. call'[c].queue = Tail(q)
        BY <3>2 DEF DaemonInv, TypeOK
      <4> QED
        BY <4>1, <1>6 DEF Queued
    <3> QED
      BY <1>5, <3>1, <3>2
  <2>4. \A d \in Calls \ {c} : Queued(d)' = Queued(d) /\ Pc(d)' = Pc(d)
    BY <1>5 DEF Queued, Pc, DaemonInv, TypeOK
  <2>5. \A d \in Calls : Pc(d)' = "insert" => Queued(d)' \subseteq Held
    BY <2>1, <2>3, <2>4 DEF Held
  <2>6. \A h \in DOMAIN objects' : objects'[h] \in Held
    BY <1>4, <2>2 DEF Held
  <2> QED
    BY <2>5, <2>6 DEF Held
<1>8. HeldInv'
  BY <1>3, <1>7, HeldShrinks DEF DaemonInv
<1>9. TypeOK'
  <2>1. call' \in [Calls -> Call]
    <3>1. Idle \in Call /\ [pc |-> "insert", queue |-> Tail(q)] \in Call
      BY <1>6 DEF Call
    <3> QED
      BY <1>5, <3>1 DEF DaemonInv, TypeOK
  <2>2. DOMAIN objects' \subseteq 1 .. created'
    BY <1>2, <1>3, <1>4 DEF DaemonInv, TypeOK
  <2> QED
    BY <1>3, <1>4, <2>1, <2>2 DEF DaemonInv, TypeOK
<1>10. CallInv'
  <2>1. Opening' = Opening
    BY <1>1, <1>5 DEF Opening, Pc, Idle, DaemonInv, TypeOK
  <2>2. Pc(c)' = "insert" =>
          /\ call'[c].queue # <<>>
          /\ \A i \in DOMAIN call'[c].queue : call'[c].queue[i].handle <= created
    <3>1. CASE call' = [call EXCEPT ![c] = Idle]
      BY <3>1 DEF Pc, Idle, DaemonInv, TypeOK
    <3>2. CASE Len(q) > 1 /\ call' = [call EXCEPT ![c] = [pc |-> "insert", queue |-> Tail(q)]]
      <4>1. call'[c].queue = Tail(q)
        BY <3>2 DEF DaemonInv, TypeOK
      <4> QED
        BY <4>1, <3>2, <1>1, <1>6 DEF DaemonInv, CallInv
    <3> QED
      BY <1>5, <3>1, <3>2
  <2>3. \A d \in Calls \ {c} : call'[d] = call[d]
    BY <1>5 DEF DaemonInv, TypeOK
  <2> QED
    BY <1>3, <2>1, <2>2, <2>3 DEF DaemonInv, CallInv, Pc
<1> QED
  BY <1>8, <1>9, <1>10

-----------------------------------------------------------------------------
(* The session counts                                                      *)

\* Sessions of a slot that are open, or counted by a request in flight.
Units(s, rws) == Cardinality(OpenOn(s, rws)) + Cardinality(HalfOpen(s, rws))
Half == {"open_insert", "close_count"}

LEMMA UnitsFinite ==
    ASSUME TypeOK, NEW s, NEW R
    PROVE  /\ IsFiniteSet(OpenOn(s, R)) /\ Cardinality(OpenOn(s, R)) \in Nat
           /\ IsFiniteSet(HalfOpen(s, R)) /\ Cardinality(HalfOpen(s, R)) \in Nat
           /\ IsFiniteSet(Opening) /\ Cardinality(Opening) \in Nat
           /\ Units(s, R) \in Nat
<1>1. IsFiniteSet(1 .. opened)
  <2>1. opened \in Int /\ 1 \in Int
    BY BoundsAssumption DEF TypeOK
  <2> QED
    BY <2>1, FS_Interval
<1>2. OpenOn(s, R) \in SUBSET (1 .. opened)
  BY DEF TypeOK, OpenOn
<1>3. HalfOpen(s, R) \in SUBSET Calls /\ Opening \in SUBSET Calls
  BY DEF HalfOpen, Opening
<1>4. IsFiniteSet(OpenOn(s, R))
  BY <1>1, <1>2, FS_Subset
<1>5. IsFiniteSet(HalfOpen(s, R)) /\ IsFiniteSet(Opening)
  BY <1>3, FS_Subset, CallsAssumption
<1> QED
  BY <1>4, <1>5, FS_CardinalityType DEF Units

LEMMA CountsByUnits ==
    CountsFollowSessions <=>
        \A s \in Slots :
            /\ count[s].all <= Units(s, BOOLEAN)
            /\ s \notin reset => count[s] = [all |-> Units(s, BOOLEAN), rw |-> Units(s, {TRUE})]
  BY DEF CountsFollowSessions, Units

\* A request outside the two counted places that stays outside.
LEMMA UnitsSame ==
    ASSUME NEW c \in Calls, \A d \in Calls \ {c} : call'[d] = call[d],
           Pc(c) \notin Half, Pc(c)' \notin Half, UNCHANGED sessions
    PROVE  \A s, R : Units(s, R)' = Units(s, R)
<1>1. \A s, R : HalfOpen(s, R)' = HalfOpen(s, R)
  BY DEF HalfOpen, Half, Pc
<1>2. \A s, R : OpenOn(s, R)' = OpenOn(s, R)
  BY DEF OpenOn
<1> QED
  BY <1>1, <1>2 DEF Units

LEMMA HalfSame ==
    ASSUME TypeOK, NEW c \in Calls, NEW x, call' = [call EXCEPT ![c] = x],
           Pc(c) \notin Half, x.pc \notin Half, UNCHANGED sessions
    PROVE  \A s, R : Units(s, R)' = Units(s, R)
<1>1. Pc(c)' = x.pc /\ \A d \in Calls \ {c} : call'[d] = call[d]
  BY DEF TypeOK, Pc
<1> QED
  BY <1>1, UnitsSame

LEMMA CountsSame ==
    ASSUME CountsFollowSessions, UNCHANGED <<count, reset>>,
           \A s, R : Units(s, R)' = Units(s, R)
    PROVE  CountsFollowSessions'
  BY CountsByUnits DEF CountsFollowSessions, Units

\* A request that comes to, or leaves, one of the two places.
LEMMA HalfEntered ==
    ASSUME TypeOK, NEW c \in Calls, NEW s0, NEW rw0,
           Pc(c) \notin Half, Pc(c)' \in Half, call'[c].slot = s0, call'[c].rw = rw0,
           \A d \in Calls \ {c} : call'[d] = call[d], NEW s, NEW R
    PROVE  Cardinality(HalfOpen(s, R)') =
             Cardinality(HalfOpen(s, R)) + (IF s0 = s /\ rw0 \in R THEN 1 ELSE 0)
<1>1. c \notin HalfOpen(s, R)
  BY DEF HalfOpen, Half
<1>2. HalfOpen(s, R)' = IF s0 = s /\ rw0 \in R THEN HalfOpen(s, R) \cup {c} ELSE HalfOpen(s, R)
  BY DEF HalfOpen, Half, Pc
<1>3. IsFiniteSet(HalfOpen(s, R)) /\ Cardinality(HalfOpen(s, R)) \in Nat
  BY UnitsFinite
<1>4. Cardinality(HalfOpen(s, R) \cup {c}) =
        IF c \in HalfOpen(s, R) THEN Cardinality(HalfOpen(s, R)) ELSE Cardinality(HalfOpen(s, R)) + 1
  BY <1>3, FS_AddElement
<1> QED
  BY <1>1, <1>2, <1>3, <1>4

LEMMA HalfLeft ==
    ASSUME TypeOK, NEW c \in Calls, call' = [call EXCEPT ![c] = Idle],
           Pc(c) \in Half, NEW s, NEW R
    PROVE  /\ Cardinality(HalfOpen(s, R)') =
                 Cardinality(HalfOpen(s, R))
                   - (IF call[c].slot = s /\ call[c].rw \in R THEN 1 ELSE 0)
           /\ call[c].slot = s /\ call[c].rw \in R => Cardinality(HalfOpen(s, R)) >= 1
<1>1. Pc(c)' = "idle" /\ \A d \in Calls \ {c} : call'[d] = call[d]
  BY DEF TypeOK, Pc, Idle
<1>2. c \in HalfOpen(s, R) <=> call[c].slot = s /\ call[c].rw \in R
  BY DEF HalfOpen, Half
<1>3. HalfOpen(s, R)' = HalfOpen(s, R) \ {c}
  BY <1>1 DEF HalfOpen, Half, Pc
<1>4. IsFiniteSet(HalfOpen(s, R)) /\ Cardinality(HalfOpen(s, R)) \in Nat
  BY UnitsFinite
<1>5. c \in HalfOpen(s, R) => Cardinality(HalfOpen(s, R)) # 0
  BY <1>4, FS_EmptySet
<1>6. Cardinality(HalfOpen(s, R) \ {c}) =
        IF c \in HalfOpen(s, R) THEN Cardinality(HalfOpen(s, R)) - 1 ELSE Cardinality(HalfOpen(s, R))
  BY <1>4, FS_RemoveElement
<1> QED
  BY <1>2, <1>3, <1>4, <1>5, <1>6

\* increment_session_count: one more unit, one more counted.
LEMMA CountsUp ==
    ASSUME DaemonInv, NEW c \in Calls, OpenCounts(c)
    PROVE  CountsFollowSessions'
<1> DEFINE s0 == call[c].slot
           rw0 == call[c].rw
<1>1. /\ Pc(c) = "open_count" /\ s0 \in Slots /\ rw0 \in BOOLEAN /\ Pc(c) \notin Half
      /\ call[c] = [pc |-> "open_count", slot |-> s0, rw |-> rw0]
  BY CallTypes DEF OpenCounts, DaemonInv, Half
<1>2. UNCHANGED <<sessions, reset>> /\ TypeOK
  BY DEF OpenCounts, ghosts, DaemonInv
<1>3. CASE MayCount(s0, rw0)
  <2>1. count' = [count EXCEPT ![s0] = Counted(@, rw0)]
    BY <1>3 DEF OpenCounts
  <2>2. /\ Pc(c)' \in Half /\ call'[c].slot = s0 /\ call'[c].rw = rw0
        /\ \A d \in Calls \ {c} : call'[d] = call[d]
    <3>1. [call[c] EXCEPT !.pc = "open_insert"] = [pc |-> "open_insert", slot |-> s0, rw |-> rw0]
      BY <1>1
    <3>2. call' = [call EXCEPT ![c] = [pc |-> "open_insert", slot |-> s0, rw |-> rw0]]
      BY <1>3, <3>1 DEF OpenCounts, Becomes
    <3> QED
      BY <3>2, <1>2 DEF Half, TypeOK, Pc
  <2>3. \A s, R : Units(s, R)' = Units(s, R) + (IF s0 = s /\ rw0 \in R THEN 1 ELSE 0)
    <3> SUFFICES ASSUME NEW s, NEW R
                 PROVE  Units(s, R)' = Units(s, R) + (IF s0 = s /\ rw0 \in R THEN 1 ELSE 0)
      OBVIOUS
    <3>1. Cardinality(HalfOpen(s, R)') =
            Cardinality(HalfOpen(s, R)) + (IF s0 = s /\ rw0 \in R THEN 1 ELSE 0)
      BY <1>1, <1>2, <2>2, HalfEntered
    <3>2. OpenOn(s, R)' = OpenOn(s, R)
      BY <1>2 DEF OpenOn
    <3>3. Cardinality(OpenOn(s, R)) \in Nat /\ Cardinality(HalfOpen(s, R)) \in Nat
      BY <1>2, UnitsFinite
    <3> QED
      BY <3>1, <3>2, <3>3 DEF Units
  <2>4. \A s, R : Units(s, R) \in Nat
    BY <1>2, UnitsFinite
  <2>5. \A s \in Slots : count[s] \in Count
    BY <1>2 DEF TypeOK
  <2>6. ASSUME NEW s \in Slots
        PROVE  /\ count'[s].all <= Units(s, BOOLEAN)'
               /\ s \notin reset' => count'[s] = [all |-> Units(s, BOOLEAN)', rw |-> Units(s, {TRUE})']
    <3>1. /\ count[s].all <= Units(s, BOOLEAN)
          /\ s \notin reset => count[s] = [all |-> Units(s, BOOLEAN), rw |-> Units(s, {TRUE})]
      BY CountsByUnits DEF DaemonInv
    <3>2. CASE s # s0
      <4>1. count'[s] = count[s]
        BY <2>1, <3>2, <1>2 DEF TypeOK
      <4> QED
        BY <1>2, <2>3, <2>4, <3>1, <3>2, <4>1
    <3>3. CASE s = s0
      <4>1. count'[s] = [all |-> count[s].all + 1, rw |-> count[s].rw + (IF rw0 THEN 1 ELSE 0)]
        BY <2>1, <3>3, <1>2 DEF TypeOK, Counted
      <4>2. /\ Units(s, BOOLEAN)' = Units(s, BOOLEAN) + 1
            /\ Units(s, {TRUE})' = Units(s, {TRUE}) + (IF rw0 THEN 1 ELSE 0)
        BY <1>1, <2>3, <3>3
      <4> QED
        BY <1>2, <2>4, <2>5, <3>1, <4>1, <4>2 DEF Count
    <3> QED
      BY <3>2, <3>3
  <2> QED
    BY <2>6 DEF CountsFollowSessions, Units
<1>4. CASE ~MayCount(s0, rw0)
  <2>1. call' = [call EXCEPT ![c] = Idle] /\ UNCHANGED count
    BY <1>4 DEF OpenCounts, Returns, Becomes
  <2>2. Idle.pc \notin Half
    BY DEF Idle, Half
  <2> QED
    BY <1>1, <1>2, <2>1, <2>2, HalfSame, CountsSame DEF DaemonInv
<1> QED
  BY <1>3, <1>4

\* decrement_session_count: a unit is left, and counted off.
LEMMA CountsDown ==
    ASSUME DaemonInv, NEW c \in Calls, Pc(c) \in Half,
           call' = [call EXCEPT ![c] = Idle], UNCHANGED <<sessions, reset>>,
           count' = [count EXCEPT ![call[c].slot] = Uncounted(@, call[c].rw)]
    PROVE  CountsFollowSessions'
<1> DEFINE s0 == call[c].slot
           rw0 == call[c].rw
<1>1. s0 \in Slots /\ rw0 \in BOOLEAN /\ TypeOK
  BY CallTypes DEF DaemonInv, Half
<1>2. ASSUME NEW s, NEW R
      PROVE  /\ Units(s, R)' = Units(s, R) - (IF s0 = s /\ rw0 \in R THEN 1 ELSE 0)
             /\ s0 = s /\ rw0 \in R => Units(s, R) >= 1
             /\ Units(s, R) \in Nat
  <2>1. /\ Cardinality(HalfOpen(s, R)') =
             Cardinality(HalfOpen(s, R)) - (IF s0 = s /\ rw0 \in R THEN 1 ELSE 0)
        /\ s0 = s /\ rw0 \in R => Cardinality(HalfOpen(s, R)) >= 1
    BY <1>1, HalfLeft
  <2>2. OpenOn(s, R)' = OpenOn(s, R)
    BY DEF OpenOn
  <2>3. Cardinality(OpenOn(s, R)) \in Nat /\ Cardinality(HalfOpen(s, R)) \in Nat
    BY <1>1, UnitsFinite
  <2> QED
    BY <2>1, <2>2, <2>3 DEF Units
<1>3. \A s \in Slots : count[s] \in Count
  BY <1>1 DEF TypeOK
<1>4. ASSUME NEW s \in Slots
      PROVE  /\ count'[s].all <= Units(s, BOOLEAN)'
             /\ s \notin reset' => count'[s] = [all |-> Units(s, BOOLEAN)', rw |-> Units(s, {TRUE})']
  <2>1. /\ count[s].all <= Units(s, BOOLEAN)
        /\ s \notin reset => count[s] = [all |-> Units(s, BOOLEAN), rw |-> Units(s, {TRUE})]
    BY CountsByUnits DEF DaemonInv
  <2>2. CASE s # s0
    <3>1. count'[s] = count[s]
      BY <2>2, <1>1 DEF TypeOK
    <3> QED
      BY <1>2, <2>1, <2>2, <3>1
  <2>3. CASE s = s0
    <3>1. count'[s] = Uncounted(count[s], rw0)
      BY <2>3, <1>1 DEF TypeOK
    <3>2. /\ Units(s, BOOLEAN)' = Units(s, BOOLEAN) - 1 /\ Units(s, BOOLEAN) >= 1
          /\ Units(s, {TRUE})' = Units(s, {TRUE}) - (IF rw0 THEN 1 ELSE 0)
          /\ rw0 => Units(s, {TRUE}) >= 1
          /\ Units(s, BOOLEAN) \in Nat /\ Units(s, {TRUE}) \in Nat
      BY <1>1, <1>2, <2>3
    <3>3. /\ count[s] = [all |-> count[s].all, rw |-> count[s].rw]
          /\ count[s].all \in Nat /\ count[s].rw \in Nat
      BY <1>3 DEF Count
    <3>4. /\ Uncounted(count[s], rw0).all = IF count[s].all = 0 THEN 0 ELSE count[s].all - 1
          /\ count[s].all # 0 /\ (rw0 => count[s].rw # 0) =>
               Uncounted(count[s], rw0) = [all |-> count[s].all - 1,
                                           rw |-> count[s].rw - (IF rw0 THEN 1 ELSE 0)]
      <4> DEFINE a == count[s].all
                 b == count[s].rw
      <4>1. [count[s] EXCEPT !.all = @ - 1] = [all |-> a - 1, rw |-> b]
        BY <3>3
      <4>2. count[s].all = 0 => Uncounted(count[s], rw0) = count[s]
        BY DEF Uncounted
      <4>3. count[s].all > 0 /\ (~rw0 \/ count[s].rw = 0) =>
              Uncounted(count[s], rw0) = [all |-> a - 1, rw |-> b]
        BY <3>3, <4>1 DEF Uncounted
      <4>4. count[s].all > 0 /\ rw0 /\ count[s].rw # 0 =>
              Uncounted(count[s], rw0) = [all |-> a - 1, rw |-> b - 1]
        BY <3>3 DEF Uncounted
      <4> QED
        BY <3>3, <4>2, <4>3, <4>4, <1>1
    <3>5. count'[s].all <= Units(s, BOOLEAN)'
      BY <2>1, <3>1, <3>2, <3>3, <3>4
    <3>6. ASSUME s \notin reset
          PROVE  count'[s] = [all |-> Units(s, BOOLEAN)', rw |-> Units(s, {TRUE})']
      <4>1. count[s].all = Units(s, BOOLEAN) /\ count[s].rw = Units(s, {TRUE})
        BY <2>1, <3>6
      <4>2. count[s].all # 0 /\ (rw0 => count[s].rw # 0)
        BY <3>2, <4>1
      <4> QED
        BY <3>1, <3>2, <3>4, <4>1, <4>2
    <3> QED
      BY <3>5, <3>6
  <2> QED
    BY <2>2, <2>3
<1> QED
  BY <1>4 DEF CountsFollowSessions, Units

\* A counted request becomes an open session.
LEMMA CountsInserted ==
    ASSUME DaemonInv, NEW c \in Calls, Pc(c) = "open_insert",
           call' = [call EXCEPT ![c] = Idle], UNCHANGED <<count, reset>>,
           NEW role,
           sessions' = Put(sessions, opened + 1,
                           [slot |-> call[c].slot, rw |-> call[c].rw, state |-> role])
    PROVE  CountsFollowSessions'
<1> DEFINE s0 == call[c].slot
           rw0 == call[c].rw
           h0 == opened + 1
<1>1. s0 \in Slots /\ rw0 \in BOOLEAN /\ TypeOK /\ Pc(c) \in Half
  BY CallTypes DEF DaemonInv, Half
<1>2. h0 \notin DOMAIN sessions
  BY <1>1, BoundsAssumption DEF TypeOK
<1>3. /\ DOMAIN sessions' = DOMAIN sessions \cup {h0}
      /\ \A h \in DOMAIN sessions : sessions'[h] = sessions[h]
      /\ sessions'[h0].slot = s0 /\ sessions'[h0].rw = rw0
  BY <1>2 DEF Put
<1> HIDE DEF h0
<1>4. ASSUME NEW s, NEW R
      PROVE  Units(s, R)' = Units(s, R)
  <2>1. OpenOn(s, R)' = IF s0 = s /\ rw0 \in R THEN OpenOn(s, R) \cup {h0} ELSE OpenOn(s, R)
    BY <1>2, <1>3 DEF OpenOn
  <2>2. h0 \notin OpenOn(s, R)
    BY <1>2 DEF OpenOn
  <2>3. /\ IsFiniteSet(OpenOn(s, R)) /\ Cardinality(OpenOn(s, R)) \in Nat
        /\ Cardinality(HalfOpen(s, R)) \in Nat
    BY <1>1, UnitsFinite
  <2> DEFINE S == OpenOn(s, R)
  <2>a. Cardinality(S \cup {h0}) = IF h0 \in S THEN Cardinality(S) ELSE Cardinality(S) + 1
    <3> HIDE DEF S
    <3>1. IsFiniteSet(S)
      BY <2>3 DEF S
    <3> QED
      BY <3>1, FS_AddElement
  <2>4. Cardinality(OpenOn(s, R)') =
          Cardinality(OpenOn(s, R)) + (IF s0 = s /\ rw0 \in R THEN 1 ELSE 0)
    BY <2>1, <2>2, <2>3, <2>a
  <2>5. Cardinality(HalfOpen(s, R)') =
          Cardinality(HalfOpen(s, R)) - (IF s0 = s /\ rw0 \in R THEN 1 ELSE 0)
    <3>1. TypeOK /\ Pc(c) \in Half
      BY <1>1
    <3> QED
      BY <3>1, HalfLeft, Zenon
  <2> QED
    BY <2>3, <2>4, <2>5 DEF Units
<1> QED
  BY <1>4, CountsSame DEF DaemonInv

\* An open session becomes a request that is about to count it off.
LEMMA CountsRemoved ==
    ASSUME DaemonInv, NEW c \in Calls, NEW h \in DOMAIN sessions, CloseRemoves(c, h)
    PROVE  CountsFollowSessions'
<1> DEFINE s0 == sessions[h].slot
           rw0 == sessions[h].rw
<1>1. /\ TypeOK /\ Pc(c) \notin Half
      /\ UNCHANGED <<count, reset>> /\ sessions' = Drop(sessions, h)
  BY DEF CloseRemoves, DaemonInv, Half, ghosts
<1>2. /\ Pc(c)' \in Half /\ call'[c].slot = s0 /\ call'[c].rw = rw0
      /\ \A d \in Calls \ {c} : call'[d] = call[d]
  <2>1. call' = [call EXCEPT ![c] = [pc |-> "close_count", slot |-> s0, rw |-> rw0]]
    BY DEF CloseRemoves, Becomes
  <2> QED
    BY <1>1, <2>1 DEF Half, TypeOK, Pc
<1>3. DOMAIN sessions' = DOMAIN sessions \ {h} /\ \A g \in DOMAIN sessions' : sessions'[g] = sessions[g]
  BY <1>1 DEF Drop
<1>4. ASSUME NEW s, NEW R
      PROVE  Units(s, R)' = Units(s, R)
  <2>1. OpenOn(s, R)' = OpenOn(s, R) \ {h}
    BY <1>3 DEF OpenOn
  <2>2. h \in OpenOn(s, R) <=> s0 = s /\ rw0 \in R
    BY DEF OpenOn
  <2>3. /\ IsFiniteSet(OpenOn(s, R)) /\ Cardinality(OpenOn(s, R)) \in Nat
        /\ Cardinality(HalfOpen(s, R)) \in Nat
    BY <1>1, UnitsFinite
  <2> DEFINE S == OpenOn(s, R)
  <2>a. Cardinality(S \ {h}) = IF h \in S THEN Cardinality(S) - 1 ELSE Cardinality(S)
    <3> HIDE DEF S
    <3>1. IsFiniteSet(S)
      BY <2>3 DEF S
    <3> QED
      BY <3>1, FS_RemoveElement
  <2>4. Cardinality(OpenOn(s, R)') =
          Cardinality(OpenOn(s, R)) - (IF s0 = s /\ rw0 \in R THEN 1 ELSE 0)
    BY <2>1, <2>2, <2>3, <2>a
  <2>5. Cardinality(HalfOpen(s, R)') =
          Cardinality(HalfOpen(s, R)) + (IF s0 = s /\ rw0 \in R THEN 1 ELSE 0)
    BY <1>1, <1>2, HalfEntered
  <2> QED
    BY <2>3, <2>4, <2>5 DEF Units
<1> QED
  BY <1>1, <1>4, CountsSame DEF DaemonInv

\* init_token sets the counts to zero, rightly if there are no sessions.
LEMMA CountsReset ==
    ASSUME DaemonInv, NEW c \in Calls, NEW s0 \in Slots, InitToken(c, s0)
    PROVE  CountsFollowSessions'
<1>1. /\ TypeOK /\ Pc(c) \notin Half /\ call' = [call EXCEPT ![c] = Idle]
      /\ count' = [count EXCEPT ![s0] = [all |-> 0, rw |-> 0]]
      /\ reset' = IF OpenOn(s0, BOOLEAN) = {} /\ HalfOpen(s0, BOOLEAN) = {}
                  THEN reset \ {s0} ELSE reset \cup {s0}
      /\ UNCHANGED sessions
  BY DEF InitToken, Returns, Becomes, DaemonInv, Half
<1>2. \A s, R : Units(s, R)' = Units(s, R)
  <2>1. Idle.pc \notin Half
    BY DEF Idle, Half
  <2> QED
    BY <1>1, <2>1, HalfSame
<1>3. \A s, R : Units(s, R) \in Nat
  BY <1>1, UnitsFinite
<1>4. ASSUME NEW s \in Slots
      PROVE  /\ count'[s].all <= Units(s, BOOLEAN)'
             /\ s \notin reset' => count'[s] = [all |-> Units(s, BOOLEAN)', rw |-> Units(s, {TRUE})']
  <2>1. CASE s # s0
    <3>1. count'[s] = count[s]
      BY <1>1, <2>1 DEF TypeOK
    <3>2. s \notin reset' => s \notin reset
      BY <1>1, <2>1
    <3> QED
      BY <1>2, <3>1, <3>2, CountsByUnits DEF DaemonInv
  <2>2. CASE s = s0
    <3>1. count'[s] = [all |-> 0, rw |-> 0]
      BY <1>1, <2>2 DEF TypeOK
    <3>2. ASSUME s \notin reset'
          PROVE  Units(s, BOOLEAN) = 0 /\ Units(s, {TRUE}) = 0
      <4>1. OpenOn(s, BOOLEAN) = {} /\ HalfOpen(s, BOOLEAN) = {}
        BY <1>1, <2>2, <3>2
      <4>2. OpenOn(s, {TRUE}) = {} /\ HalfOpen(s, {TRUE}) = {}
        BY <4>1 DEF OpenOn, HalfOpen
      <4> QED
        BY <4>1, <4>2, FS_EmptySet DEF Units
    <3> QED
      BY <1>2, <1>3, <3>1, <3>2
  <2> QED
    BY <2>1, <2>2
<1> QED
  BY <1>4 DEF CountsFollowSessions, Units

-----------------------------------------------------------------------------
(* Types, handles and roles                                                *)

\* What a request becomes in the steps that do not touch objects.
LEMMA SessionStepCalls ==
    ASSUME DaemonInv, NEW c \in Calls, SessionStep(c)
    PROVE  /\ \E x \in Call : call' = [call EXCEPT ![c] = x] /\ x.pc # "insert"
           /\ UNCHANGED <<token, objects, created, revealed, reset>>
<1> USE DEF DaemonInv
<1>1. /\ \A s \in Slots, rw \in BOOLEAN, p \in {"open_count", "open_insert", "close_count"} :
            [pc |-> p, slot |-> s, rw |-> rw] \in Call
      /\ Idle \in Call /\ Idle.pc # "insert"
  BY DEF Call, Idle
<1>2. ASSUME NEW s \in Slots, NEW rw \in BOOLEAN, OpenChecks(c, s, rw)
      PROVE  /\ \E x \in Call : call' = [call EXCEPT ![c] = x] /\ x.pc # "insert"
             /\ UNCHANGED <<token, objects, created, revealed, reset>>
  BY <1>1, <1>2 DEF OpenChecks, Becomes, ghosts
<1>3. ASSUME OpenCounts(c)
      PROVE  /\ \E x \in Call : call' = [call EXCEPT ![c] = x] /\ x.pc # "insert"
             /\ UNCHANGED <<token, objects, created, revealed, reset>>
  <2>1. /\ Pc(c) = "open_count" /\ call[c].slot \in Slots /\ call[c].rw \in BOOLEAN
        /\ call[c] = [pc |-> "open_count", slot |-> call[c].slot, rw |-> call[c].rw]
    BY <1>3, CallTypes DEF OpenCounts
  <2>2. [call[c] EXCEPT !.pc = "open_insert"] =
          [pc |-> "open_insert", slot |-> call[c].slot, rw |-> call[c].rw]
    BY <2>1
  <2> QED
    BY <1>1, <1>3, <2>1, <2>2 DEF OpenCounts, Becomes, Returns, ghosts
<1>4. ASSUME OpenInserts(c) \/ CloseCounts(c)
      PROVE  /\ \E x \in Call : call' = [call EXCEPT ![c] = x] /\ x.pc # "insert"
             /\ UNCHANGED <<token, objects, created, revealed, reset>>
  BY <1>1, <1>4 DEF OpenInserts, CloseCounts, Becomes, Returns, ghosts
<1>5. ASSUME NEW h \in DOMAIN sessions, CloseRemoves(c, h)
      PROVE  /\ \E x \in Call : call' = [call EXCEPT ![c] = x] /\ x.pc # "insert"
             /\ UNCHANGED <<token, objects, created, revealed, reset>>
  <2>1. sessions[h].slot \in Slots /\ sessions[h].rw \in BOOLEAN
    BY DEF TypeOK, Session
  <2> QED
    BY <1>1, <1>5, <2>1 DEF CloseRemoves, Becomes, ghosts
<1> QED
  BY <1>2, <1>3, <1>4, <1>5 DEF SessionStep

\* Counting stays in the natural numbers.
LEMMA CountTypes ==
    ASSUME NEW n \in Count, NEW rw \in BOOLEAN
    PROVE  Counted(n, rw) \in Count /\ Uncounted(n, rw) \in Count
<1> DEFINE a == n.all
           b == n.rw
<1>1. n = [all |-> a, rw |-> b] /\ a \in Nat /\ b \in Nat
  BY DEF Count
<1>2. Counted(n, rw) = [all |-> a + 1, rw |-> b + (IF rw THEN 1 ELSE 0)]
  BY DEF Counted
<1>3. [n EXCEPT !.all = @ - 1] = [all |-> a - 1, rw |-> b]
  BY <1>1
<1>4. \/ a = 0 /\ Uncounted(n, rw) = n
      \/ a > 0 /\ Uncounted(n, rw) = [n EXCEPT !.all = @ - 1]
      \/ a > 0 /\ b > 0 /\ Uncounted(n, rw) = [all |-> a - 1, rw |-> b - 1]
  BY <1>1 DEF Uncounted
<1> HIDE DEF a, b
<1>5. ASSUME NEW i \in Nat, NEW j \in Nat PROVE [all |-> i, rw |-> j] \in Count
  BY DEF Count
<1>6. (a > 0 => a - 1 \in Nat) /\ (b > 0 => b - 1 \in Nat)
  BY <1>1
<1>7. a + 1 \in Nat /\ b + (IF rw THEN 1 ELSE 0) \in Nat
  BY <1>1
<1> QED
  BY <1>1, <1>2, <1>3, <1>4, <1>5, <1>6, <1>7

\* Sessions come with the next handle, and go.
LEMMA SessionStepTypes ==
    ASSUME DaemonInv, NEW c \in Calls, SessionStep(c)
    PROVE  TypeOK'
<1> USE DEF DaemonInv
<1>1. call' \in [Calls -> Call] /\ UNCHANGED <<token, objects, created, revealed, reset>>
  BY SessionStepCalls DEF TypeOK
<1>2. opened \in Nat /\ MaxSessions \in Nat /\ Cardinality(Opening) \in Nat
  BY BoundsAssumption, UnitsFinite DEF TypeOK
<1>3. ASSUME call[c].slot \in Slots, call[c].rw \in BOOLEAN,
             \/ UNCHANGED count
             \/ count' = [count EXCEPT ![call[c].slot] = Counted(@, call[c].rw)]
             \/ count' = [count EXCEPT ![call[c].slot] = Uncounted(@, call[c].rw)]
      PROVE  count' \in [Slots -> Count]
  <2>1. /\ Counted(count[call[c].slot], call[c].rw) \in Count
        /\ Uncounted(count[call[c].slot], call[c].rw) \in Count
    BY <1>3, CountTypes DEF TypeOK
  <2> QED
    BY <1>3, <2>1 DEF TypeOK
<1>4. ASSUME NEW s \in Slots, NEW rw \in BOOLEAN, OpenChecks(c, s, rw) PROVE TypeOK'
  BY <1>1, <1>4 DEF OpenChecks, TypeOK
<1>5. ASSUME OpenCounts(c) PROVE TypeOK'
  <2>1. call[c].slot \in Slots /\ call[c].rw \in BOOLEAN
    BY <1>5, CallTypes DEF OpenCounts
  <2>2. count' \in [Slots -> Count]
    BY <1>3, <1>5, <2>1 DEF OpenCounts
  <2> QED
    BY <1>1, <1>5, <2>2 DEF OpenCounts, TypeOK
<1>6. ASSUME CloseCounts(c) PROVE TypeOK'
  <2>1. call[c].slot \in Slots /\ call[c].rw \in BOOLEAN
    BY <1>6, CallTypes DEF CloseCounts
  <2>2. count' \in [Slots -> Count]
    BY <1>3, <1>6, <2>1 DEF CloseCounts
  <2> QED
    BY <1>1, <1>6, <2>2 DEF CloseCounts, TypeOK
<1>7. ASSUME NEW h \in DOMAIN sessions, CloseRemoves(c, h) PROVE TypeOK'
  <2>1. DOMAIN sessions' \subseteq 1 .. opened /\ sessions' \in [DOMAIN sessions' -> Session]
    BY <1>7 DEF CloseRemoves, Drop, TypeOK
  <2> QED
    BY <1>1, <1>7, <2>1 DEF CloseRemoves, TypeOK
<1>8. ASSUME OpenInserts(c) PROVE TypeOK'
  <2>1. call[c].slot \in Slots /\ call[c].rw \in BOOLEAN /\ Pc(c) = "open_insert"
    BY <1>8, CallTypes DEF OpenInserts
  <2>2. count' \in [Slots -> Count]
    BY <1>3, <1>8, <2>1 DEF OpenInserts
  <2>3. opened + 1 <= MaxSessions /\ opened' = opened + 1
    <3>1. c \in Opening
      BY <2>1 DEF Opening
    <3>2. Cardinality(Opening) # 0
      BY <3>1, UnitsFinite, FS_EmptySet
    <3> QED
      BY <1>2, <1>8, <3>2 DEF CallInv, OpenInserts
  <2>4. token[call[c].slot].login \in {Public, User, SO}
    BY <2>1 DEF TypeOK, Token
  <2>5. DOMAIN sessions' \subseteq 1 .. opened' /\ sessions' \in [DOMAIN sessions' -> Session]
    <3>1. CASE UNCHANGED sessions
      BY <1>2, <2>3, <3>1 DEF TypeOK
    <3> DEFINE v == [slot |-> call[c].slot, rw |-> call[c].rw, state |-> token[call[c].slot].login]
    <3>2. CASE sessions' = Put(sessions, opened + 1, v)
      <4>1. v \in Session
        BY <2>1, <2>4 DEF Session
      <4> HIDE DEF v
      <4>2. sessions' \in [DOMAIN sessions' -> Session] /\ DOMAIN sessions' = DOMAIN sessions \cup {opened + 1}
        BY <3>2, <4>1 DEF Put, TypeOK
      <4> QED
        BY <1>2, <2>3, <4>2 DEF TypeOK
    <3> QED
      BY <1>8, <3>1, <3>2 DEF OpenInserts
  <2>6. opened' \in 0 .. MaxSessions
    BY <1>2, <2>3
  <2> QED
    BY <1>1, <2>2, <2>5, <2>6 DEF TypeOK
<1> QED
  BY <1>4, <1>5, <1>6, <1>7, <1>8 DEF SessionStep

\* A handle is left for each request that is opening a session.
LEMMA OpeningChanges ==
    ASSUME TypeOK, NEW c \in Calls, \A d \in Calls \ {c} : call'[d] = call[d]
    PROVE  /\ Pc(c)' \in {"open_count", "open_insert"} =>
                Cardinality(Opening') <= Cardinality(Opening) + 1
           /\ Pc(c)' \in {"open_count", "open_insert"} /\ c \in Opening =>
                Cardinality(Opening') = Cardinality(Opening)
           /\ Pc(c)' \notin {"open_count", "open_insert"} =>
                /\ Cardinality(Opening') <= Cardinality(Opening)
                /\ c \in Opening => Cardinality(Opening') = Cardinality(Opening) - 1
           /\ Cardinality(Opening') \in Nat
<1>1. /\ Pc(c)' \in {"open_count", "open_insert"} => Opening' = Opening \cup {c}
      /\ Pc(c)' \notin {"open_count", "open_insert"} => Opening' = Opening \ {c}
  BY DEF Opening, Pc
<1>2. IsFiniteSet(Opening) /\ Cardinality(Opening) \in Nat
  BY UnitsFinite
<1>3. /\ Cardinality(Opening \cup {c}) =
           IF c \in Opening THEN Cardinality(Opening) ELSE Cardinality(Opening) + 1
      /\ IsFiniteSet(Opening \cup {c})
  BY <1>2, FS_AddElement
<1>4. /\ Cardinality(Opening \ {c}) =
           IF c \in Opening THEN Cardinality(Opening) - 1 ELSE Cardinality(Opening)
      /\ IsFiniteSet(Opening \ {c})
  BY <1>2, FS_RemoveElement
<1>5. Cardinality(Opening \cup {c}) \in Nat /\ Cardinality(Opening \ {c}) \in Nat
  BY <1>3, <1>4, FS_CardinalityType
<1>6. CASE Pc(c)' \in {"open_count", "open_insert"}
  <2>1. Opening' = Opening \cup {c}
    BY <1>1, <1>6
  <2> QED
    BY <1>2, <1>3, <1>5, <1>6, <2>1
<1>7. CASE Pc(c)' \notin {"open_count", "open_insert"}
  <2>1. Opening' = Opening \ {c}
    BY <1>1, <1>7
  <2> QED
    BY <1>2, <1>4, <1>5, <1>7, <2>1
<1> QED
  BY <1>6, <1>7

\* The objects another request is about to store have kept their handles.
LEMMA OldHandles ==
    ASSUME DaemonInv, NEW d \in Calls, Pc(d) = "insert",
           created \in Nat, created' \in Nat, created <= created'
    PROVE  /\ call[d].queue # <<>>
           /\ \A i \in DOMAIN call[d].queue : call[d].queue[i].handle <= created'
<1> DEFINE q == call[d].queue
           Item == [handle : 1 .. MaxObjects, object : Object]
<1>1. q # <<>> /\ \A i \in DOMAIN q : q[i].handle <= created
  BY DEF DaemonInv, CallInv
<1>2. q \in Seq(Item)
  BY CallTypes DEF DaemonInv
<1> HIDE DEF q
<1>3. ASSUME NEW i \in DOMAIN q PROVE q[i].handle \in Nat
  <2>1. q[i] \in Item
    <3> HIDE DEF Item
    <3> QED
      BY <1>2
  <2> QED
    BY <2>1, BoundsAssumption
<1>4. \A i \in DOMAIN q : q[i].handle <= created'
  BY <1>1, <1>3
<1> QED
  BY <1>1, <1>4 DEF q

\* Requests that hold no new objects.
LEMMA HandlesKept ==
    ASSUME DaemonInv, NEW c \in Calls, \A d \in Calls \ {c} : call'[d] = call[d],
           Pc(c)' # "insert", created \in Nat, created' \in Nat, created <= created',
           opened' + Cardinality(Opening') <= MaxSessions
    PROVE  CallInv'
<1> SUFFICES ASSUME NEW d \in Calls, Pc(d)' = "insert"
             PROVE  /\ call'[d].queue # <<>>
                    /\ \A i \in DOMAIN call'[d].queue : call'[d].queue[i].handle <= created'
  BY DEF CallInv
<1>1. call'[d] = call[d] /\ Pc(d) = "insert"
  BY DEF Pc
<1> QED
  BY <1>1, OldHandles

LEMMA SessionStepHandles ==
    ASSUME DaemonInv, NEW c \in Calls, SessionStep(c)
    PROVE  CallInv'
<1> USE DEF DaemonInv
<1>1. PICK x \in Call : call' = [call EXCEPT ![c] = x] /\ x.pc # "insert"
  BY SessionStepCalls
<1>2. created \in Nat /\ UNCHANGED created /\ opened \in Nat
  BY SessionStepCalls, BoundsAssumption DEF TypeOK
<1>3. call'[c] = x /\ Pc(c)' # "insert" /\ \A d \in Calls \ {c} : call'[d] = call[d]
  BY <1>1 DEF TypeOK, Pc
<1>4. /\ Pc(c)' \in {"open_count", "open_insert"} =>
           Cardinality(Opening') <= Cardinality(Opening) + 1
      /\ Pc(c)' \in {"open_count", "open_insert"} /\ c \in Opening =>
           Cardinality(Opening') = Cardinality(Opening)
      /\ Pc(c)' \notin {"open_count", "open_insert"} =>
           /\ Cardinality(Opening') <= Cardinality(Opening)
           /\ c \in Opening => Cardinality(Opening') = Cardinality(Opening) - 1
      /\ Cardinality(Opening') \in Nat /\ Cardinality(Opening) \in Nat
  BY <1>3, OpeningChanges, UnitsFinite
<1>5. opened + Cardinality(Opening) <= MaxSessions /\ MaxSessions \in Nat
  BY BoundsAssumption DEF CallInv
<1>6. opened' + Cardinality(Opening') <= MaxSessions
  <2>1. ASSUME NEW s \in Slots, NEW rw \in BOOLEAN, OpenChecks(c, s, rw)
        PROVE  opened' + Cardinality(Opening') <= MaxSessions
    <3>1. opened' = opened /\ opened + Cardinality(Opening) < MaxSessions
      BY <2>1 DEF OpenChecks
    <3>2. Cardinality(Opening') <= Cardinality(Opening) + 1
      BY <1>4
    <3> QED
      BY <1>2, <1>4, <1>5, <3>1, <3>2
  <2>2. ASSUME OpenCounts(c) PROVE opened' + Cardinality(Opening') <= MaxSessions
    <3>1. opened' = opened /\ c \in Opening
      BY <2>2 DEF OpenCounts, Opening
    <3>2. Cardinality(Opening') <= Cardinality(Opening)
      BY <1>4, <3>1
    <3> QED
      BY <1>2, <1>4, <1>5, <3>1, <3>2
  <2>3. ASSUME OpenInserts(c) PROVE opened' + Cardinality(Opening') <= MaxSessions
    <3>1. opened' = opened + 1 /\ c \in Opening
      BY <2>3 DEF OpenInserts, Opening
    <3>2. call' = [call EXCEPT ![c] = Idle]
      BY <2>3 DEF OpenInserts, Returns, Becomes
    <3>3. Pc(c)' \notin {"open_count", "open_insert"}
      BY <3>2 DEF Pc, Idle, TypeOK
    <3> QED
      BY <1>2, <1>4, <1>5, <3>1, <3>3
  <2>4. ASSUME (\E h \in DOMAIN sessions : CloseRemoves(c, h)) \/ CloseCounts(c)
        PROVE  opened' + Cardinality(Opening') <= MaxSessions
    <3>1. opened' = opened
      BY <2>4 DEF CloseRemoves, CloseCounts
    <3>2. Pc(c)' \in {"close_count", "idle"}
      <4>1. CASE CloseCounts(c)
        BY <4>1 DEF CloseCounts, Returns, Becomes, Pc, Idle, TypeOK
      <4>2. ASSUME NEW h \in DOMAIN sessions, CloseRemoves(c, h) PROVE Pc(c)' = "close_count"
        BY <4>2 DEF CloseRemoves, Becomes, Pc, TypeOK
      <4> QED
        BY <2>4, <4>1, <4>2
    <3>3. Cardinality(Opening') <= Cardinality(Opening)
      BY <1>4, <3>2
    <3> QED
      BY <1>2, <1>4, <1>5, <3>1, <3>3
  <2> QED
    BY <2>1, <2>2, <2>3, <2>4 DEF SessionStep
<1> QED
  BY <1>2, <1>3, <1>6, HandlesKept

\* The other steps keep the sessions, and no handle is asked for.
LEMMA OtherStepHandles ==
    ASSUME DaemonInv, NEW c \in Calls, NEW x \in Call, call' = [call EXCEPT ![c] = x],
           Pc(c) \in {"idle", "ready", "init_pin"},
           x.pc \notin {"open_count", "open_insert", "insert"},
           UNCHANGED <<opened, created>>
    PROVE  CallInv'
<1>1. call'[c] = x /\ Pc(c)' = x.pc /\ \A d \in Calls \ {c} : call'[d] = call[d]
  BY DEF DaemonInv, TypeOK, Pc
<1>2. Opening' = Opening
  BY <1>1 DEF Opening, Pc
<1>3. created \in Nat
  BY BoundsAssumption DEF DaemonInv, TypeOK
<1>4. opened' + Cardinality(Opening') <= MaxSessions
  BY <1>2 DEF DaemonInv, CallInv
<1> QED
  BY <1>1, <1>3, <1>4, HandlesKept

LEMMA MovesKeeps ==
    ASSUME DaemonInv, NEW c \in Calls, Moves(c), token' \in [Slots -> Token], UNCHANGED revealed
    PROVE  TypeOK' /\ HeldInv' /\ CallInv' /\ CountsFollowSessions'
<1>1. PICK x \in {Idle} \cup [pc : {"ready", "init_pin"}, slot : Slots] :
          call' = [call EXCEPT ![c] = x]
  BY DEF Moves
<1>2. /\ x \in Call /\ x.pc \in {"idle", "ready", "init_pin"} /\ x.pc \notin Half
      /\ Pc(c) \in {"idle", "ready", "init_pin"} /\ Pc(c) \notin Half
  BY DEF Call, Idle, Half, Moves
<1>3. UNCHANGED <<count, sessions, objects, opened, created, reset>>
  BY DEF Moves
<1>4. TypeOK'
  BY <1>1, <1>2, <1>3 DEF DaemonInv, TypeOK
<1>5. HeldInv'
  BY <1>1, <1>2, <1>3, HeldUnchanged
<1>6. CallInv'
  BY <1>1, <1>2, <1>3, OtherStepHandles
<1>7. \A s, R : Units(s, R)' = Units(s, R)
  BY <1>1, <1>2, <1>3, HalfSame DEF DaemonInv
<1>8. CountsFollowSessions'
  BY <1>3, <1>7, CountsSame DEF DaemonInv
<1> QED
  BY <1>4, <1>5, <1>6, <1>8

LEMMA DestroyKeeps ==
    ASSUME DaemonInv, NEW c \in Calls, NEW o \in DOMAIN objects, DestroyObject(c, o)
    PROVE  TypeOK' /\ HeldInv' /\ CallInv' /\ CountsFollowSessions'
<1>1. /\ call' = [call EXCEPT ![c] = Idle] /\ objects' = Drop(objects, o) /\ Pc(c) = "ready"
      /\ UNCHANGED <<token, count, sessions, opened, created, revealed, reset>>
  BY DEF DestroyObject, Returns, Becomes, ghosts
<1>2. /\ Idle \in Call /\ Idle.pc \notin {"open_count", "open_insert", "insert"}
      /\ Idle.pc \notin Half /\ Pc(c) \notin Half
  BY <1>1 DEF Call, Idle, Half
<1>3. /\ DOMAIN objects' \subseteq DOMAIN objects
      /\ \A h \in DOMAIN objects' : objects'[h] = objects[h]
      /\ objects' \in [DOMAIN objects' -> Object]
  BY <1>1 DEF Drop, DaemonInv, TypeOK
<1>4. TypeOK'
  BY <1>1, <1>2, <1>3 DEF DaemonInv, TypeOK
<1>5. HeldInv'
  <2>1. \A d \in Calls : Pc(d)' = "insert" => Pc(d) = "insert" /\ Queued(d)' = Queued(d)
    BY <1>1, <1>2 DEF DaemonInv, TypeOK, Pc, Queued
  <2>2. Held' \subseteq Held
    BY <1>3, <2>1 DEF Held
  <2>3. created \in Nat
    BY BoundsAssumption DEF DaemonInv, TypeOK
  <2> QED
    BY <1>1, <2>2, <2>3, HeldShrinks DEF DaemonInv
<1>6. CallInv'
  BY <1>1, <1>2, OtherStepHandles
<1>7. \A s, R : Units(s, R)' = Units(s, R)
  BY <1>1, <1>2, HalfSame DEF DaemonInv
<1>8. CountsFollowSessions'
  BY <1>1, <1>7, CountsSame DEF DaemonInv
<1> QED
  BY <1>4, <1>5, <1>6, <1>8

LEMMA MakesKeeps ==
    ASSUME DaemonInv, NEW c \in Calls, MakesObjects(c)
    PROVE  TypeOK' /\ HeldInv' /\ CallInv' /\ CountsFollowSessions'
<1> DEFINE Item == [handle : 1 .. MaxObjects, object : Object]
<1>1. PICK made \in Seq(Item) :
        /\ Pc(c) = "ready" /\ made # <<>>
        /\ created' \in created + 1 .. MaxObjects
        /\ \A i \in DOMAIN made : made[i].handle \in created + 1 .. created'
        /\ call' = [call EXCEPT ![c] = [pc |-> "insert", queue |-> made]]
        /\ UNCHANGED <<token, count, sessions, objects, opened, ghosts>>
  BY DEF MakesObjects
<1>2. created \in Nat /\ created' \in 0 .. MaxObjects /\ created <= created' /\ created' \in Nat
  BY <1>1, BoundsAssumption DEF DaemonInv, TypeOK
<1>3. [pc |-> "insert", queue |-> made] \in Call
  BY DEF Call
<1>4. call' \in [Calls -> Call]
  BY <1>1, <1>3 DEF DaemonInv, TypeOK
<1>5. DOMAIN objects' \subseteq 1 .. created' /\ revealed' \subseteq (1 .. created') \cup Outside
  BY <1>1, <1>2 DEF DaemonInv, TypeOK, ghosts
<1>6. TypeOK'
  BY <1>1, <1>2, <1>4, <1>5 DEF DaemonInv, TypeOK, ghosts
<1>7. CallInv'
  <2>1. call'[c] = [pc |-> "insert", queue |-> made] /\ \A d \in Calls \ {c} : call'[d] = call[d]
    BY <1>1 DEF DaemonInv, TypeOK
  <2>2. Opening' = Opening
    BY <1>1, <2>1 DEF Opening, Pc
  <2>3. ASSUME NEW d \in Calls, Pc(d)' = "insert"
        PROVE  /\ call'[d].queue # <<>>
               /\ \A i \in DOMAIN call'[d].queue : call'[d].queue[i].handle <= created'
    <3>1. CASE d = c
      <4>1. call'[d].queue = made
        BY <2>1, <3>1
      <4>2. \A i \in DOMAIN made : made[i].handle <= created'
        BY <1>1, <1>2
      <4> QED
        BY <1>1, <4>1, <4>2
    <3>2. CASE d # c
      <4>1. call'[d] = call[d] /\ Pc(d) = "insert"
        BY <2>1, <2>3, <3>2 DEF Pc
      <4> QED
        BY <1>2, <4>1, OldHandles
    <3> QED
      BY <3>1, <3>2
  <2>4. opened' + Cardinality(Opening') <= MaxSessions
    BY <1>1, <2>2 DEF DaemonInv, CallInv
  <2> QED
    BY <2>3, <2>4 DEF CallInv
<1>8. HeldInv'
  BY HeldMade
<1>9. CountsFollowSessions'
  <2>1. Pc(c)' = "insert" /\ \A d \in Calls \ {c} : call'[d] = call[d]
    BY <1>1 DEF DaemonInv, TypeOK, Pc
  <2>2. Pc(c) \notin Half /\ Pc(c)' \notin Half
    BY <1>1, <2>1 DEF Half
  <2>3. \A s, R : Units(s, R)' = Units(s, R)
    BY <1>1, <2>1, <2>2, UnitsSame
  <2>4. UNCHANGED <<count, reset>>
    BY <1>1 DEF ghosts
  <2> QED
    BY <2>3, <2>4, CountsSame DEF DaemonInv
<1> QED
  BY <1>6, <1>7, <1>8, <1>9

LEMMA InitTokenKeeps ==
    ASSUME DaemonInv, NEW c \in Calls, NEW s \in Slots, InitToken(c, s)
    PROVE  TypeOK' /\ HeldInv' /\ CallInv' /\ CountsFollowSessions' /\ UNCHANGED revealed
<1>1. /\ call' = [call EXCEPT ![c] = Idle] /\ Pc(c) = "idle"
      /\ token' = [token EXCEPT ![s] = [setup |-> "so", login |-> Public]]
      /\ count' = [count EXCEPT ![s] = [all |-> 0, rw |-> 0]]
      /\ reset' \subseteq reset \cup {s}
      /\ UNCHANGED <<sessions, objects, opened, created, revealed>>
  BY DEF InitToken, Returns, Becomes
<1>2. /\ Idle \in Call /\ Idle.pc \notin {"open_count", "open_insert", "insert"}
  BY DEF Call, Idle
<1>3. TypeOK'
  <2>1. [setup |-> "so", login |-> Public] \in Token /\ [all |-> 0, rw |-> 0] \in Count
    BY DEF Token, Count
  <2>2. token' \in [Slots -> Token] /\ count' \in [Slots -> Count] /\ call' \in [Calls -> Call]
    BY <1>1, <1>2, <2>1 DEF DaemonInv, TypeOK
  <2> QED
    BY <1>1, <2>2 DEF DaemonInv, TypeOK
<1>4. HeldInv'
  BY <1>1, <1>2, HeldUnchanged
<1>5. CallInv'
  BY <1>1, <1>2, OtherStepHandles
<1> QED
  BY <1>1, <1>3, <1>4, <1>5, CountsReset

LEMMA InsertsKeeps ==
    ASSUME DaemonInv, NEW c \in Calls, Inserts(c)
    PROVE  TypeOK' /\ HeldInv' /\ CallInv' /\ CountsFollowSessions'
<1>1. Pc(c) = "insert" /\ TypeOK /\ UNCHANGED <<count, sessions, reset>>
  BY DEF Inserts, ghosts, DaemonInv
<1>2. Pc(c)' \in {"insert", "idle"} /\ \A d \in Calls \ {c} : call'[d] = call[d]
  <2>1. CASE call' = [call EXCEPT ![c] = Idle]
    BY <1>1, <2>1 DEF TypeOK, Pc, Idle
  <2>2. CASE call' = [call EXCEPT ![c] = [call[c] EXCEPT !.queue = Tail(@)]]
    <3>1. call[c] = [pc |-> "insert", queue |-> call[c].queue]
      BY <1>1, CallTypes
    <3>2. [call[c] EXCEPT !.queue = Tail(@)].pc = "insert"
      BY <3>1
    <3> QED
      BY <1>1, <2>2, <3>2 DEF TypeOK, Pc
  <2> QED
    BY <2>1, <2>2 DEF Inserts, Returns, Becomes
<1>3. Pc(c) \notin Half /\ Pc(c)' \notin Half
  BY <1>1, <1>2 DEF Half
<1>4. \A s, R : Units(s, R)' = Units(s, R)
  BY <1>1, <1>2, <1>3, UnitsSame
<1>5. CountsFollowSessions'
  BY <1>1, <1>4, CountsSame DEF DaemonInv
<1> QED
  BY <1>5, HeldInserted

LEMMA SessionStepKeeps ==
    ASSUME DaemonInv, NEW c \in Calls, SessionStep(c)
    PROVE  TypeOK' /\ HeldInv' /\ CallInv' /\ CountsFollowSessions'
<1>1. HeldInv'
  BY SessionStepCalls, HeldUnchanged
<1>2. TypeOK /\ UNCHANGED reset
  BY SessionStepCalls DEF DaemonInv
<1>3. ASSUME NEW s \in Slots, NEW rw \in BOOLEAN, OpenChecks(c, s, rw) PROVE CountsFollowSessions'
  <2>1. /\ Pc(c)' = "open_count" /\ \A d \in Calls \ {c} : call'[d] = call[d]
        /\ Pc(c) = "idle" /\ UNCHANGED <<count, sessions>>
    BY <1>2, <1>3 DEF OpenChecks, Becomes, TypeOK, Pc
  <2>2. Pc(c) \notin Half /\ Pc(c)' \notin Half
    BY <2>1 DEF Half
  <2>3. \A u, R : Units(u, R)' = Units(u, R)
    BY <2>1, <2>2, UnitsSame
  <2> QED
    BY <1>2, <2>1, <2>3, CountsSame DEF DaemonInv
<1>4. ASSUME OpenInserts(c) PROVE CountsFollowSessions'
  <2>1. Pc(c) = "open_insert" /\ Pc(c) \in Half /\ call' = [call EXCEPT ![c] = Idle]
    BY <1>4 DEF OpenInserts, Half, Returns, Becomes
  <2>2. CASE UNCHANGED count /\ sessions' = Put(sessions, opened + 1,
                 [slot |-> call[c].slot, rw |-> call[c].rw, state |-> token[call[c].slot].login])
    BY <1>2, <2>1, <2>2, CountsInserted
  <2>3. CASE UNCHANGED sessions /\ count' = [count EXCEPT ![call[c].slot] = Uncounted(@, call[c].rw)]
    BY <1>2, <2>1, <2>3, CountsDown
  <2> QED
    BY <1>4, <2>2, <2>3 DEF OpenInserts
<1>5. ASSUME CloseCounts(c) PROVE CountsFollowSessions'
  BY <1>2, <1>5, CountsDown DEF CloseCounts, Half, Returns, Becomes
<1> QED
  BY <1>1, <1>3, <1>4, <1>5, CountsUp, CountsRemoved, SessionStepTypes, SessionStepHandles
  DEF SessionStep

\* open_session gives a session a role it may have; only login and init_pin
\* change what a token needs for its role.
LEMMA RolesKept ==
    ASSUME DaemonInv, NEW c \in Calls, SessionStep(c) \/ TokenStep(c) \/ ObjectStep(c)
    PROVE  RolesSound'
<1> USE DEF DaemonInv
<1>1. ASSUME UNCHANGED sessions PROVE ReadOnlyNeverSO'
  BY <1>1 DEF RolesSound, ReadOnlyNeverSO
<1>2. ASSUME UNCHANGED token PROVE LoginNeedsPin'
  BY <1>2 DEF RolesSound, LoginNeedsPin
<1>3. ASSUME SessionStep(c) PROVE RolesSound'
  <2>1. LoginNeedsPin'
    BY <1>2, <1>3, SessionStepCalls
  <2>2. CASE OpenInserts(c)
    <3>1. CASE UNCHANGED sessions
      BY <1>1, <2>1, <3>1 DEF RolesSound
    <3> DEFINE v == [slot |-> call[c].slot, rw |-> call[c].rw, state |-> token[call[c].slot].login]
    <3>2. CASE (call[c].rw \/ token[call[c].slot].login # SO) /\ sessions' = Put(sessions, opened + 1, v)
      <4>1. v.state = SO => v.rw
        BY <3>2
      <4> HIDE DEF v
      <4>2. ReadOnlyNeverSO'
        BY <3>2, <4>1 DEF Put, ReadOnlyNeverSO, RolesSound
      <4> QED
        BY <2>1, <4>2 DEF RolesSound
    <3> QED
      BY <2>2, <3>1, <3>2 DEF OpenInserts
  <2>3. CASE \E h \in DOMAIN sessions : CloseRemoves(c, h)
    <3>1. ReadOnlyNeverSO'
      BY <2>3 DEF CloseRemoves, Drop, ReadOnlyNeverSO, RolesSound
    <3> QED
      BY <2>1, <3>1 DEF RolesSound
  <2>4. CASE UNCHANGED sessions
    BY <1>1, <2>1, <2>4 DEF RolesSound
  <2> QED
    BY <1>3, <2>2, <2>3, <2>4 DEF SessionStep, OpenChecks, OpenCounts, CloseCounts
<1>4. ASSUME TokenStep(c) PROVE RolesSound'
  <2>1. UNCHANGED sessions
    BY <1>4 DEF TokenStep, Login, Logout, InitPinChecks, InitPin, InitToken
  <2>2. LoginNeedsPin'
    <3>1. ASSUME NEW h \in DOMAIN sessions, NEW role \in {User, SO}, Login(c, h, role)
          PROVE  LoginNeedsPin'
      BY <3>1 DEF Login, LoginNeedsPin, RolesSound, TypeOK, Token, User, SO, Public
    <3>2. ASSUME NEW h \in DOMAIN sessions, Logout(c, h) PROVE LoginNeedsPin'
      BY <3>2 DEF Logout, LoginNeedsPin, RolesSound, TypeOK, Token, User, SO, Public
    <3>3. ASSUME NEW h \in DOMAIN sessions, InitPinChecks(c, h) PROVE LoginNeedsPin'
      BY <1>2, <3>3 DEF InitPinChecks
    <3>4. ASSUME InitPin(c) PROVE LoginNeedsPin'
      BY <3>4 DEF InitPin, LoginNeedsPin, RolesSound, TypeOK, Token, User, SO, Public
    <3>5. ASSUME NEW s \in Slots, InitToken(c, s) PROVE LoginNeedsPin'
      BY <3>5 DEF InitToken, LoginNeedsPin, RolesSound, TypeOK, Token, User, SO, Public
    <3> QED
      BY <1>4, <3>1, <3>2, <3>3, <3>4, <3>5 DEF TokenStep
  <2> QED
    BY <1>1, <2>1, <2>2 DEF RolesSound
<1>5. ASSUME ObjectStep(c) PROVE RolesSound'
  <2>1. UNCHANGED token /\ UNCHANGED sessions
    BY <1>5, ObjectStepKinds DEF Moves, MakesObjects, Inserts, DestroyObject
  <2> QED
    BY <1>1, <1>2, <2>1 DEF RolesSound
<1> QED
  BY <1>3, <1>4, <1>5

-----------------------------------------------------------------------------
(* The theorems                                                            *)

\* A token keeps its type, and gets its user PIN from the SO.
LEMMA TokenStepToken ==
    ASSUME DaemonInv, NEW c \in Calls, TokenStep(c)
    PROVE  token' \in [Slots -> Token]
<1> DEFINE Good == token' \in [Slots -> Token]
           Roles == {Public, User, SO}
<1>1. ASSUME NEW t \in Token, NEW v
      PROVE  /\ t.setup \in {"so", "user"} /\ t.login \in Roles
             /\ [t EXCEPT !.login = v] = [setup |-> t.setup, login |-> v]
             /\ [t EXCEPT !.setup = v] = [setup |-> v, login |-> t.login]
  BY DEF Token
<1>2. ASSUME NEW s \in Slots, NEW a \in {"so", "user"}, NEW b \in Roles,
             token' = [token EXCEPT ![s] = [setup |-> a, login |-> b]]
      PROVE  Good
  <2>1. [setup |-> a, login |-> b] \in Token
    BY DEF Token
  <2> QED
    BY <1>2, <2>1 DEF DaemonInv, TypeOK
<1>3. ASSUME NEW h \in DOMAIN sessions, NEW role \in Roles,
             token' = [token EXCEPT ![sessions[h].slot].login = role]
      PROVE  Good
  <2> DEFINE s == sessions[h].slot
  <2>1. s \in Slots
    BY DEF DaemonInv, TypeOK, Session
  <2>2. token[s] \in Token
    BY <2>1 DEF DaemonInv, TypeOK
  <2>3. token' = [token EXCEPT ![s] = [token[s] EXCEPT !.login = role]]
    BY <1>3
  <2> HIDE DEF s, Good, Roles
  <2>4. token' = [token EXCEPT ![s] = [setup |-> token[s].setup, login |-> role]]
    BY <1>1, <2>2, <2>3
  <2> QED
    BY <1>1, <1>2, <2>1, <2>2, <2>4
<1>4. ASSUME InitPin(c) PROVE Good
  <2> DEFINE s == call[c].slot
             a == IF token[s].login = SO THEN "user" ELSE token[s].setup
  <2>1. s \in Slots
    BY <1>4, CallTypes DEF InitPin, DaemonInv
  <2>2. token[s] \in Token
    BY <2>1 DEF DaemonInv, TypeOK
  <2>3. token' = [token EXCEPT ![s] = [token[s] EXCEPT !.setup = a]]
    BY <1>4 DEF InitPin
  <2>4. a \in {"so", "user"}
    BY <2>2, <1>1
  <2> HIDE DEF s, a, Good, Roles
  <2>5. token' = [token EXCEPT ![s] = [setup |-> a, login |-> token[s].login]]
    BY <1>1, <2>2, <2>3
  <2> QED
    BY <1>1, <1>2, <2>1, <2>2, <2>4, <2>5
<1>5. ASSUME UNCHANGED token PROVE Good
  BY <1>5 DEF DaemonInv, TypeOK
<1>6. ASSUME NEW s \in Slots, InitToken(c, s) PROVE Good
  <2>1. token' = [token EXCEPT ![s] = [setup |-> "so", login |-> Public]]
    BY <1>6 DEF InitToken
  <2> HIDE DEF Good
  <2> QED
    BY <1>2, <2>1
<1> HIDE DEF Good
<1>7. ASSUME NEW h \in DOMAIN sessions,
             (\E role \in {User, SO} : Login(c, h, role)) \/ Logout(c, h) \/ InitPinChecks(c, h)
      PROVE  Good
  <2>1. ASSUME NEW role \in {User, SO}, Login(c, h, role) PROVE Good
    BY <1>3, <2>1 DEF Login
  <2>2. ASSUME Logout(c, h) PROVE Good
    BY <1>3, <2>2 DEF Logout
  <2>3. ASSUME InitPinChecks(c, h) PROVE Good
    BY <1>5, <2>3 DEF InitPinChecks
  <2> QED
    BY <1>7, <2>1, <2>2, <2>3
<1>8. Good
  BY <1>4, <1>6, <1>7 DEF TokenStep
<1> QED
  BY <1>8 DEF Good

LEMMA InitInv == Init => DaemonInv
<1> SUFFICES ASSUME Init PROVE DaemonInv
  OBVIOUS
<1> USE DEF Init
<1>1. TypeOK
  <2>1. DOMAIN sessions = {} /\ DOMAIN objects = {}
    OBVIOUS
  <2>2. sessions \in [DOMAIN sessions -> Session] /\ objects \in [DOMAIN objects -> Object]
    BY <2>1
  <2>3. call \in [Calls -> Call]
    BY DEF Call
  <2>4. count \in [Slots -> Count]
    BY DEF Count
  <2> QED
    BY <2>1, <2>2, <2>3, <2>4, BoundsAssumption DEF TypeOK
<1>2. \A c \in Calls : Pc(c) = "idle"
  BY DEF Pc, Idle
<1>3. Held = {} /\ Opening = {} /\ DOMAIN objects = {} /\ DOMAIN sessions = {}
  BY <1>2 DEF Held, Opening
<1>4. HeldInv
  BY <1>3 DEF HeldInv
<1>5. CallInv
  BY <1>2, <1>3, FS_EmptySet, BoundsAssumption DEF CallInv
<1>6. \A s, R : OpenOn(s, R) = {} /\ HalfOpen(s, R) = {}
  BY <1>2, <1>3 DEF OpenOn, HalfOpen
<1>7. ASSUME NEW s, NEW R PROVE Units(s, R) = 0
  <2>1. Cardinality({}) = 0
    BY FS_EmptySet
  <2>2. OpenOn(s, R) = {} /\ HalfOpen(s, R) = {}
    BY <1>6
  <2> QED
    BY <2>1, <2>2 DEF Units
<1>8. CountsFollowSessions
  BY <1>7, CountsByUnits
<1>9. RolesSound
  BY <1>3 DEF RolesSound, ReadOnlyNeverSO, LoginNeedsPin, Public, User
<1> QED
  BY <1>1, <1>4, <1>5, <1>8, <1>9 DEF DaemonInv, KeysStay

LEMMA StutterInv == ASSUME DaemonInv, UNCHANGED vars PROVE DaemonInv'
<1> USE DEF vars
<1>1. TypeOK' /\ KeysStay' /\ RolesSound'
  BY DEF DaemonInv, TypeOK, KeysStay, RolesSound, ReadOnlyNeverSO, LoginNeedsPin
<1>2. Held' = Held /\ Opening' = Opening
  BY DEF Held, Queued, Opening, Pc
<1>3. HeldInv'
  BY <1>2 DEF DaemonInv, HeldInv
<1>4. CallInv'
  BY <1>2 DEF DaemonInv, CallInv, Pc
<1>5. CountsFollowSessions'
  BY DEF DaemonInv, CountsFollowSessions, OpenOn, HalfOpen, Pc
<1> QED
  BY <1>1, <1>3, <1>4, <1>5 DEF DaemonInv

LEMMA NextInv == ASSUME DaemonInv, Next PROVE DaemonInv'
<1>1. PICK c \in Calls : SessionStep(c) \/ TokenStep(c) \/ ObjectStep(c)
  BY DEF Next
<1>2. RolesSound'
  BY <1>1, RolesKept
<1>3. CASE SessionStep(c)
  <2>1. KeysStay'
    BY <1>3, SessionStepCalls DEF DaemonInv, KeysStay
  <2> QED
    BY <1>2, <1>3, <2>1, SessionStepKeeps DEF DaemonInv
<1>4. CASE TokenStep(c)
  <2>1. ASSUME Moves(c), UNCHANGED revealed PROVE DaemonInv'
    <3>1. token' \in [Slots -> Token]
      BY <1>4, TokenStepToken
    <3> QED
      BY <1>2, <2>1, <3>1, MovesKeeps DEF DaemonInv, KeysStay
  <2>2. ASSUME NEW s \in Slots, InitToken(c, s) PROVE DaemonInv'
    BY <1>2, <2>2, InitTokenKeeps DEF DaemonInv, KeysStay
  <2> QED
    BY <1>4, <2>1, <2>2, TokenStepKinds
<1>5. CASE ObjectStep(c)
  <2>1. UNCHANGED <<token, revealed>> /\ token' \in [Slots -> Token]
    BY <1>5, ObjectStepKinds DEF DaemonInv, TypeOK
  <2>2. TypeOK' /\ HeldInv' /\ CallInv' /\ CountsFollowSessions'
    BY <1>5, <2>1, ObjectStepKinds, MovesKeeps, MakesKeeps, InsertsKeeps, DestroyKeeps
  <2> QED
    BY <1>2, <2>1, <2>2 DEF DaemonInv, KeysStay
<1> QED
  BY <1>1, <1>3, <1>4, <1>5

\* The inductive invariant holds in every reachable state.
THEOREM DaemonInvariant == Spec => []DaemonInv
<1>1. DaemonInv /\ [Next]_vars => DaemonInv'
  BY NextInv, StutterInv
<1> QED
  BY <1>1, InitInv, PTL DEF Spec

\* No answer of WrapKey or GetAttributeValue carries the material of an object:
\* every stored object was guarded when its request made it, and the latches of
\* apply_attribute keep a copy guarded, also one that is given a CKA_VALUE.
THEOREM KeysInside == Spec => []KeysStay
  BY DaemonInvariant, PTL DEF DaemonInv

\* A generated key and its copies are on one slot, whichever requests made and
\* copied them, whatever clients unwrap, derive or put in with CKA_VALUE, and
\* though a request may have copied an object that is destroyed by now.
THEOREM KeysOnOneSlot == Spec => []MaterialInOneSlot
<1>1. DaemonInv => MaterialInOneSlot
  BY DEF DaemonInv, HeldInv, MaterialInOneSlot, Held, SameSlot
<1> QED
  BY <1>1, DaemonInvariant, PTL

\* session_count and rw_session_count are what is open, with the requests that
\* are between the count and the entry, and never go below zero.
THEOREM CountsRight == Spec => []CountersSound
<1>1. DaemonInv => CountersSound
  BY DEF DaemonInv, CountersSound
<1> QED
  BY <1>1, DaemonInvariant, PTL

\* No read-only session has the SO role, and no user is logged in to a token
\* that lost its user PIN.
THEOREM RolesRight == Spec => []RolesSound
<1>1. DaemonInv => RolesSound
  BY DEF DaemonInv
<1> QED
  BY <1>1, DaemonInvariant, PTL

-----------------------------------------------------------------------------
(* The throttle in front of the token (LoginThrottle), for any tables,     *)
(* clients and limits and the same slots and requests in flight.           *)

\* What LoginThrottle assumes of its limits.
ThrottleLimits ==
    max_login_attempts \in Nat \ {0} /\ MAX_THROTTLE_ENTRIES \in Nat

LEMMA LimitsHold == ThrottleLimits
BY AttemptsAssumption, EntriesAssumption DEF ThrottleLimits

FailedAt(t, k) ==
    IF k \in DOMAIN attempts[t] THEN attempts[t][k].failed_attempts ELSE 0

\* The requests of a client that are past the check, and those of them whose
\* PIN the token has refused.
Admitted(reqs, t, k) ==
    {c \in Calls : /\ reqs[c].pc \in {"token", "record"}
                   /\ reqs[c].table = t /\ reqs[c].key = k}
Refused(reqs, t, k) ==
    {c \in Calls : reqs[c].pc = "record" /\ reqs[c].table = t /\ reqs[c].key = k}

\* A client without a lockout has attempts left; the token has refused no more
\* PINs than are recorded or about to be; and the recorded ones, with those of
\* the requests that are past the check, exceed the limit by no more than the
\* requests that were past the check when the lockout was set.
KeyInv(t, k) ==
    /\ k \in DOMAIN attempts[t] /\ attempts[t][k].lockout = "none"
         => attempts[t][k].failed_attempts < max_login_attempts
    /\ guesses[t][k] <= FailedAt(t, k) + Cardinality(Refused(requests, t, k))
    /\ FailedAt(t, k) + Cardinality(Admitted(requests, t, k))
         <= max_login_attempts + Cardinality(Calls) - 1

TableInv(t) ==
    /\ IsFiniteSet(DOMAIN attempts[t])
    /\ Cardinality(DOMAIN attempts[t]) <= MAX_THROTTLE_ENTRIES + 1

ThrottleInv ==
    /\ ThrottleTypeOK
    /\ \A t \in Tables : TableInv(t)
    /\ \A t \in Tables, k \in Keys : KeyInv(t, k)

\* A request that is not idle has a table and a key.
LEMMA RequestTypes ==
    ASSUME NEW x \in Attempt, x.pc # "idle"
    PROVE  /\ x.table \in Tables /\ x.key \in Keys
           /\ x.pc \in {"token", "record", "clear"}
           /\ x = [pc |-> x.pc, table |-> x.table, key |-> x.key]
           /\ \A p \in {"token", "record", "clear"} : [x EXCEPT !.pc = p] =
                 [pc |-> p, table |-> x.table, key |-> x.key]
           /\ \A p \in {"token", "record", "clear"} : [x EXCEPT !.pc = p] \in Attempt
BY DEF Attempt, NoAttempt

GoesTo(c, x) == requests' = [requests EXCEPT ![c] = x]

LEMMA AdmittedFinite ==
    ASSUME NEW reqs, NEW t, NEW k
    PROVE  /\ Cardinality(Refused(reqs, t, k)) \in Nat
           /\ Cardinality(Admitted(reqs, t, k)) \in Nat
           /\ Cardinality(Calls) \in Nat
           /\ Cardinality(Admitted(reqs, t, k)) <= Cardinality(Calls)
<1> DEFINE r == Refused(reqs, t, k)
           a == Admitted(reqs, t, k)
<1>1. r \in SUBSET a /\ a \in SUBSET Calls
  BY DEF Admitted, Refused
<1> HIDE DEF r, a
<1>2. IsFiniteSet(a) /\ Cardinality(a) <= Cardinality(Calls)
  BY <1>1, CallsAssumption, FS_Subset
<1>3. IsFiniteSet(r) /\ Cardinality(r) <= Cardinality(a)
  BY <1>1, <1>2, FS_Subset
<1>4. Cardinality(r) \in Nat /\ Cardinality(a) \in Nat /\ Cardinality(Calls) \in Nat
  BY <1>2, <1>3, CallsAssumption, FS_CardinalityType
<1> QED
  BY <1>2, <1>3, <1>4 DEF r, a

LEMMA OneMore ==
    ASSUME NEW s, s \subseteq Calls, NEW c, c \notin s
    PROVE  Cardinality(s \cup {c}) = Cardinality(s) + 1
BY CallsAssumption, FS_Subset, FS_AddElement

LEMMA OneLess ==
    ASSUME NEW s, s \subseteq Calls, NEW c \in s
    PROVE  Cardinality(s \ {c}) = Cardinality(s) - 1
BY CallsAssumption, FS_Subset, FS_RemoveElement

LEMMA ThrottleTypes ==
    ASSUME ThrottleTypeOK, NEW t \in Tables, NEW k \in Keys
    PROVE  /\ FailedAt(t, k) \in Nat /\ guesses[t][k] \in Nat
           /\ k \in DOMAIN attempts[t] => attempts[t][k] \in Entry
BY DEF ThrottleTypeOK, FailedAt, Entry, Entries

\* A client whose entry and guesses start again.
LEMMA KeyRestarts ==
    ASSUME ThrottleLimits, NEW t \in Tables, NEW k \in Keys,
           k \in DOMAIN attempts'[t] => attempts'[t][k] = NewEntry,
           guesses'[t][k] = 0
    PROVE  KeyInv(t, k)'
<1> DEFINE r == Refused(requests', t, k)
           a == Admitted(requests', t, k)
           n == Cardinality(Calls)
<1>1. IsFiniteSet(a) /\ IsFiniteSet(r) /\ Cardinality(a) <= n
  <2>1. r \in SUBSET Calls /\ a \in SUBSET Calls
    BY DEF Admitted, Refused
  <2> QED
    BY <2>1, CallsAssumption, FS_Subset
<1>2. Cardinality(r) \in Nat /\ Cardinality(a) \in Nat /\ n \in Nat
  BY <1>1, CallsAssumption, FS_CardinalityType
<1>3. FailedAt(t, k)' = 0
  BY DEF FailedAt, NewEntry
<1>4. k \in DOMAIN attempts'[t] => attempts'[t][k].failed_attempts = 0
  BY DEF NewEntry
<1> HIDE DEF r, a, n
<1>5. guesses'[t][k] <= FailedAt(t, k)' + Cardinality(r)
  BY <1>2, <1>3
<1>6. FailedAt(t, k)' + Cardinality(a) <= max_login_attempts + n - 1
  BY <1>1, <1>2, <1>3 DEF ThrottleLimits
<1> QED
  BY <1>4, <1>5, <1>6 DEF KeyInv, r, a, n, ThrottleLimits

\* A client whose entry does not change, when no request of it goes on, or one
\* that the token accepted.
LEMMA KeyStays ==
    ASSUME ThrottleInv, NEW t \in Tables, NEW k \in Keys,
           k \in DOMAIN attempts[t] <=> k \in DOMAIN attempts'[t],
           k \in DOMAIN attempts[t] => attempts'[t][k] = attempts[t][k],
           guesses'[t][k] = guesses[t][k],
           Cardinality(Refused(requests', t, k))
             = Cardinality(Refused(requests, t, k)),
           Cardinality(Admitted(requests', t, k))
             <= Cardinality(Admitted(requests, t, k)),
           max_login_attempts \in Nat
    PROVE  KeyInv(t, k)'
<1> DEFINE r == Cardinality(Refused(requests, t, k))
           r2 == Cardinality(Refused(requests', t, k))
           a == Cardinality(Admitted(requests, t, k))
           a2 == Cardinality(Admitted(requests', t, k))
           n == Cardinality(Calls)
<1>1. r \in Nat /\ a \in Nat /\ a2 \in Nat /\ n \in Nat /\ r2 = r /\ a2 <= a
  BY AdmittedFinite
<1>2. FailedAt(t, k)' = FailedAt(t, k)
  BY DEF FailedAt
<1>3. FailedAt(t, k) \in Nat /\ guesses[t][k] \in Nat
  BY ThrottleTypes DEF ThrottleInv
<1>4. /\ guesses[t][k] <= FailedAt(t, k) + r
      /\ FailedAt(t, k) + a <= max_login_attempts + n - 1
      /\ k \in DOMAIN attempts[t] /\ attempts[t][k].lockout = "none"
           => attempts[t][k].failed_attempts < max_login_attempts
  BY DEF ThrottleInv, KeyInv
<1> HIDE DEF r, r2, a, a2, n
<1>5. guesses'[t][k] <= FailedAt(t, k)' + r2
  BY <1>1, <1>2, <1>4
<1>6. FailedAt(t, k)' + a2 <= max_login_attempts + n - 1
  BY <1>1, <1>2, <1>3, <1>4
<1> QED
  BY <1>4, <1>5, <1>6 DEF KeyInv, r2, a2, n

\* A request in flight moves: nothing changes for the other clients.
LEMMA OthersStay ==
    ASSUME ThrottleInv, NEW c \in Calls, NEW x \in Attempt,
           GoesTo(c, x),
           NEW t \in Tables, NEW k \in Keys,
           requests[c].pc \in {"token", "record"} => requests[c].table # t \/ requests[c].key # k,
           x.pc \in {"token", "record"} => x.table # t \/ x.key # k,
           k \in DOMAIN attempts[t] <=> k \in DOMAIN attempts'[t],
           k \in DOMAIN attempts[t] => attempts'[t][k] = attempts[t][k],
           guesses'[t][k] = guesses[t][k],
           max_login_attempts \in Nat
    PROVE  KeyInv(t, k)'
<1>0. ThrottleTypeOK
  BY DEF ThrottleInv
<1>01. requests'[c] = x /\ \A d \in Calls : d # c => requests'[d] = requests[d]
  BY <1>0 DEF ThrottleTypeOK, GoesTo
<1>2. /\ Refused(requests', t, k) = Refused(requests, t, k)
      /\ Admitted(requests', t, k) = Admitted(requests, t, k)
  BY <1>01 DEF Admitted, Refused
<1>3. Cardinality(Admitted(requests', t, k))
        <= Cardinality(Admitted(requests, t, k))
  BY <1>2, AdmittedFinite
<1> QED
  BY <1>2, <1>3, KeyStays

\* The requests standing are one more, or one fewer, when one moves.
LEMMA RefusedEnters ==
    ASSUME ThrottleTypeOK, NEW c \in Calls, NEW x \in Attempt,
           GoesTo(c, x), NEW t, NEW k,
           requests[c].pc = "token", x = [pc |-> "record", table |-> t, key |-> k],
           requests[c].table = t, requests[c].key = k
    PROVE  /\ Cardinality(Refused(requests', t, k))
                = Cardinality(Refused(requests, t, k)) + 1
           /\ Cardinality(Admitted(requests', t, k))
                = Cardinality(Admitted(requests, t, k))
<1>1. requests'[c] = x /\ \A d \in Calls : d # c => requests'[d] = requests[d]
  BY DEF ThrottleTypeOK, GoesTo
<1>2. x.pc = "record" /\ x.table = t /\ x.key = k
  OBVIOUS
<1>3. Refused(requests', t, k) = Refused(requests, t, k) \cup {c}
  BY <1>1, <1>2 DEF Admitted, Refused
<1>4. /\ Refused(requests, t, k) \subseteq Calls
      /\ c \notin Refused(requests, t, k)
  BY DEF Admitted, Refused
<1>5. Admitted(requests', t, k) = Admitted(requests, t, k)
  BY <1>1, <1>2 DEF Admitted, Refused
<1> QED
  BY <1>3, <1>4, <1>5, OneMore

LEMMA AdmittedLeaves ==
    ASSUME ThrottleTypeOK, NEW c \in Calls, NEW x \in Attempt,
           GoesTo(c, x), NEW t, NEW k,
           x.pc \in {"idle", "clear"}, requests[c].pc \in {"token", "record"},
           requests[c].table = t, requests[c].key = k
    PROVE  /\ Cardinality(Refused(requests', t, k)) =
                IF requests[c].pc = "token" THEN Cardinality(Refused(requests, t, k))
                ELSE Cardinality(Refused(requests, t, k)) - 1
           /\ Cardinality(Admitted(requests', t, k))
                = Cardinality(Admitted(requests, t, k)) - 1
<1>1. requests'[c] = x /\ \A d \in Calls : d # c => requests'[d] = requests[d]
  BY DEF ThrottleTypeOK, GoesTo
<1>2. Admitted(requests', t, k) = Admitted(requests, t, k) \ {c}
  BY <1>1 DEF Admitted, Refused
<1>3. /\ Admitted(requests, t, k) \subseteq Calls
      /\ c \in Admitted(requests, t, k)
  BY DEF Admitted, Refused
<1>4. CASE requests[c].pc = "token"
  <2>1. Refused(requests', t, k) = Refused(requests, t, k)
    BY <1>1, <1>4 DEF Admitted, Refused
  <2> QED
    BY <1>2, <1>3, <1>4, <2>1, OneLess
<1>5. CASE requests[c].pc = "record"
  <2>1. Refused(requests', t, k) = Refused(requests, t, k) \ {c}
    BY <1>1 DEF Admitted, Refused
  <2>2. /\ Refused(requests, t, k) \subseteq Calls
        /\ c \in Refused(requests, t, k)
    BY <1>5 DEF Admitted, Refused
  <2> QED
    BY <1>2, <1>3, <1>5, <2>1, <2>2, OneLess
<1> QED
  BY <1>4, <1>5

\* A request that the token accepts or refuses goes on.
LEMMA AcceptsKeeps ==
    ASSUME ThrottleInv, ThrottleLimits, NEW c \in Calls, TokenAccepts(c)
    PROVE  ThrottleInv'
<1>0. ThrottleTypeOK /\ requests[c] \in Attempt
  BY DEF ThrottleInv, ThrottleTypeOK
<1>1. requests[c].pc = "token" /\ attempts' = attempts /\ guesses' = guesses
  BY DEF TokenAccepts
<1>2. PICK x \in Attempt :
         /\ x = [pc |-> "clear", table |-> requests[c].table, key |-> requests[c].key]
         /\ GoesTo(c, x)
  BY <1>0, <1>1, RequestTypes DEF TokenAccepts, Goto, GoesTo
<1>3. ThrottleTypeOK'
  BY <1>0, <1>1, <1>2 DEF ThrottleTypeOK, Entries, GoesTo
<1>4. \A t \in Tables : TableInv(t)'
  BY <1>1 DEF ThrottleInv, TableInv
<1>5. ASSUME NEW t \in Tables, NEW k \in Keys
      PROVE  KeyInv(t, k)'
  <2>1. CASE requests[c].table = t /\ requests[c].key = k
    <3>1. x.pc = "clear"
      BY <1>2
    <3>2. /\ Cardinality(Refused(requests', t, k))
                = Cardinality(Refused(requests, t, k))
          /\ Cardinality(Admitted(requests', t, k))
                = Cardinality(Admitted(requests, t, k)) - 1
      BY <1>0, <1>1, <1>2, <2>1, <3>1, AdmittedLeaves
    <3>3. Cardinality(Admitted(requests', t, k))
                <= Cardinality(Admitted(requests, t, k))
      BY <3>2, AdmittedFinite
    <3> QED
      BY <1>1, <3>2, <3>3, KeyStays DEF ThrottleLimits
  <2>2. CASE requests[c].table # t \/ requests[c].key # k
    <3>1. x.pc = "clear"
      BY <1>2
    <3> QED
      BY <1>1, <1>2, <2>2, <3>1, OthersStay DEF ThrottleLimits
  <2> QED
    BY <2>1, <2>2
<1> QED
  BY <1>3, <1>4, <1>5 DEF ThrottleInv

LEMMA RefusesKeeps ==
    ASSUME ThrottleInv, ThrottleLimits, NEW c \in Calls, TokenRefuses(c)
    PROVE  ThrottleInv'
<1>0. ThrottleTypeOK /\ requests[c] \in Attempt
  BY DEF ThrottleInv, ThrottleTypeOK
<1>1. requests[c].pc = "token" /\ attempts' = attempts
  BY DEF TokenRefuses
<1>2. PICK u \in Tables, l \in Keys : u = requests[c].table /\ l = requests[c].key
  BY <1>0, <1>1, RequestTypes
<1>3. PICK x \in Attempt :
         x = [pc |-> "record", table |-> u, key |-> l] /\ GoesTo(c, x)
  BY <1>0, <1>1, <1>2, RequestTypes DEF TokenRefuses, Goto, GoesTo
<1>4. guesses' = [guesses EXCEPT ![u][l] = @ + 1]
  BY <1>2 DEF TokenRefuses
<1>5. guesses \in [Tables -> [Keys -> Nat]]
  BY <1>0 DEF ThrottleTypeOK
<1>6. /\ guesses' \in [Tables -> [Keys -> Nat]]
      /\ guesses'[u][l] = guesses[u][l] + 1
      /\ \A t \in Tables, k \in Keys : t # u \/ k # l => guesses'[t][k] = guesses[t][k]
  BY <1>4, <1>5
<1>7. ThrottleTypeOK'
  BY <1>0, <1>1, <1>3, <1>6 DEF ThrottleTypeOK, Entries, GoesTo
<1>8. \A t \in Tables : TableInv(t)'
  BY <1>1 DEF ThrottleInv, TableInv
<1>9. ASSUME NEW t \in Tables, NEW k \in Keys
      PROVE  KeyInv(t, k)'
  <2>1. CASE t = u /\ k = l
    <3> DEFINE r == Cardinality(Refused(requests, t, k))
               r2 == Cardinality(Refused(requests', t, k))
               a == Cardinality(Admitted(requests, t, k))
               a2 == Cardinality(Admitted(requests', t, k))
    <3>1. r2 = r + 1 /\ a2 = a
      BY <1>0, <1>1, <1>2, <1>3, <2>1, RefusedEnters
    <3>2. r \in Nat
      BY AdmittedFinite
    <3>3. FailedAt(t, k)' = FailedAt(t, k)
      BY <1>1 DEF FailedAt
    <3>4. FailedAt(t, k) \in Nat /\ guesses[t][k] \in Nat
      BY <1>0, ThrottleTypes
    <3>5. KeyInv(t, k)
      BY DEF ThrottleInv
    <3>6. guesses'[t][k] = guesses[t][k] + 1
      BY <1>6, <2>1
    <3>7. guesses[t][k] <= FailedAt(t, k) + r
      BY <3>5 DEF KeyInv
    <3> HIDE DEF r, r2, a, a2
    <3>8. guesses'[t][k] <= FailedAt(t, k)' + r2
      BY <3>1, <3>2, <3>3, <3>4, <3>6, <3>7
    <3> QED
      BY <1>1, <3>1, <3>3, <3>5, <3>8 DEF KeyInv, r2, a, a2
  <2>2. CASE t # u \/ k # l
    <3>1. x.pc = "record" /\ x.table = u /\ x.key = l
      BY <1>3
    <3>2. guesses'[t][k] = guesses[t][k]
      BY <1>6, <2>2
    <3> QED
      BY <1>1, <1>2, <1>3, <2>2, <3>1, <3>2, OthersStay DEF ThrottleLimits
  <2> QED
    BY <2>1, <2>2
<1> QED
  BY <1>7, <1>8, <1>9 DEF ThrottleInv

\* The key of a request is one of the keys.
LEMMA KeyOfRequest ==
    ASSUME NEW slot \in Slots, NEW peer \in Peers
    PROVE  ThrottleKey(slot, peer) \in Keys
BY DEF Keys

\* Guesses counted for some keys of a table start again.
LEMMA RestartedGuesses ==
    ASSUME guesses \in [Tables -> [Keys -> Nat]], NEW u \in Tables, NEW ks,
           guesses' = Restarted(u, ks)
    PROVE  /\ guesses' \in [Tables -> [Keys -> Nat]]
           /\ \A k \in Keys : k \in ks => guesses'[u][k] = 0
           /\ \A t \in Tables, k \in Keys :
                 t # u \/ k \notin ks => guesses'[t][k] = guesses[t][k]
BY DEF Restarted

LEMMA RequestKeeps ==
    ASSUME ThrottleInv, ThrottleLimits, NEW c \in Calls, NEW u \in Tables,
           NEW slot \in Slots, NEW peer \in Peers, Request(c, u, slot, peer)
    PROVE  ThrottleInv'
<1>0. ThrottleTypeOK /\ requests[c] \in Attempt
  BY DEF ThrottleInv, ThrottleTypeOK
<1>1. PICK l \in Keys : l = ThrottleKey(slot, peer)
  BY KeyOfRequest
<1> DEFINE over == l \in DOMAIN attempts[u] /\ attempts[u][l].lockout = "over"
<1>2. /\ requests[c].pc = "idle"
      /\ ~(l \in DOMAIN attempts[u] /\ attempts[u][l].lockout = "running")
      /\ over => attempts' = [attempts EXCEPT ![u][l] = NewEntry]
      /\ ~over => attempts' = attempts
      /\ over => guesses' = Restarted(u, {l})
      /\ ~over => guesses' = guesses
  BY <1>1 DEF Request, Running, Entries
<1>3. PICK x \in Attempt : x = [pc |-> "token", table |-> u, key |-> l] /\ GoesTo(c, x)
  BY <1>1 DEF Request, GoesTo, Attempt
<1>4. x.pc = "token" /\ x.table = u /\ x.key = l
  BY <1>3
<1>5. /\ guesses' \in [Tables -> [Keys -> Nat]]
      /\ over => guesses'[u][l] = 0
      /\ ~over => guesses'[u][l] = guesses[u][l]
      /\ \A t \in Tables, k \in Keys : t # u \/ k # l => guesses'[t][k] = guesses[t][k]
  BY <1>0, <1>2, RestartedGuesses DEF ThrottleTypeOK
<1>6. NewEntry \in Entry
  BY DEF NewEntry, Entry
<1>7. /\ DOMAIN attempts' = Tables
      /\ \A t \in Tables : DOMAIN attempts'[t] = DOMAIN attempts[t]
      /\ \A t \in Tables : attempts'[t] \in [DOMAIN attempts[t] -> Entry]
      /\ \A t \in Tables : \A k \in DOMAIN attempts[t] :
            t # u \/ k # l \/ ~over => attempts'[t][k] = attempts[t][k]
      /\ over => attempts'[u][l] = NewEntry
  <2>0. /\ DOMAIN attempts = Tables
        /\ \A t \in Tables : attempts[t] \in [DOMAIN attempts[t] -> Entry]
    BY <1>0 DEF ThrottleTypeOK, Entries
  <2>1. CASE over
    <3>1. attempts' = [attempts EXCEPT ![u][l] = NewEntry]
      BY <1>2, <2>1
    <3>2. /\ DOMAIN attempts' = Tables
          /\ \A t \in Tables : t # u => attempts'[t] = attempts[t]
          /\ attempts'[u] = [attempts[u] EXCEPT ![l] = NewEntry]
      BY <2>0, <3>1
    <3>3. /\ DOMAIN attempts'[u] = DOMAIN attempts[u]
          /\ attempts'[u] \in [DOMAIN attempts[u] -> Entry]
          /\ \A k \in DOMAIN attempts[u] : k # l => attempts'[u][k] = attempts[u][k]
          /\ attempts'[u][l] = NewEntry
      BY <1>6, <2>0, <2>1, <3>2
    <3> QED
      BY <2>0, <2>1, <3>2, <3>3
  <2>2. CASE ~over
    BY <1>2, <2>0, <2>2
  <2> QED
    BY <2>1, <2>2
<1>8. requests' \in [Calls -> Attempt]
  BY <1>0, <1>3 DEF ThrottleTypeOK, GoesTo
<1>9. ThrottleTypeOK'
  BY <1>0, <1>5, <1>7, <1>8 DEF ThrottleTypeOK, Entries
<1>10. \A t \in Tables : TableInv(t)'
  BY <1>7 DEF ThrottleInv, TableInv
<1>11. ASSUME NEW t \in Tables, NEW k \in Keys
       PROVE  KeyInv(t, k)'
  <2>1. CASE t = u /\ k = l /\ over
    BY <1>5, <1>7, <2>1, KeyRestarts
  <2>2. CASE t = u /\ k = l /\ ~over
    <3> DEFINE r == Cardinality(Refused(requests, t, k))
               r2 == Cardinality(Refused(requests', t, k))
               a2 == Cardinality(Admitted(requests', t, k))
               n == Cardinality(Calls)
    <3>1. r2 = r
      <4>1. requests'[c] = x /\ \A d \in Calls : d # c => requests'[d] = requests[d]
        BY <1>0, <1>3 DEF ThrottleTypeOK, GoesTo
      <4>2. Refused(requests', t, k) = Refused(requests, t, k)
        BY <1>2, <1>4, <4>1 DEF Refused
      <4> QED
        BY <4>2
    <3>2. a2 \in Nat /\ n \in Nat /\ a2 <= n
      BY AdmittedFinite
    <3>3. KeyInv(t, k) /\ KeyInv(u, l)
      BY DEF ThrottleInv
    <3>4. attempts' = attempts /\ guesses'[t][k] = guesses[t][k]
      BY <1>2, <2>2
    <3>5. FailedAt(t, k)' = FailedAt(t, k) /\ FailedAt(t, k) \in Nat
      BY <1>0, <3>4, ThrottleTypes DEF FailedAt
    <3>6. FailedAt(t, k) < max_login_attempts
      <4>1. CASE k \in DOMAIN attempts[t]
        <5>1. attempts[t][k] \in Entry
          BY <1>0, <4>1, ThrottleTypes
        <5>2. attempts[t][k].lockout = "none"
          BY <1>2, <2>2, <4>1, <5>1 DEF Entry
        <5> QED
          BY <3>3, <4>1, <5>2 DEF KeyInv, FailedAt
      <4>2. CASE k \notin DOMAIN attempts[t]
        BY <4>2 DEF FailedAt, ThrottleLimits
      <4> QED
        BY <4>1, <4>2
    <3>7. guesses[t][k] <= FailedAt(t, k) + r
      BY <3>3 DEF KeyInv
    <3>8. k \in DOMAIN attempts[t] /\ attempts[t][k].lockout = "none"
            => attempts[t][k].failed_attempts < max_login_attempts
      BY <3>3 DEF KeyInv
    <3> HIDE DEF r, r2, a2, n
    <3>9. guesses'[t][k] <= FailedAt(t, k)' + r2
      BY <3>1, <3>4, <3>5, <3>7
    <3>10. FailedAt(t, k)' + a2 <= max_login_attempts + n - 1
      BY <3>2, <3>5, <3>6 DEF ThrottleLimits
    <3> QED
      BY <3>4, <3>8, <3>9, <3>10 DEF KeyInv, r2, a2, n
  <2>3. CASE t # u \/ k # l
    <3>1. /\ k \in DOMAIN attempts[t] <=> k \in DOMAIN attempts'[t]
          /\ k \in DOMAIN attempts[t] => attempts'[t][k] = attempts[t][k]
          /\ guesses'[t][k] = guesses[t][k]
      BY <1>5, <1>7, <2>3
    <3>2. requests[c].pc \notin {"token", "record"}
      BY <1>2
    <3>3. x.pc \in {"token", "record"} => x.table # t \/ x.key # k
      BY <1>4, <2>3
    <3> QED
      BY <1>3, <3>1, <3>2, <3>3, OthersStay DEF ThrottleLimits
  <2> QED
    BY <2>1, <2>2, <2>3
<1> QED
  BY <1>9, <1>10, <1>11 DEF ThrottleInv

\* One table is replaced.
LEMMA TableReplaced ==
    ASSUME ThrottleTypeOK, NEW u \in Tables, NEW f, DOMAIN f \subseteq Keys,
           f \in [DOMAIN f -> Entry], attempts' = [attempts EXCEPT ![u] = f]
    PROVE  /\ DOMAIN attempts' = Tables
           /\ attempts'[u] = f
           /\ \A t \in Tables : t # u => attempts'[t] = attempts[t]
           /\ \A t \in Tables : /\ DOMAIN attempts'[t] \subseteq Keys
                                /\ attempts'[t] \in [DOMAIN attempts'[t] -> Entry]
<1>1. /\ DOMAIN attempts = Tables
      /\ \A t \in Tables : /\ DOMAIN attempts[t] \subseteq Keys
                           /\ attempts[t] \in [DOMAIN attempts[t] -> Entry]
  BY DEF ThrottleTypeOK, Entries
<1>2. /\ DOMAIN attempts' = Tables
      /\ attempts'[u] = f
      /\ \A t \in Tables : t # u => attempts'[t] = attempts[t]
  BY <1>1
<1>3. ASSUME NEW t \in Tables
      PROVE  /\ DOMAIN attempts'[t] \subseteq Keys
             /\ attempts'[t] \in [DOMAIN attempts'[t] -> Entry]
  <2>1. CASE t = u
    BY <1>2, <2>1
  <2>2. CASE t # u
    BY <1>1, <1>2, <2>2
  <2> QED
    BY <2>1, <2>2
<1> QED
  BY <1>2, <1>3

\* A request ends.
LEMMA EndsIdle ==
    ASSUME ThrottleTypeOK, NEW c \in Calls, AttemptReturns(c)
    PROVE  \E x \in Attempt : /\ x.pc = "idle" /\ GoesTo(c, x)
                              /\ requests' \in [Calls -> Attempt]
                              /\ requests'[c] = x
BY DEF AttemptReturns, NoAttempt, Attempt, GoesTo, ThrottleTypeOK

LEMMA ClearKeeps ==
    ASSUME ThrottleInv, ThrottleLimits, NEW c \in Calls, Clear(c)
    PROVE  ThrottleInv'
<1>0. ThrottleTypeOK /\ requests[c] \in Attempt
  BY DEF ThrottleInv, ThrottleTypeOK
<1>1. requests[c].pc = "clear" /\ AttemptReturns(c)
  BY DEF Clear
<1>2. PICK u \in Tables, l \in Keys : u = requests[c].table /\ l = requests[c].key
  BY <1>0, <1>1, RequestTypes
<1>3. PICK x \in Attempt : /\ x.pc = "idle" /\ GoesTo(c, x)
                                 /\ requests' \in [Calls -> Attempt]
  BY <1>0, <1>1, EndsIdle
<1>4. PICK ks : ks = {l}
  OBVIOUS
<1>41. PICK f : f = Without(attempts[u], ks)
  OBVIOUS
<1>5. attempts' = [attempts EXCEPT ![u] = f] /\ guesses' = Restarted(u, ks)
  BY <1>0, <1>2, <1>4, <1>41 DEF Clear, ThrottleTypeOK
<1>6. /\ DOMAIN f = DOMAIN attempts[u] \ ks
      /\ DOMAIN f \subseteq Keys
      /\ f \in [DOMAIN f -> Entry]
      /\ \A k \in DOMAIN f : f[k] = attempts[u][k]
  BY <1>0, <1>41 DEF Without, Restrict, ThrottleTypeOK, Entries
<1>7. /\ DOMAIN attempts' = Tables
      /\ attempts'[u] = f
      /\ \A t \in Tables : t # u => attempts'[t] = attempts[t]
      /\ \A t \in Tables : /\ DOMAIN attempts'[t] \subseteq Keys
                           /\ attempts'[t] \in [DOMAIN attempts'[t] -> Entry]
  BY <1>0, <1>5, <1>6, TableReplaced
<1>8. /\ guesses' \in [Tables -> [Keys -> Nat]]
      /\ guesses'[u][l] = 0
      /\ \A t \in Tables, k \in Keys : t # u \/ k # l => guesses'[t][k] = guesses[t][k]
  <2>1. guesses \in [Tables -> [Keys -> Nat]]
    BY <1>0 DEF ThrottleTypeOK
  <2>2. /\ guesses' \in [Tables -> [Keys -> Nat]]
        /\ \A k \in Keys : k \in ks => guesses'[u][k] = 0
        /\ \A t \in Tables, k \in Keys :
              t # u \/ k \notin ks => guesses'[t][k] = guesses[t][k]
    BY <1>5, <2>1, RestartedGuesses
  <2> QED
    BY <1>4, <2>2
<1>9. ThrottleTypeOK'
  BY <1>3, <1>7, <1>8 DEF ThrottleTypeOK, Entries
<1>10. ASSUME NEW t \in Tables PROVE TableInv(t)'
  <2>1. TableInv(t)
    BY DEF ThrottleInv
  <2>2. CASE t # u
    BY <1>7, <2>1, <2>2 DEF TableInv
  <2>3. CASE t = u
    <3>1. DOMAIN f \in SUBSET DOMAIN attempts[u]
      BY <1>6
    <3>2. IsFiniteSet(DOMAIN f) /\ Cardinality(DOMAIN f) <= Cardinality(DOMAIN attempts[u])
      BY <2>1, <2>3, <3>1, FS_Subset DEF TableInv
    <3>3. Cardinality(DOMAIN f) \in Nat /\ Cardinality(DOMAIN attempts[u]) \in Nat
      BY <2>1, <2>3, <3>2, FS_CardinalityType DEF TableInv
    <3>4. Cardinality(DOMAIN f) <= MAX_THROTTLE_ENTRIES + 1
      BY <2>1, <2>3, <3>2, <3>3 DEF TableInv, ThrottleLimits
    <3> QED
      BY <1>7, <2>3, <3>2, <3>4 DEF TableInv
  <2> QED
    BY <2>2, <2>3
<1>11. ASSUME NEW t \in Tables, NEW k \in Keys
       PROVE  KeyInv(t, k)'
  <2>1. CASE t = u /\ k = l
    BY <1>4, <1>6, <1>7, <1>8, <2>1, KeyRestarts
  <2>2. CASE t # u \/ k # l
    <3>1. /\ k \in DOMAIN attempts[t] <=> k \in DOMAIN attempts'[t]
          /\ k \in DOMAIN attempts[t] => attempts'[t][k] = attempts[t][k]
          /\ guesses'[t][k] = guesses[t][k]
      <4>1. CASE t # u
        BY <1>7, <1>8, <4>1
      <4>2. CASE t = u
        BY <1>4, <1>6, <1>7, <1>8, <2>2, <4>2
      <4> QED
        BY <4>1, <4>2
    <3>2. requests[c].pc \notin {"token", "record"} /\ x.pc \notin {"token", "record"}
      BY <1>1, <1>3
    <3> QED
      BY <1>3, <3>1, <3>2, OthersStay DEF ThrottleLimits
  <2> QED
    BY <2>1, <2>2
<1> QED
  BY <1>9, <1>10, <1>11 DEF ThrottleInv

LEMMA CooldownKeeps ==
    ASSUME ThrottleInv, ThrottleLimits, NEW u \in Tables, NEW l \in Keys,
           CooldownEnds(u, l)
    PROVE  ThrottleInv'
<1>0. ThrottleTypeOK
  BY DEF ThrottleInv
<1>1. /\ requests' = requests /\ guesses' = guesses
      /\ l \in DOMAIN attempts[u]
      /\ attempts' = [attempts EXCEPT ![u][l].lockout = "over"]
  BY DEF CooldownEnds, Running, Entries
<1>2. PICK e : e = attempts[u][l]
  OBVIOUS
<1>3. e \in Entry
  BY <1>0, <1>1, <1>2, ThrottleTypes
<1>4. PICK e2 : e2 = [e EXCEPT !.lockout = "over"]
  OBVIOUS
<1>5. /\ e2 \in Entry /\ e2.lockout = "over"
      /\ e2.failed_attempts = e.failed_attempts
  BY <1>3, <1>4 DEF Entry
<1>6. PICK f : f = [attempts[u] EXCEPT ![l] = e2]
  OBVIOUS
<1>7. attempts' = [attempts EXCEPT ![u] = f]
  BY <1>1, <1>2, <1>4, <1>6
<1>8. /\ DOMAIN f = DOMAIN attempts[u] /\ DOMAIN f \subseteq Keys
      /\ f \in [DOMAIN f -> Entry]
      /\ f[l] = e2 /\ \A k \in DOMAIN f : k # l => f[k] = attempts[u][k]
  BY <1>0, <1>1, <1>5, <1>6 DEF ThrottleTypeOK, Entries
<1>9. /\ DOMAIN attempts' = Tables
      /\ attempts'[u] = f
      /\ \A t \in Tables : t # u => attempts'[t] = attempts[t]
      /\ \A t \in Tables : /\ DOMAIN attempts'[t] \subseteq Keys
                           /\ attempts'[t] \in [DOMAIN attempts'[t] -> Entry]
  BY <1>0, <1>7, <1>8, TableReplaced
<1>10. ThrottleTypeOK'
  BY <1>0, <1>1, <1>9 DEF ThrottleTypeOK, Entries
<1>11. \A t \in Tables : DOMAIN attempts'[t] = DOMAIN attempts[t]
  BY <1>8, <1>9
<1>12. \A t \in Tables : TableInv(t)'
  BY <1>11 DEF ThrottleInv, TableInv
<1>13. ASSUME NEW t \in Tables, NEW k \in Keys
       PROVE  KeyInv(t, k)'
  <2>1. KeyInv(t, k)
    BY DEF ThrottleInv
  <2>2. /\ FailedAt(t, k)' = FailedAt(t, k)
        /\ k \in DOMAIN attempts'[t] /\ attempts'[t][k].lockout = "none"
             => k \in DOMAIN attempts[t] /\ attempts'[t][k] = attempts[t][k]
    <3>1. CASE t # u \/ k # l
      <4>1. k \in DOMAIN attempts[t] => attempts'[t][k] = attempts[t][k]
        BY <1>8, <1>9, <3>1
      <4> QED
        BY <1>11, <4>1 DEF FailedAt
    <3>2. CASE t = u /\ k = l
      <4>1. attempts'[t][k] = e2 /\ k \in DOMAIN attempts[t] /\ attempts[t][k] = e
        BY <1>1, <1>2, <1>8, <1>9, <3>2
      <4> QED
        BY <1>5, <1>11, <4>1 DEF FailedAt
    <3> QED
      BY <3>1, <3>2
  <2> QED
    BY <1>1, <2>1, <2>2 DEF KeyInv
<1> QED
  BY <1>10, <1>12, <1>13 DEF ThrottleInv

\* What makes room in a table: the rest is within the limit, and when an entry
\* goes that has not expired, it is one entry only, and nothing has expired.
LEMMA SurplusFacts ==
    ASSUME ThrottleLimits, NEW u \in Tables, TableInv(u), NEW ks,
           ks \in Surplus(attempts[u])
    PROVE  LET D == DOMAIN attempts[u]
               E == Expired(attempts[u])
           IN  /\ ks \subseteq D \ E
               /\ IsFiniteSet((D \ E) \ ks)
               /\ Cardinality((D \ E) \ ks) <= MAX_THROTTLE_ENTRIES
               /\ ks # {} => /\ Cardinality(D) > MAX_THROTTLE_ENTRIES
                             /\ E = {} /\ \E k : ks = {k}
               /\ \A k \in ks : \A l \in (D \ E) \ ks :
                     attempts[u][k].failed_attempts <= attempts[u][l].failed_attempts
<1> DEFINE D == DOMAIN attempts[u]
           E == Expired(attempts[u])
<1>1. PICK R : R = D \ E
  OBVIOUS
<1>2. /\ ks \in SUBSET R
      /\ Cardinality(ks) = (IF Cardinality(R) - MAX_THROTTLE_ENTRIES > 0
                            THEN Cardinality(R) - MAX_THROTTLE_ENTRIES ELSE 0)
      /\ \A k \in ks : \A l \in R \ ks :
            attempts[u][k].failed_attempts <= attempts[u][l].failed_attempts
  BY <1>1 DEF Surplus
<1>3. IsFiniteSet(D) /\ Cardinality(D) <= MAX_THROTTLE_ENTRIES + 1
  BY DEF TableInv
<1>4. E \subseteq D
  BY DEF Expired
<1> HIDE DEF D, E
<1>5. R \in SUBSET D
  BY <1>1
<1>6. IsFiniteSet(R) /\ Cardinality(R) <= Cardinality(D) /\ (Cardinality(D) = Cardinality(R) => D = R)
  BY <1>3, <1>5, FS_Subset
<1>7. IsFiniteSet(ks) /\ IsFiniteSet(R \ ks)
  <2>1. R \ ks \in SUBSET R
    OBVIOUS
  <2> QED
    BY <1>2, <1>6, <2>1, FS_Subset
<1>8. /\ Cardinality(R) \in Nat /\ Cardinality(D) \in Nat
      /\ Cardinality(ks) \in Nat /\ Cardinality(R \ ks) \in Nat
  BY <1>3, <1>6, <1>7, FS_CardinalityType
<1>9. Cardinality(R \ ks) = Cardinality(R) - Cardinality(ks)
  <2>1. R \cap ks = ks
    BY <1>2
  <2> QED
    BY <1>6, <1>7, <2>1, FS_Difference
<1>10. Cardinality(R \ ks) <= MAX_THROTTLE_ENTRIES
  BY <1>2, <1>8, <1>9 DEF ThrottleLimits
<1>11. ASSUME ks # {}
       PROVE  Cardinality(D) > MAX_THROTTLE_ENTRIES /\ E = {} /\ \E k : ks = {k}
  <2>1. Cardinality(ks) # 0
    BY <1>7, <1>11, FS_EmptySet
  <2>2. Cardinality(R) > MAX_THROTTLE_ENTRIES
    BY <1>2, <1>8, <2>1 DEF ThrottleLimits
  <2>3. Cardinality(R) = MAX_THROTTLE_ENTRIES + 1 /\ Cardinality(D) = MAX_THROTTLE_ENTRIES + 1
    BY <1>3, <1>6, <1>8, <2>2 DEF ThrottleLimits
  <2>4. Cardinality(ks) = 1
    BY <1>2, <2>3 DEF ThrottleLimits
  <2>5. \E k : ks = {k}
    BY <1>7, <2>4, FS_Singleton
  <2>6. D = R
    BY <1>6, <2>3
  <2>7. E = {}
    BY <1>1, <1>4, <2>6
  <2>8. Cardinality(D) > MAX_THROTTLE_ENTRIES
    BY <2>3 DEF ThrottleLimits
  <2> QED
    BY <2>5, <2>7, <2>8
<1> QED
  BY <1>1, <1>2, <1>7, <1>10, <1>11, Zenon DEF D, E

\* What record_login_failure does to table u for client l: the entries gone
\* start again, the client's entry old, or a new one, counts one more failed
\* attempt, the others stay.
Recorded(c, u, l, x, ks, gone, old) ==
    /\ u \in Tables /\ l \in Keys /\ x \in Attempt
    /\ requests[c].pc = "record" /\ u = requests[c].table /\ l = requests[c].key
    /\ x.pc = "idle" /\ GoesTo(c, x) /\ requests' \in [Calls -> Attempt]
    /\ ks \in Surplus(attempts[u])
    /\ gone = Expired(attempts[u]) \cup ks
    /\ old = IF l \in DOMAIN attempts[u] \ gone THEN attempts[u][l] ELSE NewEntry
    /\ guesses' = Restarted(u, gone)
    /\ DOMAIN attempts' = Tables
    /\ \A t \in Tables : t # u => attempts'[t] = attempts[t]
    /\ DOMAIN attempts'[u] = (DOMAIN attempts[u] \ gone) \cup {l}
    /\ attempts'[u] = [k \in DOMAIN attempts'[u] |-> attempts'[u][k]]
    /\ attempts'[u][l] = Failed(old)
    /\ \A k \in DOMAIN attempts[u] \ gone : k # l => attempts'[u][k] = attempts[u][k]

LEMMA RecordEffect ==
    ASSUME ThrottleTypeOK, NEW c \in Calls, Record(c)
    PROVE  \E u, l, x, ks, gone, old : Recorded(c, u, l, x, ks, gone, old)
<1>0. requests[c] \in Attempt /\ DOMAIN attempts = Tables
  BY DEF ThrottleTypeOK
<1>1. requests[c].pc = "record" /\ AttemptReturns(c)
  BY DEF Record
<1>2. PICK u \in Tables, l \in Keys : u = requests[c].table /\ l = requests[c].key
  BY <1>0, <1>1, RequestTypes
<1>3. PICK x \in Attempt : /\ x.pc = "idle" /\ GoesTo(c, x)
                                 /\ requests' \in [Calls -> Attempt]
  BY <1>1, EndsIdle
<1>4. PICK ks \in Surplus(attempts[u]) :
        LET gone == Expired(attempts[u]) \cup ks
            kept == Without(attempts[u], gone)
            entry == IF l \in DOMAIN kept THEN kept[l] ELSE NewEntry
        IN  /\ attempts' = [attempts EXCEPT ![u] =
                              [k \in DOMAIN kept \cup {l} |->
                                 IF k = l THEN Failed(entry) ELSE kept[k]]]
            /\ guesses' = Restarted(u, gone)
  BY <1>2, Zenon DEF Record
<1>5. PICK gone : gone = Expired(attempts[u]) \cup ks
  OBVIOUS
<1>6. PICK kept : kept = Without(attempts[u], gone)
  OBVIOUS
<1>7. /\ DOMAIN kept = DOMAIN attempts[u] \ gone
      /\ \A k \in DOMAIN kept : kept[k] = attempts[u][k]
  BY <1>6 DEF Without, Restrict
<1>8. PICK old : old = IF l \in DOMAIN attempts[u] \ gone THEN attempts[u][l]
                       ELSE NewEntry
  OBVIOUS
<1>9. PICK f : f = [k \in DOMAIN kept \cup {l} |-> IF k = l THEN Failed(old) ELSE kept[k]]
  OBVIOUS
<1>10. attempts' = [attempts EXCEPT ![u] = f] /\ guesses' = Restarted(u, gone)
  <2>1. old = IF l \in DOMAIN kept THEN kept[l] ELSE NewEntry
    BY <1>7, <1>8
  <2> QED
    BY <1>4, <1>5, <1>6, <1>9, <2>1, Zenon
<1>11. /\ DOMAIN attempts' = Tables /\ attempts'[u] = f
       /\ \A t \in Tables : t # u => attempts'[t] = attempts[t]
  BY <1>0, <1>10
<1>12. /\ DOMAIN f = (DOMAIN attempts[u] \ gone) \cup {l}
       /\ f = [k \in DOMAIN f |-> f[k]]
       /\ f[l] = Failed(old)
       /\ \A k \in DOMAIN attempts[u] \ gone : k # l => f[k] = attempts[u][k]
  BY <1>7, <1>9
<1>13. Recorded(c, u, l, x, ks, gone, old)
  BY <1>1, <1>2, <1>3, <1>4, <1>5, <1>8, <1>10, <1>11, <1>12, Zenon DEF Recorded
<1> QED
  BY <1>13

\* An entry with one more failed attempt.
LEMMA FailedFacts ==
    ASSUME ThrottleLimits, NEW e \in Entry, e.lockout # "over",
           NEW e2, e2 = Failed(e)
    PROVE  /\ e2 \in Entry
           /\ e2.failed_attempts = e.failed_attempts + 1
           /\ e2.lockout = "none" => e2.failed_attempts < max_login_attempts
BY DEF Entry, Failed, ThrottleLimits

LEMMA RecordKeeps ==
    ASSUME ThrottleInv, ThrottleLimits, NEW c \in Calls, Record(c)
    PROVE  ThrottleInv'
<1>0. ThrottleTypeOK
  BY DEF ThrottleInv
<1>1. PICK u, l, x, ks, gone, old : Recorded(c, u, l, x, ks, gone, old)
  BY <1>0, RecordEffect, Zenon
<1>2. u \in Tables /\ l \in Keys /\ x \in Attempt
  BY <1>1 DEF Recorded
<1>3. /\ ks \in Surplus(attempts[u])
      /\ gone = Expired(attempts[u]) \cup ks
  BY <1>1 DEF Recorded
<1>4. old = IF l \in DOMAIN attempts[u] \ gone THEN attempts[u][l] ELSE NewEntry
  BY <1>1, Zenon DEF Recorded
<1>5. /\ requests[c].pc = "record" /\ u = requests[c].table /\ l = requests[c].key
      /\ x.pc = "idle" /\ GoesTo(c, x) /\ requests' \in [Calls -> Attempt]
      /\ guesses' = Restarted(u, gone)
      /\ DOMAIN attempts' = Tables
      /\ \A t \in Tables : t # u => attempts'[t] = attempts[t]
      /\ DOMAIN attempts'[u] = (DOMAIN attempts[u] \ gone) \cup {l}
      /\ attempts'[u] = [k \in DOMAIN attempts'[u] |-> attempts'[u][k]]
      /\ attempts'[u][l] = Failed(old)
      /\ \A k \in DOMAIN attempts[u] \ gone : k # l => attempts'[u][k] = attempts[u][k]
  BY <1>1, Zenon DEF Recorded
<1> USE <1>2
<1>6. PICK kept : kept = DOMAIN attempts[u] \ gone
  OBVIOUS
<1>7. IsFiniteSet(kept) /\ Cardinality(kept) <= MAX_THROTTLE_ENTRIES
  <2>1. TableInv(u)
    BY <1>2 DEF ThrottleInv
  <2>2. /\ IsFiniteSet((DOMAIN attempts[u] \ Expired(attempts[u])) \ ks)
        /\ Cardinality((DOMAIN attempts[u] \ Expired(attempts[u])) \ ks)
             <= MAX_THROTTLE_ENTRIES
    BY <1>3, <2>1, SurplusFacts, Zenon
  <2>3. kept = (DOMAIN attempts[u] \ Expired(attempts[u])) \ ks
    BY <1>3, <1>6
  <2> QED
    BY <2>2, <2>3
<1>8. /\ guesses' \in [Tables -> [Keys -> Nat]]
      /\ \A k \in Keys : k \in gone => guesses'[u][k] = 0
      /\ \A t \in Tables, k \in Keys :
            t # u \/ k \notin gone => guesses'[t][k] = guesses[t][k]
  <2>1. guesses \in [Tables -> [Keys -> Nat]]
    BY <1>0 DEF ThrottleTypeOK
  <2> QED
    BY <1>5, <2>1, RestartedGuesses
<1>9. /\ DOMAIN attempts = Tables
      /\ \A t \in Tables : /\ DOMAIN attempts[t] \subseteq Keys
                           /\ attempts[t] \in [DOMAIN attempts[t] -> Entry]
  BY <1>0 DEF ThrottleTypeOK, Entries
<1>10. old \in Entry /\ old.lockout # "over"
  <2>1. CASE l \in DOMAIN attempts[u] \ gone
    <3>1. old = attempts[u][l] /\ l \notin Expired(attempts[u])
      BY <1>3, <1>4, <2>1
    <3> QED
      BY <1>9, <2>1, <3>1 DEF Expired
  <2>2. CASE l \notin DOMAIN attempts[u] \ gone
    BY <1>4, <2>2 DEF NewEntry, Entry
  <2> QED
    BY <2>1, <2>2
<1>11. PICK e : e = attempts'[u][l]
  OBVIOUS
<1>12. /\ e \in Entry
       /\ e.failed_attempts = old.failed_attempts + 1
       /\ e.lockout = "none" => e.failed_attempts < max_login_attempts
  BY <1>5, <1>10, <1>11, FailedFacts
<1>13. /\ DOMAIN attempts'[u] = kept \cup {l}
       /\ attempts'[u] \in [DOMAIN attempts'[u] -> Entry]
       /\ \A k \in kept : k # l => attempts'[u][k] = attempts[u][k]
  <2>1. /\ DOMAIN attempts'[u] = kept \cup {l}
        /\ \A k \in kept : k # l => attempts'[u][k] = attempts[u][k]
    BY <1>5, <1>6
  <2>2. \A k \in DOMAIN attempts'[u] : attempts'[u][k] \in Entry
    BY <1>6, <1>9, <1>11, <1>12, <2>1
  <2> QED
    BY <1>5, <2>1, <2>2
<1>14. ThrottleTypeOK'
  <2>1. \A t \in Tables : /\ DOMAIN attempts'[t] \subseteq Keys
                          /\ attempts'[t] \in [DOMAIN attempts'[t] -> Entry]
    BY <1>5, <1>6, <1>9, <1>13
  <2> QED
    BY <1>5, <1>8, <2>1 DEF ThrottleTypeOK, Entries
<1>15. ASSUME NEW t \in Tables PROVE TableInv(t)'
  <2>1. TableInv(t)
    BY DEF ThrottleInv
  <2>2. CASE t # u
    BY <1>5, <2>1, <2>2 DEF TableInv
  <2>3. CASE t = u
    <3>1. IsFiniteSet(kept \cup {l}) /\ Cardinality(kept) \in Nat
          /\ (Cardinality(kept \cup {l}) = Cardinality(kept) \/ Cardinality(kept \cup {l}) = Cardinality(kept) + 1)
      BY <1>7, FS_AddElement, FS_CardinalityType
    <3>2. Cardinality(kept \cup {l}) <= MAX_THROTTLE_ENTRIES + 1
      BY <1>7, <3>1 DEF ThrottleLimits
    <3> QED
      BY <1>13, <2>3, <3>1, <3>2 DEF TableInv
  <2> QED
    BY <2>2, <2>3
<1>16. ASSUME NEW t \in Tables, NEW k \in Keys
       PROVE  KeyInv(t, k)'
  <2>1. CASE t = u /\ k = l
    <3> DEFINE r == Cardinality(Refused(requests, t, k))
               r2 == Cardinality(Refused(requests', t, k))
               a == Cardinality(Admitted(requests, t, k))
               a2 == Cardinality(Admitted(requests', t, k))
               n == Cardinality(Calls)
    <3>1. r2 = r - 1 /\ a2 = a - 1
      <4>1. /\ requests[c].pc = "record" /\ requests[c].pc \in {"token", "record"}
            /\ requests[c].table = t /\ requests[c].key = k
            /\ x.pc \in {"idle", "clear"} /\ GoesTo(c, x)
        BY <1>5, <2>1
      <4> QED
        BY <1>0, <4>1, AdmittedLeaves
    <3>2. r \in Nat /\ a \in Nat /\ r2 \in Nat /\ n \in Nat /\ a <= n
      BY AdmittedFinite
    <3>3. KeyInv(t, k)
      BY DEF ThrottleInv
    <3>4. k \in DOMAIN attempts'[t] /\ attempts'[t][k] = e
      BY <1>11, <1>13, <2>1
    <3>5. FailedAt(t, k)' = e.failed_attempts
      BY <3>4 DEF FailedAt
    <3>6. old.failed_attempts \in Nat
      BY <1>10 DEF Entry
    <3>7. CASE l \in kept
      <4>1. old.failed_attempts = FailedAt(t, k)
        BY <1>4, <1>6, <2>1, <3>7 DEF FailedAt
      <4>2. guesses'[t][k] = guesses[t][k] /\ guesses[t][k] \in Nat
        BY <1>0, <1>6, <1>8, <2>1, <3>7, ThrottleTypes
      <4>3. /\ guesses[t][k] <= FailedAt(t, k) + r
            /\ FailedAt(t, k) + a <= max_login_attempts + n - 1
        BY <3>3 DEF KeyInv
      <4> HIDE DEF r, r2, a, a2, n
      <4>4. guesses'[t][k] <= FailedAt(t, k)' + r2
        BY <1>12, <3>1, <3>2, <3>5, <3>6, <4>1, <4>2, <4>3
      <4>5. FailedAt(t, k)' + a2 <= max_login_attempts + n - 1
        BY <1>12, <3>1, <3>2, <3>5, <3>6, <4>1, <4>3
      <4> QED
        BY <1>12, <3>4, <4>4, <4>5 DEF KeyInv, r2, a2, n
    <3>8. CASE l \notin kept
      <4>1. old.failed_attempts = 0
        BY <1>4, <1>6, <3>8 DEF NewEntry
      <4>2. FailedAt(t, k)' = 1
        BY <1>12, <3>5, <4>1
      <4>3. guesses'[t][k] <= 1 + r2
        <5>1. CASE l \in gone
          BY <1>8, <2>1, <3>2, <5>1
        <5>2. CASE l \notin gone
          <6>1. FailedAt(t, k) = 0
            BY <1>6, <2>1, <3>8, <5>2 DEF FailedAt
          <6>2. guesses'[t][k] = guesses[t][k] /\ guesses[t][k] \in Nat
            BY <1>0, <1>8, <2>1, <5>2, ThrottleTypes
          <6>3. guesses[t][k] <= FailedAt(t, k) + r
            BY <3>3 DEF KeyInv
          <6> HIDE DEF r, r2
          <6> QED
            BY <3>1, <3>2, <6>1, <6>2, <6>3
        <5> QED
          BY <5>1, <5>2
      <4> HIDE DEF r, r2, a, a2, n
      <4>4. guesses'[t][k] <= FailedAt(t, k)' + r2
        BY <4>2, <4>3
      <4>5. FailedAt(t, k)' + a2 <= max_login_attempts + n - 1
        BY <3>1, <3>2, <4>2 DEF ThrottleLimits
      <4> QED
        BY <1>12, <3>4, <4>4, <4>5 DEF KeyInv, r2, a2, n
    <3> QED
      BY <3>7, <3>8
  <2>2. CASE t = u /\ k # l /\ k \in gone
    <3>1. k \notin DOMAIN attempts'[t] /\ guesses'[t][k] = 0
      BY <1>5, <1>8, <2>2
    <3> QED
      BY <3>1, KeyRestarts
  <2>3. CASE t # u \/ (k # l /\ k \notin gone)
    <3>1. /\ k \in DOMAIN attempts[t] <=> k \in DOMAIN attempts'[t]
          /\ k \in DOMAIN attempts[t] => attempts'[t][k] = attempts[t][k]
          /\ guesses'[t][k] = guesses[t][k]
      <4>1. CASE t # u
        BY <1>5, <1>8, <4>1
      <4>2. CASE t = u
        BY <1>6, <1>8, <1>13, <2>3, <4>2
      <4> QED
        BY <4>1, <4>2
    <3>2. requests[c].table # t \/ requests[c].key # k
      BY <1>5, <2>3
    <3>3. x.pc \notin {"token", "record"} /\ GoesTo(c, x)
      BY <1>5
    <3> QED
      BY <3>1, <3>2, <3>3, OthersStay DEF ThrottleLimits
  <2> QED
    BY <2>1, <2>2, <2>3
<1> QED
  BY <1>14, <1>15, <1>16 DEF ThrottleInv

LEMMA ThrottleStarts == ASSUME ThrottleLimits, ThrottleInit PROVE ThrottleInv
<1>1. /\ DOMAIN attempts = Tables
      /\ \A t \in Tables : DOMAIN attempts[t] = {} /\ attempts[t] \in [{} -> Entry]
      /\ requests = [c \in Calls |-> NoAttempt]
      /\ guesses = [t \in Tables |-> [k \in Keys |-> 0]]
  BY DEF ThrottleInit
<1>2. ThrottleTypeOK
  BY <1>1 DEF ThrottleTypeOK, Entries, Attempt
<1>3. \A t \in Tables : TableInv(t)
  <2>1. Cardinality({}) = 0 /\ IsFiniteSet({})
    BY FS_EmptySet
  <2> QED
    BY <1>1, <2>1 DEF TableInv, ThrottleLimits
<1>4. ASSUME NEW t \in Tables, NEW k \in Keys
      PROVE  KeyInv(t, k)
  <2>1. FailedAt(t, k) = 0 /\ guesses[t][k] = 0 /\ k \notin DOMAIN attempts[t]
    BY <1>1 DEF FailedAt
  <2> DEFINE r == Cardinality(Refused(requests, t, k))
             a == Cardinality(Admitted(requests, t, k))
             n == Cardinality(Calls)
  <2>2. r \in Nat /\ a \in Nat /\ n \in Nat /\ a <= n
    BY AdmittedFinite
  <2> HIDE DEF r, a, n
  <2>3. 0 <= 0 + r /\ 0 + a <= max_login_attempts + n - 1
    BY <2>2 DEF ThrottleLimits
  <2> QED
    BY <2>1, <2>3 DEF KeyInv, r, a, n
<1> QED
  BY <1>2, <1>3, <1>4 DEF ThrottleInv

LEMMA ThrottleKeeps ==
    ASSUME ThrottleLimits, ThrottleInv, [ThrottleNext]_throttleVars
    PROVE  ThrottleInv'
<1>1. CASE UNCHANGED throttleVars
  <2>1. attempts' = attempts /\ requests' = requests /\ guesses' = guesses
    BY <1>1 DEF throttleVars
  <2>2. ThrottleTypeOK'
    BY <2>1 DEF ThrottleInv, ThrottleTypeOK, Entries
  <2>3. \A t \in Tables : TableInv(t)'
    BY <2>1 DEF ThrottleInv, TableInv
  <2>4. \A t \in Tables, k \in Keys : KeyInv(t, k)'
    BY <2>1 DEF ThrottleInv, KeyInv, FailedAt
  <2> QED
    BY <2>2, <2>3, <2>4 DEF ThrottleInv
<1>2. CASE \E u \in Tables, l \in Keys : CooldownEnds(u, l)
  BY <1>2, CooldownKeeps
<1>3. ASSUME NEW c \in Calls, Step(c)
      PROVE  ThrottleInv'
  <2>1. CASE \E u \in Tables, slot \in Slots, peer \in Peers : Request(c, u, slot, peer)
    BY <2>1, RequestKeeps
  <2>2. CASE TokenAccepts(c)
    BY <2>2, AcceptsKeeps
  <2>3. CASE TokenRefuses(c)
    BY <2>3, RefusesKeeps
  <2>4. CASE Clear(c)
    BY <2>4, ClearKeeps
  <2>5. CASE Record(c)
    BY <2>5, RecordKeeps
  <2> QED
    BY <1>3, <2>1, <2>2, <2>3, <2>4, <2>5 DEF Step
<1> QED
  BY <1>1, <1>2, <1>3 DEF ThrottleNext

\* The invariant of the throttle, for any clients, tables and limits.
THEOREM ThrottleInvariant ==
    ThrottleSpec => []ThrottleInv
<1> USE LimitsHold
<1>1. ThrottleInit => ThrottleInv
  BY ThrottleStarts
<1>2. ThrottleInv /\ [ThrottleNext]_throttleVars => ThrottleInv'
  BY ThrottleKeeps
<1> QED
  BY <1>1, <1>2, PTL DEF ThrottleSpec

\* However many requests race between check_login_throttle and
\* record_login_failure, a client gets at most max_login_attempts guesses and
\* one for each further request in flight, and the tables stay bounded.
THEOREM GuessesBounded ==
    ThrottleSpec => []ThrottleBounds
<1> USE LimitsHold
<1>1. ASSUME ThrottleInv PROVE ThrottleBounds
  <2>1. ThrottleTypeOK
    BY <1>1 DEF ThrottleInv
  <2>2. GuessesThrottled
    <3>1. ASSUME NEW t \in Tables, NEW k \in Keys
          PROVE  guesses[t][k] <= max_login_attempts + Cardinality(Calls) - 1
      <4> DEFINE r == Cardinality(Refused(requests, t, k))
                 a == Cardinality(Admitted(requests, t, k))
                 n == Cardinality(Calls)
      <4>1. guesses[t][k] <= FailedAt(t, k) + r /\ FailedAt(t, k) + a <= max_login_attempts + n - 1
        BY <1>1 DEF ThrottleInv, KeyInv
      <4>2. r \in Nat /\ a \in Nat /\ n \in Nat /\ r <= a
        <5>1. Refused(requests, t, k) \in SUBSET Admitted(requests, t, k)
              /\ Admitted(requests, t, k) \in SUBSET Calls
          BY DEF Refused, Admitted
        <5>2. IsFiniteSet(Admitted(requests, t, k))
          BY <5>1, CallsAssumption, FS_Subset
        <5>3. r <= a
          BY <5>1, <5>2, FS_Subset
        <5> QED
          BY <5>3, AdmittedFinite
      <4>3. guesses[t][k] \in Nat /\ FailedAt(t, k) \in Nat
        BY <2>1, ThrottleTypes
      <4> HIDE DEF r, a, n
      <4>4. guesses[t][k] <= max_login_attempts + n - 1
        BY <4>1, <4>2, <4>3 DEF ThrottleLimits
      <4> QED
        BY <4>4 DEF n
    <3> QED
      BY <3>1 DEF GuessesThrottled
  <2>3. TablesBounded
    BY <1>1 DEF ThrottleInv, TableInv, TablesBounded, Entries
  <2> QED
    BY <2>1, <2>2, <2>3 DEF ThrottleBounds
<1> QED
  BY <1>1, ThrottleInvariant, PTL

\* A running lockout ends by its cooldown, by an accepted PIN of the same
\* client, or in a full table where no entry that stays has fewer failed
\* attempts: evict_expired_throttle_entries makes room before the new entry
\* goes in, so it never has to choose among more than one entry too many.
THEOREM LockoutsHold ==
    ThrottleSpec => LockoutHolds
<1> USE LimitsHold
<1> DEFINE Ends(t, k) ==
              Running(t, k) /\ k \notin DOMAIN attempts'[t] =>
                \/ \E c \in Calls : /\ requests[c] = [pc |-> "clear", table |-> t, key |-> k]
                                   /\ requests'[c].pc = "idle"
                \/ /\ Cardinality(Entries(t)) > MAX_THROTTLE_ENTRIES
                   /\ \A l \in Entries(t) : l \in DOMAIN attempts'[t] =>
                        attempts[t][k].failed_attempts <= attempts[t][l].failed_attempts
<1>1. ASSUME ThrottleInv, ThrottleNext, NEW t \in Tables, NEW k \in Keys
      PROVE  Ends(t, k)
  <2>0. ThrottleTypeOK
    BY <1>1 DEF ThrottleInv
  <2>1. ASSUME Running(t, k)
        PROVE  k \in DOMAIN attempts[t] /\ attempts[t][k].lockout = "running"
    BY <2>1 DEF Running, Entries
  <2>2. ASSUME Entries(t) \subseteq DOMAIN attempts'[t]
        PROVE  Ends(t, k)
    BY <2>1, <2>2 DEF Entries
  <2>3. ASSUME NEW u \in Tables, NEW l \in Keys, CooldownEnds(u, l)
        PROVE  Entries(t) \subseteq DOMAIN attempts'[t]
    BY <2>0, <2>3 DEF CooldownEnds, Entries, ThrottleTypeOK
  <2>4. ASSUME NEW c \in Calls, NEW u \in Tables, NEW slot \in Slots, NEW peer \in Peers,
               Request(c, u, slot, peer)
        PROVE  Entries(t) \subseteq DOMAIN attempts'[t]
    BY <2>0, <2>4 DEF Request, Entries, ThrottleTypeOK
  <2>5. ASSUME NEW c \in Calls, TokenAccepts(c) \/ TokenRefuses(c)
        PROVE  Entries(t) \subseteq DOMAIN attempts'[t]
    BY <2>5 DEF TokenAccepts, TokenRefuses, Entries
  <2>6. ASSUME NEW c \in Calls, Clear(c)
        PROVE  Ends(t, k)
    <3>1. requests[c] \in Attempt /\ requests[c].pc = "clear" /\ AttemptReturns(c)
      BY <2>0, <2>6 DEF Clear, ThrottleTypeOK
    <3>2. PICK u \in Tables, l \in Keys :
             u = requests[c].table /\ l = requests[c].key
             /\ requests[c] = [pc |-> "clear", table |-> u, key |-> l]
      BY <3>1 DEF Attempt, NoAttempt
    <3>3. requests'[c].pc = "idle"
      BY <2>0, <3>1, EndsIdle
    <3>4. attempts' = [attempts EXCEPT ![u] = Without(attempts[u], {l})]
      BY <2>6, <3>2 DEF Clear
    <3>5. CASE t = u /\ k = l
      BY <3>2, <3>3, <3>5
    <3>6. CASE t # u \/ k # l
      <4>1. k \in DOMAIN attempts[t] => k \in DOMAIN attempts'[t]
        BY <2>0, <3>4, <3>6 DEF ThrottleTypeOK, Without, Restrict
      <4> QED
        BY <2>1, <4>1
    <3> QED
      BY <3>5, <3>6
  <2>7. ASSUME NEW c \in Calls, Record(c)
        PROVE  Ends(t, k)
    <3>1. PICK u, l, x, ks, gone, old : Recorded(c, u, l, x, ks, gone, old)
      BY <2>0, <2>7, RecordEffect, Zenon
    <3>2. /\ u \in Tables /\ ks \in Surplus(attempts[u])
          /\ gone = Expired(attempts[u]) \cup ks
          /\ \A v \in Tables : v # u => attempts'[v] = attempts[v]
          /\ DOMAIN attempts'[u] = (DOMAIN attempts[u] \ gone) \cup {l}
      BY <3>1 DEF Recorded
    <3>3. CASE t # u
      BY <2>2, <3>2, <3>3 DEF Entries
    <3>4. CASE t = u
      <4>1. SUFFICES ASSUME Running(t, k), k \notin DOMAIN attempts'[t]
                     PROVE  /\ Cardinality(Entries(t)) > MAX_THROTTLE_ENTRIES
                            /\ \A m \in Entries(t) : m \in DOMAIN attempts'[t] =>
                                 attempts[t][k].failed_attempts <= attempts[t][m].failed_attempts
        OBVIOUS
      <4>2. k \in DOMAIN attempts[t] /\ attempts[t][k].lockout = "running"
        BY <2>1, <4>1
      <4>3. k \notin Expired(attempts[t])
        BY <4>2 DEF Expired
      <4>4. k \in ks
        BY <3>2, <3>4, <4>1, <4>2, <4>3
      <4>5. TableInv(u)
        BY <1>1, <3>2 DEF ThrottleInv
      <4>6. /\ ks # {} => /\ Cardinality(DOMAIN attempts[u]) > MAX_THROTTLE_ENTRIES
                          /\ Expired(attempts[u]) = {} /\ \E j : ks = {j}
            /\ \A j \in ks : \A m \in (DOMAIN attempts[u] \ Expired(attempts[u])) \ ks :
                  attempts[u][j].failed_attempts <= attempts[u][m].failed_attempts
        BY <3>2, <4>5, SurplusFacts, Zenon
      <4>7. /\ Cardinality(DOMAIN attempts[u]) > MAX_THROTTLE_ENTRIES
            /\ Expired(attempts[u]) = {} /\ ks = {k}
        BY <4>4, <4>6
      <4>8. ASSUME NEW m \in DOMAIN attempts[t], m \in DOMAIN attempts'[t]
            PROVE  attempts[t][k].failed_attempts <= attempts[t][m].failed_attempts
        <5>1. m # k
          BY <4>1, <4>8
        <5>2. m \in (DOMAIN attempts[u] \ Expired(attempts[u])) \ ks
          BY <3>4, <4>7, <4>8, <5>1
        <5> QED
          BY <3>4, <4>4, <4>6, <5>2
      <4> QED
        BY <3>4, <4>7, <4>8 DEF Entries
    <3> QED
      BY <3>3, <3>4
  <2> HIDE DEF Ends
  <2>8. ASSUME NEW c \in Calls, Step(c) PROVE Ends(t, k)
    BY <2>2, <2>4, <2>5, <2>6, <2>7, <2>8 DEF Step
  <2> QED
    BY <1>1, <2>2, <2>3, <2>8 DEF ThrottleNext
<1>2. ThrottleInv /\ [ThrottleNext]_throttleVars
        => [\A t \in Tables, k \in Keys : Ends(t, k)]_throttleVars
  <2> HIDE DEF Ends
  <2> QED
    BY <1>1
<1> QED
  BY <1>2, ThrottleInvariant, PTL DEF ThrottleSpec, LockoutHolds
=============================================================================

------------------------- MODULE ObjectStoreProofs --------------------------
(***************************************************************************)
(* Proofs about ObjectStore, for any threads, handles, templates, limits,  *)
(* crashes and failing transactions.                                       *)
(***************************************************************************)
EXTENDS ObjectStore, SequenceTheorems, TLAPS

-----------------------------------------------------------------------------
(* The inductive invariant *)

\* What a call has in hand at each place.
PlaceOk(c) ==
    /\ c.pc \in {"limit", "persist", "write", "insert", "load_map", "load_insert"}
         => c.queue # <<>>
    /\ c.pc \in {"remove", "unpersist", "delete", "unmap", "unmap_failed"}
         => c.handle \in Handles
    /\ c.pc \in {"write", "delete", "load_map"} => c.key \in StoreKeys
    /\ c.pc = "sweep" => c.todo \subseteq Handles
    /\ c.pc \in {"load", "load_map", "load_insert"} => c.todo \subseteq StoreKeys

\* The places at which a call holds persist_key.
Locked == {"write", "load", "load_map", "load_insert"}

\* An encryption finds a key behind the mutex.
LockInv ==
    \A t \in Threads :
        /\ call[t].pc \in Locked => keyLock = t
        /\ call[t].pc = "write" => persistKey # 0

\* An object that lets no protected key out; its key was issued.
SoundIn(o, secret, given) ==
    /\ o.material \in secret => IsProtected(o)
    /\ o.material \in given \cup {NoMaterial}
    /\ o.parts \notin secret /\ o.parts \in given \cup {NoMaterial}

Sound(o) == SoundIn(o, protected, issued)

\* All objects: in the map, on disk, and in the hands of calls.
SoundInv ==
    /\ \A h \in Handles : mem[h] # NoObject => Sound(mem[h])
    /\ \A k \in StoreKeys : disk[k] # NoObject => Sound(disk[k].object)
    /\ \A t \in Threads : \A i \in DOMAIN call[t].queue : Sound(call[t].queue[i])

\* A fresh handle is a key that is neither protected nor out.
GhostInv ==
    /\ protected \subseteq issued /\ exported \subseteq issued
    /\ protected \cap exported = {}

ObjectInv ==
    /\ TypeOK
    /\ \A t \in Threads : PlaceOk(call[t])
    /\ LockInv
    /\ SoundInv
    /\ GhostInv


-----------------------------------------------------------------------------
(* The operators *)

\* A template gives flags only.
LEMMA ApplyType ==
    ASSUME NEW f \in [Flags -> BOOLEAN], NEW template \in Templates, NEW honoured
    PROVE  Apply(f, template, honoured) \in [Flags -> BOOLEAN]
<1>1. ASSUME NEW x \in Flags
      PROVE  (IF x \in honoured \cap DOMAIN template THEN template[x] ELSE f[x]) \in BOOLEAN
  <2>1. template \in [DOMAIN template -> BOOLEAN]
    BY TemplateAssumption
  <2> QED
    BY <2>1
<1> QED
  BY <1>1 DEF Apply

LEMMA NewFlagsType == NewFlags \in [Flags -> BOOLEAN]
BY DEF NewFlags

\* Objects as the creating calls build them.
LEMMA NewObjectType ==
    ASSUME NEW h \in Handles, NEW m \in Handles \cup {NoMaterial},
           NEW f \in [Flags -> BOOLEAN], NEW p \in [start : Days, end : Days]
    PROVE  /\ NewObject(h, m, f, p) \in Object
           /\ NewObject(h, m, f, p).handle = h
           /\ NewObject(h, m, f, p).material = m
           /\ NewObject(h, m, f, p).parts = NoMaterial
           /\ NewObject(h, m, f, p).flags = f
<1>1. (CHOOSE l \in Labels : TRUE) \in Labels
  BY LabelAssumption
<1> QED
  BY <1>1 DEF NewObject, Object, Lifecycle

\* An object with another lifecycle state, label, or handle and flags.
LEMMA ObjectWith ==
    ASSUME NEW o \in Object, NEW s \in Lifecycle, NEW l \in Labels,
           NEW h \in Handles, NEW f \in [Flags -> BOOLEAN]
    PROVE  /\ [o EXCEPT !.state = s] \in Object
           /\ [o EXCEPT !.label = l] \in Object
           /\ [o EXCEPT !.handle = h, !.flags = f] \in Object
BY DEF Object

LEMMA DateStateType ==
    ASSUME NEW o PROVE DateState(o) \in Lifecycle
BY DEF DateState, Lifecycle

\* The latches: what is protected stays protected under any template.
LEMMA LatchedKeeps ==
    ASSUME NEW f \in [Flags -> BOOLEAN], NEW template \in Templates, Latched(f, template),
           f["sensitive"], ~f["extractable"], NEW honoured
    PROVE  /\ Apply(f, template, honoured)["sensitive"]
           /\ ~Apply(f, template, honoured)["extractable"]
<1>1. template \in [DOMAIN template -> BOOLEAN]
  BY TemplateAssumption
<1>2. "sensitive" \in Flags /\ "extractable" \in Flags
  BY DEF Flags
<1>3. "sensitive" \in DOMAIN template => template["sensitive"]
  BY <1>1 DEF Latched, Asks
<1>4. "extractable" \in DOMAIN template => ~template["extractable"]
  BY <1>1 DEF Latched, Asks
<1> QED
  BY <1>2, <1>3, <1>4 DEF Apply

\* A call that begins, or moves on.
LEMMA IdleType == Idle \in Call /\ PlaceOk(Idle) /\ Idle.queue = <<>> /\ Idle.pc = "idle"
<1>1. <<>> \in Seq(Object)
  OBVIOUS
<1> QED
  BY <1>1 DEF Idle, Call, PC, PlaceOk

LEMMA CreatingType ==
    ASSUME NEW objects \in Seq(Object), objects # <<>>
    PROVE  /\ Creating(objects) \in Call /\ PlaceOk(Creating(objects))
           /\ Creating(objects).queue = objects /\ Creating(objects).pc = "limit"
BY DEF Creating, Idle, Call, PC, PlaceOk

LEMMA GotoType ==
    ASSUME NEW c \in Call, NEW p \in PC
    PROVE  /\ [c EXCEPT !.pc = p] \in Call
           /\ [c EXCEPT !.pc = p].pc = p /\ [c EXCEPT !.pc = p].queue = c.queue
           /\ [c EXCEPT !.pc = p].key = c.key /\ [c EXCEPT !.pc = p].handle = c.handle
           /\ [c EXCEPT !.pc = p].todo = c.todo /\ [c EXCEPT !.pc = p].op = c.op
BY DEF Call

\* The first object of a call, and the rest.
LEMMA QueueFacts ==
    ASSUME NEW q \in Seq(Object), q # <<>>
    PROVE  /\ Head(q) \in Object /\ Tail(q) \in Seq(Object)
           /\ 1 \in DOMAIN q /\ Head(q) = q[1]
           /\ \A i \in DOMAIN Tail(q) : i + 1 \in DOMAIN q /\ Tail(q)[i] = q[i + 1]
           /\ Len(q) # 1 => Tail(q) # <<>>
<1>1. Len(q) \in Nat /\ Len(q) # 0 /\ DOMAIN q = 1 .. Len(q)
  BY EmptySeq
<1>2. Head(q) \in Object /\ Tail(q) \in Seq(Object) /\ Head(q) = q[1] /\ 1 \in DOMAIN q
  BY <1>1
<1>3. Len(Tail(q)) = Len(q) - 1 /\ \A i \in 1 .. Len(Tail(q)) : Tail(q)[i] = q[i + 1]
  BY HeadTailProperties
<1>4. DOMAIN Tail(q) = 1 .. (Len(q) - 1)
  BY <1>2, <1>3
<1>5. ASSUME NEW i \in DOMAIN Tail(q) PROVE i + 1 \in DOMAIN q /\ Tail(q)[i] = q[i + 1]
  BY <1>1, <1>3, <1>4
<1>6. Len(q) # 1 => Tail(q) # <<>>
  <2>1. Len(q) # 1 => Len(Tail(q)) # 0
    BY <1>1, <1>3
  <2> QED
    BY <2>1, EmptySeq, Zenon
<1> QED
  BY <1>2, <1>5, <1>6

-----------------------------------------------------------------------------
(* A step of one thread *)

\* The types of everything but the calls.
StoreTypes ==
    /\ mem \in [Handles -> Object \cup {NoObject}]
    /\ disk \in [StoreKeys -> Record \cup {NoObject}]
    /\ storeKey \in [Handles -> StoreKeys \cup {NoKey}]
    /\ persistKey \in 0 .. MaxEpoch
    /\ keyLock \in Threads \cup {NoThread}
    /\ loggedIn \in BOOLEAN
    /\ epoch \in 1 .. MaxEpoch
    /\ today \in 1 .. MaxDay
    /\ issued \subseteq Handles
    /\ protected \subseteq Handles
    /\ exported \subseteq Handles
    /\ past \subseteq Handles
    /\ gone \subseteq Handles

LEMMA TypeSplit == TypeOK <=> StoreTypes /\ call \in [Threads -> Call]
BY DEF TypeOK, StoreTypes

\* How a step that leads thread t to c may move the mutex and its key.
LockMoves(t, c) ==
    /\ \/ keyLock' = keyLock
       \/ keyLock = NoThread /\ keyLock' = t
       \/ keyLock = t /\ keyLock' = NoThread
    /\ persistKey' = persistKey \/ keyLock = NoThread
    /\ c.pc \in Locked => keyLock' = t
    /\ c.pc = "write" => persistKey' # 0

\* The object is sound after the step.
SoundNext(o) == SoundIn(o, protected', issued')

\* The objects after a step are those before it or new sound ones.
ObjectsFrom(c) ==
    /\ \A h \in Handles : mem'[h] = mem[h] \/ mem'[h] = NoObject \/ SoundNext(mem'[h])
    /\ \A k \in StoreKeys : disk'[k] = disk[k] \/ disk'[k] = NoObject \/ SoundNext(disk'[k].object)
    /\ \A i \in DOMAIN c.queue : SoundNext(c.queue[i])

\* Sound objects stay sound.
SoundStays == \A o : Sound(o) => SoundNext(o)

LEMMA StepKeeps ==
    ASSUME ObjectInv, NEW t \in Threads, NEW c \in Call, Become(t, c), PlaceOk(c),
           StoreTypes', LockMoves(t, c), SoundStays, ObjectsFrom(c), GhostInv'
    PROVE  ObjectInv'
<1> USE DEF ObjectInv
<1>1. call \in [Threads -> Call] /\ call' = [call EXCEPT ![t] = c]
  BY DEF TypeOK, Become
<1>2. call' \in [Threads -> Call] /\ call'[t] = c /\ \A u \in Threads \ {t} : call'[u] = call[u]
  BY <1>1
<1>3. TypeOK'
  BY <1>2, TypeSplit DEF TypeOK, StoreTypes
<1>4. \A u \in Threads : PlaceOk(call'[u])
  BY <1>2
<1>5. LockInv'
  <2>1. SUFFICES ASSUME NEW u \in Threads
                 PROVE  /\ call'[u].pc \in Locked => keyLock' = u
                        /\ call'[u].pc = "write" => persistKey' # 0
    BY DEF LockInv
  <2>2. CASE u = t
    BY <1>2, <2>2 DEF LockMoves
  <2>3. CASE u # t
    <3>1. call'[u] = call[u] /\ keyLock \in Threads \cup {NoThread}
      BY <1>2, <2>3 DEF TypeOK
    <3>2. call[u].pc \in Locked => keyLock = u /\ keyLock' = u /\ persistKey' = persistKey
      BY <2>3, ThreadAssumption DEF LockInv, LockMoves
    <3>3. call[u].pc = "write" => call[u].pc \in Locked /\ persistKey # 0
      BY DEF LockInv, Locked
    <3> QED
      BY <3>1, <3>2, <3>3
  <2> QED
    BY <2>2, <2>3
<1>6. SoundInv'
  <2>1. ASSUME NEW h \in Handles, mem'[h] # NoObject PROVE SoundNext(mem'[h])
    BY <2>1 DEF ObjectsFrom, SoundInv, SoundStays
  <2>2. ASSUME NEW k \in StoreKeys, disk'[k] # NoObject PROVE SoundNext(disk'[k].object)
    BY <2>2 DEF ObjectsFrom, SoundInv, SoundStays
  <2>3. ASSUME NEW u \in Threads, NEW i \in DOMAIN call'[u].queue PROVE SoundNext(call'[u].queue[i])
    BY <1>2, <2>3 DEF ObjectsFrom, SoundInv, SoundStays
  <2> QED
    BY <2>1, <2>2, <2>3 DEF SoundInv, Sound, SoundNext
<1> QED
  BY <1>3, <1>4, <1>5, <1>6

\* What holds when neither issued handles nor histories change.
LEMMA HistoryStays ==
    ASSUME GhostInv, UNCHANGED <<issued, protected, exported>>
    PROVE  SoundStays /\ GhostInv'
BY DEF SoundStays, Sound, SoundNext, GhostInv

\* The queue of a call is sound, and stays so.
LEMMA QueueStays ==
    ASSUME ObjectInv, NEW t \in Threads, SoundStays,
           NEW i \in DOMAIN call[t].queue
    PROVE  SoundNext(call[t].queue[i])
<1>1. Sound(call[t].queue[i])
  BY DEF ObjectInv, SoundInv
<1> QED
  BY <1>1 DEF SoundStays

-----------------------------------------------------------------------------
(* Calls that make objects *)

\* New objects with fresh handles of their own, and fresh keys or none.
FreshObjects(objects) ==
    /\ objects \in Seq(Object) /\ objects # <<>>
    /\ \A i \in DOMAIN objects : /\ objects[i].handle \in Fresh
                                  /\ objects[i].material \in {objects[i].handle, NoMaterial}
                                  /\ objects[i].parts \in {objects[i].handle, NoMaterial}
    /\ \A i, j \in DOMAIN objects : objects[i].handle = objects[j].handle => i = j

\* New handles go to objects whose key is fresh or none: whatever was sound
\* stays so.
LEMMA MakeKeeps ==
    ASSUME ObjectInv, NEW t \in Threads, call[t].pc = "idle",
           NEW objects, FreshObjects(objects), Make(t, objects)
    PROVE  ObjectInv'
<1> USE DEF ObjectInv, FreshObjects
<1>1. PICK new : new = {objects[i].handle : i \in DOMAIN objects}
  OBVIOUS
<1>2. PICK secret : secret = {objects[i].handle : i \in {j \in DOMAIN objects :
                        /\ objects[j].material = objects[j].handle /\ IsProtected(objects[j])
                        /\ objects[j].parts = NoMaterial}}
  OBVIOUS
<1>3. issued' = issued \cup new /\ protected' = protected \cup secret
  BY <1>1, <1>2 DEF Make
<1>4. new \subseteq Handles \ issued /\ secret \subseteq new
  BY <1>1, <1>2 DEF Fresh
<1>5. UNCHANGED <<mem, disk, storeKey, place, exported, past, gone>> /\ Become(t, Creating(objects))
  BY DEF Make
<1>6. StoreTypes'
  BY <1>3, <1>4, <1>5 DEF TypeOK, StoreTypes, place
<1>7. SoundStays
  <2>1. SUFFICES ASSUME NEW o, Sound(o) PROVE SoundNext(o)
    BY DEF SoundStays
  <2>2. o.material \notin secret /\ o.parts \notin secret
    BY <1>4, <2>1, NoMaterialAssumption DEF Sound, SoundIn
  <2> QED
    BY <1>3, <2>1, <2>2 DEF Sound, SoundNext, SoundIn
<1>8. GhostInv'
  BY <1>3, <1>4, <1>5 DEF GhostInv
<1>9. ASSUME NEW i \in DOMAIN objects PROVE SoundNext(objects[i])
  <2>1. objects[i].handle \in new /\ objects[i].handle \notin issued
    BY <1>1 DEF Fresh
  <2>2. objects[i].material \in issued' \cup {NoMaterial}
    BY <1>3, <2>1
  <2>3. ASSUME objects[i].material \in protected' PROVE IsProtected(objects[i])
    <3>1. objects[i].material # NoMaterial
      BY <1>3, <1>4, <2>3, NoMaterialAssumption DEF GhostInv, TypeOK
    <3>2. objects[i].material = objects[i].handle /\ objects[i].handle \in secret
      BY <1>3, <2>1, <2>3, <3>1 DEF GhostInv
    <3>3. PICK j \in DOMAIN objects : /\ objects[j].handle = objects[i].handle
                                      /\ objects[j].material = objects[j].handle
                                      /\ IsProtected(objects[j])
      BY <1>2, <3>2
    <3> QED
      BY <3>3
  <2>4. objects[i].parts \in issued' \cup {NoMaterial}
    BY <1>3, <2>1
  <2>5. ASSUME objects[i].parts \in protected' PROVE FALSE
    <3>1. objects[i].parts # NoMaterial
      BY <1>3, <1>4, <2>5, NoMaterialAssumption DEF GhostInv, TypeOK
    <3>2. objects[i].parts = objects[i].handle /\ objects[i].handle \in secret
      BY <1>3, <2>1, <2>5, <3>1 DEF GhostInv
    <3>3. PICK j \in DOMAIN objects : /\ objects[j].handle = objects[i].handle
                                      /\ objects[j].parts = NoMaterial
      BY <1>2, <3>2
    <3> QED
      BY <3>1, <3>3
  <2> QED
    BY <2>2, <2>3, <2>4, <2>5 DEF SoundNext, SoundIn
<1> HIDE DEF ObjectInv
<1>10. PICK c \in Call : c = Creating(objects) /\ PlaceOk(c) /\ c.queue = objects /\ c.pc = "limit"
  BY CreatingType
<1>11. LockMoves(t, c)
  BY <1>5, <1>10 DEF LockMoves, Locked, place
<1>12. ObjectsFrom(c)
  BY <1>5, <1>9, <1>10 DEF ObjectsFrom
<1> QED
  BY <1>5, <1>6, <1>7, <1>8, <1>10, <1>11, <1>12, StepKeeps

\* A new object of a key that exists: it must be as closed as the key demands.
LEMMA RemakeKeeps ==
    ASSUME ObjectInv, NEW t \in Threads, call[t].pc = "idle",
           NEW o \in Object, Remake(t, o), Sound(o)
    PROVE  ObjectInv'
<1> USE DEF ObjectInv
<1>1. /\ issued' = issued \cup {o.handle} /\ Become(t, Creating(<<o>>))
      /\ UNCHANGED <<mem, disk, storeKey, place, ghosts>> /\ o.handle \in Handles
  BY DEF Remake, Object
<1>2. StoreTypes'
  BY <1>1 DEF TypeOK, StoreTypes, place, ghosts
<1>3. SoundStays
  BY <1>1 DEF SoundStays, Sound, SoundNext, SoundIn, ghosts
<1>4. GhostInv'
  BY <1>1 DEF GhostInv, ghosts
<1>5. SoundNext(o)
  BY <1>3 DEF SoundStays
<1> HIDE DEF ObjectInv
<1>6. <<o>> \in Seq(Object) /\ <<o>> # <<>> /\ \A i \in DOMAIN <<o>> : <<o>>[i] = o
  OBVIOUS
<1>7. PICK c \in Call : c = Creating(<<o>>) /\ PlaceOk(c) /\ c.queue = <<o>> /\ c.pc = "limit"
  BY <1>6, CreatingType
<1>8. LockMoves(t, c)
  BY <1>1, <1>7 DEF LockMoves, Locked, place
<1>9. ObjectsFrom(c)
  BY <1>1, <1>5, <1>6, <1>7 DEF ObjectsFrom
<1> QED
  BY <1>1, <1>2, <1>3, <1>4, <1>7, <1>8, <1>9, StepKeeps

\* One new object with a fresh key or none.
LEMMA MakeOne ==
    ASSUME NEW t \in Threads,
           NEW h \in Fresh, NEW m \in {h, NoMaterial}, NEW f \in [Flags -> BOOLEAN],
           NEW p \in [start : Days, end : Days], Make(t, <<NewObject(h, m, f, p)>>)
    PROVE  \E objects : FreshObjects(objects) /\ Make(t, objects)
<1>1. h \in Handles /\ m \in Handles \cup {NoMaterial}
  BY DEF Fresh
<1>2. PICK o \in Object : /\ o = NewObject(h, m, f, p) /\ o.handle = h /\ o.material = m
                          /\ o.parts = NoMaterial
  BY <1>1, NewObjectType
<1>3. PICK objects : objects = <<o>>
  OBVIOUS
<1>4. objects \in Seq(Object) /\ objects # <<>> /\ DOMAIN objects = {1} /\ objects[1] = o
  BY <1>3
<1>5. Make(t, objects)
  BY <1>2, <1>3
<1> QED
  BY <1>2, <1>4, <1>5 DEF FreshObjects

LEMMA CreateMakes ==
    ASSUME NEW t \in Threads,
           C_CreateObject(t) \/ C_GenerateKey(t) \/ C_DeriveKey(t)
    PROVE  \E objects : FreshObjects(objects) /\ Make(t, objects)
<1>1. CASE C_CreateObject(t)
  <2>1. PICK h \in Fresh, template \in Templates, period \in Periods,
             value \in BOOLEAN, components \in BOOLEAN :
          Make(t, <<WithParts(NewObject(h, IF value THEN h ELSE NoMaterial,
                                        Apply(NewFlags, template, Flags), period),
                              IF components THEN h ELSE NoMaterial)>>)
    BY <1>1 DEF C_CreateObject
  <2>2. PICK m \in {h, NoMaterial}, q \in {h, NoMaterial} :
          m = (IF value THEN h ELSE NoMaterial) /\ q = (IF components THEN h ELSE NoMaterial)
    OBVIOUS
  <2>3. PICK f \in [Flags -> BOOLEAN] : f = Apply(NewFlags, template, Flags)
    BY ApplyType, NewFlagsType
  <2>4. period \in [start : Days, end : Days]
    BY <1>1, PeriodAssumption
  <2>5. h \in Handles
    BY DEF Fresh
  <2>6. PICK n \in Object : n = NewObject(h, m, f, period) /\ n.handle = h /\ n.material = m
    BY <2>2, <2>3, <2>4, <2>5, NewObjectType
  <2>7. PICK o : o = WithParts(n, q)
    OBVIOUS
  <2>8. o \in Object /\ o.handle = h /\ o.material = m /\ o.parts = q
    BY <2>2, <2>5, <2>6, <2>7 DEF WithParts, Object
  <2>9. PICK objects : objects = <<o>>
    OBVIOUS
  <2>10. /\ objects \in Seq(Object) /\ objects # <<>> /\ DOMAIN objects = {1}
         /\ objects[1] = o
    BY <2>8, <2>9
  <2>11. Make(t, objects)
    BY <2>1, <2>2, <2>3, <2>6, <2>7, <2>9
  <2> QED
    BY <2>8, <2>10, <2>11 DEF FreshObjects
<1>2. CASE C_GenerateKey(t)
  <2>1. PICK h \in Fresh, template \in Templates, period \in Periods :
          Make(t, <<NewObject(h, h, Apply(NewFlags, template,
                    {"token", "private", "sensitive", "extractable", "wrap", "unwrap"}),
                    period)>>)
    BY <1>2 DEF C_GenerateKey
  <2>2. Apply(NewFlags, template,
              {"token", "private", "sensitive", "extractable", "wrap", "unwrap"})
          \in [Flags -> BOOLEAN]
    BY ApplyType, NewFlagsType
  <2>3. period \in [start : Days, end : Days]
    BY <1>2, PeriodAssumption
  <2> QED
    BY <2>1, <2>2, <2>3, MakeOne
<1>3. CASE C_DeriveKey(t)
  <2>1. PICK h \in Fresh, template \in Templates :
          Make(t, <<NewObject(h, h, Apply(NewFlags, template, {"token", "sensitive"}),
                              [start |-> 0, end |-> 0])>>)
    BY <1>3 DEF C_DeriveKey
  <2>2. Apply(NewFlags, template, {"token", "sensitive"}) \in [Flags -> BOOLEAN]
    BY ApplyType, NewFlagsType
  <2>3. [start |-> 0, end |-> 0] \in [start : Days, end : Days]
    BY <1>3, DayAssumption DEF C_DeriveKey, At, Days
  <2> QED
    BY <2>1, <2>2, <2>3, MakeOne
<1> QED
  BY <1>1, <1>2, <1>3

LEMMA PairMakes ==
    ASSUME NEW t \in Threads, C_GenerateKeyPair(t)
    PROVE  \E objects : FreshObjects(objects) /\ Make(t, objects)
<1>1. PICK pub \in Fresh, priv \in Fresh, pubT \in Templates, privT \in Templates,
           period \in Periods :
        /\ pub # priv
        /\ \E flags \in {generate_rsa_keypair(pubT, privT), generate_ec_keypair(pubT, privT),
                         generate_ed25519_keypair(pubT, privT)}
                        \cup {generate_pqc_keypair(kem, pubT, privT) : kem \in BOOLEAN} :
             Make(t, <<NewObject(pub, NoMaterial, flags[1], period),
                       NewObject(priv, priv, flags[2], period)>>)
  BY DEF C_GenerateKeyPair
<1>2. ASSUME NEW b \in BOOLEAN
      PROVE  /\ PublicFlags(pubT, b) \in [Flags -> BOOLEAN]
             /\ PrivateFlags(privT, b) \in [Flags -> BOOLEAN]
  <2>1. [NewFlags EXCEPT !["private"] = FALSE, !["sensitive"] = FALSE, !["derive"] = b]
          \in [Flags -> BOOLEAN]
    BY NewFlagsType
  <2>2. [NewFlags EXCEPT !["derive"] = b] \in [Flags -> BOOLEAN]
    BY NewFlagsType
  <2> QED
    BY <2>1, <2>2, ApplyType DEF PublicFlags, PrivateFlags
<1>3. PICK a \in BOOLEAN, b \in BOOLEAN :
        Make(t, <<NewObject(pub, NoMaterial, PublicFlags(pubT, a), period),
                  NewObject(priv, priv, PrivateFlags(privT, b), period)>>)
  <2>1. PICK flags : 
          /\ \E a, b \in BOOLEAN : flags = <<PublicFlags(pubT, a), PrivateFlags(privT, b)>>
          /\ Make(t, <<NewObject(pub, NoMaterial, flags[1], period),
                       NewObject(priv, priv, flags[2], period)>>)
    BY <1>1 DEF generate_rsa_keypair, generate_ec_keypair, generate_ed25519_keypair,
                generate_pqc_keypair
  <2>2. PICK a \in BOOLEAN, b \in BOOLEAN :
          flags = <<PublicFlags(pubT, a), PrivateFlags(privT, b)>>
    BY <2>1
  <2>3. flags[1] = PublicFlags(pubT, a) /\ flags[2] = PrivateFlags(privT, b)
    BY <2>2
  <2> QED
    BY <2>1, <2>3
<1>4. /\ period \in [start : Days, end : Days]
      /\ pub \in Handles /\ priv \in Handles
  BY PeriodAssumption DEF C_GenerateKeyPair, Fresh
<1>5. PICK o1 \in Object : /\ o1 = NewObject(pub, NoMaterial, PublicFlags(pubT, a), period)
                           /\ o1.handle = pub /\ o1.material = NoMaterial
                           /\ o1.parts = NoMaterial
  <2>1. PICK m \in Handles \cup {NoMaterial} : m = NoMaterial
    OBVIOUS
  <2>2. PICK f \in [Flags -> BOOLEAN] : f = PublicFlags(pubT, a)
    BY <1>2
  <2> QED
    BY <1>4, <2>1, <2>2, NewObjectType
<1>6. PICK o2 \in Object : /\ o2 = NewObject(priv, priv, PrivateFlags(privT, b), period)
                           /\ o2.handle = priv /\ o2.material = priv
                           /\ o2.parts = NoMaterial
  BY <1>2, <1>4, NewObjectType
<1>7. PICK objects : objects = <<o1, o2>>
  OBVIOUS
<1>8. /\ objects \in Seq(Object) /\ objects # <<>> /\ DOMAIN objects = {1, 2}
      /\ objects[1] = o1 /\ objects[2] = o2
  BY <1>7
<1>9. Make(t, objects)
  BY <1>3, <1>5, <1>6, <1>7
<1>10. pub # priv
  BY <1>1
<1> QED
  BY <1>4, <1>5, <1>6, <1>8, <1>9, <1>10 DEF FreshObjects

\* The calls that make keys.
LEMMA CreateKeeps ==
    ASSUME ObjectInv, NEW t \in Threads,
           C_CreateObject(t) \/ C_GenerateKey(t) \/ C_DeriveKey(t) \/ C_GenerateKeyPair(t)
    PROVE  ObjectInv'
<1>1. call[t].pc = "idle"
  BY DEF C_CreateObject, C_GenerateKey, C_DeriveKey, C_GenerateKeyPair, At
<1> QED
  BY <1>1, CreateMakes, PairMakes, MakeKeeps

\* The key in a blob has left, so it is not protected.
LEMMA UnwrapRemakes ==
    ASSUME ObjectInv, NEW t \in Threads, C_UnwrapKey(t)
    PROVE  \E o \in Object : Remake(t, o) /\ Sound(o) /\ o.handle \in Fresh
<1>1. PICK h \in Fresh, material \in exported, template \in Templates :
        Remake(t, NewObject(h, material, Apply(NewFlags, template, {"token", "sensitive"}),
                            [start |-> 0, end |-> 0]))
  BY DEF C_UnwrapKey
<1>2. /\ h \in Handles /\ material \in Handles /\ material \in issued
      /\ material \notin protected /\ call[t].pc = "idle"
  BY DEF C_UnwrapKey, At, Fresh, ObjectInv, TypeOK, GhostInv
<1>3. /\ Apply(NewFlags, template, {"token", "sensitive"}) \in [Flags -> BOOLEAN]
      /\ [start |-> 0, end |-> 0] \in [start : Days, end : Days]
  BY ApplyType, NewFlagsType, DayAssumption DEF Days
<1>4. PICK o \in Object :
        /\ o = NewObject(h, material, Apply(NewFlags, template, {"token", "sensitive"}),
                         [start |-> 0, end |-> 0])
        /\ o.material = material /\ o.handle = h /\ o.parts = NoMaterial
  BY <1>2, <1>3, NewObjectType
<1>5. Sound(o)
  BY <1>2, <1>4, NoMaterialAssumption DEF Sound, SoundIn, ObjectInv, TypeOK
<1> QED
  BY <1>1, <1>2, <1>4, <1>5

\* A copy of a protected key is protected, whatever the template asks.
LEMMA CopyRemakes ==
    ASSUME ObjectInv, NEW t \in Threads, C_CopyObject(t)
    PROVE  \E o \in Object : Remake(t, o) /\ Sound(o) /\ o.handle \in Fresh
<1>1. PICK source \in Present, h \in Fresh, template \in Templates :
        /\ Latched(mem[source].flags, template)
        /\ Remake(t, [mem[source] EXCEPT !.handle = h,
                         !.flags = Apply(mem[source].flags, template, Flags)])
  BY DEF C_CopyObject
<1>2. PICK s \in Object : s = mem[source] /\ Sound(s)
  BY DEF ObjectInv, TypeOK, SoundInv, Present
<1>3. h \in Handles /\ call[t].pc = "idle" /\ s.flags \in [Flags -> BOOLEAN]
  BY DEF C_CopyObject, At, Fresh, Object
<1>4. Apply(s.flags, template, Flags) \in [Flags -> BOOLEAN]
  BY <1>3, ApplyType
<1>5. PICK o : o = [s EXCEPT !.handle = h, !.flags = Apply(s.flags, template, Flags)]
  OBVIOUS
<1>6. /\ o \in Object /\ o.handle = h /\ o.material = s.material /\ o.parts = s.parts
      /\ o.flags = Apply(s.flags, template, Flags)
  BY <1>3, <1>4, <1>5 DEF Object
<1>7. IsProtected(s) => IsProtected(o)
  BY <1>1, <1>2, <1>3, <1>6, LatchedKeeps DEF IsProtected
<1>8. Sound(o)
  BY <1>2, <1>6, <1>7 DEF Sound, SoundIn
<1> QED
  BY <1>1, <1>2, <1>3, <1>5, <1>6, <1>8

LEMMA RemakesKeep ==
    ASSUME ObjectInv, NEW t \in Threads, C_UnwrapKey(t) \/ C_CopyObject(t)
    PROVE  ObjectInv'
<1>1. call[t].pc = "idle"
  BY DEF C_UnwrapKey, C_CopyObject, At
<1> QED
  BY <1>1, UnwrapRemakes, CopyRemakes, RemakeKeeps

-----------------------------------------------------------------------------
(* Steps that leave the objects where they are *)

\* A step that only moves a thread on, or returns.
LEMMA ControlKeeps ==
    ASSUME ObjectInv, NEW t \in Threads, NEW c \in Call, Become(t, c), PlaceOk(c),
           UNCHANGED <<mem, disk, today, issued, protected, exported, past>>,
           StoreTypes', LockMoves(t, c),
           \A i \in DOMAIN c.queue : Sound(c.queue[i])
    PROVE  ObjectInv'
<1>1. SoundStays /\ GhostInv'
  BY HistoryStays DEF ObjectInv
<1>2. ObjectsFrom(c)
  BY <1>1 DEF ObjectsFrom, SoundStays
<1> QED
  BY <1>1, <1>2, StepKeeps

\* The queue a thread has is sound.
LEMMA QueueSound ==
    ASSUME ObjectInv, NEW t \in Threads
    PROVE  /\ call[t] \in Call /\ PlaceOk(call[t]) /\ call[t].queue \in Seq(Object)
           /\ \A i \in DOMAIN call[t].queue : Sound(call[t].queue[i])
BY DEF ObjectInv, TypeOK, SoundInv, Call

\* The same, with nothing but the calls changing.
LEMMA OnlyCallKeeps ==
    ASSUME ObjectInv, NEW t \in Threads, NEW c \in Call, Become(t, c), PlaceOk(c),
           UNCHANGED <<mem, disk, storeKey, place, issued, ghosts>>,
           call[t].pc \notin Locked, c.pc \notin Locked,
           \A i \in DOMAIN c.queue : Sound(c.queue[i])
    PROVE  ObjectInv'
<1>1. StoreTypes'
  BY DEF ObjectInv, TypeOK, StoreTypes, place, ghosts
<1>2. LockMoves(t, c)
  BY DEF LockMoves, place, Locked
<1> QED
  BY <1>1, <1>2, ControlKeeps DEF place, ghosts

\* Returning is always possible, but at the places that hold the mutex.
LEMMA IdleFacts == Idle \in Call /\ PlaceOk(Idle) /\ Idle.pc \notin Locked /\ DOMAIN Idle.queue = {}
BY IdleType DEF Locked

\* Going on with what is in hand.
LEMMA GoesOn ==
    ASSUME ObjectInv, NEW t \in Threads, NEW p \in PC
    PROVE  \E c \in Call : /\ c = [call[t] EXCEPT !.pc = p] /\ c.pc = p
                           /\ c.queue = call[t].queue /\ c.todo = call[t].todo
                           /\ c.key = call[t].key /\ c.handle = call[t].handle
                           /\ \A i \in DOMAIN c.queue : Sound(c.queue[i])
<1>1. PICK c : c = [call[t] EXCEPT !.pc = p]
  OBVIOUS
<1>2. /\ c \in Call /\ c.pc = p /\ c.queue = call[t].queue /\ c.todo = call[t].todo
      /\ c.key = call[t].key /\ c.handle = call[t].handle
  BY <1>1, QueueSound, GotoType
<1> QED
  BY <1>1, <1>2, QueueSound

\* What follows persist_object.
LEMMA PersistedCall ==
    ASSUME ObjectInv, NEW t \in Threads, call[t].queue # <<>>, Persisted(t)
    PROVE  \E c \in Call : /\ Become(t, c) /\ PlaceOk(c) /\ c.pc \notin Locked
                           /\ \A i \in DOMAIN c.queue : Sound(c.queue[i])
<1>1. CASE call[t].op = "create"
  <2>1. PICK c \in Call : /\ c = [call[t] EXCEPT !.pc = "insert"] /\ c.pc = "insert"
                          /\ c.queue = call[t].queue
                          /\ \A i \in DOMAIN c.queue : Sound(c.queue[i])
    <3>1. PICK p \in PC : p = "insert"
      BY DEF PC
    <3>2. \E c \in Call : /\ c = [call[t] EXCEPT !.pc = p] /\ c.pc = p
                          /\ c.queue = call[t].queue
                          /\ \A i \in DOMAIN c.queue : Sound(c.queue[i])
      BY GoesOn
    <3> QED
      BY <3>1, <3>2
  <2>2. Become(t, c)
    BY <1>1, <2>1 DEF Persisted, Goto
  <2> QED
    BY <2>1, <2>2 DEF PlaceOk, Locked
<1>2. CASE call[t].op # "create" /\ Len(call[t].queue) = 1
  <2>1. Become(t, Idle)
    BY <1>2 DEF Persisted, Return
  <2> QED
    BY <2>1, IdleFacts
<1>3. CASE call[t].op # "create" /\ Len(call[t].queue) # 1
  <2>1. PICK c : c = [call[t] EXCEPT !.pc = "persist", !.queue = Tail(call[t].queue)]
    OBVIOUS
  <2>2. Become(t, c)
    BY <1>3, <2>1 DEF Persisted
  <2>3. PICK q \in Seq(Object) : q = call[t].queue
    BY QueueSound
  <2>4. /\ Tail(q) \in Seq(Object) /\ Tail(q) # <<>>
        /\ \A i \in DOMAIN Tail(q) : i + 1 \in DOMAIN q /\ Tail(q)[i] = q[i + 1]
    BY <1>3, <2>3, QueueFacts
  <2>5. c \in Call /\ c.pc = "persist" /\ c.queue = Tail(q)
    <3>1. PICK d \in Call : d = call[t]
      BY QueueSound
    <3>2. c = [d EXCEPT !.pc = "persist", !.queue = Tail(q)]
      BY <2>1, <2>3, <3>1
    <3> QED
      BY <2>4, <3>2 DEF Call, PC
  <2>6. \A i \in DOMAIN c.queue : Sound(c.queue[i])
    BY <2>3, <2>4, <2>5, QueueSound
  <2> QED
    BY <2>2, <2>4, <2>5, <2>6 DEF PlaceOk, Locked
<1> QED
  BY <1>1, <1>2, <1>3

LEMMA NothingKeeps ==
    ASSUME ObjectInv, NEW t \in Threads, NothingToPersist(t)
    PROVE  ObjectInv'
<1>1. /\ call[t].pc = "persist" /\ Persisted(t)
      /\ UNCHANGED <<mem, disk, storeKey, place, issued, ghosts>>
  BY DEF NothingToPersist, At
<1>2. call[t].queue # <<>>
  BY <1>1, QueueSound DEF PlaceOk
<1>3. PICK c \in Call : /\ Become(t, c) /\ PlaceOk(c) /\ c.pc \notin Locked
                        /\ \A i \in DOMAIN c.queue : Sound(c.queue[i])
  BY <1>1, <1>2, PersistedCall
<1>4. call[t].pc \notin Locked
  BY <1>1 DEF Locked
<1> QED
  BY <1>1, <1>3, <1>4, OnlyCallKeeps

\* Calls that begin or go on outside the mutex and change nothing else.
LEMMA BeginKeeps ==
    ASSUME ObjectInv, NEW t \in Threads,
           C_DestroyObject(t) \/ InsertBegins(t) \/ SweepBegins(t) \/ SweepPersists(t)
    PROVE  ObjectInv'
<1>1. /\ UNCHANGED <<mem, disk, storeKey, place, issued, ghosts>>
      /\ call[t].pc \in {"idle", "limit", "sweep"}
  BY DEF C_DestroyObject, InsertBegins, SweepBegins, SweepPersists, At
<1>2. call[t].pc \notin Locked
  BY <1>1 DEF Locked
<1>3. CASE Return(t)
  BY <1>1, <1>2, <1>3, IdleFacts, OnlyCallKeeps DEF Return
<1>4. CASE C_DestroyObject(t)
  <2>1. PICK h \in Handles : Become(t, [Idle EXCEPT !.pc = "remove", !.handle = h])
    BY <1>4 DEF C_DestroyObject, Present
  <2>2. PICK c : c = [Idle EXCEPT !.pc = "remove", !.handle = h]
    OBVIOUS
  <2>3. c \in Call /\ PlaceOk(c) /\ c.pc \notin Locked /\ DOMAIN c.queue = {}
    BY <2>2, IdleFacts DEF Call, PC, PlaceOk, Locked, Idle
  <2> QED
    BY <1>1, <1>2, <2>1, <2>2, <2>3, OnlyCallKeeps
<1>5. CASE SweepBegins(t)
  <2>1. PICK c : c = [Idle EXCEPT !.pc = "sweep", !.op = "sweep", !.todo = Present]
    OBVIOUS
  <2>2. Become(t, c)
    BY <1>5, <2>1 DEF SweepBegins
  <2>3. c \in Call /\ PlaceOk(c) /\ c.pc \notin Locked /\ DOMAIN c.queue = {}
    BY <2>1, IdleFacts DEF Call, PC, PlaceOk, Locked, Idle, Present
  <2> QED
    BY <1>1, <1>2, <2>2, <2>3, OnlyCallKeeps
<1>6. CASE (InsertBegins(t) \/ SweepPersists(t)) /\ ~Return(t)
  <2>1. Goto(t, "persist") /\ call[t].queue # <<>>
    <3>1. CASE InsertBegins(t)
      BY <1>6, <3>1, QueueSound DEF InsertBegins, At, PlaceOk
    <3>2. CASE SweepPersists(t)
      BY <1>6, <3>2 DEF SweepPersists
    <3> QED
      BY <1>6, <3>1, <3>2
  <2>2. PICK c \in Call : /\ c = [call[t] EXCEPT !.pc = "persist"] /\ c.pc = "persist"
                          /\ c.queue = call[t].queue
                          /\ \A i \in DOMAIN c.queue : Sound(c.queue[i])
    <3>1. PICK p \in PC : p = "persist"
      BY DEF PC
    <3>2. \E c \in Call : /\ c = [call[t] EXCEPT !.pc = p] /\ c.pc = p
                          /\ c.queue = call[t].queue
                          /\ \A i \in DOMAIN c.queue : Sound(c.queue[i])
      BY GoesOn
    <3> QED
      BY <3>1, <3>2
  <2>3. Become(t, c) /\ PlaceOk(c) /\ c.pc \notin Locked
    BY <2>1, <2>2 DEF Goto, PlaceOk, Locked
  <2> QED
    BY <1>1, <1>2, <2>2, <2>3, OnlyCallKeeps
<1> QED
  BY <1>3, <1>4, <1>5, <1>6

-----------------------------------------------------------------------------
(* Steps that move keys, the mutex and the map of store keys *)

LEMMA StoreKeyType ==
    ASSUME ObjectInv, NEW h \in Handles, NEW k \in get_store_key(h)
    PROVE  k \in StoreKeys
BY DEF ObjectInv, TypeOK, get_store_key, FreeKeys

\* persist_object takes the mutex and finds a key behind it.
LEMMA PersistLocksKeeps ==
    ASSUME ObjectInv, NEW t \in Threads, PersistLocks(t)
    PROVE  ObjectInv'
<1>1. /\ call[t].pc = "persist" /\ keyLock = NoThread /\ persistKey # 0 /\ keyLock' = t
      /\ UNCHANGED <<mem, disk, persistKey, loggedIn, epoch, today, issued, ghosts>>
  BY DEF PersistLocks, At
<1>2. call[t].queue # <<>>
  BY <1>1, QueueSound DEF PlaceOk
<1>3. PICK h \in Handles : h = Head(call[t].queue).handle
  BY <1>2, QueueSound, QueueFacts DEF Object
<1>4. PICK k \in get_store_key(h) :
        /\ storeKey' = [storeKey EXCEPT ![h] = k]
        /\ Become(t, [call[t] EXCEPT !.pc = "write", !.key = k])
  BY <1>3 DEF PersistLocks
<1>5. k \in StoreKeys
  BY StoreKeyType
<1>6. PICK d \in Call : d = call[t]
  BY QueueSound
<1>7. PICK c : c = [d EXCEPT !.pc = "write", !.key = k]
  OBVIOUS
<1>8. c \in Call /\ c.pc = "write" /\ c.key = k /\ c.queue = d.queue
  BY <1>5, <1>7 DEF Call, PC
<1>9. PlaceOk(c) /\ Become(t, c) /\ \A i \in DOMAIN c.queue : Sound(c.queue[i])
  BY <1>2, <1>4, <1>5, <1>6, <1>7, <1>8, QueueSound DEF PlaceOk
<1>10. StoreTypes'
  BY <1>1, <1>4, <1>5 DEF ObjectInv, TypeOK, StoreTypes, ghosts
<1>11. LockMoves(t, c)
  BY <1>1, <1>8 DEF LockMoves
<1> QED
  BY <1>1, <1>8, <1>9, <1>10, <1>11, ControlKeeps DEF ghosts

\* unpersist_object: the store key, then the end of the call.
LEMMA UnpersistKeeps ==
    ASSUME ObjectInv, NEW t \in Threads, UnpersistLooksUp(t) \/ DestroyReturns(t)
    PROVE  ObjectInv'
<1>1. /\ call[t].pc \in {"unpersist", "unmap", "unmap_failed"}
      /\ UNCHANGED <<mem, disk, place, issued, protected, exported, past>>
  BY DEF UnpersistLooksUp, DestroyReturns, At, ghosts
<1>2. call[t].handle \in Handles
  BY <1>1, QueueSound DEF PlaceOk
<1>3. CASE UnpersistLooksUp(t)
  <2>1. PICK h \in Handles : h = call[t].handle
    BY <1>2
  <2>2. PICK k \in get_store_key(h) :
          /\ storeKey' = [storeKey EXCEPT ![h] = k]
          /\ Become(t, [call[t] EXCEPT !.pc = "delete", !.key = k])
    BY <1>3, <2>1 DEF UnpersistLooksUp
  <2>3. k \in StoreKeys /\ gone' = gone
    BY <1>3, StoreKeyType DEF UnpersistLooksUp, ghosts
  <2>4. PICK d \in Call : d = call[t]
    BY QueueSound
  <2>5. PICK c : c = [d EXCEPT !.pc = "delete", !.key = k]
    OBVIOUS
  <2>6. c \in Call /\ c.pc = "delete" /\ c.key = k /\ c.queue = d.queue /\ c.handle = d.handle
    BY <2>3, <2>5 DEF Call, PC
  <2>7. PlaceOk(c) /\ Become(t, c) /\ \A i \in DOMAIN c.queue : Sound(c.queue[i])
    BY <1>2, <2>2, <2>3, <2>4, <2>5, <2>6, QueueSound DEF PlaceOk
  <2>8. StoreTypes'
    BY <1>1, <2>2, <2>3 DEF ObjectInv, TypeOK, StoreTypes, place
  <2>9. LockMoves(t, c)
    BY <1>1, <2>6 DEF LockMoves, Locked, place
  <2> QED
    BY <1>1, <2>6, <2>7, <2>8, <2>9, ControlKeeps DEF place
<1>4. CASE DestroyReturns(t)
  <2>1. /\ storeKey' = [storeKey EXCEPT ![call[t].handle] = NoKey] /\ Become(t, Idle)
        /\ gone' \subseteq gone \cup {call[t].handle}
    BY <1>4 DEF DestroyReturns, Return
  <2>2. StoreTypes'
    BY <1>1, <1>2, <2>1 DEF ObjectInv, TypeOK, StoreTypes, place
  <2>3. LockMoves(t, Idle)
    BY <1>1, IdleFacts, IdleType DEF LockMoves, place
  <2> QED
    BY <1>1, <2>1, <2>2, <2>3, IdleFacts, ControlKeeps DEF place
<1> QED
  BY <1>3, <1>4

\* Steps of C_Login, C_Logout and C_InitToken that go from place to place.
LEMMA LoginKeeps ==
    ASSUME ObjectInv, NEW t \in Threads,
           \/ C_Login(t) \/ LoginSetsKey(t) \/ C_Logout(t) \/ LogoutClearsKey(t)
           \/ ClearsMap(t) \/ InitTokenClearsKey(t) \/ InitTokenReturns(t)
    PROVE  ObjectInv'
<1>1. /\ UNCHANGED <<mem, disk, keyLock, today, issued, ghosts>>
      /\ call[t].pc \notin Locked
  BY DEF C_Login, LoginSetsKey, C_Logout, LogoutClearsKey, ClearsMap, InitTokenClearsKey,
         InitTokenReturns, At, Locked, place
<1>2. persistKey' = persistKey \/ keyLock = NoThread
  BY DEF C_Login, LoginSetsKey, C_Logout, LogoutClearsKey, ClearsMap, InitTokenClearsKey,
         InitTokenReturns, place
<1>3. storeKey' \in [Handles -> StoreKeys \cup {NoKey}] /\ loggedIn' \in BOOLEAN
  BY DEF C_Login, LoginSetsKey, C_Logout, LogoutClearsKey, ClearsMap, InitTokenClearsKey,
         InitTokenReturns, place, ObjectInv, TypeOK
<1>4. persistKey' \in 0 .. MaxEpoch /\ epoch' \in 1 .. MaxEpoch
  <2>1. persistKey \in 0 .. MaxEpoch /\ epoch \in 1 .. MaxEpoch
    BY DEF ObjectInv, TypeOK
  <2>2. persistKey' \in {persistKey, epoch, 0}
    BY DEF C_Login, LoginSetsKey, C_Logout, LogoutClearsKey, ClearsMap, InitTokenClearsKey,
           InitTokenReturns, place
  <2>3. epoch' = epoch \/ (epoch < MaxEpoch /\ epoch' = epoch + 1)
    BY DEF C_Login, LoginSetsKey, C_Logout, LogoutClearsKey, ClearsMap, InitTokenClearsKey,
           InitTokenReturns, place
  <2> QED
    BY <2>1, <2>2, <2>3, EpochAssumption
<1>5. StoreTypes'
  BY <1>1, <1>3, <1>4 DEF ObjectInv, TypeOK, StoreTypes, ghosts
<1>6. Return(t) \/ \E p \in {"set_key", "list", "clear_key", "clear_disk", "init_token"} : Goto(t, p)
  BY DEF C_Login, LoginSetsKey, C_Logout, LogoutClearsKey, ClearsMap, InitTokenClearsKey,
         InitTokenReturns
<1>7. CASE Return(t)
  <2>1. LockMoves(t, Idle)
    BY <1>1, <1>2, IdleFacts, IdleType DEF LockMoves
  <2> QED
    BY <1>1, <1>5, <1>7, <2>1, IdleFacts, ControlKeeps DEF Return, ghosts
<1>8. ASSUME NEW p \in {"set_key", "list", "clear_key", "clear_disk", "init_token"}, Goto(t, p)
      PROVE  ObjectInv'
  <2>1. p \in PC /\ p \notin Locked
    BY DEF PC, Locked
  <2>2. PICK c \in Call : /\ c = [call[t] EXCEPT !.pc = p] /\ c.pc = p
                          /\ \A i \in DOMAIN c.queue : Sound(c.queue[i])
    BY <2>1, GoesOn
  <2>3. PlaceOk(c) /\ Become(t, c)
    BY <1>8, <2>2 DEF PlaceOk, Goto
  <2>4. LockMoves(t, c)
    BY <1>1, <1>2, <2>1, <2>2 DEF LockMoves, Locked
  <2> QED
    BY <1>1, <1>5, <2>2, <2>3, <2>4, ControlKeeps DEF ghosts
<1> QED
  BY <1>6, <1>7, <1>8

\* load_from_store takes the mutex, and gives it back at its end.
LEMMA LoadKeeps ==
    ASSUME ObjectInv, NEW t \in Threads, LoadLists(t) \/ LoadReads(t) \/ LoadEnds(t)
    PROVE  ObjectInv'
<1>1. UNCHANGED <<mem, disk, storeKey, persistKey, loggedIn, epoch, today, issued, ghosts>>
  BY DEF LoadLists, LoadReads, LoadEnds
<1>2. ASSUME keyLock' \in Threads \cup {NoThread} PROVE StoreTypes'
  BY <1>1, <1>2 DEF ObjectInv, TypeOK, StoreTypes, ghosts
<1>3. call[t].pc = "load" => keyLock = t /\ call[t].todo \subseteq StoreKeys
  BY QueueSound DEF ObjectInv, LockInv, Locked, PlaceOk
<1>4. ASSUME Return(t), \/ keyLock' = keyLock
                        \/ keyLock = t /\ keyLock' = NoThread
      PROVE  ObjectInv'
  <2>1. LockMoves(t, Idle)
    BY <1>1, <1>4, IdleFacts, IdleType DEF LockMoves
  <2>2. StoreTypes'
    BY <1>2, <1>4 DEF ObjectInv, TypeOK
  <2> QED
    BY <1>1, <1>4, <2>1, <2>2, IdleFacts, ControlKeeps DEF Return, ghosts
<1>5. PICK d \in Call : d = call[t]
  BY QueueSound
<1>6. CASE LoadEnds(t)
  BY <1>3, <1>4, <1>6 DEF LoadEnds, At
<1>7. CASE LoadLists(t)
  <2>1. CASE persistKey = 0
    BY <1>4, <1>7, <2>1 DEF LoadLists
  <2>2. CASE persistKey # 0
    <3>1. PICK T \in SUBSET StoreKeys : T = {k \in StoreKeys : disk[k] # NoObject}
      OBVIOUS
    <3>2. PICK c : c = [d EXCEPT !.pc = "load", !.todo = T]
      OBVIOUS
    <3>3. keyLock = NoThread /\ keyLock' = t /\ Become(t, c)
      BY <1>5, <1>7, <2>2, <3>1, <3>2 DEF LoadLists
    <3>4. c \in Call /\ c.pc = "load" /\ c.todo = T /\ c.queue = d.queue
      BY <3>2 DEF Call, PC
    <3>5. PlaceOk(c) /\ \A i \in DOMAIN c.queue : Sound(c.queue[i])
      BY <1>5, <3>4, QueueSound DEF PlaceOk
    <3>6. LockMoves(t, c)
      BY <1>1, <3>3, <3>4 DEF LockMoves
    <3> QED
      BY <1>1, <1>2, <3>3, <3>4, <3>5, <3>6, ControlKeeps DEF ghosts
  <2> QED
    BY <2>1, <2>2
<1>8. CASE LoadReads(t)
  <2>1. PICK k \in call[t].todo :
          \/ Return(t) /\ keyLock' = NoThread
          \/ Become(t, [call[t] EXCEPT !.todo = call[t].todo \ {k}]) /\ UNCHANGED keyLock
          \/ /\ disk[k] # NoObject /\ UNCHANGED keyLock
             /\ Become(t, [[call[t] EXCEPT !.todo = call[t].todo \ {k}] EXCEPT
                              !.pc = "load_map", !.key = k, !.queue = <<disk[k].object>>])
    BY <1>8 DEF LoadReads
  <2>2. call[t].pc = "load" /\ keyLock = t /\ call[t].todo \subseteq StoreKeys
    BY <1>3, <1>8 DEF LoadReads, At
  <2>3. PICK T \in SUBSET StoreKeys : T = call[t].todo \ {k}
    BY <2>2
  <2>4. CASE Return(t) /\ keyLock' = NoThread
    BY <1>4, <2>2, <2>4
  <2>5. CASE Become(t, [call[t] EXCEPT !.todo = call[t].todo \ {k}]) /\ UNCHANGED keyLock
    <3>1. PICK c : c = [d EXCEPT !.todo = T]
      OBVIOUS
    <3>2. Become(t, c)
      BY <1>5, <2>3, <2>5, <3>1
    <3>3. c \in Call /\ c.pc = "load" /\ c.todo = T /\ c.queue = d.queue
      BY <1>5, <2>2, <3>1 DEF Call
    <3>4. PlaceOk(c) /\ \A i \in DOMAIN c.queue : Sound(c.queue[i])
      BY <1>5, <3>3, QueueSound DEF PlaceOk
    <3>5. LockMoves(t, c) /\ keyLock' \in Threads \cup {NoThread}
      BY <1>1, <2>2, <2>5, <3>3 DEF LockMoves
    <3> QED
      BY <1>1, <1>2, <3>2, <3>3, <3>4, <3>5, ControlKeeps DEF ghosts
  <2>6. CASE /\ disk[k] # NoObject /\ UNCHANGED keyLock
             /\ Become(t, [[call[t] EXCEPT !.todo = call[t].todo \ {k}] EXCEPT
                              !.pc = "load_map", !.key = k, !.queue = <<disk[k].object>>])
    <3>1. k \in StoreKeys
      BY <2>2
    <3>2. PICK o \in Object : o = disk[k].object /\ Sound(o)
      BY <2>6, <3>1 DEF ObjectInv, TypeOK, SoundInv, Record
    <3>3. PICK q \in Seq(Object) : q = <<o>> /\ q # <<>> /\ \A i \in DOMAIN q : q[i] = o
      <4>1. <<o>> \in Seq(Object) /\ <<o>> # <<>> /\ \A i \in DOMAIN <<o>> : <<o>>[i] = o
        OBVIOUS
      <4> QED
        BY <4>1, Zenon
    <3>4. PICK e : e = [d EXCEPT !.todo = T]
      OBVIOUS
    <3>5. e \in Call /\ e.todo = T
      BY <3>4 DEF Call
    <3>6. PICK c : c = [e EXCEPT !.pc = "load_map", !.key = k, !.queue = q]
      OBVIOUS
    <3>7. Become(t, c)
      BY <1>5, <2>3, <2>6, <3>2, <3>3, <3>4, <3>6
    <3>8. c \in Call /\ c.pc = "load_map" /\ c.todo = T /\ c.queue = q /\ c.key = k
      BY <3>1, <3>5, <3>6 DEF Call, PC
    <3>9. PlaceOk(c) /\ \A i \in DOMAIN c.queue : Sound(c.queue[i])
      BY <3>1, <3>2, <3>3, <3>8 DEF PlaceOk
    <3>10. LockMoves(t, c) /\ keyLock' \in Threads \cup {NoThread}
      BY <1>1, <2>2, <2>6, <3>8 DEF LockMoves
    <3> QED
      BY <1>1, <1>2, <3>7, <3>8, <3>9, <3>10, ControlKeeps DEF ghosts
  <2> QED
    BY <2>1, <2>4, <2>5, <2>6
<1> QED
  BY <1>6, <1>7, <1>8

\* ensure_past: the handle of a record was issued by an earlier process.
LEMMA LoadMapsKeeps ==
    ASSUME ObjectInv, NEW t \in Threads, LoadMaps(t)
    PROVE  ObjectInv'
<1>1. call[t].pc = "load_map" /\ UNCHANGED <<mem, disk, place, ghosts>> /\ Goto(t, "load_insert")
  BY DEF LoadMaps, At
<1>2. /\ call[t].queue # <<>> /\ call[t].key \in StoreKeys /\ call[t].todo \subseteq StoreKeys
      /\ keyLock = t
  BY <1>1, QueueSound DEF PlaceOk, ObjectInv, LockInv, Locked
<1>3. PICK h \in Handles : h = call[t].queue[1].handle
  <2>1. Head(call[t].queue) \in Object /\ Head(call[t].queue) = call[t].queue[1]
    BY <1>2, QueueSound, QueueFacts
  <2> QED
    BY <2>1 DEF Object
<1>4. storeKey' = [storeKey EXCEPT ![h] = call[t].key] /\ issued' = issued \cup {h}
  BY <1>3 DEF LoadMaps
<1>5. StoreTypes'
  BY <1>1, <1>2, <1>4 DEF ObjectInv, TypeOK, StoreTypes, place, ghosts
<1>6. SoundStays
  BY <1>1, <1>4 DEF SoundStays, Sound, SoundNext, SoundIn, ghosts
<1>7. GhostInv'
  BY <1>1, <1>4 DEF ObjectInv, GhostInv, ghosts
<1>8. PICK p \in PC : p = "load_insert"
  BY DEF PC
<1>9. PICK c \in Call : /\ c = [call[t] EXCEPT !.pc = p] /\ c.pc = p
                        /\ c.queue = call[t].queue /\ c.todo = call[t].todo
                        /\ \A i \in DOMAIN c.queue : Sound(c.queue[i])
  BY GoesOn
<1>10. PlaceOk(c) /\ Become(t, c)
  BY <1>1, <1>2, <1>8, <1>9 DEF PlaceOk, Goto
<1>11. LockMoves(t, c)
  BY <1>1, <1>2, <1>8, <1>9 DEF LockMoves, place
<1>12. ObjectsFrom(c)
  BY <1>1, <1>6, <1>9 DEF ObjectsFrom, SoundStays
<1> QED
  BY <1>5, <1>6, <1>7, <1>10, <1>11, <1>12, StepKeeps

-----------------------------------------------------------------------------
(* Steps that change objects *)

\* A step that puts sound objects into the map, or takes some away.
LEMMA MapKeeps ==
    ASSUME ObjectInv, NEW t \in Threads, NEW c \in Call, Become(t, c), PlaceOk(c),
           UNCHANGED <<disk, storeKey, persistKey, keyLock, epoch, today, issued, ghosts>>,
           loggedIn' \in BOOLEAN,
           c.pc \in Locked => keyLock = t, c.pc # "write",
           \A i \in DOMAIN c.queue : Sound(c.queue[i]),
           mem' \in [Handles -> Object \cup {NoObject}],
           \A h \in Handles : mem'[h] = mem[h] \/ mem'[h] = NoObject \/ Sound(mem'[h])
    PROVE  ObjectInv'
<1>1. SoundStays /\ GhostInv'
  BY HistoryStays DEF ObjectInv, ghosts
<1>2. ObjectsFrom(c)
  BY <1>1 DEF ObjectsFrom, SoundStays
<1>3. StoreTypes'
  BY DEF ObjectInv, TypeOK, StoreTypes, ghosts
<1>4. LockMoves(t, c)
  BY DEF LockMoves
<1> QED
  BY <1>1, <1>2, <1>3, <1>4, StepKeeps

LEMMA InsertEndsKeeps ==
    ASSUME ObjectInv, NEW t \in Threads, InsertEnds(t)
    PROVE  ObjectInv'
<1>1. /\ call[t].pc = "insert" /\ UNCHANGED <<disk, storeKey, place, issued, ghosts>>
      /\ mem' = [mem EXCEPT ![Head(call[t].queue).handle] = Head(call[t].queue)]
  BY DEF InsertEnds, At
<1>2. PICK q \in Seq(Object) : /\ q = call[t].queue /\ q # <<>>
                               /\ \A i \in DOMAIN q : Sound(q[i])
  BY <1>1, QueueSound DEF PlaceOk
<1>3. PICK o \in Object : o = Head(q) /\ Sound(o)
  BY <1>2, QueueFacts
<1>4. /\ mem' \in [Handles -> Object \cup {NoObject}]
      /\ \A h \in Handles : mem'[h] = mem[h] \/ mem'[h] = NoObject \/ Sound(mem'[h])
  BY <1>1, <1>2, <1>3 DEF ObjectInv, TypeOK
<1>5. CASE Len(q) = 1
  <2>1. Become(t, Idle)
    BY <1>2, <1>5 DEF InsertEnds, Return
  <2> QED
    BY <1>1, <1>4, <2>1, IdleFacts, IdleType, MapKeeps DEF place, ObjectInv, TypeOK
<1>6. CASE Len(q) # 1
  <2>1. Become(t, Creating(Tail(q)))
    BY <1>2, <1>6 DEF InsertEnds
  <2>2. /\ Tail(q) \in Seq(Object) /\ Tail(q) # <<>>
        /\ \A i \in DOMAIN Tail(q) : i + 1 \in DOMAIN q /\ Tail(q)[i] = q[i + 1]
    BY <1>2, <1>6, QueueFacts
  <2>3. PICK c \in Call : c = Creating(Tail(q)) /\ PlaceOk(c) /\ c.queue = Tail(q) /\ c.pc = "limit"
    BY <2>2, CreatingType
  <2>4. \A i \in DOMAIN c.queue : Sound(c.queue[i])
    BY <1>2, <2>2, <2>3
  <2>5. c.pc \notin Locked /\ c.pc # "write" /\ loggedIn' \in BOOLEAN
    BY <1>1, <2>3 DEF Locked, place, ObjectInv, TypeOK
  <2> QED
    BY <1>1, <1>4, <2>1, <2>3, <2>4, <2>5, MapKeeps DEF place
<1> QED
  BY <1>5, <1>6

LEMMA DestroyRemovesKeeps ==
    ASSUME ObjectInv, NEW t \in Threads, DestroyRemoves(t)
    PROVE  ObjectInv'
<1>1. /\ call[t].pc = "remove" /\ UNCHANGED <<disk, storeKey, place, issued, ghosts>>
      /\ call[t].handle \in Handles /\ loggedIn' \in BOOLEAN
  BY QueueSound DEF DestroyRemoves, At, PlaceOk, ObjectInv, TypeOK, place
<1>2. CASE Return(t) /\ mem' = mem
  BY <1>1, <1>2, IdleFacts, IdleType, MapKeeps DEF place, ObjectInv, TypeOK, Return
<1>3. CASE mem' = [mem EXCEPT ![call[t].handle] = NoObject] /\ Goto(t, "unpersist")
  <2>1. /\ mem' \in [Handles -> Object \cup {NoObject}]
        /\ \A h \in Handles : mem'[h] = mem[h] \/ mem'[h] = NoObject
    BY <1>1, <1>3 DEF ObjectInv, TypeOK
  <2>2. PICK p \in PC : p = "unpersist"
    BY DEF PC
  <2>3. PICK c \in Call : /\ c = [call[t] EXCEPT !.pc = p] /\ c.pc = p
                          /\ c.handle = call[t].handle
                          /\ \A i \in DOMAIN c.queue : Sound(c.queue[i])
    BY GoesOn
  <2>4. PlaceOk(c) /\ Become(t, c) /\ c.pc \notin Locked /\ c.pc # "write"
    BY <1>1, <1>3, <2>2, <2>3 DEF PlaceOk, Goto, Locked
  <2> QED
    BY <1>1, <2>1, <2>3, <2>4, MapKeeps DEF place
<1> QED
  BY <1>2, <1>3 DEF DestroyRemoves

LEMMA LoadInsertsKeeps ==
    ASSUME ObjectInv, NEW t \in Threads, LoadInserts(t)
    PROVE  ObjectInv'
<1>1. /\ call[t].pc = "load_insert" /\ UNCHANGED <<disk, storeKey, place, issued, ghosts>>
      /\ mem' = [mem EXCEPT ![call[t].queue[1].handle] = call[t].queue[1]]
      /\ Become(t, [call[t] EXCEPT !.pc = "load", !.queue = <<>>, !.key = NoKey])
  BY DEF LoadInserts, At
<1>2. PICK q \in Seq(Object) : /\ q = call[t].queue /\ q # <<>>
                               /\ \A i \in DOMAIN q : Sound(q[i])
  BY <1>1, QueueSound DEF PlaceOk
<1>3. PICK o \in Object : o = q[1] /\ Sound(o)
  BY <1>2, QueueFacts
<1>4. /\ mem' \in [Handles -> Object \cup {NoObject}]
      /\ \A h \in Handles : mem'[h] = mem[h] \/ mem'[h] = NoObject \/ Sound(mem'[h])
  BY <1>1, <1>2, <1>3 DEF ObjectInv, TypeOK
<1>5. PICK d \in Call : d = call[t] /\ d.todo \subseteq StoreKeys
  BY <1>1, QueueSound DEF PlaceOk
<1>6. PICK c : c = [d EXCEPT !.pc = "load", !.queue = <<>>, !.key = NoKey]
  OBVIOUS
<1>7. c \in Call /\ c.pc = "load" /\ c.queue = <<>> /\ c.todo = d.todo
  <2>1. <<>> \in Seq(Object)
    OBVIOUS
  <2> QED
    BY <1>6, <2>1 DEF Call, PC
<1>8. /\ PlaceOk(c) /\ Become(t, c) /\ \A i \in DOMAIN c.queue : Sound(c.queue[i])
      /\ keyLock = t /\ loggedIn' \in BOOLEAN
  BY <1>1, <1>5, <1>6, <1>7 DEF PlaceOk, ObjectInv, LockInv, Locked, TypeOK, place
<1> QED
  BY <1>1, <1>4, <1>7, <1>8, MapKeeps DEF place

LEMMA InitTokenKeeps ==
    ASSUME ObjectInv, NEW t \in Threads, C_InitToken(t)
    PROVE  ObjectInv'
<1>1. /\ UNCHANGED <<disk, storeKey, persistKey, keyLock, epoch, today, issued, ghosts>>
      /\ loggedIn' \in BOOLEAN /\ mem' = [h \in Handles |-> NoObject] /\ Goto(t, "clear_map")
  BY DEF C_InitToken
<1>2. PICK p \in PC : p = "clear_map"
  BY DEF PC
<1>3. PICK c \in Call : /\ c = [call[t] EXCEPT !.pc = p] /\ c.pc = p
                        /\ \A i \in DOMAIN c.queue : Sound(c.queue[i])
  BY GoesOn
<1>4. PlaceOk(c) /\ Become(t, c) /\ c.pc \notin Locked /\ c.pc # "write"
  BY <1>1, <1>2, <1>3 DEF PlaceOk, Goto, Locked
<1> QED
  BY <1>1, <1>3, <1>4, MapKeeps

\* CKA_LABEL and the state of a sweep do not touch the guards.
LEMMA SetAttributeKeeps ==
    ASSUME ObjectInv, NEW t \in Threads, C_SetAttributeValue(t)
    PROVE  ObjectInv'
<1>1. /\ UNCHANGED <<disk, storeKey, place, issued, call, ghosts>> /\ call[t].pc = "idle"
  BY DEF C_SetAttributeValue, At
<1>2. PICK h \in Present, l \in Labels : mem' = [mem EXCEPT ![h] = [mem[h] EXCEPT !.label = l]]
  BY DEF C_SetAttributeValue
<1>3. PICK s \in Object : s = mem[h] /\ Sound(s) /\ h \in Handles
  BY DEF ObjectInv, TypeOK, SoundInv, Present
<1>4. PICK o : o = [s EXCEPT !.label = l]
  OBVIOUS
<1>5. o \in Object /\ o.material = s.material /\ o.parts = s.parts /\ o.flags = s.flags
  BY <1>4 DEF Object
<1>6. Sound(o) /\ mem' = [mem EXCEPT ![h] = o]
  BY <1>2, <1>3, <1>4, <1>5 DEF Sound, SoundIn, IsProtected
<1>7. /\ mem' \in [Handles -> Object \cup {NoObject}]
      /\ \A x \in Handles : mem'[x] = mem[x] \/ mem'[x] = NoObject \/ Sound(mem'[x])
  BY <1>5, <1>6 DEF ObjectInv, TypeOK
<1>8. PICK c \in Call : c = call[t] /\ PlaceOk(c) /\ \A i \in DOMAIN c.queue : Sound(c.queue[i])
  BY QueueSound
<1>9. Become(t, c) /\ c.pc \notin Locked /\ c.pc # "write" /\ loggedIn' \in BOOLEAN
  BY <1>1, <1>8 DEF Become, ObjectInv, TypeOK, Locked, place
<1> QED
  BY <1>1, <1>7, <1>8, <1>9, MapKeeps DEF place

LEMMA SweepKeeps ==
    ASSUME ObjectInv, NEW t \in Threads, SweepObject(t)
    PROVE  ObjectInv'
<1>1. /\ UNCHANGED <<disk, storeKey, place, issued, ghosts>> /\ call[t].pc = "sweep"
      /\ loggedIn' \in BOOLEAN
  BY DEF SweepObject, At, place, ObjectInv, TypeOK
<1>2. PICK d \in Call : /\ d = call[t] /\ d.pc = "sweep" /\ d.todo \subseteq Handles
                        /\ d.queue \in Seq(Object)
                        /\ \A i \in DOMAIN d.queue : Sound(d.queue[i])
  BY <1>1, QueueSound DEF PlaceOk
<1>3. PICK h \in call[t].todo :
        LET new == [mem[h] EXCEPT !.state = DateState(mem[h])]
            rest == [call[t] EXCEPT !.todo = call[t].todo \ {h}]
        IN  IF mem[h] # NoObject /\ DateState(mem[h]) # mem[h].state
              THEN /\ mem' = [mem EXCEPT ![h] = new]
                   /\ Become(t, IF new.flags["token"]
                                  THEN [rest EXCEPT !.queue = Append(call[t].queue, new)]
                                  ELSE rest)
              ELSE Become(t, rest) /\ UNCHANGED mem
  BY DEF SweepObject
<1>4. h \in Handles
  BY <1>2
<1>5. PICK e : e = [d EXCEPT !.todo = d.todo \ {h}]
  OBVIOUS
<1>6. /\ e \in Call /\ e.pc = "sweep" /\ e.todo \subseteq Handles /\ e.queue = d.queue
  BY <1>2, <1>5 DEF Call
<1>7. PlaceOk(e) /\ e.pc \notin Locked /\ e.pc # "write"
  BY <1>6 DEF PlaceOk, Locked
<1>8. CASE ~(mem[h] # NoObject /\ DateState(mem[h]) # mem[h].state)
  <2>1. Become(t, e) /\ mem' = mem
    BY <1>2, <1>3, <1>5, <1>8
  <2>2. mem' \in [Handles -> Object \cup {NoObject}]
    BY <2>1 DEF ObjectInv, TypeOK
  <2> QED
    BY <1>1, <1>2, <1>6, <1>7, <2>1, <2>2, MapKeeps DEF place
<1>9. CASE mem[h] # NoObject /\ DateState(mem[h]) # mem[h].state
  <2>1. PICK s \in Object : s = mem[h] /\ Sound(s)
    BY <1>4, <1>9 DEF ObjectInv, TypeOK, SoundInv
  <2>2. PICK new : new = [s EXCEPT !.state = DateState(s)]
    OBVIOUS
  <2>3. /\ new \in Object /\ new.material = s.material /\ new.parts = s.parts
        /\ new.flags = s.flags
    BY <2>2, DateStateType DEF Object
  <2>4. Sound(new)
    BY <2>1, <2>3 DEF Sound, SoundIn, IsProtected
  <2>5. mem' = [mem EXCEPT ![h] = new]
    BY <1>3, <1>9, <2>1, <2>2
  <2>6. /\ mem' \in [Handles -> Object \cup {NoObject}]
        /\ \A x \in Handles : mem'[x] = mem[x] \/ mem'[x] = NoObject \/ Sound(mem'[x])
    BY <2>3, <2>4, <2>5 DEF ObjectInv, TypeOK
  <2>7. CASE ~new.flags["token"]
    <3>1. Become(t, e)
      BY <1>2, <1>3, <1>5, <1>9, <2>1, <2>2, <2>7
    <3> QED
      BY <1>1, <1>2, <1>6, <1>7, <2>6, <3>1, MapKeeps DEF place
  <2>8. CASE new.flags["token"]
    <3>1. PICK q \in Seq(Object) : q = Append(d.queue, new)
      <4>1. Append(d.queue, new) \in Seq(Object)
        BY <1>2, <2>3, AppendProperties
      <4> QED
        BY <4>1, Zenon
    <3>2. PICK c : c = [e EXCEPT !.queue = q]
      OBVIOUS
    <3>3. Become(t, c)
      BY <1>2, <1>3, <1>5, <1>9, <2>1, <2>2, <2>8, <3>1, <3>2
    <3>4. c \in Call /\ c.pc = "sweep" /\ c.todo \subseteq Handles /\ c.queue = q
      BY <1>6, <3>2 DEF Call
    <3>5. PlaceOk(c) /\ c.pc \notin Locked /\ c.pc # "write"
      BY <3>4 DEF PlaceOk, Locked
    <3>6. \A i \in DOMAIN q : q[i] = new \/ (i \in DOMAIN d.queue /\ q[i] = d.queue[i])
      BY <1>2, <2>3, <3>1, AppendProperties
    <3>7. \A i \in DOMAIN c.queue : Sound(c.queue[i])
      BY <1>2, <2>4, <3>4, <3>6
    <3> QED
      BY <1>1, <2>6, <3>3, <3>4, <3>5, <3>7, MapKeeps DEF place
  <2> QED
    BY <2>7, <2>8
<1> QED
  BY <1>8, <1>9

\* A step that writes a sound object to disk, or deletes.
LEMMA DiskKeeps ==
    ASSUME ObjectInv, NEW t \in Threads, NEW c \in Call, Become(t, c), PlaceOk(c),
           UNCHANGED <<mem, storeKey, persistKey, loggedIn, epoch, today, issued,
                       protected, exported, gone>>,
           c.pc \notin Locked,
           keyLock' = keyLock \/ (keyLock = t /\ keyLock' = NoThread),
           \A i \in DOMAIN c.queue : Sound(c.queue[i]), past' \subseteq Handles,
           disk' \in [StoreKeys -> Record \cup {NoObject}],
           \A k \in StoreKeys : disk'[k] = disk[k] \/ disk'[k] = NoObject \/ Sound(disk'[k].object)
    PROVE  ObjectInv'
<1>1. SoundStays /\ GhostInv'
  BY HistoryStays DEF ObjectInv
<1>2. ObjectsFrom(c)
  BY <1>1 DEF ObjectsFrom, SoundStays
<1>3. StoreTypes'
  BY DEF ObjectInv, TypeOK, StoreTypes
<1>4. LockMoves(t, c)
  BY DEF LockMoves, Locked
<1> QED
  BY <1>1, <1>2, <1>3, <1>4, StepKeeps

LEMMA PersistWritesKeeps ==
    ASSUME ObjectInv, NEW t \in Threads, PersistWrites(t)
    PROVE  ObjectInv'
<1>1. /\ call[t].pc = "write" /\ keyLock' = NoThread /\ Persisted(t)
      /\ UNCHANGED <<mem, storeKey, persistKey, loggedIn, epoch, today, issued,
                     protected, exported, gone>>
  BY DEF PersistWrites, At
<1>2. /\ call[t].queue # <<>> /\ call[t].key \in StoreKeys /\ keyLock = t
      /\ persistKey \in 1 .. MaxEpoch
  <2>1. call[t].queue # <<>> /\ call[t].key \in StoreKeys
    BY <1>1, QueueSound DEF PlaceOk
  <2>2. keyLock = t /\ persistKey # 0 /\ persistKey \in 0 .. MaxEpoch
    BY <1>1 DEF ObjectInv, LockInv, Locked, TypeOK
  <2> QED
    BY <2>1, <2>2, EpochAssumption
<1>3. PICK o \in Object : o = Head(call[t].queue) /\ Sound(o) /\ o.handle \in Handles
  <2>1. PICK q \in Seq(Object) : /\ q = call[t].queue /\ q # <<>>
                                 /\ \A i \in DOMAIN q : Sound(q[i])
    BY <1>2, QueueSound
  <2>2. Head(q) \in Object /\ 1 \in DOMAIN q /\ Head(q) = q[1]
    BY <2>1, QueueFacts
  <2>3. Sound(Head(q)) /\ Head(q).handle \in Handles
    BY <2>1, <2>2 DEF Object
  <2> QED
    BY <2>1, <2>2, <2>3
<1>4. \/ /\ disk' = [disk EXCEPT ![call[t].key] = [object |-> o, under |-> persistKey]]
         /\ past' = past \cup {o.handle}
      \/ UNCHANGED <<disk, past>>
  BY <1>3 DEF PersistWrites
<1>5. PICK r \in Record : r = [object |-> o, under |-> persistKey] /\ r.object = o
  <2>1. PICK r : r = [object |-> o, under |-> persistKey]
    OBVIOUS
  <2>2. r \in Record /\ r.object = o
    BY <1>2, <2>1 DEF Record
  <2> QED
    BY <2>1, <2>2
<1>6. /\ disk' \in [StoreKeys -> Record \cup {NoObject}]
      /\ past' \subseteq Handles
      /\ \A k \in StoreKeys : disk'[k] = disk[k] \/ disk'[k] = NoObject \/ Sound(disk'[k].object)
  BY <1>2, <1>3, <1>4, <1>5 DEF ObjectInv, TypeOK
<1>7. PICK c \in Call : /\ Become(t, c) /\ PlaceOk(c) /\ c.pc \notin Locked
                        /\ \A i \in DOMAIN c.queue : Sound(c.queue[i])
  BY <1>1, <1>2, PersistedCall
<1> QED
  BY <1>1, <1>2, <1>6, <1>7, DiskKeeps

LEMMA DeleteKeeps ==
    ASSUME ObjectInv, NEW t \in Threads, UnpersistDeletes(t) \/ ClearsDisk(t)
    PROVE  ObjectInv'
<1>1. /\ UNCHANGED <<mem, storeKey, place, issued, ghosts>>
      /\ call[t].pc \in {"delete", "clear_disk"}
  BY DEF UnpersistDeletes, ClearsDisk, At
<1>2. /\ disk' \in [StoreKeys -> Record \cup {NoObject}]
      /\ \A k \in StoreKeys : disk'[k] = disk[k] \/ disk'[k] = NoObject
  BY DEF UnpersistDeletes, ClearsDisk, ObjectInv, TypeOK
<1>3. PICK p \in PC : /\ Goto(t, p) /\ p \in {"unmap", "unmap_failed", "clear_last"}
                      /\ p # "clear_last" => call[t].pc = "delete"
  BY DEF UnpersistDeletes, ClearsDisk, PC, At
<1>4. PICK c \in Call : /\ c = [call[t] EXCEPT !.pc = p] /\ c.pc = p
                        /\ c.handle = call[t].handle
                        /\ \A i \in DOMAIN c.queue : Sound(c.queue[i])
  BY GoesOn
<1>5. PlaceOk(c) /\ Become(t, c) /\ c.pc \notin Locked
  BY <1>3, <1>4, QueueSound DEF PlaceOk, Goto, Locked
<1>6. past' \subseteq Handles
  BY <1>1 DEF ObjectInv, TypeOK, ghosts
<1> QED
  BY <1>1, <1>2, <1>4, <1>5, <1>6, DiskKeeps DEF place, ghosts

\* What may be read or wrapped is not protected.
LEMMA ExportKeeps ==
    ASSUME ObjectInv, NEW t \in Threads, C_GetAttributeValue(t) \/ C_WrapKey(t)
    PROVE  ObjectInv'
<1>1. PICK h \in Present, m \in Handles :
         /\ (m = mem[h].material /\ ~IsProtected(mem[h])) \/ m = mem[h].parts
         /\ Exports(m)
  <2>1. CASE C_GetAttributeValue(t)
    BY <2>1 DEF C_GetAttributeValue
  <2>2. CASE C_WrapKey(t)
    <3>1. PICK h \in Present : /\ mem[h].flags["extractable"] /\ mem[h].material # NoMaterial
                               /\ Exports(mem[h].material)
      BY <2>2 DEF C_WrapKey
    <3>2. mem[h].material \in Handles
      <4>1. mem[h] \in Object
        BY DEF ObjectInv, TypeOK, Present
      <4> QED
        BY <3>1, <4>1 DEF Object
    <3> QED
      BY <3>1, <3>2 DEF IsProtected
  <2> QED
    BY <2>1, <2>2
<1>2. PICK o \in Object : o = mem[h] /\ Sound(o)
  BY DEF ObjectInv, TypeOK, SoundInv, Present
<1>3. m \in issued /\ m \notin protected
  BY <1>1, <1>2, NoMaterialAssumption DEF Sound, SoundIn
<1>4. /\ exported' = exported \cup {m}
      /\ UNCHANGED <<mem, disk, storeKey, place, issued, call, protected, past, gone>>
  BY <1>1 DEF Exports
<1>5. GhostInv' /\ SoundStays
  BY <1>3, <1>4 DEF ObjectInv, GhostInv, SoundStays, Sound, SoundNext
<1>6. StoreTypes'
  BY <1>4 DEF ObjectInv, TypeOK, StoreTypes, place
<1>7. PICK c \in Call : c = call[t] /\ PlaceOk(c) /\ \A i \in DOMAIN c.queue : Sound(c.queue[i])
  BY QueueSound
<1>8. Become(t, c) /\ c.pc = "idle"
  BY <1>4, <1>7 DEF Become, ObjectInv, TypeOK, C_GetAttributeValue, C_WrapKey, At
<1>9. LockMoves(t, c)
  BY <1>4, <1>8 DEF LockMoves, Locked, place
<1>10. ObjectsFrom(c)
  BY <1>4, <1>5, <1>7 DEF ObjectsFrom, SoundStays
<1> QED
  BY <1>5, <1>6, <1>7, <1>8, <1>9, <1>10, StepKeeps

\* The clock, and a crash: the disk is all that stays, and it is sound.
LEMMA WorldKeeps ==
    ASSUME ObjectInv, Tomorrow \/ Restart
    PROVE  ObjectInv'
<1> USE DEF ObjectInv
<1>1. CASE Tomorrow
  <2>1. today' \in 1 .. MaxDay
    BY <1>1, DayAssumption DEF Tomorrow, TypeOK
  <2>2. UNCHANGED <<mem, disk, storeKey, persistKey, keyLock, loggedIn, epoch, issued, call, ghosts>>
    BY <1>1 DEF Tomorrow
  <2>3. TypeOK' /\ LockInv' /\ GhostInv'
    BY <2>1, <2>2 DEF TypeOK, LockInv, GhostInv, ghosts
  <2>4. SoundInv' /\ \A t \in Threads : PlaceOk(call'[t])
    BY <2>2 DEF SoundInv, Sound, ghosts
  <2> QED
    BY <2>3, <2>4
<1>2. CASE Restart
  <2>1. /\ mem' = [h \in Handles |-> NoObject] /\ storeKey' = [h \in Handles |-> NoKey]
        /\ persistKey' = 0 /\ keyLock' = NoThread /\ loggedIn' = FALSE
        /\ call' = [t \in Threads |-> Idle] /\ UNCHANGED <<disk, epoch, today, issued, ghosts>>
    BY <1>2 DEF Restart
  <2>2. call' \in [Threads -> Call]
    BY <2>1, IdleFacts
  <2>3. TypeOK'
    <3>1. /\ mem' \in [Handles -> Object \cup {NoObject}]
          /\ storeKey' \in [Handles -> StoreKeys \cup {NoKey}]
      <4>1. mem' = [h \in Handles |-> NoObject] /\ storeKey' = [h \in Handles |-> NoKey]
        BY <2>1
      <4> HIDE DEF ObjectInv
      <4> QED
        BY <4>1
    <3>2. persistKey' \in 0 .. MaxEpoch /\ loggedIn' \in BOOLEAN
      <4>1. 0 \in 0 .. MaxEpoch
        BY EpochAssumption
      <4> QED
        BY <2>1, <4>1
    <3> QED
      BY <2>1, <2>2, <3>1, <3>2 DEF TypeOK, ghosts
  <2>4. LockInv' /\ \A t \in Threads : PlaceOk(call'[t])
    BY <2>1, IdleFacts DEF LockInv, Locked
  <2>5. SoundInv'
    BY <2>1, IdleFacts DEF SoundInv, Sound, ghosts
  <2>6. GhostInv'
    BY <2>1 DEF GhostInv, ghosts
  <2> QED
    BY <2>3, <2>4, <2>5, <2>6
<1> QED
  BY <1>1, <1>2

-----------------------------------------------------------------------------
(* The theorems for any number of threads *)

LEMMA InitObjects == Init => ObjectInv
<1> SUFFICES ASSUME Init PROVE ObjectInv
  OBVIOUS
<1>1. call \in [Threads -> Call] /\ \A t \in Threads : call[t] = Idle
  BY IdleFacts DEF Init
<1>2. TypeOK
  <2>1. /\ mem \in [Handles -> Object \cup {NoObject}]
        /\ disk \in [StoreKeys -> Record \cup {NoObject}]
        /\ storeKey \in [Handles -> StoreKeys \cup {NoKey}]
    BY DEF Init
  <2>2. persistKey \in 0 .. MaxEpoch /\ epoch \in 1 .. MaxEpoch /\ today \in 1 .. MaxDay
    BY EpochAssumption, DayAssumption DEF Init
  <2> QED
    BY <1>1, <2>1, <2>2 DEF Init, TypeOK
<1>3. LockInv /\ \A t \in Threads : PlaceOk(call[t])
  BY <1>1, IdleFacts DEF LockInv, Locked
<1>4. SoundInv
  BY <1>1, IdleFacts DEF SoundInv, Init
<1>5. GhostInv
  BY DEF GhostInv, Init
<1> QED
  BY <1>2, <1>3, <1>4, <1>5 DEF ObjectInv

LEMMA NextObjects == ObjectInv /\ [Next]_vars => ObjectInv'
<1> SUFFICES ASSUME ObjectInv, [Next]_vars PROVE ObjectInv'
  OBVIOUS
<1>1. CASE UNCHANGED vars
  BY <1>1 DEF vars, ObjectInv, TypeOK, LockInv, SoundInv, Sound, GhostInv
<1>2. ASSUME NEW t \in Threads, Begin(t) PROVE ObjectInv'
  BY <1>2, CreateKeeps, RemakesKeep, BeginKeeps, LoginKeeps,
     InitTokenKeeps, ExportKeeps, SetAttributeKeeps DEF Begin
<1>3. ASSUME NEW t \in Threads, Continue(t) PROVE ObjectInv'
  BY <1>3, BeginKeeps, InsertEndsKeeps, NothingKeeps, PersistLocksKeeps, PersistWritesKeeps,
     DestroyRemovesKeeps, UnpersistKeeps, DeleteKeeps, LoginKeeps, LoadKeeps, LoadMapsKeeps,
     LoadInsertsKeeps, SweepKeeps DEF Continue
<1> QED
  BY <1>1, <1>2, <1>3, WorldKeeps DEF Next

LEMMA ObjectInvariant == Spec => []ObjectInv
BY InitObjects, NextObjects, PTL DEF Spec

(* For any threads, templates, limits, crashes and failing transactions: a *)
(* key created with CKA_SENSITIVE, without CKA_EXTRACTABLE, and in         *)
(* CKA_VALUE alone is held by no object, record or clone that would let it *)
(* out, and has left neither in clear through C_GetAttributeValue, which   *)
(* reads extra attributes unchecked, nor wrapped through C_WrapKey,        *)
(* although copies, derived and unwrapped keys and loads at a login all    *)
(* make objects of their own.                                              *)
THEOREM KeysProtected == Spec => []ProtectionHolds
<1>1. ObjectInv => ProtectionHolds
  <2> SUFFICES ASSUME ObjectInv PROVE ProtectionHolds
    OBVIOUS
  <2>1. ASSUME NEW o \in Held PROVE Sound(o)
    <3>1. CASE \E h \in Present : o = mem[h]
      BY <3>1 DEF ObjectInv, SoundInv, Present
    <3>2. CASE \E k \in StoreKeys : disk[k] # NoObject /\ o = disk[k].object
      BY <3>2 DEF ObjectInv, SoundInv
    <3>3. CASE \E t \in Threads : o \in InHand(t)
      BY <3>3 DEF ObjectInv, SoundInv, InHand
    <3> QED
      BY <3>1, <3>2, <3>3 DEF Held
  <2>2. \A o \in Held : (o.material \in protected => IsProtected(o)) /\ o.parts \notin protected
    BY <2>1 DEF Sound, SoundIn
  <2> QED
    BY <2>2 DEF ObjectInv, ProtectionHolds, GhostInv
<1> QED
  BY <1>1, ObjectInvariant, PTL

-----------------------------------------------------------------------------
(* One thread: destruction, loading, and what the database promises        *)

OneThread == \A t, u \in Threads : t = u

Stored == {k \in StoreKeys : disk[k] # NoObject}
HandleAt(k) == disk[k].object.handle

Destroying == {"unpersist", "delete", "unmap", "unmap_failed"}
Loading == {"load", "load_map", "load_insert"}

InQueue(t, h) == \E i \in DOMAIN call[t].queue : call[t].queue[i].handle = h

\* The handle stands for an object in memory or in the hands of a call.
InUse(h) == mem[h] # NoObject \/ \E t \in Threads : InQueue(t, h)

\* The handle's entry in handle_to_store_key counts: it is in use, other than
\* by a load that has not mapped it yet, or about to be deleted from disk.
Uses(h) ==
    \/ mem[h] # NoObject
    \/ \E t \in Threads : call[t].pc # "load_map" /\ InQueue(t, h)
    \/ \E t \in Threads : call[t].pc \in Destroying /\ call[t].handle = h

\* A handle is issued once, and what it promises never changes.
HandlesInv ==
    /\ \A h \in Handles : mem[h] # NoObject => mem[h].handle = h
    /\ \A o \in Held : o.handle \in issued \ gone
    /\ past \subseteq issued /\ gone \subseteq issued
    /\ \A o, p \in Held : o.handle = p.handle => Promise(o) = Promise(p)

\* handle_to_store_key and the database agree where it counts.
MapInv ==
    /\ \A k \in Stored : HandleAt(k) \in past
    /\ \A k \in Stored : Uses(HandleAt(k)) => storeKey[HandleAt(k)] = k
    /\ \A h \in Handles : storeKey[h] \in Stored => HandleAt(storeKey[h]) = h
    /\ \A h, g \in Handles : storeKey[h] = storeKey[g] /\ storeKey[h] # NoKey => h = g
    /\ \A j, k \in Stored : HandleAt(j) = HandleAt(k) => j = k
    /\ \A h \in past : InUse(h) => \E k \in Stored : HandleAt(k) = h

\* What a call relies on at each place.
RelyInv(t) ==
    LET c == call[t] IN
    /\ c.pc \in Destroying => mem[c.handle] = NoObject /\ c.handle \in issued
    /\ c.pc = "unmap" => \A k \in Stored : HandleAt(k) # c.handle
    /\ c.pc = "delete" => storeKey[c.handle] = c.key
    /\ c.pc = "write" => storeKey[Head(c.queue).handle] = c.key
    /\ c.pc \in {"load_map", "load_insert"} =>
         Len(c.queue) = 1 /\ c.key \in Stored /\ disk[c.key].object = c.queue[1]
    /\ c.pc \in {"clear_map", "clear_disk"} => \A h \in Handles : mem[h] = NoObject
    /\ c.pc \in Loading => \A k \in Stored : Loadable(disk[k].object) =>
         \/ k \in c.todo \/ (c.pc # "load" /\ c.key = k)
         \/ mem[HandleAt(k)] # NoObject
    /\ c.pc \notin {"limit", "persist", "write", "insert", "load_map", "load_insert", "sweep"}
         => c.queue = <<>>

OneInv == HandlesInv /\ MapInv /\ \A t \in Threads : RelyInv(t)

\* The new place of a thread.
LEMMA PlaceFacts ==
    ASSUME ObjectInv, NEW t \in Threads, NEW c, Become(t, c)
    PROVE  call'[t] = c
BY DEF ObjectInv, TypeOK, Become

LEMMA GotoFacts ==
    ASSUME ObjectInv, NEW t \in Threads, NEW p, Goto(t, p)
    PROVE  /\ call'[t].pc = p /\ call'[t].queue = call[t].queue
           /\ call'[t].handle = call[t].handle /\ call'[t].key = call[t].key
           /\ call'[t].todo = call[t].todo
<1>1. call'[t] = [call[t] EXCEPT !.pc = p] /\ call[t] \in Call
  BY PlaceFacts DEF Goto, ObjectInv, TypeOK
<1> QED
  BY <1>1 DEF Call

\* Every object held is in the map, on disk or in the one thread's hand.
LEMMA HeldParts ==
    ASSUME OneThread, NEW t \in Threads, NEW o
    PROVE  o \in Held <=>
             \/ \E h \in Handles : mem[h] # NoObject /\ o = mem[h]
             \/ \E k \in Stored : o = disk[k].object
             \/ \E i \in DOMAIN call[t].queue : o = call[t].queue[i]
BY DEF OneThread, Held, Present, Stored, InHand

LEMMA HeldPartsNext ==
    ASSUME OneThread, NEW t \in Threads, NEW o \in Held'
    PROVE  \/ \E h \in Handles : mem'[h] # NoObject /\ o = mem'[h]
           \/ \E k \in StoreKeys : disk'[k] # NoObject /\ o = disk'[k].object
           \/ \E i \in DOMAIN call'[t].queue : o = call'[t].queue[i]
BY DEF OneThread, Held, Present, InHand

\* The object makes the promise of one that is there.
Kept(o) == \E p \in Held : Promise(o) = Promise(p)

LEMMA PromiseHandle ==
    ASSUME NEW o, NEW p, Promise(o) = Promise(p)
    PROVE  o.handle = p.handle /\ o.material = p.material /\ o.flags = p.flags
<1>1. Promise(o).handle = o.handle /\ Promise(o).material = o.material /\ Promise(o).flags = o.flags
  BY DEF Promise
<1>2. Promise(p).handle = p.handle /\ Promise(p).material = p.material /\ Promise(p).flags = p.flags
  BY DEF Promise
<1> QED
  BY <1>1, <1>2

\* No step but a creation brings a new promise.
LEMMA HandlesKept ==
    ASSUME OneThread, HandlesInv, NEW t \in Threads, issued \subseteq issued',
           \A h \in Handles : mem'[h] # NoObject => mem'[h].handle = h /\ Kept(mem'[h]),
           \A k \in StoreKeys : disk'[k] # NoObject => Kept(disk'[k].object),
           \A i \in DOMAIN call'[t].queue : Kept(call'[t].queue[i]),
           past' \subseteq issued, gone' \subseteq issued,
           \A o \in Held' : o.handle \in gone' => o.handle \in gone
    PROVE  HandlesInv'
<1>1. ASSUME NEW o \in Held' PROVE Kept(o)
  BY HeldPartsNext
<1>2. \A o \in Held' : o.handle \in issued' \ gone'
  BY <1>1, PromiseHandle DEF Kept, HandlesInv
<1>3. ASSUME NEW o \in Held', NEW p \in Held', o.handle = p.handle PROVE Promise(o) = Promise(p)
  <2>1. PICK a \in Held, b \in Held : Promise(o) = Promise(a) /\ Promise(p) = Promise(b)
    BY <1>1 DEF Kept
  <2>2. a.handle = b.handle
    BY <1>3, <2>1, PromiseHandle
  <2> QED
    BY <2>1, <2>2 DEF HandlesInv
<1>4. \A h \in Handles : mem'[h] # NoObject => mem'[h].handle = h
  OBVIOUS
<1> QED
  BY <1>2, <1>3, <1>4 DEF HandlesInv, Promise

\* The map stays right while no new use of a handle appears.
LEMMA MapKept ==
    ASSUME MapInv, UNCHANGED <<disk, storeKey, past>>,
           \A h \in past : Uses(h)' => Uses(h),
           \A h \in past : InUse(h)' => InUse(h) \/ \E k \in Stored : HandleAt(k) = h
    PROVE  MapInv'
<1>1. Stored' = Stored /\ \A k : HandleAt(k)' = HandleAt(k)
  BY DEF Stored, HandleAt
<1>2. \A k \in Stored : HandleAt(k) \in past
  BY DEF MapInv
<1>3. \A k \in Stored' : Uses(HandleAt(k))' => storeKey'[HandleAt(k)'] = k
  <2>1. ASSUME NEW k \in Stored, Uses(HandleAt(k))' PROVE storeKey[HandleAt(k)] = k
    <3>1. PICK h \in past : h = HandleAt(k) /\ h = HandleAt(k)'
      BY <1>1, <1>2
    <3>2. Uses(h)'
      BY <2>1, <3>1
    <3>3. Uses(h)
      BY <3>2
    <3> QED
      BY <3>1, <3>3 DEF MapInv
  <2> QED
    BY <1>1, <2>1
<1>4. \A h \in past' : InUse(h)' => \E k \in Stored' : HandleAt(k)' = h
  BY <1>1 DEF MapInv
<1>5. \A k \in Stored' : HandleAt(k)' \in past'
  BY <1>1, <1>2
<1>6. \A h \in Handles : storeKey'[h] \in Stored' => HandleAt(storeKey[h])' = h
  BY <1>1 DEF MapInv, HandleAt
<1>7. \A h, g \in Handles : storeKey'[h] = storeKey'[g] /\ storeKey'[h] # NoKey => h = g
  BY DEF MapInv
<1>8. \A j, k \in Stored' : HandleAt(j)' = HandleAt(k)' => j = k
  BY <1>1 DEF MapInv
<1> QED
  BY <1>3, <1>4, <1>5, <1>6, <1>7, <1>8 DEF MapInv

\* A step of the one thread that neither writes nor maps.
LEMMA QuietStep ==
    ASSUME OneThread, OneInv, NEW t \in Threads,
           UNCHANGED <<disk, storeKey, past, gone>>, issued \subseteq issued',
           \A h \in Handles : mem'[h] # NoObject => mem'[h].handle = h /\ Kept(mem'[h]),
           \A i \in DOMAIN call'[t].queue : Kept(call'[t].queue[i]),
           \A h \in past : Uses(h)' => Uses(h),
           \A h \in past : InUse(h)' => InUse(h) \/ \E k \in Stored : HandleAt(k) = h,
           RelyInv(t)'
    PROVE  OneInv'
<1>1. \A k \in StoreKeys : disk'[k] # NoObject => Kept(disk'[k].object)
  BY HeldParts DEF Kept, Stored
<1>2. past' \subseteq issued /\ gone' \subseteq issued
  BY DEF OneInv, HandlesInv
<1>3. HandlesInv'
  BY <1>1, <1>2, HandlesKept DEF OneInv
<1>4. MapInv'
  BY MapKept DEF OneInv
<1>5. \A u \in Threads : RelyInv(u)'
  BY DEF OneThread
<1> QED
  BY <1>3, <1>4, <1>5 DEF OneInv

\* Places at which a call relies on nothing but its queue.
Easy == {"idle", "limit", "persist", "insert", "remove", "sweep", "set_key", "list",
         "clear_key", "clear_last", "init_token"}
Queueing == {"limit", "persist", "write", "insert", "load_map", "load_insert", "sweep"}

LEMMA RelyEasy ==
    ASSUME NEW t \in Threads, call'[t].pc \in Easy,
           call'[t].pc \notin Queueing => call'[t].queue = <<>>
    PROVE  RelyInv(t)'
BY DEF RelyInv, Easy, Queueing, Destroying, Loading

\* The call brings no object to its queue.
QueueKept(t) ==
    \A i \in DOMAIN call'[t].queue :
        \E j \in DOMAIN call[t].queue : call'[t].queue[i] = call[t].queue[j]

LEMMA EasyStep ==
    ASSUME OneThread, OneInv, NEW t \in Threads,
           UNCHANGED <<mem, disk, storeKey, past, gone>>, issued \subseteq issued',
           QueueKept(t), call[t].pc # "load_map" \/ DOMAIN call'[t].queue = {},
           call'[t].pc \in Easy,
           call'[t].pc \notin Queueing => call'[t].queue = <<>>
    PROVE  OneInv'
<1>1. RelyInv(t)'
  BY RelyEasy
<1>2. \A i \in DOMAIN call'[t].queue : Kept(call'[t].queue[i])
  BY HeldParts DEF QueueKept, Kept
<1>3. \A h \in Handles : mem'[h] # NoObject => mem'[h].handle = h /\ Kept(mem'[h])
  BY HeldParts DEF Kept, OneInv, HandlesInv
<1>4. ASSUME NEW h, InQueue(t, h)' PROVE InQueue(t, h)
  BY <1>4 DEF QueueKept, InQueue
<1>5. ASSUME NEW h, Uses(h)' PROVE Uses(h)
  <2>1. CASE mem'[h] # NoObject
    BY <2>1 DEF Uses
  <2>2. CASE InQueue(t, h)'
    <3>1. InQueue(t, h) /\ call[t].pc # "load_map"
      BY <1>4, <2>2 DEF InQueue
    <3> QED
      BY <3>1 DEF Uses
  <2>3. call'[t].pc \notin Destroying
    BY DEF Easy, Destroying
  <2> QED
    BY <1>5, <2>1, <2>2, <2>3 DEF Uses, OneThread
<1>6. ASSUME NEW h, InUse(h)' PROVE InUse(h)
  BY <1>4, <1>6 DEF InUse, OneThread
<1> QED
  BY <1>1, <1>2, <1>3, <1>5, <1>6, QuietStep

LEMMA ReturnEasy ==
    ASSUME ObjectInv, NEW t \in Threads, Return(t)
    PROVE  /\ QueueKept(t) /\ DOMAIN call'[t].queue = {} /\ call'[t].pc \in Easy
           /\ call'[t].queue = <<>> /\ call'[t].pc = "idle"
<1>1. call'[t] = Idle
  BY PlaceFacts DEF Return
<1> QED
  BY <1>1, IdleType DEF QueueKept, Easy

LEMMA GotoEasy ==
    ASSUME ObjectInv, OneInv, NEW t \in Threads, NEW p \in Easy, Goto(t, p),
           p \in Queueing \/ call[t].pc \notin Queueing
    PROVE  /\ QueueKept(t) /\ call'[t].pc = p
           /\ call'[t].pc \notin Queueing => call'[t].queue = <<>>
<1>1. call'[t].pc = p /\ call'[t].queue = call[t].queue
  BY GotoFacts
<1>2. call[t].pc \notin Queueing => call[t].queue = <<>>
  BY DEF OneInv, RelyInv, Queueing
<1> QED
  BY <1>1, <1>2 DEF QueueKept

LEMMA PersistedEasy ==
    ASSUME ObjectInv, OneInv, NEW t \in Threads, call[t].queue # <<>>, Persisted(t)
    PROVE  /\ QueueKept(t) /\ call'[t].pc \in Easy
           /\ call'[t].pc \notin Queueing => call'[t].queue = <<>>
<1>1. CASE call[t].op = "create"
  <2>1. call'[t].pc = "insert" /\ call'[t].queue = call[t].queue
    BY <1>1, GotoFacts DEF Persisted
  <2> QED
    BY <2>1 DEF QueueKept, Easy, Queueing
<1>2. CASE call[t].op # "create" /\ Len(call[t].queue) = 1
  BY <1>2, ReturnEasy DEF Persisted
<1>3. CASE call[t].op # "create" /\ Len(call[t].queue) # 1
  <2>1. PICK d \in Call : d = call[t] /\ d.queue \in Seq(Object)
    BY QueueSound
  <2>2. call'[t] = [d EXCEPT !.pc = "persist", !.queue = Tail(d.queue)]
    BY <1>3, <2>1, PlaceFacts DEF Persisted
  <2>3. call'[t].pc = "persist" /\ call'[t].queue = Tail(d.queue)
    BY <2>1, <2>2 DEF Call
  <2>4. \A i \in DOMAIN Tail(d.queue) : i + 1 \in DOMAIN d.queue /\ Tail(d.queue)[i] = d.queue[i + 1]
    BY <2>1, QueueFacts
  <2> QED
    BY <2>1, <2>3, <2>4 DEF QueueKept, Easy, Queueing
<1> QED
  BY <1>1, <1>2, <1>3

\* The steps that only move a thread to such a place.
LEMMA EasyKeeps ==
    ASSUME OneThread, ObjectInv, OneInv, NEW t \in Threads,
           \/ InsertBegins(t) \/ NothingToPersist(t) \/ SweepPersists(t)
           \/ C_Login(t) \/ LoginSetsKey(t) \/ C_Logout(t) \/ LogoutClearsKey(t)
           \/ InitTokenClearsKey(t) \/ InitTokenReturns(t) \/ LoadEnds(t)
    PROVE  OneInv'
<1>1. /\ UNCHANGED <<mem, disk, storeKey, past, gone>> /\ issued \subseteq issued'
      /\ call[t].pc # "load_map"
  BY DEF InsertBegins, NothingToPersist, SweepPersists, C_Login, LoginSetsKey, C_Logout,
         LogoutClearsKey, InitTokenClearsKey, InitTokenReturns, LoadEnds, ghosts, At
<1>2. CASE Return(t)
  BY <1>1, <1>2, ReturnEasy, EasyStep
<1>3. CASE NothingToPersist(t)
  <2>1. call[t].queue # <<>> /\ Persisted(t)
    BY <1>3, QueueSound DEF NothingToPersist, At, PlaceOk
  <2> QED
    BY <1>1, <2>1, PersistedEasy, EasyStep
<1>4. CASE ~Return(t) /\ ~NothingToPersist(t)
  <2>1. PICK p \in Easy : Goto(t, p) /\ (p \in Queueing \/ call[t].pc \notin Queueing)
    <3>1. CASE (InsertBegins(t) \/ SweepPersists(t))
      BY <1>4, <3>1 DEF InsertBegins, SweepPersists, Easy, Queueing
    <3>2. CASE \/ C_Login(t) \/ LoginSetsKey(t) \/ C_Logout(t) \/ LogoutClearsKey(t)
               \/ InitTokenClearsKey(t) \/ InitTokenReturns(t) \/ LoadEnds(t)
      BY <1>4, <3>2 DEF C_Login, LoginSetsKey, C_Logout, LogoutClearsKey, InitTokenClearsKey,
                        InitTokenReturns, LoadEnds, Easy, Queueing, At
    <3> QED
      BY <1>4, <3>1, <3>2
  <2> QED
    BY <1>1, <2>1, GotoEasy, EasyStep
<1> QED
  BY <1>2, <1>3, <1>4

LEMMA StartKeeps ==
    ASSUME OneThread, ObjectInv, OneInv, NEW t \in Threads,
           C_DestroyObject(t) \/ SweepBegins(t) \/ C_GetAttributeValue(t) \/ C_WrapKey(t)
    PROVE  OneInv'
<1>1. /\ UNCHANGED <<mem, disk, storeKey, past, gone, issued>> /\ call[t].pc = "idle"
  BY DEF C_DestroyObject, SweepBegins, C_GetAttributeValue, C_WrapKey, Exports, ghosts, At
<1>2. call[t].queue = <<>>
  BY <1>1 DEF OneInv, RelyInv
<1>3. call'[t].queue = <<>> /\ call'[t].pc \in {"idle", "remove", "sweep"}
  <2>1. CASE C_DestroyObject(t)
    <3>1. PICK h : call'[t] = [Idle EXCEPT !.pc = "remove", !.handle = h]
      BY <2>1, PlaceFacts DEF C_DestroyObject
    <3> QED
      BY <3>1 DEF Idle
  <2>2. CASE SweepBegins(t)
    <3>1. call'[t] = [Idle EXCEPT !.pc = "sweep", !.op = "sweep", !.todo = Present]
      BY <2>2, PlaceFacts DEF SweepBegins
    <3> QED
      BY <3>1 DEF Idle
  <2>3. CASE C_GetAttributeValue(t) \/ C_WrapKey(t)
    <3>1. call' = call
      BY <2>3 DEF C_GetAttributeValue, C_WrapKey, Exports
    <3> QED
      BY <1>1, <1>2, <3>1
  <2> QED
    BY <2>1, <2>2, <2>3
<1>4. QueueKept(t) /\ call'[t].pc \in Easy
  BY <1>3 DEF QueueKept, Easy
<1> QED
  BY <1>1, <1>3, <1>4, EasyStep

\* Creation: the handles are new, so neither the disk nor the map knows them.
LEMMA NewStep ==
    ASSUME OneThread, OneInv, NEW t \in Threads, NEW objects,
           call'[t].queue = objects, call'[t].pc = "limit",
           UNCHANGED <<mem, disk, storeKey, past, gone>>,
           issued \subseteq issued',
           \A i \in DOMAIN objects : objects[i].handle \in issued' \ issued,
           \A i, j \in DOMAIN objects : objects[i].handle = objects[j].handle => i = j
    PROVE  OneInv'
<1>1. ASSUME NEW o \in Held' PROVE o \in Held \/ \E i \in DOMAIN objects : o = objects[i]
  BY HeldParts, HeldPartsNext DEF Stored
<1>2. \A o \in Held : o.handle \in issued \ gone
  BY DEF OneInv, HandlesInv
<1>3. \A o \in Held' : o.handle \in issued' \ gone'
  BY <1>1, <1>2 DEF OneInv, HandlesInv
<1>4. ASSUME NEW o \in Held', NEW p \in Held', o.handle = p.handle PROVE Promise(o) = Promise(p)
  <2>1. CASE o \in Held /\ p \in Held
    BY <1>4, <2>1 DEF OneInv, HandlesInv
  <2>2. CASE o \notin Held \/ p \notin Held
    <3>1. (o \in Held => o.handle \in issued) /\ (p \in Held => p.handle \in issued)
      BY <1>2
    <3>2. PICK i \in DOMAIN objects, j \in DOMAIN objects : o = objects[i] /\ p = objects[j]
      BY <1>1, <1>4, <2>2, <3>1
    <3> QED
      BY <1>4, <3>2
  <2> QED
    BY <2>1, <2>2
<1>5. HandlesInv'
  BY <1>3, <1>4 DEF OneInv, HandlesInv, Promise
<1>6. ASSUME NEW h \in past PROVE ~InQueue(t, h)'
  BY DEF InQueue, OneInv, HandlesInv
<1>7. \A h \in past : Uses(h)' => Uses(h)
  BY <1>6 DEF Uses, OneThread, Destroying
<1>8. \A h \in past : InUse(h)' => InUse(h)
  BY <1>6 DEF InUse, OneThread
<1>9. MapInv'
  BY <1>7, <1>8, MapKept DEF OneInv
<1>10. RelyInv(t)'
  BY RelyEasy DEF Easy, Queueing
<1> QED
  BY <1>5, <1>9, <1>10 DEF OneInv, OneThread

LEMMA NewKeeps ==
    ASSUME OneThread, ObjectInv, OneInv, NEW t \in Threads,
           \/ C_CreateObject(t) \/ C_GenerateKey(t) \/ C_DeriveKey(t) \/ C_GenerateKeyPair(t)
           \/ C_UnwrapKey(t) \/ C_CopyObject(t)
    PROVE  OneInv'
<1>1. CASE C_CreateObject(t) \/ C_GenerateKey(t) \/ C_DeriveKey(t) \/ C_GenerateKeyPair(t)
  <2>1. PICK objects : FreshObjects(objects) /\ Make(t, objects)
    BY <1>1, CreateMakes, PairMakes
  <2>2. /\ call'[t] = Creating(objects) /\ UNCHANGED <<mem, disk, storeKey, past, gone>>
        /\ issued' = issued \cup {objects[i].handle : i \in DOMAIN objects}
    BY <2>1, PlaceFacts DEF Make
  <2>3. call'[t].queue = objects /\ call'[t].pc = "limit"
    BY <2>1, <2>2, CreatingType DEF FreshObjects
  <2>4. /\ \A i \in DOMAIN objects : objects[i].handle \in issued' \ issued
        /\ \A i, j \in DOMAIN objects : objects[i].handle = objects[j].handle => i = j
    BY <2>1, <2>2 DEF FreshObjects, Fresh
  <2> QED
    BY <2>2, <2>3, <2>4, NewStep
<1>2. CASE C_UnwrapKey(t) \/ C_CopyObject(t)
  <2>1. PICK o \in Object : Remake(t, o) /\ o.handle \in Fresh
    BY <1>2, UnwrapRemakes, CopyRemakes
  <2>2. PICK q : q = <<o>>
    OBVIOUS
  <2>3. q \in Seq(Object) /\ q # <<>> /\ DOMAIN q = {1} /\ q[1] = o
    BY <2>2
  <2>4. /\ call'[t] = Creating(q) /\ UNCHANGED <<mem, disk, storeKey, past, gone>>
        /\ issued' = issued \cup {o.handle}
    BY <2>1, <2>2, PlaceFacts DEF Remake, ghosts
  <2>5. call'[t].queue = q /\ call'[t].pc = "limit"
    BY <2>3, <2>4, CreatingType
  <2>6. /\ \A i \in DOMAIN q : q[i].handle \in issued' \ issued
        /\ \A i, j \in DOMAIN q : q[i].handle = q[j].handle => i = j
    BY <2>1, <2>3, <2>4 DEF Fresh
  <2> QED
    BY <2>4, <2>5, <2>6, NewStep
<1> QED
  BY <1>1, <1>2

\* A step that changes the map of objects only: what it puts there was in use.
LEMMA InsertStep ==
    ASSUME OneThread, OneInv, NEW t \in Threads,
           UNCHANGED <<disk, storeKey, past, gone, issued>>,
           call[t].pc # "load_map", call'[t].pc # "load_map",
           \A h \in Handles : mem'[h] # NoObject =>
               /\ mem'[h].handle = h /\ Kept(mem'[h])
               /\ mem[h] # NoObject \/ InQueue(t, h),
           \A i \in DOMAIN call'[t].queue : Kept(call'[t].queue[i]),
           \A h \in past : InQueue(t, h)' => mem[h] # NoObject \/ InQueue(t, h),
           call'[t].pc \in Destroying => mem[call'[t].handle] # NoObject,
           past \subseteq Handles,
           RelyInv(t)'
    PROVE  OneInv'
<1>1. \A h \in past : Uses(h)' => Uses(h)
  <2>1. SUFFICES ASSUME NEW h \in past, Uses(h)' PROVE Uses(h)
    OBVIOUS
  <2>2. mem'[h] # NoObject \/ InQueue(t, h)' \/ (call'[t].pc \in Destroying /\ call'[t].handle = h)
    BY <2>1 DEF Uses, OneThread
  <2>3. mem[h] # NoObject \/ InQueue(t, h)
    BY <2>2
  <2> QED
    BY <2>3 DEF Uses
<1>2. \A h \in past : InUse(h)' => InUse(h)
  <2>1. SUFFICES ASSUME NEW h \in past, InUse(h)' PROVE InUse(h)
    OBVIOUS
  <2>2. mem'[h] # NoObject \/ InQueue(t, h)'
    BY <2>1 DEF InUse, OneThread
  <2>3. mem[h] # NoObject \/ InQueue(t, h)
    BY <2>2
  <2> QED
    BY <2>3 DEF InUse
<1> QED
  BY <1>1, <1>2, QuietStep

\* What is there makes its own promise.
LEMMA KeptFacts ==
    ASSUME OneThread, OneInv, NEW t \in Threads
    PROVE  /\ \A h \in Handles : mem[h] # NoObject => Kept(mem[h]) /\ mem[h].handle = h
           /\ \A k \in Stored : Kept(disk[k].object)
           /\ \A i \in DOMAIN call[t].queue :
                Kept(call[t].queue[i]) /\ InQueue(t, call[t].queue[i].handle)
BY HeldParts DEF Kept, OneInv, HandlesInv, InQueue

LEMMA InsertKeeps ==
    ASSUME OneThread, ObjectInv, OneInv, NEW t \in Threads, InsertEnds(t)
    PROVE  OneInv'
<1>1. /\ call[t].pc = "insert" /\ UNCHANGED <<disk, storeKey, past, gone, issued>>
      /\ mem' = [mem EXCEPT ![Head(call[t].queue).handle] = Head(call[t].queue)]
      /\ past \subseteq Handles /\ mem \in [Handles -> Object \cup {NoObject}]
  BY DEF InsertEnds, At, ghosts, ObjectInv, TypeOK
<1>2. PICK q \in Seq(Object) : /\ q = call[t].queue /\ q # <<>>
  BY <1>1, QueueSound DEF PlaceOk
<1>3. /\ 1 \in DOMAIN q /\ Head(q) = q[1]
      /\ \A i \in DOMAIN Tail(q) : i + 1 \in DOMAIN q /\ Tail(q)[i] = q[i + 1]
      /\ Tail(q) \in Seq(Object) /\ (Len(q) # 1 => Tail(q) # <<>>)
  BY <1>2, QueueFacts
<1>4. PICK o : o = q[1] /\ Kept(o) /\ InQueue(t, o.handle)
  BY <1>2, <1>3, KeptFacts
<1>5. \A h \in Handles : mem'[h] # NoObject =>
        /\ mem'[h].handle = h /\ Kept(mem'[h])
        /\ mem[h] # NoObject \/ InQueue(t, h)
  <2>1. mem' = [mem EXCEPT ![o.handle] = o]
    BY <1>1, <1>2, <1>3, <1>4
  <2>2. SUFFICES ASSUME NEW h \in Handles, mem'[h] # NoObject
                 PROVE  /\ mem'[h].handle = h /\ Kept(mem'[h])
                        /\ mem[h] # NoObject \/ InQueue(t, h)
    OBVIOUS
  <2>3. CASE h = o.handle
    BY <1>1, <1>4, <2>1, <2>3
  <2>4. CASE h # o.handle
    <3>1. mem'[h] = mem[h]
      BY <1>1, <2>1, <2>4
    <3> QED
      BY <2>2, <3>1, KeptFacts
  <2> QED
    BY <2>3, <2>4
<1>6. /\ call'[t].pc \in {"idle", "limit"} /\ QueueKept(t)
      /\ call'[t].pc \notin Queueing => call'[t].queue = <<>>
  <2>1. CASE Len(q) = 1
    BY <1>2, <2>1, ReturnEasy DEF InsertEnds
  <2>2. CASE Len(q) # 1
    <3>1. call'[t] = Creating(Tail(q))
      BY <1>2, <2>2, PlaceFacts DEF InsertEnds
    <3>2. call'[t].queue = Tail(q) /\ call'[t].pc = "limit"
      BY <1>3, <2>2, <3>1, CreatingType
    <3> QED
      BY <1>2, <1>3, <3>2 DEF QueueKept, Queueing
  <2> QED
    BY <2>1, <2>2
<1>7. RelyInv(t)'
  BY <1>6, RelyEasy DEF Easy
<1>8. \A i \in DOMAIN call'[t].queue : Kept(call'[t].queue[i])
  BY <1>6, KeptFacts DEF QueueKept
<1>9. \A h : InQueue(t, h)' => InQueue(t, h)
  BY <1>6 DEF QueueKept, InQueue
<1>10. call'[t].pc \notin Destroying /\ call'[t].pc # "load_map"
  BY <1>6 DEF Destroying
<1> QED
  BY <1>1, <1>5, <1>7, <1>8, <1>9, <1>10, InsertStep

LEMMA RemoveKeeps ==
    ASSUME OneThread, ObjectInv, OneInv, NEW t \in Threads, DestroyRemoves(t)
    PROVE  OneInv'
<1>1. /\ call[t].pc = "remove" /\ UNCHANGED <<disk, storeKey, past, gone, issued>>
      /\ call[t].handle \in Handles /\ mem \in [Handles -> Object \cup {NoObject}]
      /\ past \subseteq Handles
  BY QueueSound DEF DestroyRemoves, At, ghosts, ObjectInv, TypeOK, PlaceOk
<1>2. CASE Return(t) /\ mem' = mem
  BY <1>1, <1>2, ReturnEasy, EasyStep
<1>3. CASE /\ mem[call[t].handle] # NoObject /\ Goto(t, "unpersist")
           /\ mem' = [mem EXCEPT ![call[t].handle] = NoObject]
  <2>1. /\ call'[t].pc = "unpersist" /\ call'[t].queue = call[t].queue
        /\ call'[t].handle = call[t].handle
    BY <1>3, GotoFacts
  <2>2. call[t].queue = <<>>
    BY <1>1 DEF OneInv, RelyInv
  <2>3. RelyInv(t)'
    <3>1. mem'[call'[t].handle] = NoObject
      BY <1>1, <1>3, <2>1
    <3>2. call'[t].handle \in issued'
      BY <1>1, <1>3, <2>1, HeldParts DEF OneInv, HandlesInv
    <3> QED
      BY <2>1, <2>2, <3>1, <3>2 DEF RelyInv, Destroying, Loading
  <2>4. \A h \in Handles : mem'[h] # NoObject =>
          /\ mem'[h].handle = h /\ Kept(mem'[h])
          /\ mem[h] # NoObject \/ InQueue(t, h)
    <3>1. \A h \in Handles : mem'[h] # NoObject => mem'[h] = mem[h]
      BY <1>1, <1>3
    <3> QED
      BY <3>1, KeptFacts
  <2>5. \A h : ~InQueue(t, h)'
    BY <2>1, <2>2 DEF InQueue
  <2>6. \A i \in DOMAIN call'[t].queue : Kept(call'[t].queue[i])
    BY <2>1, <2>2
  <2> QED
    BY <1>1, <1>3, <2>1, <2>3, <2>4, <2>5, <2>6, InsertStep
<1> QED
  BY <1>2, <1>3 DEF DestroyRemoves

\* load_from_store inserts the object of the record it has mapped.
LEMMA LoadedKeeps ==
    ASSUME OneThread, ObjectInv, OneInv, NEW t \in Threads, LoadInserts(t)
    PROVE  OneInv'
<1>1. /\ call[t].pc = "load_insert" /\ UNCHANGED <<disk, storeKey, past, gone, issued>>
      /\ mem' = [mem EXCEPT ![call[t].queue[1].handle] = call[t].queue[1]]
      /\ call'[t] = [call[t] EXCEPT !.pc = "load", !.queue = <<>>, !.key = NoKey]
      /\ past \subseteq Handles /\ mem \in [Handles -> Object \cup {NoObject}]
  BY PlaceFacts DEF LoadInserts, At, ghosts, ObjectInv, TypeOK
<1>2. PICK q \in Seq(Object) : /\ q = call[t].queue /\ q # <<>>
  BY <1>1, QueueSound DEF PlaceOk
<1>3. PICK o \in Object : o = q[1] /\ o \in Object /\ Kept(o) /\ InQueue(t, o.handle)
  BY <1>2, QueueFacts, KeptFacts
<1>4. mem' = [mem EXCEPT ![o.handle] = o] /\ o.handle \in Handles
  BY <1>1, <1>2, <1>3 DEF Object
<1>5. mem'[o.handle] = o /\ \A h \in Handles : h # o.handle => mem'[h] = mem[h]
  BY <1>1, <1>4
<1>6. \A h \in Handles : mem'[h] # NoObject =>
        /\ mem'[h].handle = h /\ Kept(mem'[h])
        /\ mem[h] # NoObject \/ InQueue(t, h)
  BY <1>3, <1>5, KeptFacts
<1>7. call'[t].pc = "load" /\ call'[t].queue = <<>> /\ call'[t].todo = call[t].todo
  BY <1>1, QueueSound DEF Call
<1>8. RelyInv(t)'
  <2>1. /\ call[t].key \in Stored /\ disk[call[t].key].object = o
        /\ \A k \in Stored : Loadable(disk[k].object) =>
             k \in call[t].todo \/ call[t].key = k \/ mem[HandleAt(k)] # NoObject
    BY <1>1, <1>2, <1>3 DEF OneInv, RelyInv, Loading
  <2>2. ASSUME NEW k \in Stored, Loadable(disk[k].object)
        PROVE  k \in call[t].todo \/ mem'[HandleAt(k)] # NoObject
    <3>1. HandleAt(k) \in Handles
      BY DEF HandleAt, Stored, ObjectInv, TypeOK, Record, Object
    <3>2. o # NoObject
      BY <1>3, NoObjectAssumption
    <3>3. call[t].key = k => HandleAt(k) = o.handle
      BY <2>1 DEF HandleAt
    <3> QED
      BY <1>5, <2>1, <2>2, <3>1, <3>2, <3>3
  <2>3. Stored' = Stored /\ \A k : HandleAt(k)' = HandleAt(k)
    BY <1>1 DEF Stored, HandleAt
  <2>4. \A k \in Stored' : Loadable(disk'[k].object) =>
             k \in call'[t].todo \/ mem'[HandleAt(k)'] # NoObject
    BY <1>1, <1>7, <2>2, <2>3
  <2> QED
    BY <1>7, <2>4 DEF RelyInv, Destroying, Loading
<1>9. \A h : ~InQueue(t, h)'
  BY <1>7 DEF InQueue
<1>10. call'[t].pc \notin Destroying /\ DOMAIN call'[t].queue = {}
  BY <1>7 DEF Destroying
<1> QED
  BY <1>1, <1>6, <1>7, <1>8, <1>9, <1>10, InsertStep

LEMMA ClearKeeps ==
    ASSUME OneThread, ObjectInv, OneInv, NEW t \in Threads, C_InitToken(t)
    PROVE  OneInv'
<1>1. /\ call[t].pc = "idle" /\ UNCHANGED <<disk, storeKey, past, gone, issued>>
      /\ mem' = [h \in Handles |-> NoObject] /\ past \subseteq Handles
  BY DEF C_InitToken, At, ghosts, ObjectInv, TypeOK
<1>2. call'[t].pc = "clear_map" /\ call'[t].queue = <<>>
  <2>1. call'[t].pc = "clear_map" /\ call'[t].queue = call[t].queue
    BY GotoFacts DEF C_InitToken
  <2> QED
    BY <1>1, <2>1 DEF OneInv, RelyInv
<1>3. \A h \in Handles : mem'[h] = NoObject
  BY <1>1
<1>4. RelyInv(t)'
  BY <1>2, <1>3 DEF RelyInv, Destroying, Loading
<1>5. \A h : ~InQueue(t, h)'
  BY <1>2 DEF InQueue
<1>6. call'[t].pc \notin Destroying /\ DOMAIN call'[t].queue = {}
  BY <1>2 DEF Destroying
<1> QED
  BY <1>1, <1>2, <1>3, <1>4, <1>5, <1>6, InsertStep

\* A change of an object in the map that keeps its promise.
LEMMA ChangeFacts ==
    ASSUME OneThread, ObjectInv, OneInv, NEW t \in Threads, NEW h \in Handles,
           mem[h] # NoObject, NEW o, Promise(o) = Promise(mem[h]),
           mem' = [mem EXCEPT ![h] = o]
    PROVE  /\ \A g \in Handles : mem'[g] # NoObject =>
                /\ mem'[g].handle = g /\ Kept(mem'[g])
                /\ mem[g] # NoObject \/ InQueue(t, g)
           /\ Kept(o) /\ o.handle = h
<1>1. Kept(mem[h]) /\ mem[h].handle = h
  BY KeptFacts
<1>2. Kept(o) /\ o.handle = h
  BY <1>1, PromiseHandle DEF Kept
<1>3. mem'[h] = o /\ \A g \in Handles : g # h => mem'[g] = mem[g]
  BY DEF ObjectInv, TypeOK
<1> QED
  BY <1>2, <1>3, KeptFacts

LEMMA ChangeKeeps ==
    ASSUME OneThread, ObjectInv, OneInv, NEW t \in Threads, C_SetAttributeValue(t)
    PROVE  OneInv'
<1>1. /\ UNCHANGED <<disk, storeKey, past, gone, issued, call>> /\ call[t].pc = "idle"
      /\ past \subseteq Handles
  BY DEF C_SetAttributeValue, At, ghosts, ObjectInv, TypeOK
<1>2. PICK h \in Present, l \in Labels : mem' = [mem EXCEPT ![h] = [mem[h] EXCEPT !.label = l]]
  BY DEF C_SetAttributeValue
<1>3. PICK s \in Object : s = mem[h] /\ h \in Handles /\ mem[h] # NoObject
  BY DEF ObjectInv, TypeOK, Present
<1>4. PICK o : o = [s EXCEPT !.label = l]
  OBVIOUS
<1>5. o.handle = s.handle /\ o.material = s.material /\ o.flags = s.flags
  BY <1>4 DEF Object
<1>6. Promise(o) = Promise(mem[h]) /\ mem' = [mem EXCEPT ![h] = o]
  BY <1>2, <1>3, <1>4, <1>5 DEF Promise
<1>7. \A g \in Handles : mem'[g] # NoObject =>
        /\ mem'[g].handle = g /\ Kept(mem'[g])
        /\ mem[g] # NoObject \/ InQueue(t, g)
  BY <1>3, <1>6, ChangeFacts
<1>8. call'[t] = call[t] /\ call[t].queue = <<>>
  BY <1>1 DEF OneInv, RelyInv
<1>9. RelyInv(t)'
  BY <1>1, <1>8, RelyEasy DEF Easy
<1>10. /\ \A g : ~InQueue(t, g)'
       /\ call'[t].pc \notin Destroying /\ DOMAIN call'[t].queue = {}
  BY <1>1, <1>8 DEF InQueue, Destroying
<1> QED
  BY <1>1, <1>7, <1>8, <1>9, <1>10, InsertStep

\* sweep_objects stores a state and clones the object it changed.
LEMMA SweptKeeps ==
    ASSUME OneThread, ObjectInv, OneInv, NEW t \in Threads, SweepObject(t)
    PROVE  OneInv'
<1>1. /\ UNCHANGED <<disk, storeKey, past, gone, issued>> /\ call[t].pc = "sweep"
      /\ past \subseteq Handles
  BY DEF SweepObject, At, ghosts, ObjectInv, TypeOK
<1>2. PICK d \in Call : /\ d = call[t] /\ d.pc = "sweep" /\ d.todo \subseteq Handles
                        /\ d.queue \in Seq(Object)
  BY <1>1, QueueSound DEF PlaceOk
<1>3. PICK h \in call[t].todo :
        LET new == [mem[h] EXCEPT !.state = DateState(mem[h])]
            rest == [call[t] EXCEPT !.todo = call[t].todo \ {h}]
        IN  IF mem[h] # NoObject /\ DateState(mem[h]) # mem[h].state
              THEN /\ mem' = [mem EXCEPT ![h] = new]
                   /\ Become(t, IF new.flags["token"]
                                  THEN [rest EXCEPT !.queue = Append(call[t].queue, new)]
                                  ELSE rest)
              ELSE Become(t, rest) /\ UNCHANGED mem
  BY DEF SweepObject
<1>4. h \in Handles
  BY <1>2
<1>5. PICK e : e = [d EXCEPT !.todo = d.todo \ {h}]
  OBVIOUS
<1>6. e \in Call /\ e.pc = "sweep" /\ e.queue = d.queue
  BY <1>2, <1>5 DEF Call
<1>7. CASE ~(mem[h] # NoObject /\ DateState(mem[h]) # mem[h].state)
  <2>1. call'[t] = e /\ mem' = mem
    BY <1>2, <1>3, <1>5, <1>7, PlaceFacts
  <2>2. call'[t].pc = "sweep" /\ call'[t].queue = call[t].queue
    BY <1>2, <1>6, <2>1
  <2>3. QueueKept(t) /\ call'[t].pc \in Easy /\ call'[t].pc \in Queueing
    BY <2>2 DEF QueueKept, Easy, Queueing
  <2> QED
    BY <1>1, <2>1, <2>3, EasyStep
<1>8. CASE mem[h] # NoObject /\ DateState(mem[h]) # mem[h].state
  <2>1. PICK s \in Object : s = mem[h]
    BY <1>4, <1>8 DEF ObjectInv, TypeOK
  <2>2. PICK new : new = [s EXCEPT !.state = DateState(s)]
    OBVIOUS
  <2>3. /\ new \in Object /\ new.material = s.material /\ new.flags = s.flags
        /\ new.handle = s.handle
    BY <2>2, DateStateType DEF Object
  <2>4. mem' = [mem EXCEPT ![h] = new] /\ Promise(new) = Promise(mem[h])
    BY <1>3, <1>8, <2>1, <2>2, <2>3 DEF Promise
  <2>5. /\ Kept(new) /\ new.handle = h
        /\ \A g \in Handles : mem'[g] # NoObject =>
             /\ mem'[g].handle = g /\ Kept(mem'[g])
             /\ mem[g] # NoObject \/ InQueue(t, g)
    BY <1>4, <1>8, <2>4, ChangeFacts
  <2>6. /\ call'[t].pc = "sweep"
        /\ \A i \in DOMAIN call'[t].queue :
             \/ call'[t].queue[i] = new
             \/ i \in DOMAIN d.queue /\ call'[t].queue[i] = d.queue[i]
    <3>1. CASE ~new.flags["token"]
      <4>1. call'[t] = e
        BY <1>2, <1>3, <1>5, <1>8, <2>1, <2>2, <3>1, PlaceFacts
      <4> QED
        BY <1>6, <4>1
    <3>2. CASE new.flags["token"]
      <4>1. PICK q \in Seq(Object) : q = Append(d.queue, new)
        <5>1. Append(d.queue, new) \in Seq(Object)
          BY <1>2, <2>3, AppendProperties
        <5> QED
          BY <5>1, Zenon
      <4>2. PICK c : c = [e EXCEPT !.queue = q]
        OBVIOUS
      <4>3. call'[t] = c
        BY <1>2, <1>3, <1>5, <1>8, <2>1, <2>2, <3>2, <4>1, <4>2, PlaceFacts
      <4>4. c.pc = "sweep" /\ c.queue = q
        BY <1>6, <4>2 DEF Call
      <4>5. \A i \in DOMAIN q : q[i] = new \/ (i \in DOMAIN d.queue /\ q[i] = d.queue[i])
        BY <1>2, <2>3, <4>1, AppendProperties
      <4> QED
        BY <4>3, <4>4, <4>5
    <3> QED
      BY <3>1, <3>2
  <2>7. \A i \in DOMAIN call'[t].queue : Kept(call'[t].queue[i])
    BY <1>2, <2>5, <2>6, KeptFacts
  <2>8. \A g \in past : InQueue(t, g)' => mem[g] # NoObject \/ InQueue(t, g)
    BY <1>2, <1>8, <2>5, <2>6 DEF InQueue
  <2>9. RelyInv(t)'
    BY <2>6, RelyEasy DEF Easy, Queueing
  <2>10. call'[t].pc \notin Destroying /\ call'[t].pc # "load_map"
    BY <2>6 DEF Destroying
  <2> QED
    BY <1>1, <2>5, <2>7, <2>8, <2>9, <2>10, InsertStep
<1> QED
  BY <1>7, <1>8

\* load_from_store lists the records and reads one after another.
LEMMA ListKeeps ==
    ASSUME OneThread, ObjectInv, OneInv, NEW t \in Threads, LoadLists(t)
    PROVE  OneInv'
<1>1. /\ call[t].pc = "list" /\ UNCHANGED <<mem, disk, storeKey, past, gone, issued>>
  BY DEF LoadLists, At, ghosts
<1>2. CASE Return(t)
  BY <1>1, <1>2, ReturnEasy, EasyStep
<1>3. CASE Become(t, [call[t] EXCEPT !.pc = "load",
                        !.todo = {k \in StoreKeys : disk[k] # NoObject}])
  <2>1. PICK d \in Call : d = call[t] /\ d.queue = <<>>
    <3>1. call[t].queue = <<>>
      BY <1>1 DEF OneInv, RelyInv
    <3> QED
      BY <3>1, QueueSound
  <2>2. call'[t] = [d EXCEPT !.pc = "load", !.todo = Stored]
    BY <1>3, <2>1, PlaceFacts DEF Stored
  <2>3. call'[t].pc = "load" /\ call'[t].queue = <<>> /\ call'[t].todo = Stored
    BY <2>1, <2>2 DEF Call
  <2>4. Stored' = Stored
    BY <1>1 DEF Stored
  <2>5. RelyInv(t)'
    BY <2>3, <2>4 DEF RelyInv, Destroying, Loading
  <2>6. \A h : ~InQueue(t, h)'
    BY <2>3 DEF InQueue
  <2>7. call'[t].pc \notin Destroying /\ DOMAIN call'[t].queue = {}
    BY <2>3 DEF Destroying
  <2>8. \A h : Uses(h)' => Uses(h)
    BY <1>1, <2>6, <2>7 DEF Uses, OneThread
  <2>9. \A h : InUse(h)' => InUse(h)
    BY <1>1, <2>6 DEF InUse, OneThread
  <2> QED
    BY <1>1, <2>5, <2>7, <2>8, <2>9, KeptFacts, QuietStep
<1> QED
  BY <1>2, <1>3 DEF LoadLists

LEMMA ReadKeeps ==
    ASSUME OneThread, ObjectInv, OneInv, NEW t \in Threads, LoadReads(t)
    PROVE  OneInv'
<1>1. /\ call[t].pc = "load" /\ UNCHANGED <<mem, disk, storeKey, past, gone, issued>>
      /\ call[t].queue = <<>>
  BY DEF LoadReads, At, ghosts, OneInv, RelyInv
<1>2. PICK d \in Call : d = call[t] /\ d.pc = "load" /\ d.queue = <<>> /\ d.todo \subseteq StoreKeys
  BY <1>1, QueueSound DEF PlaceOk
<1>3. PICK k \in call[t].todo :
        LET r == disk[k]
            rest == [call[t] EXCEPT !.todo = call[t].todo \ {k}]
            opens == r # NoObject /\ r.under = persistKey
        IN  \/ r # NoObject /\ ~opens /\ Return(t)
            \/ /\ opens => ~Loadable(r.object)
               /\ r # NoObject => opens
               /\ Become(t, rest)
            \/ /\ opens /\ Loadable(r.object)
               /\ Become(t, [rest EXCEPT !.pc = "load_map", !.key = k,
                                         !.queue = <<r.object>>])
  BY DEF LoadReads
<1>4. PICK e : e = [d EXCEPT !.todo = d.todo \ {k}]
  OBVIOUS
<1>5. e \in Call /\ e.pc = "load" /\ e.queue = <<>> /\ e.todo = d.todo \ {k} /\ k \in StoreKeys
  BY <1>2, <1>3, <1>4 DEF Call
<1>6. \A j \in Stored : Loadable(disk[j].object) => j \in d.todo \/ mem[HandleAt(j)] # NoObject
  BY <1>1, <1>2 DEF OneInv, RelyInv, Loading
<1>7. Stored' = Stored /\ \A j : HandleAt(j)' = HandleAt(j)
  BY <1>1 DEF Stored, HandleAt
<1>8. CASE Return(t)
  BY <1>1, <1>8, ReturnEasy, EasyStep
<1>9. CASE Become(t, e) /\ (k \in Stored => ~Loadable(disk[k].object))
  <2>1. call'[t] = e
    BY <1>9, PlaceFacts
  <2>2. \A j \in Stored' : Loadable(disk'[j].object) =>
          j \in call'[t].todo \/ mem'[HandleAt(j)'] # NoObject
    BY <1>1, <1>5, <1>6, <1>7, <1>9, <2>1
  <2>3. RelyInv(t)'
    BY <1>5, <2>1, <2>2 DEF RelyInv, Destroying, Loading
  <2>4. \A h : ~InQueue(t, h)'
    BY <1>5, <2>1 DEF InQueue
  <2>5. call'[t].pc \notin Destroying /\ DOMAIN call'[t].queue = {}
    BY <1>5, <2>1 DEF Destroying
  <2>6. \A h : Uses(h)' => Uses(h)
    BY <1>1, <2>4, <2>5 DEF Uses, OneThread
  <2>7. \A h : InUse(h)' => InUse(h)
    BY <1>1, <2>4 DEF InUse, OneThread
  <2> QED
    BY <1>1, <2>3, <2>5, <2>6, <2>7, KeptFacts, QuietStep
<1>10. CASE /\ k \in Stored
            /\ Become(t, [e EXCEPT !.pc = "load_map", !.key = k, !.queue = <<disk[k].object>>])
  <2>1. PICK o \in Object : o = disk[k].object /\ Kept(o) /\ HandleAt(k) = o.handle
    BY <1>10, KeptFacts DEF Stored, ObjectInv, TypeOK, Record, HandleAt
  <2>2. PICK q \in Seq(Object) : q = <<o>>
    <3>1. <<o>> \in Seq(Object)
      OBVIOUS
    <3> QED
      BY <3>1, Zenon
  <2>3. DOMAIN q = {1} /\ q[1] = o /\ Len(q) = 1
    BY <2>2
  <2>4. PICK c : c = [e EXCEPT !.pc = "load_map", !.key = k, !.queue = q]
    OBVIOUS
  <2>5. c.pc = "load_map" /\ c.key = k /\ c.queue = q /\ c.todo = d.todo \ {k}
    BY <1>5, <2>4 DEF Call
  <2>6. call'[t] = c
    BY <1>10, <2>1, <2>2, <2>4, PlaceFacts
  <2>7. \A j \in Stored' : Loadable(disk'[j].object) =>
          \/ j \in call'[t].todo \/ call'[t].key = j \/ mem'[HandleAt(j)'] # NoObject
    BY <1>1, <1>6, <1>7, <2>5, <2>6
  <2>8. RelyInv(t)'
    <3>1. call'[t].key \in Stored' /\ disk'[call'[t].key].object = call'[t].queue[1]
          /\ Len(call'[t].queue) = 1
      BY <1>1, <1>7, <1>10, <2>1, <2>3, <2>5, <2>6
    <3> QED
      BY <2>5, <2>6, <2>7, <3>1 DEF RelyInv, Destroying, Loading
  <2>9. call'[t].pc \notin Destroying /\ call'[t].pc = "load_map"
    BY <2>5, <2>6 DEF Destroying
  <2>10. \A h : InQueue(t, h)' => h = HandleAt(k)
    BY <2>1, <2>3, <2>5, <2>6 DEF InQueue
  <2>11. \A h : Uses(h)' => Uses(h)
    BY <1>1, <2>9 DEF Uses, OneThread
  <2>12. \A h : InUse(h)' => InUse(h) \/ \E j \in Stored : HandleAt(j) = h
    BY <1>1, <1>10, <2>10 DEF InUse, OneThread
  <2>13. \A i \in DOMAIN call'[t].queue : Kept(call'[t].queue[i])
    BY <2>1, <2>3, <2>5, <2>6
  <2> QED
    BY <1>1, <2>8, <2>11, <2>12, <2>13, KeptFacts, QuietStep
<1>11. \/ Return(t)
       \/ Become(t, e) /\ (k \in Stored => ~Loadable(disk[k].object))
       \/ /\ k \in Stored
          /\ Become(t, [e EXCEPT !.pc = "load_map", !.key = k, !.queue = <<disk[k].object>>])
  BY <1>2, <1>3, <1>4, <1>5 DEF Stored
<1> QED
  BY <1>8, <1>9, <1>10, <1>11

\* Giving the store key k to handle h keeps the map and the disk in step when
\* no other record has the handle and no other handle the key.
LEMMA MapGains ==
    ASSUME MapInv, UNCHANGED <<disk, past>>, NEW h \in Handles, NEW k \in StoreKeys,
           storeKey \in [Handles -> StoreKeys \cup {NoKey}],
           storeKey' = [storeKey EXCEPT ![h] = k], past \subseteq Handles,
           k \in Stored => HandleAt(k) = h,
           \A j \in Stored : HandleAt(j) = h => j = k,
           \A g \in Handles : g # h => storeKey[g] # k,
           \A g \in past : Uses(g)' => Uses(g) \/ g = h,
           \A g \in past : InUse(g)' => InUse(g)
    PROVE  MapInv'
<1>1. Stored' = Stored /\ \A j : HandleAt(j)' = HandleAt(j)
  BY DEF Stored, HandleAt
<1>2. \A j \in Stored : HandleAt(j) \in past
  BY DEF MapInv
<1>3. storeKey'[h] = k /\ \A g \in Handles : g # h => storeKey'[g] = storeKey[g]
  OBVIOUS
<1>4. \A j \in Stored' : Uses(HandleAt(j))' => storeKey'[HandleAt(j)'] = j
  <2>1. ASSUME NEW j \in Stored, Uses(HandleAt(j))' PROVE storeKey'[HandleAt(j)] = j
    <3>1. PICK g \in past : g = HandleAt(j) /\ g = HandleAt(j)'
      BY <1>1, <1>2
    <3>2. Uses(g)'
      BY <2>1, <3>1
    <3>3. CASE g = h
      BY <1>3, <3>1, <3>3
    <3>4. CASE g # h
      <4>1. Uses(g) /\ g \in Handles
        BY <3>2, <3>4
      <4>2. storeKey[g] = j
        BY <3>1, <4>1 DEF MapInv
      <4> QED
        BY <1>3, <3>1, <3>4, <4>1, <4>2
    <3> QED
      BY <3>3, <3>4
  <2> QED
    BY <1>1, <2>1
<1>5. \A g \in past' : InUse(g)' => \E j \in Stored' : HandleAt(j)' = g
  BY <1>1 DEF MapInv
<1>6. \A j \in Stored' : HandleAt(j)' \in past'
  BY <1>1, <1>2
<1>7. ASSUME NEW g \in Handles, storeKey'[g] \in Stored' PROVE HandleAt(storeKey[g])' = g
  <2>1. \A j : HandleAt(j)' = disk[j].object.handle
    BY DEF HandleAt
  <2>2. CASE g = h
    <3>1. disk[k].object.handle = h
      BY <1>1, <1>3, <1>7, <2>2 DEF HandleAt
    <3> QED
      BY <1>3, <2>2, <3>1 DEF HandleAt
  <2>3. CASE g # h
    <3>1. storeKey'[g] = storeKey[g] /\ disk[storeKey[g]].object.handle = g
      BY <1>1, <1>3, <1>7, <2>3 DEF MapInv, HandleAt
    <3> QED
      BY <3>1 DEF HandleAt
  <2> QED
    BY <2>2, <2>3
<1>8. ASSUME NEW f \in Handles, NEW g \in Handles, storeKey'[f] = storeKey'[g], storeKey'[f] # NoKey
      PROVE  f = g
  <2>1. f # h /\ g # h => f = g
    BY <1>3, <1>8 DEF MapInv
  <2> QED
    BY <1>3, <1>8, <2>1
<1>9. \A i, j \in Stored' : HandleAt(i)' = HandleAt(j)' => i = j
  BY <1>1 DEF MapInv
<1> QED
  BY <1>4, <1>5, <1>6, <1>7, <1>8, <1>9 DEF MapInv

\* Forgetting the store keys of handles that nothing uses.
LEMMA MapForgets ==
    ASSUME MapInv, UNCHANGED <<disk, past>>, past \subseteq Handles,
           \A g \in Handles : storeKey'[g] = storeKey[g] \/ storeKey'[g] = NoKey,
           \A g \in past : Uses(g)' => Uses(g) /\ storeKey'[g] = storeKey[g],
           \A g \in past : InUse(g)' => InUse(g)
    PROVE  MapInv'
<1>1. Stored' = Stored /\ \A j : HandleAt(j)' = HandleAt(j)
  BY DEF Stored, HandleAt
<1>2. \A j \in Stored : HandleAt(j) \in past
  BY DEF MapInv
<1>3. \A j \in Stored' : Uses(HandleAt(j))' => storeKey'[HandleAt(j)'] = j
  <2>1. ASSUME NEW j \in Stored, Uses(HandleAt(j))' PROVE storeKey'[HandleAt(j)] = j
    <3>1. PICK g \in past : g = HandleAt(j) /\ g = HandleAt(j)'
      BY <1>1, <1>2
    <3>2. Uses(g)'
      BY <2>1, <3>1
    <3>3. Uses(g) /\ storeKey'[g] = storeKey[g]
      BY <3>2
    <3> QED
      BY <3>1, <3>3 DEF MapInv
  <2> QED
    BY <1>1, <2>1
<1>4. \A g \in past' : InUse(g)' => \E j \in Stored' : HandleAt(j)' = g
  BY <1>1 DEF MapInv
<1>5. \A j \in Stored' : HandleAt(j)' \in past'
  BY <1>1, <1>2
<1>6. ASSUME NEW g \in Handles, storeKey'[g] \in Stored' PROVE HandleAt(storeKey[g])' = g
  <2>1. storeKey'[g] = storeKey[g]
    BY <1>1, <1>6, NoKeyAssumption DEF Stored
  <2>2. disk[storeKey[g]].object.handle = g
    BY <1>1, <1>6, <2>1 DEF MapInv, HandleAt
  <2> QED
    BY <2>1, <2>2 DEF HandleAt
<1>7. \A f, g \in Handles : storeKey'[f] = storeKey'[g] /\ storeKey'[f] # NoKey => f = g
  BY DEF MapInv
<1>8. \A i, j \in Stored' : HandleAt(i)' = HandleAt(j)' => i = j
  BY <1>1 DEF MapInv
<1> QED
  BY <1>3, <1>4, <1>5, <1>6, <1>7, <1>8 DEF MapInv

\* get_store_key of a handle that counts: its own, or one nothing refers to.
LEMMA KeyGiven ==
    ASSUME ObjectInv, OneInv, NEW h \in Handles, Uses(h), NEW k \in get_store_key(h)
    PROVE  /\ k \in StoreKeys /\ (k \in Stored => HandleAt(k) = h)
           /\ \A j \in Stored : HandleAt(j) = h => j = k
           /\ \A g \in Handles : g # h => storeKey[g] # k
<1>1. storeKey \in [Handles -> StoreKeys \cup {NoKey}]
  BY DEF ObjectInv, TypeOK
<1>2. \A j \in Stored : HandleAt(j) = h => storeKey[h] = j
  BY DEF OneInv, MapInv
<1>3. CASE storeKey[h] = NoKey
  <2>1. k \in FreeKeys
    BY <1>3 DEF get_store_key
  <2>2. k \in StoreKeys /\ k \notin Stored /\ \A g \in Handles : storeKey[g] # k
    BY <2>1 DEF FreeKeys, Stored
  <2>3. \A j \in Stored : HandleAt(j) # h
    BY <1>2, <1>3, NoKeyAssumption DEF Stored
  <2> QED
    BY <2>2, <2>3
<1>4. CASE storeKey[h] # NoKey
  <2>1. k = storeKey[h] /\ k \in StoreKeys
    BY <1>1, <1>4 DEF get_store_key
  <2> QED
    BY <1>2, <1>4, <2>1 DEF OneInv, MapInv
<1> QED
  BY <1>3, <1>4

\* A step that changes neither objects nor the disk, the promises with them.
LEMMA SameHandles ==
    ASSUME OneThread, OneInv, NEW t \in Threads, UNCHANGED <<mem, disk, past, gone>>,
           issued \subseteq issued', QueueKept(t)
    PROVE  HandlesInv'
<1>1. \A i \in DOMAIN call'[t].queue : Kept(call'[t].queue[i])
  BY KeptFacts DEF QueueKept
<1>2. past' \subseteq issued /\ gone' \subseteq issued
  BY DEF OneInv, HandlesInv
<1> QED
  BY <1>1, <1>2, KeptFacts, HandlesKept DEF OneInv, Stored

\* persist_object and destroy_object look their store key up.
LEMMA LookUpKeeps ==
    ASSUME OneThread, ObjectInv, OneInv, NEW t \in Threads, PersistLocks(t) \/ UnpersistLooksUp(t)
    PROVE  OneInv'
<1>1. /\ UNCHANGED <<mem, disk, past, gone, issued>> /\ past \subseteq Handles
      /\ storeKey \in [Handles -> StoreKeys \cup {NoKey}]
  BY DEF PersistLocks, UnpersistLooksUp, ghosts, ObjectInv, TypeOK
<1>2. PICK d \in Call : /\ d = call[t] /\ d.queue \in Seq(Object) /\ PlaceOk(d)
  BY QueueSound
<1>3. PICK h \in Handles, p \in {"write", "delete"}, k \in StoreKeys :
        /\ k \in get_store_key(h)
        /\ storeKey' = [storeKey EXCEPT ![h] = k]
        /\ Become(t, [d EXCEPT !.pc = p, !.key = k])
        /\ Uses(h)
        /\ p = "write" => d.pc = "persist" /\ h = Head(d.queue).handle
        /\ p = "delete" => d.pc = "unpersist" /\ h = d.handle
  <2>1. CASE PersistLocks(t)
    <3>1. PICK h : h = Head(d.queue).handle
      OBVIOUS
    <3>2. PICK k \in get_store_key(h) :
            /\ storeKey' = [storeKey EXCEPT ![h] = k]
            /\ Become(t, [d EXCEPT !.pc = "write", !.key = k])
      BY <1>2, <2>1, <3>1 DEF PersistLocks
    <3>3. d.pc = "persist" /\ d.queue # <<>>
      BY <1>2, <2>1 DEF PersistLocks, At, PlaceOk
    <3>4. Head(d.queue) \in Object /\ 1 \in DOMAIN d.queue /\ Head(d.queue) = d.queue[1]
      BY <1>2, <3>3, QueueFacts
    <3>5. h \in Handles /\ InQueue(t, h)
      BY <1>2, <3>1, <3>4 DEF InQueue, Object
    <3>6. Uses(h)
      BY <1>2, <3>3, <3>5 DEF Uses
    <3> QED
      BY <3>1, <3>2, <3>3, <3>5, <3>6, KeyGiven
  <2>2. CASE UnpersistLooksUp(t)
    <3>1. PICK h : h = d.handle
      OBVIOUS
    <3>2. PICK k \in get_store_key(h) :
            /\ storeKey' = [storeKey EXCEPT ![h] = k]
            /\ Become(t, [d EXCEPT !.pc = "delete", !.key = k])
      BY <1>2, <2>2, <3>1 DEF UnpersistLooksUp
    <3>3. d.pc = "unpersist" /\ h \in Handles
      BY <1>2, <2>2, <3>1 DEF UnpersistLooksUp, At, PlaceOk
    <3>4. Uses(h)
      BY <1>2, <3>1, <3>3 DEF Uses, Destroying
    <3> QED
      BY <3>1, <3>2, <3>3, <3>4, KeyGiven
  <2> QED
    BY <2>1, <2>2
<1>4. PICK c : c = [d EXCEPT !.pc = p, !.key = k]
  OBVIOUS
<1>5. c.pc = p /\ c.key = k /\ c.queue = d.queue /\ c.handle = d.handle
  BY <1>4 DEF Call
<1>6. call'[t] = c
  BY <1>3, <1>4, PlaceFacts
<1>7. /\ k \in StoreKeys /\ (k \in Stored => HandleAt(k) = h)
      /\ \A j \in Stored : HandleAt(j) = h => j = k
      /\ \A g \in Handles : g # h => storeKey[g] # k
  BY <1>3, KeyGiven
<1>8. QueueKept(t) /\ \A g : InQueue(t, g)' => InQueue(t, g)
  BY <1>2, <1>5, <1>6 DEF QueueKept, InQueue
<1>9. \A g : Uses(g)' => Uses(g)
  BY <1>1, <1>2, <1>3, <1>5, <1>6, <1>8 DEF Uses, OneThread, Destroying
<1>10. \A g : InUse(g)' => InUse(g)
  BY <1>1, <1>8 DEF InUse, OneThread
<1>11. MapInv'
  <2>1. \A g \in past : Uses(g)' => Uses(g) \/ g = h
    BY <1>9
  <2>2. \A g \in past : InUse(g)' => InUse(g)
    BY <1>10
  <2>3. MapInv /\ storeKey' = [storeKey EXCEPT ![h] = k] /\ UNCHANGED <<disk, past>>
    BY <1>1, <1>3 DEF OneInv
  <2> QED
    BY <1>1, <1>7, <2>1, <2>2, <2>3, MapGains
<1>12. HandlesInv'
  BY <1>1, <1>8, SameHandles
<1>13. RelyInv(t)'
  <2>1. storeKey'[h] = k
    BY <1>1, <1>3
  <2>2. CASE p = "write"
    BY <1>3, <1>5, <1>6, <2>1, <2>2 DEF RelyInv, Destroying, Loading
  <2>3. CASE p = "delete"
    <3>1. mem[h] = NoObject /\ h \in issued /\ d.queue = <<>>
      BY <1>2, <1>3, <2>3 DEF OneInv, RelyInv, Destroying
    <3> QED
      BY <1>1, <1>3, <1>5, <1>6, <2>1, <2>3, <3>1 DEF RelyInv, Destroying, Loading
  <2> QED
    BY <2>2, <2>3
<1> QED
  BY <1>11, <1>12, <1>13 DEF OneInv, OneThread

\* ensure_past and the mapping of a record that was read.
LEMMA MapsKeeps ==
    ASSUME OneThread, ObjectInv, OneInv, NEW t \in Threads, LoadMaps(t)
    PROVE  OneInv'
<1>1. /\ UNCHANGED <<mem, disk, past, gone>> /\ past \subseteq Handles /\ call[t].pc = "load_map"
      /\ storeKey \in [Handles -> StoreKeys \cup {NoKey}]
      /\ issued \subseteq issued'
  BY DEF LoadMaps, At, ghosts, ObjectInv, TypeOK
<1>2. PICK d \in Call : d = call[t] /\ d.queue \in Seq(Object) /\ d.queue # <<>>
  BY <1>1, QueueSound DEF PlaceOk
<1>3. PICK o \in Object : o = d.queue[1]
  BY <1>2, QueueFacts
<1>4. PICK h \in Handles, k \in StoreKeys : /\ h = o.handle /\ k = d.key /\ k \in Stored /\ HandleAt(k) = h
                                            /\ Len(d.queue) = 1
  BY <1>1, <1>2, <1>3 DEF OneInv, RelyInv, Object, Stored, HandleAt
<1>5. storeKey' = [storeKey EXCEPT ![h] = k]
  BY <1>2, <1>3, <1>4 DEF LoadMaps
<1>6. /\ call'[t].pc = "load_insert" /\ call'[t].queue = d.queue /\ call'[t].key = k
      /\ call'[t].todo = d.todo
  BY <1>2, <1>4, GotoFacts DEF LoadMaps
<1>7. QueueKept(t) /\ (\A g : InQueue(t, g)' => InQueue(t, g)) /\ (\A g : InQueue(t, g)' => g = h)
  <2>1. DOMAIN d.queue = {1}
    BY <1>2, <1>4
  <2> QED
    BY <1>2, <1>3, <1>4, <1>6, <2>1 DEF QueueKept, InQueue
<1>8. \A g \in past : Uses(g)' => Uses(g) \/ g = h
  BY <1>1, <1>6, <1>7 DEF Uses, OneThread, Destroying
<1>9. \A g \in past : InUse(g)' => InUse(g)
  BY <1>1, <1>7 DEF InUse, OneThread
<1>10. MapInv'
  <2>1. \A j \in Stored : HandleAt(j) = h => j = k
    BY <1>4 DEF OneInv, MapInv
  <2>2. \A g \in Handles : g # h => storeKey[g] # k
    BY <1>4 DEF OneInv, MapInv
  <2>3. MapInv /\ UNCHANGED <<disk, past>>
    BY <1>1 DEF OneInv
  <2>4. k \in Stored => HandleAt(k) = h
    BY <1>4
  <2> QED
    BY <1>1, <1>5, <1>8, <1>9, <2>1, <2>2, <2>3, <2>4, MapGains
<1>11. HandlesInv'
  BY <1>1, <1>7, SameHandles
<1>12. RelyInv(t)'
  <2>1. Stored' = Stored /\ \A j : HandleAt(j)' = HandleAt(j)
    BY <1>1 DEF Stored, HandleAt
  <2>2. \A j \in Stored : Loadable(disk[j].object) =>
          j \in d.todo \/ d.key = j \/ mem[HandleAt(j)] # NoObject
    BY <1>1, <1>2 DEF OneInv, RelyInv, Loading
  <2>3. disk[k].object = d.queue[1]
    BY <1>1, <1>2, <1>4 DEF OneInv, RelyInv
  <2>4. \A j \in Stored' : Loadable(disk'[j].object) =>
          j \in call'[t].todo \/ call'[t].key = j \/ mem'[HandleAt(j)'] # NoObject
    BY <1>1, <1>4, <1>6, <2>1, <2>2
  <2>5. Len(call'[t].queue) = 1 /\ call'[t].key \in Stored'
        /\ disk'[call'[t].key].object = call'[t].queue[1]
    BY <1>1, <1>4, <1>6, <2>1, <2>3
  <2> QED
    BY <1>6, <2>4, <2>5 DEF RelyInv, Destroying, Loading
<1> QED
  BY <1>10, <1>11, <1>12 DEF OneInv, OneThread

\* The end of destroy_object: nothing holds the handle any more.
LEMMA ReturnsKeeps ==
    ASSUME OneThread, ObjectInv, OneInv, NEW t \in Threads, DestroyReturns(t)
    PROVE  OneInv'
<1>1. /\ UNCHANGED <<mem, disk, past, issued>> /\ past \subseteq Handles
      /\ call[t].pc \in {"unmap", "unmap_failed"} /\ call[t].handle \in Handles
      /\ storeKey \in [Handles -> StoreKeys \cup {NoKey}]
  BY QueueSound DEF DestroyReturns, ObjectInv, TypeOK, PlaceOk
<1>2. PICK h \in Handles : /\ h = call[t].handle /\ mem[h] = NoObject /\ h \in issued
                           /\ call[t].pc = "unmap" => \A k \in Stored : HandleAt(k) # h
  BY <1>1 DEF OneInv, RelyInv, Destroying
<1>3. /\ storeKey' = [storeKey EXCEPT ![h] = NoKey]
      /\ gone' = IF call[t].pc = "unmap" THEN gone \cup {h} ELSE gone
      /\ Return(t)
  BY <1>2 DEF DestroyReturns, At
<1>4. call'[t].queue = <<>> /\ call'[t].pc = "idle" /\ QueueKept(t) /\ call'[t].pc \in Easy
  BY <1>3, ReturnEasy
<1>5. RelyInv(t)'
  BY <1>4, RelyEasy
<1>6. /\ \A g : ~InQueue(t, g)'
      /\ call'[t].pc \notin Destroying
  BY <1>4 DEF InQueue, Destroying
<1>7. \A g \in past : Uses(g)' => Uses(g) /\ storeKey'[g] = storeKey[g]
  <2>1. SUFFICES ASSUME NEW g \in past, Uses(g)' PROVE Uses(g) /\ storeKey'[g] = storeKey[g]
    OBVIOUS
  <2>2. mem[g] # NoObject /\ g # h /\ g \in Handles
    BY <1>1, <1>2, <1>6, <2>1 DEF Uses, OneThread
  <2> QED
    BY <1>1, <1>3, <2>2 DEF Uses
<1>8. \A g \in past : InUse(g)' => InUse(g)
  BY <1>1, <1>6 DEF InUse, OneThread
<1>9. \A g \in Handles : storeKey'[g] = storeKey[g] \/ storeKey'[g] = NoKey
  BY <1>1, <1>3
<1>10. MapInv'
  <2>1. MapInv /\ UNCHANGED <<disk, past>>
    BY <1>1 DEF OneInv
  <2> QED
    BY <1>1, <1>7, <1>8, <1>9, <2>1, MapForgets
<1>11. HandlesInv'
  <2>1. \A o \in Held' : o.handle \in gone' => o.handle \in gone
    <3>1. SUFFICES ASSUME NEW o \in Held', call[t].pc = "unmap" PROVE o.handle # h
      BY <1>3
    <3>2. CASE \E g \in Handles : mem[g] # NoObject /\ o = mem[g]
      BY <1>2, <3>2 DEF OneInv, HandlesInv
    <3>3. CASE \E k \in StoreKeys : disk[k] # NoObject /\ o = disk[k].object
      BY <1>2, <3>1, <3>3 DEF Stored, HandleAt
    <3> QED
      BY <1>1, <1>4, <3>2, <3>3, HeldPartsNext
  <2>2. past' \subseteq issued /\ gone' \subseteq issued
    BY <1>1, <1>2, <1>3 DEF OneInv, HandlesInv
  <2>3. \A i \in DOMAIN call'[t].queue : Kept(call'[t].queue[i])
    BY <1>4
  <2>4. /\ \A g \in Handles : mem'[g] # NoObject => mem'[g].handle = g /\ Kept(mem'[g])
        /\ \A k \in StoreKeys : disk'[k] # NoObject => Kept(disk'[k].object)
    BY <1>1, KeptFacts DEF Stored
  <2> QED
    BY <1>1, <2>1, <2>2, <2>3, <2>4, HandlesKept DEF OneInv
<1> QED
  BY <1>5, <1>10, <1>11 DEF OneInv, OneThread

\* C_InitToken forgets every store key; no object is left.
LEMMA ClearsMapKeeps ==
    ASSUME OneThread, ObjectInv, OneInv, NEW t \in Threads, ClearsMap(t)
    PROVE  OneInv'
<1>1. /\ UNCHANGED <<mem, disk, past, gone, issued>> /\ past \subseteq Handles
      /\ call[t].pc = "clear_map" /\ storeKey' = [h \in Handles |-> NoKey]
  BY DEF ClearsMap, At, ghosts, ObjectInv, TypeOK
<1>2. call[t].queue = <<>> /\ \A h \in Handles : mem[h] = NoObject
  BY <1>1 DEF OneInv, RelyInv
<1>3. call'[t].pc = "clear_disk" /\ call'[t].queue = <<>>
  BY <1>2, GotoFacts DEF ClearsMap
<1>4. RelyInv(t)'
  BY <1>1, <1>2, <1>3 DEF RelyInv, Destroying, Loading
<1>5. QueueKept(t) /\ (\A g : ~InQueue(t, g)') /\ call'[t].pc \notin Destroying
  BY <1>3 DEF QueueKept, InQueue, Destroying
<1>6. \A g \in past : ~Uses(g)' /\ ~InUse(g)'
  BY <1>1, <1>2, <1>5 DEF Uses, InUse, OneThread
<1>7. \A g \in Handles : storeKey'[g] = NoKey
  BY <1>1
<1>8. MapInv'
  <2>1. MapInv /\ UNCHANGED <<disk, past>>
    BY <1>1 DEF OneInv
  <2> QED
    BY <1>1, <1>6, <1>7, <2>1, MapForgets
<1>9. HandlesInv'
  BY <1>1, <1>5, SameHandles
<1> QED
  BY <1>4, <1>8, <1>9 DEF OneInv, OneThread

\* Deleting records: the objects still in use keep theirs.
LEMMA MapDeletes ==
    ASSUME MapInv, UNCHANGED <<storeKey, past>>,
           \A k \in StoreKeys : disk'[k] = disk[k] \/ disk'[k] = NoObject,
           \A g \in past : Uses(g)' => Uses(g),
           \A g \in past : InUse(g)' => InUse(g),
           \A g \in past : InUse(g)' =>
               \A k \in Stored : HandleAt(k) = g => disk'[k] = disk[k]
    PROVE  MapInv'
<1>1. /\ \A k : k \in Stored' => k \in Stored
      /\ \A k \in Stored' : HandleAt(k)' = HandleAt(k)
      /\ \A k \in Stored : disk'[k] = disk[k] => k \in Stored'
  BY DEF Stored, HandleAt
<1>2. \A j \in Stored : HandleAt(j) \in past
  BY DEF MapInv
<1>3. ASSUME NEW j \in Stored', Uses(HandleAt(j))' PROVE storeKey'[HandleAt(j)'] = j
  <2>1. PICK g \in past : g = HandleAt(j) /\ g = HandleAt(j)'
    BY <1>1, <1>2
  <2>2. Uses(g)'
    BY <1>3, <2>1
  <2>3. Uses(g)
    BY <2>2
  <2> QED
    BY <1>1, <2>1, <2>3 DEF MapInv
<1>4. ASSUME NEW g \in past', InUse(g)' PROVE \E j \in Stored' : HandleAt(j)' = g
  <2>1. g \in past /\ InUse(g)
    BY <1>4
  <2>2. PICK j \in Stored : HandleAt(j) = g
    BY <2>1 DEF MapInv
  <2>3. disk'[j] = disk[j]
    BY <1>4, <2>1, <2>2
  <2> QED
    BY <1>1, <2>2, <2>3
<1>5. \A j \in Stored' : HandleAt(j)' \in past'
  BY <1>1, <1>2
<1>6. ASSUME NEW g \in Handles, storeKey'[g] \in Stored' PROVE HandleAt(storeKey[g])' = g
  <2>1. storeKey[g] \in Stored /\ disk'[storeKey[g]] = disk[storeKey[g]]
    BY <1>6 DEF Stored
  <2>2. disk[storeKey[g]].object.handle = g
    BY <2>1 DEF MapInv, HandleAt
  <2> QED
    BY <2>1, <2>2 DEF HandleAt
<1>7. \A f, g \in Handles : storeKey'[f] = storeKey'[g] /\ storeKey'[f] # NoKey => f = g
  BY DEF MapInv
<1>8. \A i, j \in Stored' : HandleAt(i)' = HandleAt(j)' => i = j
  BY <1>1 DEF MapInv
<1> QED
  BY <1>3, <1>4, <1>5, <1>6, <1>7, <1>8 DEF MapInv

\* The delete transaction of destroy_object takes the object's own record.
LEMMA DeletedKeeps ==
    ASSUME OneThread, ObjectInv, OneInv, NEW t \in Threads, UnpersistDeletes(t)
    PROVE  OneInv'
<1>1. /\ UNCHANGED <<mem, storeKey, past, gone, issued>> /\ past \subseteq Handles
      /\ call[t].pc = "delete" /\ call[t].handle \in Handles /\ call[t].key \in StoreKeys
      /\ disk \in [StoreKeys -> Record \cup {NoObject}]
  BY QueueSound DEF UnpersistDeletes, At, ghosts, ObjectInv, TypeOK, PlaceOk
<1>2. PICK h \in Handles, k \in StoreKeys :
        /\ h = call[t].handle /\ k = call[t].key /\ storeKey[h] = k
        /\ mem[h] = NoObject /\ h \in issued /\ call[t].queue = <<>>
  BY <1>1 DEF OneInv, RelyInv, Destroying
<1>3. PICK p \in {"unmap", "unmap_failed"} :
        /\ Goto(t, p)
        /\ disk' = disk \/ disk' = [disk EXCEPT ![k] = NoObject]
        /\ p = "unmap" => disk' = [disk EXCEPT ![k] = NoObject]
  BY <1>2 DEF UnpersistDeletes
<1>4. call'[t].pc = p /\ call'[t].queue = <<>> /\ call'[t].handle = h
  BY <1>2, <1>3, GotoFacts
<1>5. QueueKept(t) /\ (\A g : ~InQueue(t, g)') /\ call'[t].pc \in Destroying
  BY <1>3, <1>4 DEF QueueKept, InQueue, Destroying
<1>6. Uses(h)
  BY <1>1, <1>2 DEF Uses, Destroying
<1>7. \A j \in Stored : HandleAt(j) = h => j = k
  BY <1>2, <1>6 DEF OneInv, MapInv
<1>8. /\ \A j \in StoreKeys : disk'[j] = disk[j] \/ (j = k /\ disk'[j] = NoObject)
      /\ p = "unmap" => disk'[k] = NoObject
  BY <1>1, <1>3
<1>9. \A g : Uses(g)' => Uses(g)
  BY <1>1, <1>4, <1>5, <1>6 DEF Uses, OneThread
<1>10. \A g : InUse(g)' => mem[g] # NoObject /\ InUse(g)
  BY <1>1, <1>5 DEF InUse, OneThread
<1>11. MapInv'
  <2>1. \A g \in past : InUse(g)' => \A j \in Stored : HandleAt(j) = g => disk'[j] = disk[j]
    <3>1. SUFFICES ASSUME NEW g \in past, InUse(g)', NEW j \in Stored, HandleAt(j) = g, j = k
                   PROVE  FALSE
      BY <1>8 DEF Stored
    <3>2. HandleAt(k) = h
      BY <1>2, <3>1 DEF OneInv, MapInv
    <3> QED
      BY <1>2, <1>10, <3>1, <3>2
  <2>2. MapInv /\ UNCHANGED <<storeKey, past>>
    BY <1>1 DEF OneInv
  <2>3. /\ \A j \in StoreKeys : disk'[j] = disk[j] \/ disk'[j] = NoObject
        /\ \A g \in past : Uses(g)' => Uses(g)
        /\ \A g \in past : InUse(g)' => InUse(g)
    BY <1>8, <1>9, <1>10
  <2> QED
    BY <2>1, <2>2, <2>3, MapDeletes
<1>12. HandlesInv'
  <2>1. past' \subseteq issued /\ gone' \subseteq issued
    BY <1>1 DEF OneInv, HandlesInv
  <2>2. /\ \A g \in Handles : mem'[g] # NoObject => mem'[g].handle = g /\ Kept(mem'[g])
        /\ \A j \in StoreKeys : disk'[j] # NoObject => Kept(disk'[j].object)
    BY <1>1, <1>8, KeptFacts DEF Stored
  <2>3. \A i \in DOMAIN call'[t].queue : Kept(call'[t].queue[i])
    BY <1>4
  <2> QED
    BY <1>1, <2>1, <2>2, <2>3, HandlesKept DEF OneInv
<1>13. RelyInv(t)'
  <2>1. p = "unmap" => \A j \in Stored' : HandleAt(j)' # call'[t].handle
    <3>1. SUFFICES ASSUME p = "unmap", NEW j \in Stored', HandleAt(j)' = h PROVE FALSE
      BY <1>4
    <3>2. j \in StoreKeys /\ disk'[j] # NoObject /\ disk'[j].object.handle = h
      BY <3>1 DEF Stored, HandleAt
    <3>3. j # k /\ disk[j] = disk'[j]
      BY <1>8, <3>1, <3>2
    <3> QED
      BY <1>7, <3>2, <3>3 DEF Stored, HandleAt
  <2> QED
    BY <1>1, <1>2, <1>3, <1>4, <2>1 DEF RelyInv, Destroying, Loading
<1> QED
  BY <1>11, <1>12, <1>13 DEF OneInv, OneThread

\* C_InitToken clears the database, or fails to.
LEMMA ClearsDiskKeeps ==
    ASSUME OneThread, ObjectInv, OneInv, NEW t \in Threads, ClearsDisk(t)
    PROVE  OneInv'
<1>1. /\ UNCHANGED <<mem, storeKey, past, gone, issued>> /\ past \subseteq Handles
      /\ call[t].pc = "clear_disk"
      /\ \A k \in StoreKeys : disk'[k] = disk[k] \/ disk'[k] = NoObject
  BY DEF ClearsDisk, At, ghosts, ObjectInv, TypeOK
<1>2. call[t].queue = <<>> /\ \A h \in Handles : mem[h] = NoObject
  BY <1>1 DEF OneInv, RelyInv
<1>3. call'[t].pc = "clear_last" /\ call'[t].queue = <<>>
  BY <1>2, GotoFacts DEF ClearsDisk
<1>4. RelyInv(t)'
  BY <1>3, RelyEasy DEF Easy
<1>5. (\A g : ~InQueue(t, g)') /\ call'[t].pc \notin Destroying
  BY <1>3 DEF InQueue, Destroying
<1>6. \A g \in past : ~Uses(g)' /\ ~InUse(g)'
  BY <1>1, <1>2, <1>5 DEF Uses, InUse, OneThread
<1>7. MapInv'
  <2>1. MapInv /\ UNCHANGED <<storeKey, past>>
    BY <1>1 DEF OneInv
  <2> QED
    BY <1>1, <1>6, <2>1, MapDeletes
<1>8. HandlesInv'
  <2>1. past' \subseteq issued /\ gone' \subseteq issued
    BY <1>1 DEF OneInv, HandlesInv
  <2>2. /\ \A g \in Handles : mem'[g] # NoObject => mem'[g].handle = g /\ Kept(mem'[g])
        /\ \A j \in StoreKeys : disk'[j] # NoObject => Kept(disk'[j].object)
    BY <1>1, KeptFacts DEF Stored
  <2>3. \A i \in DOMAIN call'[t].queue : Kept(call'[t].queue[i])
    BY <1>3
  <2> QED
    BY <1>1, <2>1, <2>2, <2>3, HandlesKept DEF OneInv
<1> QED
  BY <1>4, <1>7, <1>8 DEF OneInv, OneThread

\* What a committed write of persist_object finds: the object's key is its own,
\* and a record of its handle is under that key and makes its promise.
LEMMA WriteFacts ==
    ASSUME OneThread, ObjectInv, OneInv, NEW t \in Threads, call[t].pc = "write"
    PROVE  \E o \in Object, k \in StoreKeys :
             /\ o = Head(call[t].queue) /\ k = call[t].key /\ storeKey[o.handle] = k
             /\ o.handle \in Handles /\ o \in Held /\ o.handle \in issued \ gone
             /\ Uses(o.handle) /\ InUse(o.handle)
             /\ \A j \in Stored : HandleAt(j) = o.handle => j = k
             /\ k \in Stored => HandleAt(k) = o.handle
<1>1. PICK d \in Call : /\ d = call[t] /\ d.queue \in Seq(Object) /\ d.queue # <<>>
                        /\ d.key \in StoreKeys
  BY QueueSound DEF PlaceOk
<1>2. PICK o \in Object : /\ o = Head(d.queue) /\ 1 \in DOMAIN d.queue /\ o = d.queue[1]
  BY <1>1, QueueFacts
<1>3. storeKey[o.handle] = d.key /\ o.handle \in Handles
  BY <1>1, <1>2 DEF OneInv, RelyInv, Object
<1>4. o \in Held /\ InQueue(t, o.handle)
  BY <1>1, <1>2, HeldParts DEF InQueue
<1>5. Uses(o.handle) /\ InUse(o.handle)
  BY <1>4 DEF Uses, InUse
<1>6. \A j \in Stored : HandleAt(j) = o.handle => j = d.key
  BY <1>3, <1>5 DEF OneInv, MapInv
<1>7. d.key \in Stored => HandleAt(d.key) = o.handle
  BY <1>3 DEF OneInv, MapInv
<1>8. o.handle \in issued \ gone
  BY <1>4 DEF OneInv, HandlesInv
<1> QED
  BY <1>1, <1>2, <1>3, <1>4, <1>5, <1>6, <1>7, <1>8

LEMMA WriteKeeps ==
    ASSUME OneThread, ObjectInv, OneInv, NEW t \in Threads, PersistWrites(t)
    PROVE  OneInv'
<1>1. /\ UNCHANGED <<mem, storeKey, issued, gone>> /\ past \subseteq Handles
      /\ call[t].pc = "write" /\ Persisted(t)
      /\ disk \in [StoreKeys -> Record \cup {NoObject}]
  BY DEF PersistWrites, At, ObjectInv, TypeOK
<1>2. call[t].queue # <<>>
  BY <1>1, QueueSound DEF PlaceOk
<1>3. /\ QueueKept(t) /\ call'[t].pc \in Easy
      /\ call'[t].pc \notin Queueing => call'[t].queue = <<>>
  BY <1>1, <1>2, PersistedEasy
<1>4. CASE UNCHANGED <<disk, past>>
  BY <1>1, <1>3, <1>4, EasyStep
<1>5. CASE /\ disk' = [disk EXCEPT ![call[t].key] = [object |-> Head(call[t].queue), under |-> persistKey]]
           /\ past' = past \cup {Head(call[t].queue).handle}
  <2>1. PICK o \in Object, k \in StoreKeys :
             /\ o = Head(call[t].queue) /\ k = call[t].key /\ storeKey[o.handle] = k
             /\ o.handle \in Handles /\ o \in Held /\ o.handle \in issued \ gone
             /\ Uses(o.handle) /\ InUse(o.handle)
             /\ \A j \in Stored : HandleAt(j) = o.handle => j = k
             /\ k \in Stored => HandleAt(k) = o.handle
    BY <1>1, WriteFacts
  <2>2. PICK h : h = o.handle
    OBVIOUS
  <2>3. PICK r : r = [object |-> o, under |-> persistKey]
    OBVIOUS
  <2>4. r.object = o /\ r # NoObject
    <3>1. r.object = o
      BY <2>3
    <3>2. r \in Record
      <4>1. persistKey \in 0 .. MaxEpoch /\ persistKey # 0
        BY <1>1 DEF ObjectInv, TypeOK, LockInv
      <4>2. persistKey \in 1 .. MaxEpoch
        BY <4>1, EpochAssumption
      <4> QED
        BY <2>3, <4>2 DEF Record
    <3> QED
      BY <3>1, <3>2, NoObjectAssumption
  <2>5. /\ disk'[k] = r /\ \A j \in StoreKeys : j # k => disk'[j] = disk[j]
        /\ past' = past \cup {h}
    BY <1>1, <1>5, <2>1, <2>2, <2>3
  <2>6. /\ k \in Stored' /\ HandleAt(k)' = h
        /\ \A j : j \in Stored' <=> j \in Stored \/ j = k
        /\ \A j \in StoreKeys : j # k => HandleAt(j)' = HandleAt(j)
    BY <2>1, <2>2, <2>4, <2>5 DEF Stored, HandleAt
  <2>7. RelyInv(t)'
    BY <1>3, RelyEasy
  <2>8. ASSUME NEW g, InQueue(t, g)' PROVE InQueue(t, g)
    BY <1>3, <2>8 DEF QueueKept, InQueue
  <2>9. \A g : Uses(g)' => Uses(g)
    <3>1. call'[t].pc \notin Destroying
      BY <1>3 DEF Easy, Destroying
    <3> QED
      BY <1>1, <2>8, <3>1 DEF Uses, OneThread
  <2>10. \A g : InUse(g)' => InUse(g)
    BY <1>1, <2>8 DEF InUse, OneThread
  <2>11. HandlesInv'
    <3>1. \A i \in DOMAIN call'[t].queue : Kept(call'[t].queue[i])
      BY <1>3, KeptFacts DEF QueueKept
    <3>2. past' \subseteq issued /\ gone' \subseteq issued
      BY <1>1, <2>1, <2>2, <2>5 DEF OneInv, HandlesInv
    <3>3. Kept(o)
      BY <2>1 DEF Kept
    <3>4. /\ \A g \in Handles : mem'[g] # NoObject => mem'[g].handle = g /\ Kept(mem'[g])
          /\ \A j \in StoreKeys : disk'[j] # NoObject => Kept(disk'[j].object)
      BY <1>1, <2>4, <2>5, <3>3, KeptFacts DEF Stored
    <3> QED
      BY <1>1, <3>1, <3>2, <3>4, HandlesKept DEF OneInv
  <2>12. MapInv'
    <3>1. \A j \in Stored : j \in StoreKeys /\ HandleAt(j) \in past
      BY DEF OneInv, MapInv, Stored
    <3>2. \A j \in Stored' : HandleAt(j)' \in past'
      BY <2>5, <2>6, <3>1
    <3>3. ASSUME NEW j \in Stored', Uses(HandleAt(j))' PROVE storeKey'[HandleAt(j)'] = j
      <4>1. CASE j = k
        BY <1>1, <2>1, <2>2, <2>6, <4>1
      <4>2. CASE j # k
        <5>1. PICK g : g = HandleAt(j) /\ g = HandleAt(j)' /\ j \in Stored
          BY <2>6, <3>1, <4>2
        <5>2. Uses(g)'
          BY <3>3, <5>1
        <5>3. Uses(g)
          BY <2>9, <5>2
        <5>4. \A i \in Stored : Uses(HandleAt(i)) => storeKey[HandleAt(i)] = i
          BY DEF OneInv, MapInv
        <5>5. storeKey[g] = j
          BY <5>1, <5>3, <5>4
        <5> QED
          BY <1>1, <5>1, <5>5
      <4> QED
        BY <4>1, <4>2
    <3>4. ASSUME NEW g \in Handles, storeKey'[g] \in Stored' PROVE HandleAt(storeKey[g])' = g
      <4>1. CASE storeKey[g] = k
        <5>1. g = h
          BY <2>1, <2>2, <4>1, NoKeyAssumption DEF OneInv, MapInv
        <5>2. disk'[storeKey'[g]].object.handle = g
          BY <1>1, <2>2, <2>4, <2>5, <4>1, <5>1
        <5> QED
          BY <5>2 DEF HandleAt
      <4>2. CASE storeKey[g] # k
        <5>1. storeKey[g] \in Stored
          BY <1>1, <2>6, <3>4, <4>2
        <5>2. disk'[storeKey'[g]] = disk[storeKey[g]] /\ disk[storeKey[g]].object.handle = g
          BY <1>1, <2>5, <3>1, <4>2, <5>1 DEF OneInv, MapInv, HandleAt
        <5> QED
          BY <5>2 DEF HandleAt
      <4> QED
        BY <4>1, <4>2
    <3>5. \A f, g \in Handles : storeKey'[f] = storeKey'[g] /\ storeKey'[f] # NoKey => f = g
      BY <1>1 DEF OneInv, MapInv
    <3>6. \A i, j \in Stored' : HandleAt(i)' = HandleAt(j)' => i = j
      BY <2>1, <2>2, <2>6, <3>1 DEF OneInv, MapInv
    <3>7. ASSUME NEW g \in past', InUse(g)' PROVE \E j \in Stored' : HandleAt(j)' = g
      <4>1. CASE g = h
        BY <2>6, <4>1
      <4>2. CASE g # h
        <5>1. g \in past /\ InUse(g)
          BY <2>5, <2>10, <3>7, <4>2
        <5>2. PICK j \in Stored : HandleAt(j) = g
          BY <5>1 DEF OneInv, MapInv
        <5> QED
          BY <2>1, <2>2, <2>6, <3>1, <4>2, <5>2
      <4> QED
        BY <4>1, <4>2
    <3> QED
      BY <3>2, <3>3, <3>4, <3>5, <3>6, <3>7 DEF MapInv
  <2> QED
    BY <2>7, <2>11, <2>12 DEF OneInv, OneThread
<1> QED
  BY <1>4, <1>5 DEF PersistWrites

\* The clock, a stutter, and a crash, after which the database alone is left.
LEMMA WorldStays ==
    ASSUME OneThread, ObjectInv, OneInv, Tomorrow \/ Restart \/ UNCHANGED vars
    PROVE  OneInv'
<1>1. CASE Tomorrow \/ UNCHANGED vars
  <2>1. UNCHANGED <<mem, disk, storeKey, issued, call, past, gone>>
    BY <1>1 DEF Tomorrow, vars, ghosts
  <2>2. Held' = Held /\ Stored' = Stored /\ \A k : HandleAt(k)' = HandleAt(k)
    BY <2>1 DEF Held, Present, InHand, Stored, HandleAt
  <2>3. HandlesInv'
    BY <2>1, <2>2 DEF OneInv, HandlesInv, Promise
  <2>4. \A h : (Uses(h)' <=> Uses(h)) /\ (InUse(h)' <=> InUse(h))
    BY <2>1 DEF Uses, InUse, InQueue
  <2>5. MapInv'
    BY <2>1, <2>4, MapKept DEF OneInv
  <2>6. \A t \in Threads : RelyInv(t)'
    BY <2>1, <2>2 DEF OneInv, RelyInv, Stored
  <2> QED
    BY <2>3, <2>5, <2>6 DEF OneInv
<1>2. CASE Restart
  <2>1. /\ UNCHANGED <<disk, past, gone, issued>> /\ past \subseteq Handles
        /\ \A h \in Handles : mem'[h] = NoObject /\ storeKey'[h] = NoKey
        /\ \A t \in Threads : call'[t] = Idle
    BY <1>2 DEF Restart, ghosts, ObjectInv, TypeOK
  <2>2. \A t \in Threads : call'[t].pc = "idle" /\ call'[t].queue = <<>>
    BY <2>1, IdleType
  <2>3. Held' \subseteq Held
    BY <2>1, <2>2 DEF Held, Present, InHand
  <2>4. HandlesInv'
    BY <2>1, <2>3 DEF OneInv, HandlesInv, Promise
  <2>5. \A g \in past : ~Uses(g)' /\ ~InUse(g)'
    BY <2>1, <2>2 DEF Uses, InUse, InQueue, Destroying
  <2>6. MapInv'
    <3>1. MapInv /\ UNCHANGED <<disk, past>>
      BY <2>1 DEF OneInv
    <3> QED
      BY <2>1, <2>5, <3>1, MapForgets
  <2>7. \A t \in Threads : RelyInv(t)'
    BY <2>2, RelyEasy DEF Easy
  <2> QED
    BY <2>4, <2>6, <2>7 DEF OneInv
<1> QED
  BY <1>1, <1>2

LEMMA InitOne == Init => OneInv
<1> SUFFICES ASSUME Init PROVE OneInv
  OBVIOUS
<1>1. /\ \A h \in Handles : mem[h] = NoObject /\ storeKey[h] = NoKey
      /\ \A k \in StoreKeys : disk[k] = NoObject
      /\ \A t \in Threads : call[t].pc = "idle" /\ call[t].queue = <<>>
      /\ past = {} /\ gone = {}
  BY IdleType DEF Init
<1>2. Held = {} /\ Stored = {}
  BY <1>1 DEF Held, Present, InHand, Stored
<1>3. HandlesInv /\ MapInv
  BY <1>1, <1>2, NoKeyAssumption DEF HandlesInv, MapInv
<1>4. \A t \in Threads : RelyInv(t)
  BY <1>1 DEF RelyInv, Destroying, Loading
<1> QED
  BY <1>3, <1>4 DEF OneInv

LEMMA NextOne == OneThread /\ ObjectInv /\ OneInv /\ [Next]_vars => OneInv'
<1> SUFFICES ASSUME OneThread, ObjectInv, OneInv, [Next]_vars PROVE OneInv'
  OBVIOUS
<1>1. ASSUME NEW t \in Threads, Begin(t) PROVE OneInv'
  BY <1>1, NewKeeps, StartKeeps, EasyKeeps, ClearKeeps, ChangeKeeps DEF Begin
<1>2. ASSUME NEW t \in Threads, Continue(t) PROVE OneInv'
  BY <1>2, EasyKeeps, InsertKeeps, LookUpKeeps, WriteKeeps, RemoveKeeps, DeletedKeeps,
     ReturnsKeeps, ListKeeps, ReadKeeps, MapsKeeps, LoadedKeeps, ClearsMapKeeps,
     ClearsDiskKeeps, SweptKeeps DEF Continue
<1> QED
  BY <1>1, <1>2, WorldStays DEF Next

LEMMA OneInvariant ==
    ASSUME OneThread
    PROVE  Spec => []OneInv
<1>1. Init => OneInv
  BY InitOne
<1>2. ObjectInv /\ OneInv /\ [Next]_vars => OneInv'
  BY NextOne
<1> QED
  BY <1>1, <1>2, ObjectInvariant, PTL DEF Spec

(* While calls do not overlap: an object whose destruction returned, its   *)
(* record deleted, is in neither the map nor the database, and in the      *)
(* hands of no creation, sweep or load that could bring it back, whatever  *)
(* crashes and failed transactions came before or come after.              *)
THEOREM DestroyFinal ==
    ASSUME OneThread
    PROVE  Spec => []DestroyIsFinal
<1>1. OneInv => DestroyIsFinal
  BY DEF OneInv, HandlesInv, DestroyIsFinal
<1> QED
  BY <1>1, OneInvariant, PTL

(* While calls do not overlap: when load_from_store returns at the end of  *)
(* its list, every record that it accepts is an object in memory.          *)
THEOREM LoginRestoresAll ==
    ASSUME OneThread
    PROVE  Spec => LoginRestores
<1>1. ASSUME OneInv, NEW t \in Threads, LoadEnds(t), NEW k \in StoreKeys,
             disk[k] # NoObject, Loadable(disk[k].object)
      PROVE  mem[disk[k].object.handle] # NoObject
  <2>1. call[t].pc = "load" /\ call[t].todo = {} /\ k \in Stored
    BY <1>1 DEF LoadEnds, At, Stored
  <2>2. \A j \in Stored : Loadable(disk[j].object) => mem[HandleAt(j)] # NoObject
    BY <1>1, <2>1 DEF OneInv, RelyInv, Loading
  <2> QED
    BY <1>1, <2>1, <2>2 DEF HandleAt
<1>2. OneInv => \A t \in Threads : LoadEnds(t) =>
        \A k \in StoreKeys : (disk[k] # NoObject /\ Loadable(disk[k].object)) =>
            mem[disk[k].object.handle] # NoObject
  BY <1>1
<1> QED
  BY <1>2, OneInvariant, PTL DEF LoginRestores

-----------------------------------------------------------------------------
(* The database implements TokenObjects *)

Live == {Promise(disk[k].object) : k \in {j \in StoreKeys : disk[j] # NoObject}}

LEMMA WriteAdds ==
    ASSUME OneThread, ObjectInv, OneInv, NEW t \in Threads, PersistWrites(t)
    PROVE  \/ UNCHANGED <<Live, past, gone>>
           \/ /\ \E p \in Live' \ Live : /\ p.handle \notin past \cup gone
                                         /\ Live' = Live \cup {p}
                                         /\ past' = past \cup {p.handle}
              /\ gone' = gone
<1>1. /\ gone' = gone /\ call[t].pc = "write" /\ disk \in [StoreKeys -> Record \cup {NoObject}]
  BY DEF PersistWrites, At, ObjectInv, TypeOK
<1>2. CASE UNCHANGED <<disk, past>>
  BY <1>1, <1>2 DEF Live
<1>3. CASE /\ disk' = [disk EXCEPT ![call[t].key] = [object |-> Head(call[t].queue), under |-> persistKey]]
           /\ past' = past \cup {Head(call[t].queue).handle}
  <2>1. PICK o \in Object, k \in StoreKeys :
             /\ o = Head(call[t].queue) /\ k = call[t].key /\ storeKey[o.handle] = k
             /\ o.handle \in Handles /\ o \in Held /\ o.handle \in issued \ gone
             /\ Uses(o.handle) /\ InUse(o.handle)
             /\ \A j \in Stored : HandleAt(j) = o.handle => j = k
             /\ k \in Stored => HandleAt(k) = o.handle
    BY <1>1, WriteFacts
  <2>2. PICK r : r = [object |-> o, under |-> persistKey]
    OBVIOUS
  <2>3. r.object = o /\ r # NoObject
    <3>1. persistKey \in 0 .. MaxEpoch /\ persistKey # 0
      BY <1>1 DEF ObjectInv, TypeOK, LockInv
    <3>2. persistKey \in 1 .. MaxEpoch
      BY <3>1, EpochAssumption
    <3> QED
      BY <2>2, <3>2, NoObjectAssumption DEF Record
  <2>4. /\ disk'[k] = r /\ \A j \in StoreKeys : j # k => disk'[j] = disk[j]
        /\ past' = past \cup {o.handle}
    BY <1>1, <1>3, <2>1, <2>2
  <2>5. PICK p : p = Promise(o) /\ p.handle = o.handle
    <3>1. Promise(o).handle = o.handle
      BY DEF Promise
    <3> QED
      BY <3>1
  <2>6. /\ p \in Live'
        /\ \A x \in Live' : x = p \/ \E j \in Stored : j # k /\ x = Promise(disk[j].object)
        /\ \A j \in Stored : j # k => Promise(disk[j].object) \in Live'
    BY <2>1, <2>3, <2>4, <2>5 DEF Live, Stored
  <2>7. \A x : x \in Live <=> \E j \in Stored : x = Promise(disk[j].object)
    BY DEF Live, Stored
  <2>8. CASE o.handle \in past
    <3>1. PICK j \in Stored : HandleAt(j) = o.handle
      BY <2>1, <2>8 DEF OneInv, MapInv
    <3>2. k \in Stored /\ HandleAt(k) = o.handle
      BY <2>1, <3>1
    <3>3. Promise(disk[k].object) = p
      <4>1. disk[k].object \in Held
        BY <3>2, HeldParts
      <4> QED
        BY <2>1, <2>5, <3>2, <4>1 DEF OneInv, HandlesInv, HandleAt
    <3>4. \A x : x \in Live' <=> x \in Live
      BY <2>6, <2>7, <3>2, <3>3
    <3>5. Live' = Live
      BY <3>4
    <3> QED
      BY <1>1, <2>4, <2>8, <3>5
  <2>9. CASE o.handle \notin past
    <3>1. \A j \in Stored : HandleAt(j) # o.handle /\ j # k
      BY <2>1, <2>9 DEF OneInv, MapInv
    <3>2. p \notin Live
      BY <2>5, <2>7, <3>1, PromiseHandle DEF HandleAt
    <3>3. Live' = Live \cup {p}
      BY <2>6, <2>7, <3>1
    <3> QED
      BY <1>1, <2>1, <2>4, <2>5, <2>6, <2>9, <3>2, <3>3
  <2> QED
    BY <2>8, <2>9
<1> QED
  BY <1>2, <1>3 DEF PersistWrites

LEMMA DeleteRemoves ==
    ASSUME OneThread, ObjectInv, OneInv, NEW t \in Threads, UnpersistDeletes(t)
    PROVE  /\ UNCHANGED <<past, gone>>
           /\ Live' = Live \/ \E p \in Live : Live' = Live \ {p}
<1>1. /\ UNCHANGED <<past, gone>> /\ disk \in [StoreKeys -> Record \cup {NoObject}]
  BY DEF UnpersistDeletes, ghosts, ObjectInv, TypeOK
<1>2. CASE disk' = disk
  BY <1>1, <1>2 DEF Live
<1>3. CASE disk' = [disk EXCEPT ![call[t].key] = NoObject] /\ call[t].key \in Stored
  <2>1. PICK k \in Stored : k = call[t].key
    BY <1>3
  <2>2. disk'[k] = NoObject /\ \A j \in StoreKeys : j # k => disk'[j] = disk[j]
    BY <1>1, <1>3, <2>1 DEF Stored
  <2>3. \A x : x \in Live <=> \E j \in Stored : x = Promise(disk[j].object)
    BY DEF Live, Stored
  <2>4. \A x : x \in Live' <=> \E j \in Stored : j # k /\ x = Promise(disk[j].object)
    BY <2>1, <2>2 DEF Live, Stored
  <2>5. PICK p \in Live : p = Promise(disk[k].object)
    BY <2>3
  <2>6. \A j \in Stored : j # k => Promise(disk[j].object) # p
    <3>1. SUFFICES ASSUME NEW j \in Stored, Promise(disk[j].object) = p PROVE j = k
      OBVIOUS
    <3>2. HandleAt(j) = HandleAt(k)
      BY <2>5, <3>1, PromiseHandle DEF HandleAt
    <3> QED
      BY <3>2 DEF OneInv, MapInv
  <2>7. Live' = Live \ {p}
    BY <2>3, <2>4, <2>5, <2>6
  <2> QED
    BY <1>1, <2>7
<1>4. CASE disk' = [disk EXCEPT ![call[t].key] = NoObject] /\ call[t].key \notin Stored
  <2>1. disk' = disk
    BY <1>1, <1>4 DEF Stored
  <2> QED
    BY <1>2, <2>1
<1> QED
  BY <1>2, <1>3, <1>4 DEF UnpersistDeletes

LEMMA ReturnConfirms ==
    ASSUME OneThread, ObjectInv, OneInv, NEW t \in Threads, DestroyReturns(t)
    PROVE  /\ UNCHANGED <<Live, past>>
           /\ \/ gone' = gone
              \/ \E h \in gone' : /\ h \notin {p.handle : p \in Live}
                                  /\ gone' = gone \cup {h}
<1>1. UNCHANGED <<Live, past>>
  BY DEF DestroyReturns, Live
<1>2. CASE gone' = gone
  BY <1>1, <1>2
<1>3. CASE call[t].pc = "unmap" /\ gone' = gone \cup {call[t].handle}
  <2>1. \A k \in Stored : HandleAt(k) # call[t].handle
    BY <1>3 DEF OneInv, RelyInv
  <2>2. \A p \in Live : \E k \in Stored : p = Promise(disk[k].object) /\ p.handle = HandleAt(k)
    BY DEF Live, Stored, Promise, HandleAt
  <2> QED
    BY <1>1, <1>3, <2>1, <2>2
<1> QED
  BY <1>2, <1>3 DEF DestroyReturns, At

LEMMA ClearWipes ==
    ASSUME ObjectInv, NEW t \in Threads, ClearsDisk(t)
    PROVE  UNCHANGED <<past, gone>> /\ (Live' = Live \/ Live' = {})
BY DEF ClearsDisk, ghosts, Live

\* Every other step leaves the database and its histories alone.
LEMMA OthersStutter ==
    ASSUME NEW t \in Threads, Begin(t) \/ Continue(t), ~PersistWrites(t), ~UnpersistDeletes(t),
           ~DestroyReturns(t), ~ClearsDisk(t)
    PROVE  UNCHANGED <<disk, past, gone>>
<1>1. CASE Begin(t)
  <2>1. CASE \E objects : Make(t, objects)
    BY <2>1 DEF Make
  <2>2. CASE \E object : Remake(t, object)
    BY <2>2 DEF Remake, ghosts
  <2>3. CASE \E material : Exports(material)
    BY <2>3 DEF Exports
  <2>4. CASE \/ C_DestroyObject(t) \/ SweepBegins(t) \/ C_Login(t) \/ C_Logout(t)
             \/ C_InitToken(t) \/ C_SetAttributeValue(t)
    BY <2>4 DEF C_DestroyObject, SweepBegins, C_Login, C_Logout, C_InitToken,
         C_SetAttributeValue, ghosts
  <2>5. CASE C_CreateObject(t) \/ C_GenerateKey(t) \/ C_DeriveKey(t) \/ C_GenerateKeyPair(t)
    BY <2>1, <2>5 DEF C_CreateObject, C_GenerateKey, C_DeriveKey, C_GenerateKeyPair
  <2>6. CASE C_UnwrapKey(t) \/ C_CopyObject(t)
    BY <2>2, <2>6 DEF C_UnwrapKey, C_CopyObject
  <2>7. CASE C_GetAttributeValue(t) \/ C_WrapKey(t)
    BY <2>3, <2>7 DEF C_GetAttributeValue, C_WrapKey
  <2> QED
    BY <1>1, <2>4, <2>5, <2>6, <2>7 DEF Begin
<1>2. CASE Continue(t)
  BY <1>2 DEF Continue, InsertBegins, InsertEnds, NothingToPersist, PersistLocks, DestroyRemoves,
       UnpersistLooksUp, LoginSetsKey, LoadLists, LoadReads, LoadMaps, LoadInserts, LoadEnds,
       LogoutClearsKey, ClearsMap, InitTokenClearsKey, InitTokenReturns, SweepObject,
       SweepPersists, ghosts
<1> QED
  BY <1>1, <1>2

(* While calls do not overlap: the encrypted database keeps the promises   *)
(* of TokenObjects through every crash and failed transaction.  A handle   *)
(* enters it once; its guards and its key never change there, although     *)
(* sweeps rewrite the record; a deletion takes one object, C_InitToken     *)
(* all; and a destruction is confirmed only when no record is left.        *)
THEOREM DatabaseKeepsPromises ==
    ASSUME OneThread
    PROVE  Spec => DurableSpec
<1>1. Init => Durable!Init
  BY DEF Init, Durable!Init
<1>2. ObjectInv /\ OneInv /\ [Next]_vars => [Durable!Next]_(Durable!vars)
  <2> SUFFICES ASSUME ObjectInv, OneInv, [Next]_vars PROVE [Durable!Next]_(Durable!vars)
    OBVIOUS
  <2> USE DEF Durable!Next, Durable!vars
  <2>1. ASSUME UNCHANGED <<disk, past, gone>> PROVE UNCHANGED Durable!vars
    BY <2>1
  <2>2. ASSUME NEW t \in Threads, PersistWrites(t) PROVE [Durable!Next]_(Durable!vars)
    BY <2>2, WriteAdds DEF Durable!Add, Live
  <2>3. ASSUME NEW t \in Threads, UnpersistDeletes(t) PROVE [Durable!Next]_(Durable!vars)
    BY <2>3, DeleteRemoves DEF Durable!Remove, Live
  <2>4. ASSUME NEW t \in Threads, DestroyReturns(t) PROVE [Durable!Next]_(Durable!vars)
    BY <2>4, ReturnConfirms DEF Durable!Confirm, Durable!HandlesOf, Live
  <2>5. ASSUME NEW t \in Threads, ClearsDisk(t) PROVE [Durable!Next]_(Durable!vars)
    BY <2>5, ClearWipes DEF Durable!Wipe, Live
  <2>6. Tomorrow \/ Restart \/ UNCHANGED vars => UNCHANGED <<disk, past, gone>>
    BY DEF Tomorrow, Restart, vars, ghosts
  <2>7. ASSUME NEW t \in Threads, Begin(t) \/ Continue(t) PROVE [Durable!Next]_(Durable!vars)
    BY <2>1, <2>2, <2>3, <2>4, <2>5, <2>7, OthersStutter
  <2> QED
    BY <2>1, <2>6, <2>7 DEF Next
<1> QED
  BY <1>1, <1>2, ObjectInvariant, OneInvariant, PTL DEF Spec, DurableSpec, Durable!Spec
=============================================================================

---------------------------- MODULE ObjectStore -----------------------------
(***************************************************************************)
(* The object store (store/attributes.rs), the objects in it               *)
(* (store/object.rs), the encrypted database behind it                     *)
(* (store/encrypted_store.rs) and the C_ calls that create, copy, change,  *)
(* export and destroy objects.                                             *)
(*                                                                         *)
(* Objects live in a concurrent map and token objects also on disk, under  *)
(* random store keys that only the map handle_to_store_key relates to      *)
(* handles.  A step is one access to one of those: a call is as many steps *)
(* as it lets others in between.  The mutex persist_key is held over every *)
(* encryption and over the whole of load_from_store, but not over a        *)
(* deletion.                                                               *)
(*                                                                         *)
(* A handle is 64 random-looking bits that an allocator never gives twice  *)
(* (session/handle.rs): handles are the identities of objects, and the     *)
(* handle of the first object that held it is the identity of a key.       *)
(***************************************************************************)
EXTENDS Naturals, Sequences, FiniteSets

CONSTANTS
    Threads,
    NoThread,      \* nobody holds persist_key
    Handles,
    StoreKeys,     \* opaque store keys
    NoKey,         \* no store key
    NoMaterial,    \* an object without key material
    NoObject,      \* a free place in the map or on disk
    Templates,     \* what callers ask for: functions from some Flags to BOOLEAN
    Labels,
    Periods,       \* the validity periods callers ask for
    MaxDay,        \* bound: the days of the model are 1 .. MaxDay
    MaxEpoch,      \* bound: successful C_InitToken calls + 1
    MAX_OBJECTS,
    Crashes,       \* may the process die between two steps?
    Faults         \* which transactions may fail: "write", "delete", "clear"

ASSUME ThreadAssumption == NoThread \notin Threads
ASSUME NoKeyAssumption == NoKey \notin StoreKeys
ASSUME NoMaterialAssumption == NoMaterial \notin Handles
ASSUME LabelAssumption == Labels # {}
ASSUME DayAssumption == MaxDay \in Nat \ {0}
ASSUME EpochAssumption == MaxEpoch \in Nat \ {0}
ASSUME LimitAssumption == MAX_OBJECTS \in Nat \ {0}
ASSUME SwitchAssumption ==
    Crashes \in BOOLEAN /\ Faults \subseteq {"write", "delete", "clear"}

VARIABLES
    mem,         \* [Handles -> Object or NoObject]: objects
    disk,        \* [StoreKeys -> Sealed or NoObject]: the database
    storeKey,    \* [Handles -> StoreKeys or NoKey]: handle_to_store_key
    persistKey,  \* the epoch of the object master key in persist_key, 0: None
    keyLock,     \* who holds the mutex persist_key
    loggedIn,    \* is the user logged in? (Sessions and TokenAuth have the rest)
    epoch,       \* the object master key of the token
    today,
    issued,      \* handles given out, by this process or an earlier one
    call,        \* [Threads -> Call]
    protected,   \* keys created sensitive, not extractable, in CKA_VALUE alone
    exported,    \* keys that left: read in clear, or in a wrapped blob
    past,        \* handles ever written to disk
    gone         \* handles C_DestroyObject returned for, their records deleted

vars == <<mem, disk, storeKey, persistKey, keyLock, loggedIn, epoch, today,
          issued, call, protected, exported, past, gone>>

Flags == {"token", "private", "sensitive", "extractable", "modifiable",
          "destroyable", "wrap", "unwrap", "derive"}

ASSUME TemplateAssumption ==
    \A t \in Templates : DOMAIN t \subseteq Flags /\ t \in [DOMAIN t -> BOOLEAN]

\* KeyLifecycleState, less Compromised and Destroyed, which no call sets.
Lifecycle == {"PreActivation", "Active", "Deactivated"}

Days == 0 .. MaxDay     \* 0: the date is not set

ASSUME PeriodAssumption == Periods \subseteq [start : Days, end : Days]

\* StoredObject: material is the key that CKA_VALUE holds, parts the key whose
\* private components are among the extra attributes.
Object == [handle : Handles, material : Handles \cup {NoMaterial},
           parts : Handles \cup {NoMaterial}, flags : [Flags -> BOOLEAN],
           label : Labels, period : [start : Days, end : Days], state : Lifecycle]

\* A record of the database: an object under the master key of an epoch.
Record == [object : Object, under : 1 .. MaxEpoch]

ASSUME NoObjectAssumption == NoObject \notin Object \cup Record

PC == {"idle", "limit", "persist", "write", "insert", "remove", "unpersist",
       "delete", "unmap", "unmap_failed", "set_key", "list", "load", "load_map", "load_insert",
       "sweep", "clear_key", "clear_map", "clear_disk", "clear_last", "init_token"}

\* queue: objects to persist; todo: store keys to load, handles to sweep.
Call == [pc : PC, op : {"create", "sweep", "other"}, queue : Seq(Object),
         todo : SUBSET (StoreKeys \cup Handles), handle : Handles \cup {NoObject},
         key : StoreKeys \cup {NoKey}]

Idle == [pc |-> "idle", op |-> "other", queue |-> <<>>, todo |-> {},
         handle |-> NoObject, key |-> NoKey]

TypeOK ==
    /\ mem \in [Handles -> Object \cup {NoObject}]
    /\ disk \in [StoreKeys -> Record \cup {NoObject}]
    /\ storeKey \in [Handles -> StoreKeys \cup {NoKey}]
    /\ persistKey \in 0 .. MaxEpoch
    /\ keyLock \in Threads \cup {NoThread}
    /\ loggedIn \in BOOLEAN
    /\ epoch \in 1 .. MaxEpoch
    /\ today \in 1 .. MaxDay
    /\ issued \subseteq Handles
    /\ call \in [Threads -> Call]
    /\ protected \subseteq Handles
    /\ exported \subseteq Handles
    /\ past \subseteq Handles
    /\ gone \subseteq Handles

Init ==
    /\ mem = [h \in Handles |-> NoObject]
    /\ disk = [k \in StoreKeys |-> NoObject]
    /\ storeKey = [h \in Handles |-> NoKey]
    /\ persistKey = 0 /\ keyLock = NoThread
    /\ loggedIn = FALSE /\ epoch = 1 /\ today = 1
    /\ issued = {}
    /\ call = [t \in Threads |-> Idle]
    /\ protected = {} /\ exported = {} /\ past = {} /\ gone = {}

ghosts == <<protected, exported, past, gone>>
place == <<persistKey, keyLock, loggedIn, epoch, today>>

Present == {h \in Handles : mem[h] # NoObject}

At(t, pc) == call[t].pc = pc
Become(t, c) == call' = [call EXCEPT ![t] = c]
Goto(t, pc) == Become(t, [call[t] EXCEPT !.pc = pc])
Return(t) == Become(t, Idle)

-----------------------------------------------------------------------------
(* Objects. *)

\* StoredObject::new.
NewFlags == [f \in Flags |-> f \in {"private", "sensitive", "modifiable", "destroyable"}]

\* A template's values for the attributes a call honours.
Apply(flags, template, honoured) ==
    [f \in Flags |-> IF f \in honoured \cap DOMAIN template THEN template[f] ELSE flags[f]]

Asks(template, f, value) == f \in DOMAIN template /\ template[f] = value

\* Mutant of Latched: CKA_EXTRACTABLE is taken as it comes.
LatchedSensitive(flags, template) ==
    flags["sensitive"] => ~Asks(template, "sensitive", FALSE)

\* apply_attribute and C_CopyObject: CKA_SENSITIVE only rises and
\* CKA_EXTRACTABLE only falls.
Latched(flags, template) ==
    /\ flags["sensitive"] => ~Asks(template, "sensitive", FALSE)
    /\ ~flags["extractable"] => ~Asks(template, "extractable", TRUE)

NewObject(h, material, flags, period) ==
    [handle |-> h, material |-> material, parts |-> NoMaterial, flags |-> flags,
     label |-> CHOOSE l \in Labels : TRUE, period |-> period, state |-> "Active"]

\* apply_attribute keeps what it does not know as an extra attribute: so the
\* private exponent and the primes of an imported RSA key.
WithParts(o, parts) == [o EXCEPT !.parts = parts]

\* compute_date_based_state: a date is its midnight, so the key is deactivated
\* on its last day already.
DateState(o) ==
    IF o.period.start # 0 /\ today < o.period.start THEN "PreActivation"
    ELSE IF o.period.end # 0 /\ today >= o.period.end THEN "Deactivated"
    ELSE "Active"

\* validate_deserialized_object.
Loadable(o) ==
    o.material # NoMaterial => o.flags["sensitive"] \/ o.flags["extractable"]

\* CKA_PRIVATE objects need a login.
Accessible(o) == o.flags["private"] => loggedIn

IsProtected(o) == o.flags["sensitive"] /\ ~o.flags["extractable"]

-----------------------------------------------------------------------------
(* Creation: the call builds its objects, then insert_object each. *)

Fresh == Handles \ issued

Creating(objects) ==
    [Idle EXCEPT !.pc = "limit", !.op = "create", !.queue = objects]

\* A call that makes objects with new key material.  Callers count on a key to
\* stay inside when it is sensitive, not extractable, and held as CKA_VALUE alone.
Make(t, objects) ==
    /\ issued' = issued \cup {objects[i].handle : i \in DOMAIN objects}
    /\ protected' = protected \cup
          {objects[i].handle : i \in {j \in DOMAIN objects :
              /\ objects[j].material = objects[j].handle /\ IsProtected(objects[j])
              /\ objects[j].parts = NoMaterial}}
    /\ Become(t, Creating(objects))
    /\ UNCHANGED <<mem, disk, storeKey, place, exported, past, gone>>

C_CreateObject(t) ==
    /\ At(t, "idle")
    /\ \E h \in Fresh, template \in Templates, period \in Periods,
          value \in BOOLEAN, components \in BOOLEAN :
        /\ value \/ components => loggedIn     \* secret and private keys need a login
        /\ Latched(NewFlags, template)
        /\ Make(t, <<WithParts(NewObject(h, IF value THEN h ELSE NoMaterial,
                                         Apply(NewFlags, template, Flags), period),
                               IF components THEN h ELSE NoMaterial)>>)

C_GenerateKey(t) ==
    /\ At(t, "idle")
    /\ \E h \in Fresh, template \in Templates, period \in Periods :
        Make(t, <<NewObject(h, h, Apply(NewFlags, template,
                    {"token", "private", "sensitive", "extractable", "wrap", "unwrap"}),
                    period)>>)

\* apply_pub_template on a public key, which holds no secret.
PublicFlags(template, derives) ==
    Apply([NewFlags EXCEPT !["private"] = FALSE, !["sensitive"] = FALSE,
                           !["derive"] = derives],
          template, {"token", "wrap"})

\* apply_priv_template.
PrivateFlags(template, derives) ==
    Apply([NewFlags EXCEPT !["derive"] = derives], template,
          {"token", "sensitive", "extractable", "unwrap", "derive"})

\* The helpers of C_GenerateKeyPair differ, for an object, in the default of
\* CKA_DERIVE.  A failed pairwise test (Library) makes no object.
generate_rsa_keypair(pubT, privT) == <<PublicFlags(pubT, FALSE), PrivateFlags(privT, FALSE)>>

generate_ec_keypair(pubT, privT) == <<PublicFlags(pubT, FALSE), PrivateFlags(privT, TRUE)>>

generate_ed25519_keypair(pubT, privT) == <<PublicFlags(pubT, FALSE), PrivateFlags(privT, FALSE)>>

\* ML-KEM keys derive, ML-DSA and SLH-DSA keys do not.
generate_pqc_keypair(kem, pubT, privT) == <<PublicFlags(pubT, kem), PrivateFlags(privT, kem)>>

C_GenerateKeyPair(t) ==
    /\ At(t, "idle")
    /\ \E pub \in Fresh, priv \in Fresh, pubT \in Templates,
          privT \in Templates, period \in Periods :
        /\ pub # priv
        /\ \E flags \in {generate_rsa_keypair(pubT, privT),
                         generate_ec_keypair(pubT, privT),
                         generate_ed25519_keypair(pubT, privT)}
                        \cup {generate_pqc_keypair(kem, pubT, privT) : kem \in BOOLEAN} :
            Make(t, <<NewObject(pub, NoMaterial, flags[1], period),
                      NewObject(priv, priv, flags[2], period)>>)

\* A secret key made with another key: it may be less sensitive than the
\* default only if that key is not sensitive, and never extractable.
Inherits(from, template) ==
    /\ from.flags["sensitive"] => ~Asks(template, "sensitive", FALSE)
    /\ ~Asks(template, "extractable", TRUE)

C_DeriveKey(t) ==
    /\ At(t, "idle")
    /\ \E base \in Present, h \in Fresh, template \in Templates :
        /\ mem[base].flags["derive"] /\ mem[base].material # NoMaterial
        /\ Inherits(mem[base], template)
        /\ Make(t, <<NewObject(h, h, Apply(NewFlags, template, {"token", "sensitive"}),
                               [start |-> 0, end |-> 0])>>)

\* A call that makes an object of key material that exists already.
Remake(t, object) ==
    /\ issued' = issued \cup {object.handle}
    /\ Become(t, Creating(<<object>>))
    /\ UNCHANGED <<mem, disk, storeKey, place, ghosts>>

\* Any wrapped key unwraps: blobs stay with the callers.
C_UnwrapKey(t) ==
    /\ At(t, "idle")
    /\ \E u \in Present, h \in Fresh, material \in exported, template \in Templates :
        /\ Accessible(mem[u]) /\ mem[u].flags["unwrap"]
        /\ mem[u].material # NoMaterial
        /\ Inherits(mem[u], template)
        /\ Remake(t, NewObject(h, material,
                        Apply(NewFlags, template, {"token", "sensitive"}),
                        [start |-> 0, end |-> 0]))

C_CopyObject(t) ==
    /\ At(t, "idle")
    /\ \E source \in Present, h \in Fresh, template \in Templates :
        /\ Accessible(mem[source])
        /\ Latched(mem[source].flags, template)
        /\ Remake(t, [mem[source] EXCEPT !.handle = h,
                                         !.flags = Apply(@, template, Flags)])

\* create_object and insert_object begin with the limit.
InsertBegins(t) ==
    /\ At(t, "limit")
    /\ IF Cardinality(Present) >= MAX_OBJECTS
         THEN Return(t)
         ELSE Goto(t, "persist")
    /\ UNCHANGED <<mem, disk, storeKey, place, issued, ghosts>>

InsertEnds(t) ==
    /\ At(t, "insert")
    /\ LET o == Head(call[t].queue) IN mem' = [mem EXCEPT ![o.handle] = o]
    /\ IF Len(call[t].queue) = 1
         THEN Return(t)
         ELSE Become(t, Creating(Tail(call[t].queue)))
    /\ UNCHANGED <<disk, storeKey, place, issued, ghosts>>

-----------------------------------------------------------------------------
(* persist_object, for a new object and for what a sweep changed. *)

\* A random store key is one nothing refers to.
FreeKeys ==
    {k \in StoreKeys :
        /\ disk[k] = NoObject
        /\ \A h \in Handles : storeKey[h] # k
        /\ \A t \in Threads : call[t].key # k /\ k \notin call[t].todo}

\* The store keys that get_store_key may return.
get_store_key(h) == IF storeKey[h] = NoKey THEN FreeKeys ELSE {storeKey[h]}

\* What follows persist_object: the insertion, or the sweep's next object.
Persisted(t) ==
    IF call[t].op = "create" THEN Goto(t, "insert")
    ELSE IF Len(call[t].queue) = 1 THEN Return(t)
    ELSE Become(t, [call[t] EXCEPT !.pc = "persist", !.queue = Tail(@)])

NothingToPersist(t) ==
    /\ At(t, "persist")
    /\ \/ ~Head(call[t].queue).flags["token"]
       \/ keyLock = NoThread /\ persistKey = 0
    /\ Persisted(t)
    /\ UNCHANGED <<mem, disk, storeKey, place, issued, ghosts>>

PersistLocks(t) ==
    /\ At(t, "persist")
    /\ Head(call[t].queue).flags["token"]
    /\ keyLock = NoThread /\ persistKey # 0
    /\ keyLock' = t
    /\ LET h == Head(call[t].queue).handle
       IN  \E k \in get_store_key(h) :
           /\ storeKey' = [storeKey EXCEPT ![h] = k]
           /\ Become(t, [call[t] EXCEPT !.pc = "write", !.key = k])
    /\ UNCHANGED <<mem, disk, persistKey, loggedIn, epoch, today, issued, ghosts>>

\* A failed write is logged and forgotten.
PersistWrites(t) ==
    /\ At(t, "write")
    /\ LET o == Head(call[t].queue)
       IN  \/ /\ disk' = [disk EXCEPT ![call[t].key] = [object |-> o, under |-> persistKey]]
              /\ past' = past \cup {o.handle}
           \/ "write" \in Faults /\ UNCHANGED <<disk, past>>
    /\ keyLock' = NoThread
    /\ Persisted(t)
    /\ UNCHANGED <<mem, storeKey, persistKey, loggedIn, epoch, today, issued,
                   protected, exported, gone>>

-----------------------------------------------------------------------------
(* C_DestroyObject and destroy_object. *)

C_DestroyObject(t) ==
    /\ At(t, "idle")
    /\ \E h \in Present :
        /\ mem[h].flags["destroyable"]
        /\ Become(t, [Idle EXCEPT !.pc = "remove", !.handle = h])
    /\ UNCHANGED <<mem, disk, storeKey, place, issued, ghosts>>

\* remove_if: another thread may have destroyed or reloaded the object.
DestroyRemoves(t) ==
    /\ At(t, "remove")
    /\ LET h == call[t].handle
       IN  IF mem[h] # NoObject /\ mem[h].flags["destroyable"]
             THEN mem' = [mem EXCEPT ![h] = NoObject] /\ Goto(t, "unpersist")
             ELSE Return(t) /\ UNCHANGED mem
    /\ UNCHANGED <<disk, storeKey, place, issued, ghosts>>

\* get_store_key invents a key for a handle that has none.
UnpersistLooksUp(t) ==
    /\ At(t, "unpersist")
    /\ LET h == call[t].handle
       IN  \E k \in get_store_key(h) :
           /\ storeKey' = [storeKey EXCEPT ![h] = k]
           /\ Become(t, [call[t] EXCEPT !.pc = "delete", !.key = k])
    /\ UNCHANGED <<mem, disk, place, issued, ghosts>>

\* Mutant of UnpersistDeletes: like persist_object, only with a key.
UnpersistWithKey(t) ==
    /\ At(t, "delete")
    /\ disk' = IF persistKey = 0 THEN disk ELSE [disk EXCEPT ![call[t].key] = NoObject]
    /\ Goto(t, "unmap")
    /\ UNCHANGED <<mem, storeKey, place, issued, ghosts>>

\* A failed deletion is logged and forgotten too.
UnpersistDeletes(t) ==
    /\ At(t, "delete")
    /\ \/ /\ disk' = [disk EXCEPT ![call[t].key] = NoObject]
          /\ Goto(t, "unmap")
       \/ /\ "delete" \in Faults
          /\ Goto(t, "unmap_failed")
          /\ UNCHANGED disk
    /\ UNCHANGED <<mem, storeKey, place, issued, ghosts>>

DestroyReturns(t) ==
    /\ call[t].pc \in {"unmap", "unmap_failed"}
    /\ storeKey' = [storeKey EXCEPT ![call[t].handle] = NoKey]
    /\ gone' = IF At(t, "unmap") THEN gone \cup {call[t].handle} ELSE gone
    /\ Return(t)
    /\ UNCHANGED <<mem, disk, place, issued, protected, exported, past>>

-----------------------------------------------------------------------------
(* C_Login of the user, with load_from_store, and C_Logout. *)

C_Login(t) ==
    /\ At(t, "idle") /\ ~loggedIn
    /\ loggedIn' = TRUE
    /\ Goto(t, "set_key")
    /\ UNCHANGED <<mem, disk, storeKey, persistKey, keyLock, epoch, today,
                   issued, ghosts>>

LoginSetsKey(t) ==
    /\ At(t, "set_key") /\ keyLock = NoThread
    /\ persistKey' = epoch
    /\ Goto(t, "list")
    /\ UNCHANGED <<mem, disk, storeKey, keyLock, loggedIn, epoch, today,
                   issued, ghosts>>

LoadLists(t) ==
    /\ At(t, "list") /\ keyLock = NoThread
    /\ IF persistKey = 0
         THEN Return(t) /\ UNCHANGED keyLock
         ELSE /\ keyLock' = t
              /\ Become(t, [call[t] EXCEPT !.pc = "load",
                               !.todo = {k \in StoreKeys : disk[k] # NoObject}])
    /\ UNCHANGED <<mem, disk, storeKey, persistKey, loggedIn, epoch, today,
                   issued, ghosts>>

\* A record under another key ends the load; one that does not validate, or
\* was deleted meanwhile, is skipped.
LoadReads(t) ==
    /\ At(t, "load")
    /\ \E k \in call[t].todo :
        LET r == disk[k]
            rest == [call[t] EXCEPT !.todo = @ \ {k}]
            opens == r # NoObject /\ r.under = persistKey
        IN  \/ /\ r # NoObject /\ ~opens
               /\ Return(t) /\ keyLock' = NoThread
            \/ /\ opens => ~Loadable(r.object)
               /\ r # NoObject => opens
               /\ Become(t, rest) /\ UNCHANGED keyLock
            \/ /\ opens /\ Loadable(r.object)
               /\ Become(t, [rest EXCEPT !.pc = "load_map", !.key = k,
                                         !.queue = <<r.object>>])
               /\ UNCHANGED keyLock
    /\ UNCHANGED <<mem, disk, storeKey, persistKey, loggedIn, epoch, today,
                   issued, ghosts>>

\* ensure_past, with the mapping.
LoadMaps(t) ==
    /\ At(t, "load_map")
    /\ LET h == call[t].queue[1].handle
       IN  /\ storeKey' = [storeKey EXCEPT ![h] = call[t].key]
           /\ issued' = issued \cup {h}
    /\ Goto(t, "load_insert")
    /\ UNCHANGED <<mem, disk, place, ghosts>>

\* Mutant of LoadInserts: a capacity check that ends the load silently.
LoadInsertsUpToLimit(t) ==
    /\ At(t, "load_insert")
    /\ LET o == call[t].queue[1]
       IN  mem' = IF Cardinality(Present) + 1 >= MAX_OBJECTS THEN mem
                  ELSE [mem EXCEPT ![o.handle] = o]
    /\ Become(t, [call[t] EXCEPT !.pc = "load", !.queue = <<>>, !.key = NoKey])
    /\ UNCHANGED <<disk, storeKey, place, issued, ghosts>>

LoadInserts(t) ==
    /\ At(t, "load_insert")
    /\ LET o == call[t].queue[1] IN mem' = [mem EXCEPT ![o.handle] = o]
    /\ Become(t, [call[t] EXCEPT !.pc = "load", !.queue = <<>>, !.key = NoKey])
    /\ UNCHANGED <<disk, storeKey, place, issued, ghosts>>

LoadEnds(t) ==
    /\ At(t, "load") /\ call[t].todo = {}
    /\ keyLock' = NoThread
    /\ Return(t)
    /\ UNCHANGED <<mem, disk, storeKey, persistKey, loggedIn, epoch, today,
                   issued, ghosts>>

C_Logout(t) ==
    /\ At(t, "idle") /\ loggedIn
    /\ loggedIn' = FALSE
    /\ Goto(t, "clear_key")
    /\ UNCHANGED <<mem, disk, storeKey, persistKey, keyLock, epoch, today,
                   issued, ghosts>>

LogoutClearsKey(t) ==
    /\ At(t, "clear_key") /\ keyLock = NoThread
    /\ persistKey' = 0
    /\ Return(t)
    /\ UNCHANGED <<mem, disk, storeKey, keyLock, loggedIn, epoch, today,
                   issued, ghosts>>

-----------------------------------------------------------------------------
(* C_InitToken: everything goes before the SO PIN is looked at. *)

\* Mutant of C_InitToken: the objects in memory stay.
InitTokenKeepsObjects(t) ==
    /\ At(t, "idle")
    /\ loggedIn' = FALSE
    /\ Goto(t, "clear_map")
    /\ UNCHANGED <<mem, disk, storeKey, persistKey, keyLock, epoch, today, issued, ghosts>>

C_InitToken(t) ==
    /\ At(t, "idle")
    /\ loggedIn' = FALSE     \* close_all_sessions
    /\ mem' = [h \in Handles |-> NoObject]
    /\ Goto(t, "clear_map")
    /\ UNCHANGED <<disk, storeKey, persistKey, keyLock, epoch, today, issued, ghosts>>

ClearsMap(t) ==
    /\ At(t, "clear_map")
    /\ storeKey' = [h \in Handles |-> NoKey]
    /\ Goto(t, "clear_disk")
    /\ UNCHANGED <<mem, disk, place, issued, ghosts>>

ClearsDisk(t) ==
    /\ At(t, "clear_disk")
    /\ \/ disk' = [k \in StoreKeys |-> NoObject]
       \/ "clear" \in Faults /\ UNCHANGED disk
    /\ Goto(t, "clear_last")
    /\ UNCHANGED <<mem, storeKey, place, issued, ghosts>>

InitTokenClearsKey(t) ==
    /\ At(t, "clear_last") /\ keyLock = NoThread
    /\ persistKey' = 0
    /\ Goto(t, "init_token")
    /\ UNCHANGED <<mem, disk, storeKey, keyLock, loggedIn, epoch, today, issued, ghosts>>

\* init_token: refused, or the token gets a new object master key, which a
\* later C_InitPIN draws (TokenAuth).
InitTokenReturns(t) ==
    /\ At(t, "init_token")
    /\ \/ epoch < MaxEpoch /\ epoch' = epoch + 1
       \/ UNCHANGED epoch
    /\ Return(t)
    /\ UNCHANGED <<mem, disk, storeKey, persistKey, keyLock, loggedIn, today,
                   issued, ghosts>>

-----------------------------------------------------------------------------
(* Reading, exporting and changing an object are single steps. *)

Exports(material) ==
    /\ exported' = exported \cup {material}
    /\ UNCHANGED <<mem, disk, storeKey, place, issued, call, protected, past, gone>>

\* read_attribute: CKA_VALUE is guarded, the extra attributes are not.
C_GetAttributeValue(t) ==
    /\ At(t, "idle")
    /\ \E h \in Present, key \in Handles :
        /\ Accessible(mem[h])
        /\ \/ key = mem[h].material /\ ~IsProtected(mem[h])
           \/ key = mem[h].parts
        /\ Exports(key)

C_WrapKey(t) ==
    /\ At(t, "idle")
    /\ \E w \in Present, h \in Present :
        /\ Accessible(mem[w]) /\ mem[w].flags["wrap"]
        /\ mem[w].material # NoMaterial
        /\ mem[h].flags["extractable"] /\ mem[h].material # NoMaterial
        /\ Exports(mem[h].material)

\* Only CKA_LABEL and CKA_ID change, and only in memory.
C_SetAttributeValue(t) ==
    /\ At(t, "idle")
    /\ \E h \in Present, l \in Labels :
        /\ Accessible(mem[h]) /\ mem[h].flags["modifiable"]
        /\ mem' = [mem EXCEPT ![h] = [mem[h] EXCEPT !.label = l]]
    /\ UNCHANGED <<disk, storeKey, place, issued, call, ghosts>>

-----------------------------------------------------------------------------
(* KeyLifecycleManager::sweep_objects. *)

SweepBegins(t) ==
    /\ At(t, "idle")
    /\ Become(t, [Idle EXCEPT !.pc = "sweep", !.op = "sweep", !.todo = Present])
    /\ UNCHANGED <<mem, disk, storeKey, place, issued, ghosts>>

\* One object, write-locked; a changed token object is cloned for later.
SweepObject(t) ==
    /\ At(t, "sweep")
    /\ \E h \in call[t].todo :
        LET new == [mem[h] EXCEPT !.state = DateState(mem[h])]
            rest == [call[t] EXCEPT !.todo = @ \ {h}]
        IN  IF mem[h] # NoObject /\ DateState(mem[h]) # mem[h].state
              THEN /\ mem' = [mem EXCEPT ![h] = new]
                   /\ Become(t, IF new.flags["token"]
                                  THEN [rest EXCEPT !.queue = Append(@, new)]
                                  ELSE rest)
              ELSE Become(t, rest) /\ UNCHANGED mem
    /\ UNCHANGED <<disk, storeKey, place, issued, ghosts>>

SweepPersists(t) ==
    /\ At(t, "sweep") /\ call[t].todo = {}
    /\ IF call[t].queue = <<>> THEN Return(t) ELSE Goto(t, "persist")
    /\ UNCHANGED <<mem, disk, storeKey, place, issued, ghosts>>

-----------------------------------------------------------------------------
Tomorrow ==
    /\ today < MaxDay
    /\ today' = today + 1
    /\ UNCHANGED <<mem, disk, storeKey, persistKey, keyLock, loggedIn, epoch,
                   issued, call, ghosts>>

\* The process dies and starts again: the disk is all that stays.
Restart ==
    /\ Crashes
    /\ mem' = [h \in Handles |-> NoObject]
    /\ storeKey' = [h \in Handles |-> NoKey]
    /\ persistKey' = 0 /\ keyLock' = NoThread /\ loggedIn' = FALSE
    /\ call' = [t \in Threads |-> Idle]
    /\ UNCHANGED <<disk, epoch, today, issued, ghosts>>

\* Bound: a call that may need a store key for each handle begins only while
\* there are enough for every thread (in the code they are 128 random bits).
Room == Cardinality(FreeKeys) >= Cardinality(Threads) * Cardinality(Handles)

Begin(t) ==
    \/ Room /\ C_CreateObject(t)
    \/ Room /\ C_GenerateKey(t)
    \/ Room /\ C_GenerateKeyPair(t)
    \/ Room /\ C_DeriveKey(t)
    \/ Room /\ C_UnwrapKey(t)
    \/ Room /\ C_CopyObject(t)
    \/ Room /\ C_DestroyObject(t)
    \/ Room /\ SweepBegins(t)
    \/ C_Login(t) \/ C_Logout(t) \/ C_InitToken(t)
    \/ C_GetAttributeValue(t) \/ C_WrapKey(t) \/ C_SetAttributeValue(t)

Continue(t) ==
    \/ InsertBegins(t) \/ InsertEnds(t)
    \/ NothingToPersist(t) \/ PersistLocks(t) \/ PersistWrites(t)
    \/ DestroyRemoves(t) \/ UnpersistLooksUp(t) \/ UnpersistDeletes(t) \/ DestroyReturns(t)
    \/ LoginSetsKey(t) \/ LoadLists(t) \/ LoadReads(t) \/ LoadMaps(t)
    \/ LoadInserts(t) \/ LoadEnds(t) \/ LogoutClearsKey(t)
    \/ ClearsMap(t) \/ ClearsDisk(t) \/ InitTokenClearsKey(t) \/ InitTokenReturns(t)
    \/ SweepObject(t) \/ SweepPersists(t)

Next ==
    \/ \E t \in Threads : Begin(t) \/ Continue(t)
    \/ Tomorrow \/ Restart

Spec == Init /\ [][Next]_vars

-----------------------------------------------------------------------------
(* Properties. *)

\* The objects a thread has in hand: being created, loaded or swept.
InHand(t) == {call[t].queue[i] : i \in DOMAIN call[t].queue}

Held ==
    {mem[h] : h \in Present}
    \cup {disk[k].object : k \in {j \in StoreKeys : disk[j] # NoObject}}
    \cup UNION {InHand(t) : t \in Threads}

\* A key created sensitive and not extractable, its secret in CKA_VALUE alone, is
\* held by no object that would let it out: no copy, derived or unwrapped
\* object, no record of the database and no stale clone of a sweep has lower
\* guards or keeps the key as an extra attribute, every object is well formed,
\* and the key has left neither in clear (read_attribute) nor wrapped
\* (C_WrapKey).  A key whose private components were given as attributes of
\* their own is not promised this: they are read without a check.
ProtectionHolds ==
    /\ TypeOK
    /\ \A o \in Held : o.material \in protected => IsProtected(o)
    /\ \A o \in Held : o.parts \notin protected
    /\ protected \cap exported = {}

\* When a login has loaded the store, every record that load_from_store
\* accepts is an object in memory, whatever crash or failed transaction came
\* before.
LoginRestores ==
    [][\A t \in Threads : LoadEnds(t) =>
        \A k \in StoreKeys : (disk[k] # NoObject /\ Loadable(disk[k].object)) =>
            mem[disk[k].object.handle] # NoObject]_vars

\* A destruction that C_DestroyObject returned from, its deletion committed,
\* is final: the object is in neither the map nor the database, and no call is
\* about to put it back.
DestroyIsFinal == \A o \in Held : o.handle \notin gone

\* What the database promises: TokenObjects, in which an object is added
\* once, keeps its guards and its key, and never returns after its removal.
Promise(o) == [handle |-> o.handle, material |-> o.material, flags |-> o.flags]
Durable == INSTANCE TokenObjects WITH
    live <- {Promise(disk[k].object) : k \in {j \in StoreKeys : disk[j] # NoObject}}
DurableSpec == Durable!Spec
=============================================================================

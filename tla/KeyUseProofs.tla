---------------------------- MODULE KeyUseProofs ----------------------------
(***************************************************************************)
(* For any threads, keys, slots and limits: no key meets a GCM nonce or an *)
(* IV of its own again except where KeyUse says so, and the cache of       *)
(* parsed keys stays within its size, gives the right key and forgets the  *)
(* destroyed ones.                                                         *)
(***************************************************************************)
EXTENDS KeyUse, FiniteSetTheorems, SequenceTheorems, TLAPS

Object == [key : Keys, state : {"live", "destroyed", "cleared"}]
Removals == {"remove", "removeCounter", "removePrefix", "removeIvs", "evict"}
Clearings == {"clearCounters", "clearPrefixes"}
RemovalCall == [op : Removals, slot : Slots, handle : 1 .. MaxHandles, key : Keys]
ClearingCall == [op : Clearings, left : SUBSET AesKeys]
Leaving == Removals \ {"remove"}

ObjectsInv == objects \in Seq(Object) /\ Len(objects) <= MaxHandles

\* What a call has read stays as it was: an object keeps its key.
CallSound(c) ==
  /\ c.op \in {"count", "nonce", "track"} => c.key \in AesKeys
  /\ c.op = "nonce" => c.count \in 0 .. GCM_MAX - 1
  /\ c.op = "track" => c.iv \in IVs \ {ZeroIV}
  /\ c.op = "parse" => /\ c.slot \in Slots /\ c.handle \in Handles
                       /\ c.key \in RsaKeys /\ c.key = objects[c.handle].key
  /\ c.op \in Removals => c \in RemovalCall /\ c.handle \in Handles
  /\ c.op \in Clearings => c \in ClearingCall

CallsInv ==
  /\ calls = [t \in Threads |-> calls[t]]
  /\ \A t \in Threads : CallSound(calls[t])

\* The counter of a key is ahead of every nonce made with its present prefix,
\* unless a removal is between the two tables; then nobody holds the counter.
NonceInv ==
  /\ DOMAIN counters \subseteq AesKeys /\ \A k \in DOMAIN counters : counters[k] \in 0 .. GCM_MAX
  /\ drawn \in [AesKeys -> Nat]
  /\ DOMAIN prefixes \subseteq AesKeys /\ \A k \in DOMAIN prefixes : prefixes[k] \in 1 .. drawn[k]
  /\ nonces \subseteq Nonce
  /\ \A n \in nonces : n.prefix \in 1 .. drawn[n.key]
  /\ \A t \in Threads : At(t, "nonce") =>
       /\ calls[t].key \in DOMAIN counters /\ counters[calls[t].key] = calls[t].count + 1
       /\ \A u \in Threads : At(u, "nonce") /\ calls[u].key = calls[t].key => u = t
  /\ \A k \in AesKeys \ crossed : HalfRemoved(k) => ~CounterHeld(k)
  /\ \A k \in DOMAIN prefixes \ crossed : ~HalfRemoved(k) =>
       \A n \in nonces : n.key = k /\ n.prefix = prefixes[k] =>
         /\ n.count < CountOf(k)
         /\ \A t \in Threads : At(t, "nonce") /\ calls[t].key = k => n.count < calls[t].count
  /\ reused \subseteq crossed

\* The tracker knows every IV of a key no removal has touched.
IvInv ==
  /\ DOMAIN ivs \subseteq AesKeys
  /\ \A k \in DOMAIN ivs : /\ ivs[k] \subseteq IVs \ {ZeroIV} /\ IsFiniteSet(ivs[k])
                           /\ Cardinality(ivs[k]) <= MAX_TRACKED_IVS
  /\ accepted \in [AesKeys -> SUBSET IVs]
  /\ \A k \in AesKeys \ forgiven : accepted[k] \subseteq IvsOf(k)
  /\ \A t \in Threads :
       /\ calls[t].op \in {"removeCounter", "removePrefix", "removeIvs"} /\ calls[t].key \in AesKeys =>
            calls[t].key \in forgiven
       /\ calls[t].op \in Clearings \cup {"clearIvs"} => AesKeys \subseteq forgiven
  /\ repeated \subseteq forgiven /\ forgiven \subseteq AesKeys

\* An entry has the key of its object; one of a destroyed object is a stray, or
\* the destruction has yet to evict it, under its own slot.
EntrySound(e) ==
  /\ e.handle \in Handles /\ e.key = objects[e.handle].key
  /\ objects[e.handle].state = "destroyed" =>
       \/ e.handle \in stray
       \/ \E t \in Threads : /\ calls[t].op \in Leaving
                             /\ calls[t].handle = e.handle /\ calls[t].slot = e.slot

Unique(q) == \A i, j \in DOMAIN q : q[i].slot = q[j].slot /\ q[i].handle = q[j].handle => i = j

CacheInv ==
  /\ cache \in Seq(CacheEntry) /\ Len(cache) <= RSA_KEY_CACHE_MAX /\ Unique(cache)
  /\ \A i \in DOMAIN cache : EntrySound(cache[i])
  /\ \A t \in Threads : At(t, "parse") =>
       (objects[calls[t].handle].state = "destroyed" => calls[t].handle \in stray)
  /\ ~wrongKey

KeyInv == ObjectsInv /\ CallsInv /\ NonceInv /\ IvInv /\ CacheInv

-----------------------------------------------------------------------------
(* Functions and calls                                                     *)

LEMMA HandleFacts ==
  ASSUME ObjectsInv
  PROVE  /\ Len(objects) \in Nat /\ Handles = 1 .. Len(objects) /\ Handles \subseteq 1 .. MaxHandles
         /\ MaxHandles \in Nat
         /\ \A h \in Handles : objects[h] \in Object /\ objects[h].key \in Keys
<1>1. objects \in Seq(Object) /\ Len(objects) \in Nat /\ Len(objects) <= MaxHandles /\ MaxHandles \in Nat
  BY LimitsAssumption DEF ObjectsInv
<1>2. Handles = 1 .. Len(objects)
  BY <1>1 DEF Handles
<1>3. \A h \in 1 .. Len(objects) : objects[h] \in Object
  BY <1>1
<1> QED
  BY <1>1, <1>2, <1>3 DEF Object

LEMMA GoesFacts ==
  ASSUME CallsInv, NEW t \in Threads, NEW c, Goes(t, c)
  PROVE  /\ calls'[t] = c /\ \A u \in Threads \ {t} : calls'[u] = calls[u]
         /\ calls' = [u \in Threads |-> calls'[u]]
  BY DEF CallsInv, Goes

\* No step takes an object out of the table or gives it another key.
KeysKept == \A h \in Handles : h \in Handles' /\ objects'[h].key = objects[h].key

LEMMA SoundKept ==
  ASSUME KeysKept, NEW c, NEW d, d = c, CallSound(c)
  PROVE  /\ d.op \in {"count", "nonce", "track"} => d.key \in AesKeys
         /\ d.op = "nonce" => d.count \in 0 .. GCM_MAX - 1
         /\ d.op = "track" => d.iv \in IVs \ {ZeroIV}
         /\ d.op = "parse" => /\ d.slot \in Slots /\ d.handle \in Handles'
                              /\ d.key \in RsaKeys /\ d.key = objects'[d.handle].key
         /\ d.op \in Removals => d \in RemovalCall /\ d.handle \in Handles'
         /\ d.op \in Clearings => d \in ClearingCall
  BY DEF KeysKept, CallSound

LEMMA CallsKept ==
  ASSUME CallsInv, KeysKept, NEW t \in Threads, \A u \in Threads \ {t} : calls'[u] = calls[u],
         calls' = [u \in Threads |-> calls'[u]], CallSound(calls[t])'
  PROVE  CallsInv'
<1>1. ASSUME NEW u \in Threads PROVE CallSound(calls[u])'
  <2>1. CASE u = t
    BY <2>1
  <2>2. CASE u # t
    <3>1. calls'[u] = calls[u] /\ CallSound(calls[u])
      BY <2>2 DEF CallsInv
    <3> QED
      BY <3>1, SoundKept DEF CallSound
  <2> QED
    BY <2>1, <2>2
<1> QED
  BY <1>1 DEF CallsInv

\* An idle call is sound.
LEMMA IdleSound ==
  ASSUME NEW t \in Threads, calls'[t] = Idle
  PROVE  CallSound(calls[t])'
<1>1. calls'[t].op = "idle"
  BY DEF Idle
<1> QED
  BY <1>1 DEF CallSound, Removals, Clearings

LEMMA ReturnsKept ==
  ASSUME CallsInv, KeysKept, NEW t \in Threads, Returns(t)
  PROVE  CallsInv'
<1>1. /\ calls'[t] = Idle /\ \A u \in Threads \ {t} : calls'[u] = calls[u]
      /\ calls' = [u \in Threads |-> calls'[u]]
  BY GoesFacts DEF Returns
<1> QED
  BY <1>1, IdleSound, CallsKept

-----------------------------------------------------------------------------
(* Objects                                                                 *)

LEMMA ObjectsSame ==
  ASSUME ObjectsInv, UNCHANGED objects
  PROVE  ObjectsInv' /\ KeysKept /\ Handles' = Handles
  BY DEF ObjectsInv, KeysKept, Handles

LEMMA ObjectMade ==
  ASSUME KeyInv, NEW t \in Threads, NEW k \in Keys, Makes(t, k)
  PROVE  /\ ObjectsInv' /\ KeysKept
         /\ \A h \in Handles : objects'[h] = objects[h]
<1> DEFINE n == Len(objects)
           m == n + 1
           o == [key |-> k, state |-> "live"]
<1>1. n \in Nat /\ Handles = 1 .. n /\ m <= MaxHandles /\ MaxHandles \in Nat
  BY HandleFacts DEF Makes, FreshHandle, KeyInv
<1>2. objects' = With(objects, m, o)
  BY DEF Makes, FreshHandle
<1>3. o \in Object
  BY DEF Object
<1>4. m \in Nat /\ 1 .. m = 1 .. n \cup {m} /\ m \notin 1 .. n
  BY <1>1
<1> HIDE DEF n, o, m
<1>5. /\ DOMAIN objects' = DOMAIN objects \cup {m} /\ objects'[m] = o
      /\ \A x \in DOMAIN objects : x # m => objects'[x] = objects[x]
  BY <1>2 DEF With
<1>6. DOMAIN objects' = 1 .. m /\ objects'[m] = o /\ \A x \in 1 .. n : objects'[x] = objects[x]
  BY <1>1, <1>4, <1>5 DEF Handles
<1>7. objects' \in Seq(Object) /\ Len(objects') = m
  <2>1. \A x \in 1 .. n : objects[x] \in Object
    BY <1>1, HandleFacts DEF KeyInv
  <2>2. \A x \in 1 .. m : objects'[x] \in Object
    BY <1>3, <1>4, <1>6, <2>1
  <2>3. objects' = [x \in DOMAIN objects' |-> objects'[x]]
    BY <1>2 DEF With
  <2>4. objects' \in [1 .. m -> Object]
    BY <1>6, <2>2, <2>3
  <2> QED
    BY <1>4, <2>4
<1>8. ObjectsInv'
  BY <1>1, <1>7 DEF ObjectsInv
<1> QED
  BY <1>1, <1>4, <1>6, <1>8 DEF KeysKept, Handles

\* Removals change the states of objects only.
LEMMA ObjectsMarked ==
  ASSUME ObjectsInv, DOMAIN objects' = Handles, objects' = [h \in Handles |-> objects'[h]],
         \A h \in Handles : objects'[h] \in Object /\ objects'[h].key = objects[h].key
  PROVE  ObjectsInv' /\ KeysKept /\ Handles' = Handles
<1>1. Len(objects) \in Nat /\ Handles = 1 .. Len(objects) /\ Len(objects) <= MaxHandles
  BY HandleFacts DEF ObjectsInv
<1>2. objects' \in [1 .. Len(objects) -> Object]
  BY <1>1
<1>3. objects' \in Seq(Object) /\ Len(objects') = Len(objects)
  BY <1>1, <1>2
<1> QED
  BY <1>1, <1>3 DEF ObjectsInv, KeysKept, Handles

LEMMA ObjectsCleared ==
  ASSUME ObjectsInv, NEW keep, objects' = Cleared(keep)
  PROVE  /\ ObjectsInv' /\ KeysKept /\ Handles' = Handles
         /\ \A h \in Handles : objects'[h].state = "destroyed" => objects[h].state = "destroyed"
<1>1. ASSUME NEW h \in Handles
      PROVE  /\ objects'[h] \in Object /\ objects'[h].key = objects[h].key
             /\ objects'[h].state = "destroyed" => objects[h].state = "destroyed"
  <2>1. objects[h] \in Object
    BY HandleFacts
  <2>2. [objects[h] EXCEPT !.state = "cleared"] = [key |-> objects[h].key, state |-> "cleared"]
    BY <2>1 DEF Object
  <2>3. objects'[h] = objects[h] \/ objects'[h] = [key |-> objects[h].key, state |-> "cleared"]
    BY <2>2 DEF Cleared
  <2> QED
    BY <2>1, <2>3 DEF Object
<1>2. DOMAIN objects' = Handles /\ objects' = [h \in Handles |-> objects'[h]]
  BY DEF Cleared
<1> QED
  BY <1>1, <1>2, ObjectsMarked

LEMMA ObjectDestroyed ==
  ASSUME ObjectsInv, NEW g \in Handles, objects' = [objects EXCEPT ![g].state = "destroyed"]
  PROVE  /\ ObjectsInv' /\ KeysKept /\ Handles' = Handles
         /\ \A h \in Handles \ {g} : objects'[h] = objects[h]
<1>1. objects \in Seq(Object) /\ objects[g] \in Object
  BY HandleFacts DEF ObjectsInv
<1>2. [objects[g] EXCEPT !.state = "destroyed"] = [key |-> objects[g].key, state |-> "destroyed"]
  BY <1>1 DEF Object
<1>3. objects' = [h \in Handles |-> IF h = g THEN [objects[g] EXCEPT !.state = "destroyed"] ELSE objects[h]]
  BY <1>1 DEF Handles
<1>4. ASSUME NEW h \in Handles
      PROVE  /\ objects'[h] \in Object /\ objects'[h].key = objects[h].key
             /\ h # g => objects'[h] = objects[h]
  <2>1. CASE h = g
    BY <1>1, <1>2, <1>3, <2>1 DEF Object
  <2>2. CASE h # g
    BY <1>3, <2>2, HandleFacts
  <2> QED
    BY <2>1, <2>2
<1>5. DOMAIN objects' = Handles /\ objects' = [h \in Handles |-> objects'[h]]
  BY <1>3
<1> QED
  BY <1>4, <1>5, ObjectsMarked

-----------------------------------------------------------------------------
(* The calls of one step                                                   *)

Threadwise(t) ==
  /\ \A u \in Threads \ {t} : calls'[u] = calls[u]
  /\ calls' = [u \in Threads |-> calls'[u]]

\* A step of a thread that goes on in a call, with the object store as it was.
LEMMA CallGoesOn ==
  ASSUME KeyInv, NEW t \in Threads, UNCHANGED objects, Threadwise(t), CallSound(calls[t])'
  PROVE  ObjectsInv' /\ CallsInv' /\ KeysKept
  BY ObjectsSame, CallsKept DEF KeyInv, Threadwise

Beginnings == {"count", "track", "parse", "remove"}

LEMMA CallBegins ==
  ASSUME KeyInv, NEW t \in Threads, NEW h \in Handles,
         \/ EncryptGcm(t, h)
         \/ \E iv \in IVs : EncryptCbc(t, h, iv) \/ EncryptCtr(t, h, iv)
         \/ \E s \in Slots : SignMisses(t, s, h) \/ DestroyReads(t, s, h)
  PROVE  ObjectsInv' /\ CallsInv' /\ KeysKept /\ Threadwise(t) /\ calls'[t].op \in Beginnings
<1>1. UNCHANGED objects /\ objects[h].key \in Keys /\ h \in 1 .. MaxHandles /\ Handles' = Handles
  BY HandleFacts DEF KeyInv, EncryptGcm, EncryptCbc, EncryptCtr, SignMisses, DestroyReads, Handles
<1>2. CASE EncryptGcm(t, h)
  <2>1. Goes(t, [op |-> "count", key |-> objects[h].key]) /\ objects[h].key \in AesKeys
    BY <1>2 DEF EncryptGcm
  <2>2. Threadwise(t) /\ calls'[t] = [op |-> "count", key |-> objects[h].key]
    BY <2>1, GoesFacts DEF KeyInv, Threadwise
  <2>3. CallSound(calls[t])'
    BY <2>1, <2>2 DEF CallSound, Removals, Clearings
  <2> QED
    BY <1>1, <2>2, <2>3, CallGoesOn DEF Beginnings
<1>3. ASSUME NEW iv \in IVs, EncryptCbc(t, h, iv) \/ EncryptCtr(t, h, iv)
      PROVE  ObjectsInv' /\ CallsInv' /\ KeysKept /\ Threadwise(t) /\ calls'[t].op \in Beginnings
  <2>1. /\ Goes(t, [op |-> "track", key |-> objects[h].key, iv |-> iv])
        /\ objects[h].key \in AesKeys /\ iv # ZeroIV
    BY <1>3 DEF EncryptCbc, EncryptCtr
  <2>2. Threadwise(t) /\ calls'[t] = [op |-> "track", key |-> objects[h].key, iv |-> iv]
    BY <2>1, GoesFacts DEF KeyInv, Threadwise
  <2>3. CallSound(calls[t])'
    BY <2>1, <2>2 DEF CallSound, Removals, Clearings
  <2> QED
    BY <1>1, <2>2, <2>3, CallGoesOn DEF Beginnings
<1>4. ASSUME NEW s \in Slots, SignMisses(t, s, h)
      PROVE  ObjectsInv' /\ CallsInv' /\ KeysKept /\ Threadwise(t) /\ calls'[t].op \in Beginnings
  <2>1. /\ Goes(t, [op |-> "parse", slot |-> s, handle |-> h, key |-> objects[h].key])
        /\ objects[h].key \in RsaKeys
    BY <1>4 DEF SignMisses, sign_single_shot
  <2>2. /\ Threadwise(t)
        /\ calls'[t] = [op |-> "parse", slot |-> s, handle |-> h, key |-> objects[h].key]
    BY <2>1, GoesFacts DEF KeyInv, Threadwise
  <2>3. CallSound(calls[t])'
    BY <1>1, <2>1, <2>2 DEF CallSound, Removals, Clearings
  <2> QED
    BY <1>1, <2>2, <2>3, CallGoesOn DEF Beginnings
<1>5. ASSUME NEW s \in Slots, DestroyReads(t, s, h)
      PROVE  ObjectsInv' /\ CallsInv' /\ KeysKept /\ Threadwise(t) /\ calls'[t].op \in Beginnings
  <2>1. Goes(t, [op |-> "remove", slot |-> s, handle |-> h, key |-> objects[h].key])
    BY <1>5 DEF DestroyReads
  <2>2. /\ Threadwise(t)
        /\ calls'[t] = [op |-> "remove", slot |-> s, handle |-> h, key |-> objects[h].key]
    BY <2>1, GoesFacts DEF KeyInv, Threadwise
  <2>3. calls'[t] \in RemovalCall
    BY <1>1, <2>2 DEF RemovalCall, Removals
  <2>4. CallSound(calls[t])'
    BY <1>1, <2>2, <2>3 DEF CallSound, Clearings
  <2> QED
    BY <1>1, <2>2, <2>4, CallGoesOn DEF Beginnings
<1> QED
  BY <1>2, <1>3, <1>4, <1>5

\* The next step of a removal.
LEMMA RemovalGoes ==
  ASSUME KeyInv, NEW t \in Threads, calls[t].op \in Removals, NEW o \in Removals,
         Goes(t, [calls[t] EXCEPT !.op = o])
  PROVE  /\ Threadwise(t) /\ calls'[t].op = o
         /\ calls'[t] \in RemovalCall /\ calls'[t].slot = calls[t].slot
         /\ calls'[t].handle = calls[t].handle /\ calls'[t].key = calls[t].key
<1>1. calls[t] \in RemovalCall
  BY DEF KeyInv, CallsInv, CallSound
<1>2. [calls[t] EXCEPT !.op = o] =
        [op |-> o, slot |-> calls[t].slot, handle |-> calls[t].handle, key |-> calls[t].key]
  BY <1>1 DEF RemovalCall
<1>3. calls'[t] = [calls[t] EXCEPT !.op = o] /\ Threadwise(t)
  BY GoesFacts DEF KeyInv, Threadwise
<1> QED
  BY <1>1, <1>2, <1>3 DEF RemovalCall

LEMMA RemovalSound ==
  ASSUME NEW t \in Threads, calls'[t].op \in Removals, calls'[t] \in RemovalCall,
         calls'[t].handle \in Handles'
  PROVE  CallSound(calls[t])'
  BY DEF CallSound, Removals, Clearings

LEMMA RemovalStep ==
  ASSUME KeyInv, NEW t \in Threads, RemovesCounter(t) \/ RemovesPrefix(t) \/ RemovesIvs(t)
  PROVE  /\ ObjectsInv' /\ CallsInv' /\ KeysKept
         /\ Threadwise(t) /\ calls'[t].op \in Removals /\ UNCHANGED objects
         /\ calls'[t].slot = calls[t].slot
         /\ calls'[t].handle = calls[t].handle /\ calls'[t].key = calls[t].key
<1>1. PICK o \in Removals : calls[t].op \in Removals /\ Goes(t, [calls[t] EXCEPT !.op = o])
  BY DEF RemovesCounter, RemovesPrefix, RemovesIvs, Removals, At
<1>2. /\ Threadwise(t) /\ calls'[t].op = o
      /\ calls'[t] \in RemovalCall /\ calls'[t].slot = calls[t].slot
      /\ calls'[t].handle = calls[t].handle /\ calls'[t].key = calls[t].key
  BY <1>1, RemovalGoes
<1>3. UNCHANGED objects /\ Handles' = Handles
  BY DEF RemovesCounter, RemovesPrefix, RemovesIvs, Handles
<1>4. CallSound(calls[t])'
  <2>1. calls[t].handle \in Handles
    BY <1>1 DEF KeyInv, CallsInv, CallSound
  <2> QED
    BY <1>2, <1>3, <2>1, RemovalSound
<1> QED
  BY <1>2, <1>3, <1>4, CallGoesOn

LEMMA DestroyStep ==
  ASSUME KeyInv, NEW t \in Threads, DestroyRemoves(t)
  PROVE  /\ ObjectsInv' /\ CallsInv' /\ KeysKept /\ Threadwise(t) /\ Handles' = Handles
         /\ \/ UNCHANGED objects /\ calls'[t] = Idle
            \/ /\ calls'[t].op = "removeCounter" /\ calls'[t].slot = calls[t].slot
               /\ calls'[t].handle = calls[t].handle /\ calls'[t].key = calls[t].key
               /\ \A h \in Handles \ {calls[t].handle} : objects'[h] = objects[h]
<1>1. calls[t].op = "remove" /\ calls[t].op \in Removals /\ calls[t].handle \in Handles
  BY DEF DestroyRemoves, At, Removals, KeyInv, CallsInv, CallSound
<1>2. CASE Live(calls[t].handle)
  <2>1. /\ objects' = [objects EXCEPT ![calls[t].handle].state = "destroyed"]
        /\ Goes(t, [calls[t] EXCEPT !.op = "removeCounter"])
    BY <1>2 DEF DestroyRemoves
  <2>2. /\ Threadwise(t) /\ calls'[t].op = "removeCounter"
        /\ calls'[t] \in RemovalCall /\ calls'[t].slot = calls[t].slot
        /\ calls'[t].handle = calls[t].handle /\ calls'[t].key = calls[t].key
    <3>1. "removeCounter" \in Removals
      BY DEF Removals
    <3> QED
      BY <1>1, <2>1, <3>1, RemovalGoes
  <2>3. /\ ObjectsInv' /\ KeysKept /\ Handles' = Handles
        /\ \A h \in Handles \ {calls[t].handle} : objects'[h] = objects[h]
    BY <1>1, <2>1, ObjectDestroyed DEF KeyInv
  <2>4. CallSound(calls[t])'
    BY <1>1, <2>2, <2>3, RemovalSound DEF Removals
  <2>5. CallsInv'
    BY <2>2, <2>3, <2>4, CallsKept DEF KeyInv, Threadwise
  <2> QED
    BY <2>2, <2>3, <2>5
<1>3. CASE ~Live(calls[t].handle)
  <2>1. Returns(t) /\ UNCHANGED objects
    BY <1>3 DEF DestroyRemoves
  <2>2. ObjectsInv' /\ KeysKept /\ Handles' = Handles
    BY <2>1, ObjectsSame DEF KeyInv
  <2>3. calls'[t] = Idle /\ Threadwise(t)
    BY <2>1, GoesFacts DEF KeyInv, Returns, Threadwise
  <2> QED
    BY <2>1, <2>2, <2>3, ReturnsKept DEF KeyInv
<1> QED
  BY <1>2, <1>3

\* The next step of force_reset_all_counters.
LEMMA ClearingStep ==
  ASSUME KeyInv, NEW t \in Threads, NEW k \in AesKeys, ClearsCounter(t, k) \/ ClearsPrefix(t, k)
  PROVE  /\ ObjectsInv' /\ CallsInv' /\ KeysKept /\ Threadwise(t) /\ UNCHANGED objects
         /\ \/ ClearsCounter(t, k) /\ calls[t].op = "clearCounters" /\ calls[t].left = {k}
               /\ calls'[t].op = "clearPrefixes" /\ calls'[t].left = AesKeys
            \/ ClearsPrefix(t, k) /\ calls[t].op = "clearPrefixes" /\ calls[t].left = {k}
               /\ calls'[t].op = "clearIvs"
            \/ (\/ ClearsCounter(t, k) /\ calls[t].op = "clearCounters"
                \/ ClearsPrefix(t, k) /\ calls[t].op = "clearPrefixes")
               /\ calls'[t].op = calls[t].op /\ calls'[t].left = calls[t].left \ {k}
<1>1. /\ UNCHANGED objects
      /\ \/ ClearsCounter(t, k) /\ calls[t].op = "clearCounters"
         \/ ClearsPrefix(t, k) /\ calls[t].op = "clearPrefixes"
  BY DEF ClearsCounter, ClearsPrefix, At
<1>2. calls[t] \in ClearingCall
  BY <1>1 DEF KeyInv, CallsInv, CallSound, Clearings
<1>3. [calls[t] EXCEPT !.left = @ \ {k}] = [op |-> calls[t].op, left |-> calls[t].left \ {k}]
  BY <1>2 DEF ClearingCall
<1>4. CASE calls[t].left # {k}
  <2>1. Goes(t, [calls[t] EXCEPT !.left = @ \ {k}])
    BY <1>4 DEF ClearsCounter, ClearsPrefix
  <2>2. calls'[t] = [calls[t] EXCEPT !.left = @ \ {k}] /\ Threadwise(t)
    BY <2>1, GoesFacts DEF KeyInv, Threadwise
  <2>3. calls'[t] = [op |-> calls[t].op, left |-> calls[t].left \ {k}]
    BY <1>3, <2>2
  <2>4. CallSound(calls[t])'
    <3>1. calls'[t] \in ClearingCall /\ calls'[t].op \in Clearings
      BY <1>2, <2>3 DEF ClearingCall
    <3> QED
      BY <3>1 DEF CallSound, Removals, Clearings
  <2>5. ObjectsInv' /\ CallsInv' /\ KeysKept
    BY <1>1, <2>2, <2>4, CallGoesOn
  <2> QED
    BY <1>1, <2>2, <2>3, <2>5
<1>5. CASE calls[t].left = {k} /\ ClearsCounter(t, k)
  <2>1. Goes(t, [op |-> "clearPrefixes", left |-> AesKeys]) /\ calls[t].op = "clearCounters"
    BY <1>5 DEF ClearsCounter, At
  <2>2. calls'[t] = [op |-> "clearPrefixes", left |-> AesKeys] /\ Threadwise(t)
    BY <2>1, GoesFacts DEF KeyInv, Threadwise
  <2>3. CallSound(calls[t])'
    BY <2>2 DEF CallSound, Removals, Clearings, ClearingCall
  <2>4. ObjectsInv' /\ CallsInv' /\ KeysKept
    BY <1>1, <2>2, <2>3, CallGoesOn
  <2> QED
    BY <1>1, <1>5, <2>1, <2>2, <2>4
<1>6. CASE calls[t].left = {k} /\ ClearsPrefix(t, k)
  <2>1. Goes(t, [op |-> "clearIvs"]) /\ calls[t].op = "clearPrefixes"
    BY <1>6 DEF ClearsPrefix, At
  <2>2. calls'[t] = [op |-> "clearIvs"] /\ Threadwise(t)
    BY <2>1, GoesFacts DEF KeyInv, Threadwise
  <2>3. CallSound(calls[t])'
    BY <2>2 DEF CallSound, Removals, Clearings
  <2>4. ObjectsInv' /\ CallsInv' /\ KeysKept
    BY <1>1, <2>2, <2>3, CallGoesOn
  <2> QED
    BY <1>1, <1>6, <2>1, <2>2, <2>4
<1> QED
  BY <1>1, <1>4, <1>5, <1>6

LEMMA InitTokenStep ==
  ASSUME KeyInv, NEW t \in Threads, InitToken(t)
  PROVE  /\ ObjectsInv' /\ CallsInv' /\ KeysKept /\ Threadwise(t) /\ Handles' = Handles
         /\ calls'[t].op = "clearCounters" /\ calls'[t].left = AesKeys
         /\ \A h \in Handles : objects'[h].state = "destroyed" => objects[h].state = "destroyed"
<1>1. objects' = Cleared({}) /\ Goes(t, [op |-> "clearCounters", left |-> AesKeys])
  BY DEF InitToken
<1>2. /\ ObjectsInv' /\ KeysKept /\ Handles' = Handles
      /\ \A h \in Handles : objects'[h].state = "destroyed" => objects[h].state = "destroyed"
  <2> DEFINE keep == {}
  <2>1. objects' = Cleared(keep)
    BY <1>1
  <2> HIDE DEF keep
  <2> QED
    BY <2>1, ObjectsCleared DEF KeyInv
<1>3. calls'[t] = [op |-> "clearCounters", left |-> AesKeys] /\ Threadwise(t)
  BY <1>1, GoesFacts DEF KeyInv, Threadwise
<1>4. CallSound(calls[t])'
  BY <1>3 DEF CallSound, Removals, Clearings, ClearingCall
<1>5. CallsInv'
  BY <1>2, <1>3, <1>4, CallsKept DEF KeyInv, Threadwise
<1> QED
  BY <1>2, <1>3, <1>5

LEMMA ReinitializeStep ==
  ASSUME KeyInv, NEW t \in Threads, NEW keep \in SUBSET Handles, Reinitialize(t, keep)
  PROVE  /\ ObjectsInv' /\ CallsInv' /\ KeysKept /\ Handles' = Handles /\ UNCHANGED calls
         /\ \A h \in Handles : objects'[h].state = "destroyed" => objects[h].state = "destroyed"
<1>1. objects' = Cleared(keep) /\ UNCHANGED calls /\ \A u \in Threads : calls'[u].op = "idle"
  BY DEF Reinitialize, At
<1>2. /\ ObjectsInv' /\ KeysKept /\ Handles' = Handles
      /\ \A h \in Handles : objects'[h].state = "destroyed" => objects[h].state = "destroyed"
  BY <1>1, ObjectsCleared DEF KeyInv
<1>3. CallsInv'
  BY <1>1 DEF KeyInv, CallsInv, CallSound, Removals, Clearings
<1> QED
  BY <1>1, <1>2, <1>3

\* GcmCounts takes the count it advances.
LEMMA CountStep ==
  ASSUME KeyInv, NEW t \in Threads, GcmCounts(t)
  PROVE  /\ ObjectsInv' /\ CallsInv' /\ KeysKept /\ Threadwise(t)
         /\ calls'[t].op = "nonce" /\ calls'[t].key = calls[t].key
         /\ calls'[t].count = CountOf(calls[t].key)
         /\ calls[t].key \in AesKeys /\ CountOf(calls[t].key) \in 0 .. GCM_MAX - 1
<1> DEFINE k == calls[t].key
<1>1. /\ UNCHANGED objects /\ CountOf(k) < GCM_MAX /\ calls[t].op = "count"
      /\ Goes(t, [op |-> "nonce", key |-> k, count |-> CountOf(k)])
  BY DEF GcmCounts, At
<1>2. k \in AesKeys
  BY <1>1 DEF KeyInv, CallsInv, CallSound
<1>3. CountOf(k) \in 0 .. GCM_MAX - 1
  <2>1. CountOf(k) \in 0 .. GCM_MAX
    BY LimitsAssumption DEF KeyInv, NonceInv, CountOf
  <2> QED
    BY <1>1, <2>1, LimitsAssumption
<1>4. Threadwise(t) /\ calls'[t] = [op |-> "nonce", key |-> k, count |-> CountOf(k)]
  BY <1>1, GoesFacts DEF KeyInv, Threadwise
<1> HIDE DEF k
<1>5. CallSound(calls[t])'
  BY <1>2, <1>3, <1>4 DEF CallSound, Removals, Clearings
<1> QED
  BY <1>1, <1>2, <1>3, <1>4, <1>5, CallGoesOn DEF k

\* Steps at which a call returns with the object store as it was.
LEMMA ReturnStep ==
  ASSUME KeyInv, NEW t \in Threads, Returns(t), UNCHANGED objects
  PROVE  ObjectsInv' /\ CallsInv' /\ KeysKept /\ Threadwise(t) /\ calls'[t] = Idle
<1>1. calls'[t] = Idle /\ Threadwise(t)
  BY GoesFacts DEF KeyInv, Returns, Threadwise
<1> QED
  BY <1>1, ObjectsSame, ReturnsKept DEF KeyInv

Ending(t) ==
  \/ GcmRefused(t) \/ GcmEncrypts(t) \/ GcmDrbgFails(t) \/ IvTracks(t) \/ SignCaches(t)
  \/ DestroyEvicts(t) \/ ClearsIvs(t)

LEMMA EndingStep ==
  ASSUME KeyInv, NEW t \in Threads, Ending(t)
  PROVE  /\ ObjectsInv' /\ CallsInv' /\ KeysKept /\ Threadwise(t) /\ calls'[t] = Idle
         /\ UNCHANGED objects
<1>1. Returns(t) /\ UNCHANGED objects
  BY DEF Ending, GcmRefused, GcmEncrypts, GcmDrbgFails, IvTracks, SignCaches, DestroyEvicts, ClearsIvs
<1> QED
  BY <1>1, ReturnStep

LEMMA SameCalls ==
  ASSUME KeyInv, UNCHANGED calls, KeysKept
  PROVE  CallsInv'
<1>1. ASSUME NEW u \in Threads PROVE CallSound(calls[u])'
  <2>1. calls'[u] = calls[u] /\ CallSound(calls[u])
    BY DEF KeyInv, CallsInv
  <2> QED
    BY <2>1, SoundKept DEF CallSound
<1> QED
  BY <1>1 DEF KeyInv, CallsInv

LEMMA CallsNext ==
  ASSUME KeyInv, Next
  PROVE  ObjectsInv' /\ CallsInv'
<1>1. ASSUME NEW t \in Threads, NEW k \in Keys, Makes(t, k) PROVE ObjectsInv' /\ CallsInv'
  <2>1. UNCHANGED calls
    BY <1>1 DEF Makes
  <2> QED
    BY <1>1, <2>1, ObjectMade, SameCalls
<1>2. ASSUME NEW t \in Threads, NEW h \in Handles, NEW s \in Slots, SignHits(t, s, h)
      PROVE  ObjectsInv' /\ CallsInv'
  BY <1>2, ObjectsSame, SameCalls DEF SignHits, KeyInv
<1> QED
  BY <1>1, <1>2, CallBegins, RemovalStep, DestroyStep, ClearingStep, InitTokenStep,
     ReinitializeStep, CountStep, EndingStep DEF Next, Ending

-----------------------------------------------------------------------------
(* GCM nonces                                                              *)

\* Holders of counters may return; nobody takes one.
HoldersSame == \A u \in Threads : calls'[u].op = "nonce" => calls'[u] = calls[u]

LEMMA NonceSame ==
  ASSUME KeyInv, UNCHANGED <<counters, prefixes, drawn, nonces, reused, crossed>>, HoldersSame,
         \A k \in AesKeys : HalfRemoved(k)' <=> HalfRemoved(k)
  PROVE  NonceInv'
<1> USE DEF KeyInv
<1>1. ASSUME NEW k \in AesKeys \ crossed', HalfRemoved(k)' PROVE ~CounterHeld(k)'
  BY <1>1 DEF NonceInv, CounterHeld, HoldersSame, At
<1>2. ASSUME NEW k \in DOMAIN prefixes' \ crossed', ~HalfRemoved(k)',
             NEW n \in nonces', n.key = k, n.prefix = prefixes'[k]
      PROVE  /\ n.count < CountOf(k)'
             /\ \A t \in Threads : calls'[t].op = "nonce" /\ calls'[t].key = k => n.count < calls'[t].count
  <2>1. k \in DOMAIN prefixes \ crossed /\ k \in AesKeys
    BY <1>2 DEF NonceInv
  <2>2. ~HalfRemoved(k)
    BY <1>2, <2>1
  <2>3. /\ n.count < CountOf(k)
        /\ \A t \in Threads : At(t, "nonce") /\ calls[t].key = k => n.count < calls[t].count
    BY <1>2, <2>1, <2>2 DEF NonceInv
  <2> QED
    BY <2>3 DEF CountOf, HoldersSame, At
<1>3. ASSUME NEW t \in Threads, calls'[t].op = "nonce"
      PROVE  /\ calls'[t].key \in DOMAIN counters' /\ counters'[calls'[t].key] = calls'[t].count + 1
             /\ \A u \in Threads : calls'[u].op = "nonce" /\ calls'[u].key = calls'[t].key => u = t
  BY <1>3 DEF NonceInv, HoldersSame, At
<1> QED
  BY <1>1, <1>2, <1>3 DEF NonceInv, At

\* A removal takes the counter, which nobody holds.
LEMMA CounterDropped ==
  ASSUME KeyInv, NEW k, counters' = Without(counters, k), ~CounterHeld(k), HoldersSame,
         UNCHANGED <<prefixes, drawn, nonces, reused, crossed>>, HalfRemoved(k)',
         \A l \in AesKeys \ {k} : HalfRemoved(l)' <=> HalfRemoved(l)
  PROVE  NonceInv'
<1> USE DEF KeyInv
<1>1. /\ DOMAIN counters' = DOMAIN counters \ {k}
      /\ \A l \in DOMAIN counters \ {k} : counters'[l] = counters[l]
  BY DEF Without
<1>2. \A t \in Threads : calls'[t].op = "nonce" => calls'[t] = calls[t] /\ calls'[t].key # k
  BY DEF HoldersSame, CounterHeld, At
<1>3. ASSUME NEW t \in Threads, calls'[t].op = "nonce"
      PROVE  /\ calls'[t].key \in DOMAIN counters' /\ counters'[calls'[t].key] = calls'[t].count + 1
             /\ \A u \in Threads : calls'[u].op = "nonce" /\ calls'[u].key = calls'[t].key => u = t
  BY <1>1, <1>2, <1>3 DEF NonceInv, At
<1>4. ASSUME NEW l \in AesKeys \ crossed', HalfRemoved(l)' PROVE ~CounterHeld(l)'
  <2>1. CASE l = k
    BY <1>2, <2>1 DEF CounterHeld, At
  <2>2. CASE l # k
    BY <1>2, <1>4, <2>2 DEF NonceInv, CounterHeld, At
  <2> QED
    BY <2>1, <2>2
<1>5. ASSUME NEW l \in DOMAIN prefixes' \ crossed', ~HalfRemoved(l)',
             NEW n \in nonces', n.key = l, n.prefix = prefixes'[l]
      PROVE  /\ n.count < CountOf(l)'
             /\ \A t \in Threads : calls'[t].op = "nonce" /\ calls'[t].key = l => n.count < calls'[t].count
  <2>1. l \in DOMAIN prefixes \ crossed /\ l \in AesKeys /\ l # k
    BY <1>5 DEF NonceInv
  <2>2. ~HalfRemoved(l)
    BY <1>5, <2>1
  <2>3. /\ n.count < CountOf(l)
        /\ \A t \in Threads : At(t, "nonce") /\ calls[t].key = l => n.count < calls[t].count
    BY <1>5, <2>1, <2>2 DEF NonceInv
  <2>4. CountOf(l)' = CountOf(l)
    BY <1>1, <2>1 DEF CountOf
  <2> QED
    BY <1>2, <2>3, <2>4 DEF At
<1>6. DOMAIN counters' \subseteq AesKeys /\ \A l \in DOMAIN counters' : counters'[l] \in 0 .. GCM_MAX
  BY <1>1 DEF NonceInv
<1> QED
  BY <1>3, <1>4, <1>5, <1>6 DEF NonceInv, At

\* It then takes the prefix: the next one is new.
LEMMA PrefixDropped ==
  ASSUME KeyInv, NEW k, prefixes' = Without(prefixes, k), HoldersSame,
         UNCHANGED <<counters, drawn, nonces, reused, crossed>>, HalfRemoved(k)' => HalfRemoved(k),
         \A l \in AesKeys \ {k} : HalfRemoved(l)' <=> HalfRemoved(l)
  PROVE  NonceInv'
<1> USE DEF KeyInv
<1>1. /\ DOMAIN prefixes' = DOMAIN prefixes \ {k}
      /\ \A l \in DOMAIN prefixes \ {k} : prefixes'[l] = prefixes[l]
  BY DEF Without
<1>2. ASSUME NEW t \in Threads, calls'[t].op = "nonce"
      PROVE  /\ calls'[t].key \in DOMAIN counters' /\ counters'[calls'[t].key] = calls'[t].count + 1
             /\ \A u \in Threads : calls'[u].op = "nonce" /\ calls'[u].key = calls'[t].key => u = t
  BY <1>2 DEF NonceInv, HoldersSame, At
<1>3. ASSUME NEW l \in AesKeys \ crossed', HalfRemoved(l)' PROVE ~CounterHeld(l)'
  <2>1. HalfRemoved(l)
    BY <1>3
  <2> QED
    BY <1>3, <2>1 DEF NonceInv, CounterHeld, HoldersSame, At
<1>4. ASSUME NEW l \in DOMAIN prefixes' \ crossed', ~HalfRemoved(l)',
             NEW n \in nonces', n.key = l, n.prefix = prefixes'[l]
      PROVE  /\ n.count < CountOf(l)'
             /\ \A t \in Threads : calls'[t].op = "nonce" /\ calls'[t].key = l => n.count < calls'[t].count
  <2>1. l \in DOMAIN prefixes \ crossed /\ l \in AesKeys /\ l # k /\ prefixes'[l] = prefixes[l]
    BY <1>1, <1>4 DEF NonceInv
  <2>2. ~HalfRemoved(l)
    BY <1>4, <2>1
  <2>3. /\ n.count < CountOf(l)
        /\ \A t \in Threads : At(t, "nonce") /\ calls[t].key = l => n.count < calls[t].count
    BY <1>4, <2>1, <2>2 DEF NonceInv
  <2> QED
    BY <2>3 DEF CountOf, HoldersSame, At
<1>5. /\ DOMAIN prefixes' \subseteq AesKeys
      /\ \A l \in DOMAIN prefixes' : prefixes'[l] \in 1 .. drawn'[l]
  BY <1>1 DEF NonceInv
<1> QED
  BY <1>2, <1>3, <1>4, <1>5 DEF NonceInv, At

\* Steps of calls that neither hold a counter nor are between the tables.
NonceOps == {"nonce", "removePrefix", "clearCounters", "clearPrefixes"}

LEMMA HalfSame ==
  ASSUME NEW t \in Threads, Threadwise(t), calls[t].op \notin NonceOps \ {"nonce"}, calls'[t].op \notin NonceOps
  PROVE  HoldersSame /\ \A k : HalfRemoved(k)' <=> HalfRemoved(k)
<1>1. HoldersSame
  BY DEF HoldersSame, Threadwise, NonceOps
<1>2. ASSUME NEW k PROVE HalfRemoved(k)' <=> HalfRemoved(k)
  BY DEF HalfRemoved, At, Threadwise, NonceOps
<1> QED
  BY <1>1, <1>2

\* A count is taken: it is ahead of what was encrypted before, and the key is
\* crossed if a removal is between the tables.
LEMMA CountTaken ==
  ASSUME KeyInv, NEW t \in Threads, GcmCounts(t)
  PROVE  NonceInv'
<1> USE DEF KeyInv
<1> DEFINE k == calls[t].key
           c == CountOf(k)
<1>1. /\ calls[t].op = "count" /\ ~CounterHeld(k) /\ counters' = With(counters, k, c + 1)
      /\ crossed' = IF HalfRemoved(k) THEN crossed \cup {k} ELSE crossed
      /\ UNCHANGED <<prefixes, drawn, nonces, reused>>
  BY DEF GcmCounts, At
<1>2. /\ Threadwise(t) /\ calls'[t].op = "nonce" /\ calls'[t].key = k /\ calls'[t].count = c
      /\ k \in AesKeys /\ c \in 0 .. GCM_MAX - 1 /\ GCM_MAX \in Nat
  BY CountStep, LimitsAssumption
<1>3. /\ DOMAIN counters' = DOMAIN counters \cup {k} /\ counters'[k] = c + 1
      /\ \A l \in DOMAIN counters : l # k => counters'[l] = counters[l]
  BY <1>1 DEF With
<1>4. \A u \in Threads : At(u, "nonce") => calls[u].key # k
  BY <1>1 DEF CounterHeld
<1>5. \A l : HalfRemoved(l)' <=> HalfRemoved(l)
  BY <1>1, <1>2 DEF HalfRemoved, At, Threadwise
<1>6. \A u \in Threads : u # t => calls'[u] = calls[u]
  BY <1>2 DEF Threadwise
<1> HIDE DEF k, c
<1>7. DOMAIN counters' \subseteq AesKeys /\ \A l \in DOMAIN counters' : counters'[l] \in 0 .. GCM_MAX
  <2>1. c + 1 \in 0 .. GCM_MAX
    BY <1>2
  <2> QED
    BY <1>2, <1>3, <2>1 DEF NonceInv
<1>8. ASSUME NEW v \in Threads, calls'[v].op = "nonce"
      PROVE  /\ calls'[v].key \in DOMAIN counters' /\ counters'[calls'[v].key] = calls'[v].count + 1
             /\ \A u \in Threads : calls'[u].op = "nonce" /\ calls'[u].key = calls'[v].key => u = v
  <2>1. CASE v = t
    BY <1>2, <1>3, <1>4, <1>6, <2>1 DEF At
  <2>2. CASE v # t
    BY <1>2, <1>3, <1>4, <1>6, <1>8, <2>2 DEF NonceInv, At
  <2> QED
    BY <2>1, <2>2
<1>9. ASSUME NEW l \in AesKeys \ crossed', HalfRemoved(l)' PROVE ~CounterHeld(l)'
  <2>1. HalfRemoved(l) /\ l # k /\ l \notin crossed
    BY <1>1, <1>5, <1>9
  <2>2. ~CounterHeld(l)
    BY <1>9, <2>1 DEF NonceInv
  <2> QED
    BY <1>2, <1>6, <2>1, <2>2 DEF CounterHeld, At
<1>10. ASSUME NEW l \in DOMAIN prefixes' \ crossed', ~HalfRemoved(l)',
              NEW n \in nonces', n.key = l, n.prefix = prefixes'[l]
       PROVE  /\ n.count < CountOf(l)'
              /\ \A u \in Threads : calls'[u].op = "nonce" /\ calls'[u].key = l => n.count < calls'[u].count
  <2>1. l \in DOMAIN prefixes \ crossed /\ ~HalfRemoved(l)
    BY <1>1, <1>5, <1>10
  <2>2. /\ n.count < CountOf(l) /\ n.count \in Nat
        /\ \A u \in Threads : At(u, "nonce") /\ calls[u].key = l => n.count < calls[u].count
    BY <1>1, <1>2, <1>10, <2>1 DEF NonceInv, Nonce
  <2>3. CASE l = k
    <3>1. CountOf(l)' = c + 1 /\ n.count < c
      BY <1>3, <2>2, <2>3 DEF CountOf, c
    <3>2. n.count < c + 1
      BY <1>2, <2>2, <3>1
    <3>3. ASSUME NEW u \in Threads, calls'[u].op = "nonce", calls'[u].key = l
          PROVE  n.count < calls'[u].count
      BY <1>2, <1>4, <1>6, <2>3, <3>1, <3>3 DEF At
    <3> QED
      BY <3>1, <3>2, <3>3
  <2>4. CASE l # k
    <3>1. CountOf(l)' = CountOf(l)
      BY <1>3, <2>4 DEF CountOf
    <3> QED
      BY <1>2, <1>6, <2>2, <2>4, <3>1 DEF At
  <2> QED
    BY <2>3, <2>4
<1>11. reused' \subseteq crossed'
  BY <1>1 DEF NonceInv
<1> QED
  BY <1>1, <1>7, <1>8, <1>9, <1>10, <1>11 DEF NonceInv, At

\* The nonce is new, by its count or by its prefix.
LEMMA NonceMade ==
  ASSUME KeyInv, NEW t \in Threads, GcmEncrypts(t)
  PROVE  NonceInv'
<1> USE DEF KeyInv
<1> DEFINE k == calls[t].key
           c == calls[t].count
           p == PrefixOf(k)
           new == [key |-> k, prefix |-> p, count |-> c]
<1>1. /\ calls[t].op = "nonce" /\ p <= MaxPrefixes
      /\ prefixes' = With(prefixes, k, p)
      /\ drawn' = IF k \in DOMAIN prefixes THEN drawn ELSE [drawn EXCEPT ![k] = @ + 1]
      /\ nonces' = nonces \cup {new}
      /\ reused' = IF new \in nonces THEN reused \cup {k} ELSE reused
      /\ UNCHANGED <<counters, crossed>>
  BY DEF GcmEncrypts, At
<1>2. Threadwise(t) /\ calls'[t].op = "idle"
  BY EndingStep DEF Ending, Idle
<1>3. k \in AesKeys /\ c \in 0 .. GCM_MAX - 1 /\ GCM_MAX \in Nat
  BY <1>1, LimitsAssumption DEF CallsInv, CallSound
<1>4. /\ k \in DOMAIN counters /\ counters[k] = c + 1
      /\ \A u \in Threads : At(u, "nonce") /\ calls[u].key = k => u = t
  BY <1>1 DEF NonceInv, At
<1>5. HoldersSame /\ \A l : HalfRemoved(l)' <=> HalfRemoved(l)
  BY <1>1, <1>2, HalfSame DEF NonceOps
<1>6. /\ DOMAIN prefixes' = DOMAIN prefixes \cup {k} /\ prefixes'[k] = p
      /\ \A l \in DOMAIN prefixes : l # k => prefixes'[l] = prefixes[l]
  BY <1>1 DEF With
<1>7. /\ drawn' \in [AesKeys -> Nat] /\ p \in 1 .. drawn'[k] /\ p \in Nat
      /\ \A l \in AesKeys : drawn'[l] \in Nat /\ drawn[l] \in Nat /\ drawn[l] <= drawn'[l]
      /\ k \notin DOMAIN prefixes => p = drawn[k] + 1
  <2>1. CASE k \in DOMAIN prefixes
    BY <1>1, <1>3, <2>1 DEF NonceInv, PrefixOf
  <2>2. CASE k \notin DOMAIN prefixes
    BY <1>1, <1>3, <2>2 DEF NonceInv, PrefixOf
  <2> QED
    BY <2>1, <2>2
<1>8. new \in Nonce /\ new.key = k /\ new.prefix = p /\ new.count = c
  <2>1. p \in 1 .. MaxPrefixes
    BY <1>1, <1>7, LimitsAssumption
  <2> QED
    BY <1>3, <2>1 DEF Nonce
<1> HIDE DEF k, c, p, new
<1>9. k \notin crossed => ~HalfRemoved(k)
  <2>1. CounterHeld(k)
    BY <1>1 DEF CounterHeld, At, k
  <2> QED
    BY <1>3, <2>1 DEF NonceInv
\* What was encrypted with this prefix has a smaller count.
<1>10. ASSUME k \notin crossed, NEW n \in nonces, n.key = k, n.prefix = p
       PROVE  n.count < c /\ n.count \in Nat
  <2>1. k \in DOMAIN prefixes
    <3>1. n.prefix \in 1 .. drawn[k]
      BY <1>10 DEF NonceInv
    <3> QED
      BY <1>3, <1>7, <1>10, <3>1
  <2>2. prefixes[k] = p
    BY <2>1 DEF PrefixOf, p
  <2>3. n.count \in Nat
    BY <1>3 DEF NonceInv, Nonce
  <2> QED
    BY <1>1, <1>9, <1>10, <2>1, <2>2, <2>3 DEF NonceInv, At, k, c
<1>11. reused' \subseteq crossed'
  <2>1. new \in nonces => k \in crossed
    <3>1. k \notin crossed /\ new \in nonces => c < c
      BY <1>8, <1>10
    <3> QED
      BY <1>3, <3>1
  <2> QED
    BY <1>1, <2>1 DEF NonceInv
<1>12. ASSUME NEW v \in Threads, calls'[v].op = "nonce"
       PROVE  /\ calls'[v].key \in DOMAIN counters' /\ counters'[calls'[v].key] = calls'[v].count + 1
              /\ calls'[v].key # k
              /\ \A u \in Threads : calls'[u].op = "nonce" /\ calls'[u].key = calls'[v].key => u = v
  BY <1>1, <1>2, <1>4, <1>5, <1>12 DEF NonceInv, HoldersSame, At
<1>13. ASSUME NEW l \in AesKeys \ crossed', HalfRemoved(l)' PROVE ~CounterHeld(l)'
  BY <1>1, <1>5, <1>13 DEF NonceInv, CounterHeld, HoldersSame, At
<1>14. ASSUME NEW l \in DOMAIN prefixes' \ crossed', ~HalfRemoved(l)',
              NEW n \in nonces', n.key = l, n.prefix = prefixes'[l]
       PROVE  /\ n.count < CountOf(l)'
              /\ \A u \in Threads : calls'[u].op = "nonce" /\ calls'[u].key = l => n.count < calls'[u].count
  <2>1. CASE l = k
    <3>1. CountOf(l)' = c + 1
      BY <1>1, <1>4, <2>1 DEF CountOf
    <3>2. n.count <= c /\ n.count \in Nat
      <4>1. CASE n = new
        BY <1>3, <1>8, <4>1
      <4>2. CASE n \in nonces
        BY <1>1, <1>3, <1>6, <1>10, <1>14, <2>1, <4>2
      <4> QED
        BY <1>1, <4>1, <4>2
    <3> QED
      BY <1>3, <1>12, <2>1, <3>1, <3>2
  <2>2. CASE l # k
    <3>1. l \in DOMAIN prefixes \ crossed /\ prefixes'[l] = prefixes[l] /\ ~HalfRemoved(l)
      BY <1>1, <1>5, <1>6, <1>14, <2>2
    <3>2. n \in nonces
      BY <1>1, <1>8, <1>14, <2>2
    <3>3. /\ n.count < CountOf(l)
          /\ \A u \in Threads : At(u, "nonce") /\ calls[u].key = l => n.count < calls[u].count
      BY <1>14, <3>1, <3>2 DEF NonceInv
    <3> QED
      BY <1>1, <1>5, <3>3 DEF CountOf, HoldersSame, At
  <2> QED
    BY <2>1, <2>2
<1>15. /\ DOMAIN prefixes' \subseteq AesKeys
       /\ \A l \in DOMAIN prefixes' : prefixes'[l] \in 1 .. drawn'[l]
  <2>1. ASSUME NEW l \in DOMAIN prefixes, l # k PROVE prefixes'[l] \in 1 .. drawn'[l]
    <3>1. prefixes'[l] \in 1 .. drawn[l] /\ l \in AesKeys
      BY <1>6, <2>1 DEF NonceInv
    <3> QED
      BY <1>7, <3>1
  <2> QED
    BY <1>3, <1>6, <1>7, <2>1 DEF NonceInv
<1>16. nonces' \subseteq Nonce /\ \A n \in nonces' : n.prefix \in 1 .. drawn'[n.key]
  <2>1. ASSUME NEW n \in nonces PROVE n.prefix \in 1 .. drawn'[n.key]
    <3>1. n.prefix \in 1 .. drawn[n.key] /\ n.key \in AesKeys
      BY DEF NonceInv, Nonce
    <3> QED
      BY <1>7, <3>1
  <2> QED
    BY <1>1, <1>7, <1>8, <2>1 DEF NonceInv
<1> QED
  BY <1>1, <1>7, <1>11, <1>12, <1>13, <1>14, <1>15, <1>16 DEF NonceInv, At

\* The two tables are cleared one after the other.
LEMMA TablesCleared ==
  ASSUME KeyInv, NEW t \in Threads,
         \/ RemovesCounter(t) \/ RemovesPrefix(t)
         \/ \E k \in AesKeys : ClearsCounter(t, k) \/ ClearsPrefix(t, k)
  PROVE  NonceInv'
<1>1. CASE RemovesCounter(t)
  <2>1. PICK k : k = calls[t].key
    OBVIOUS
  <2>2. /\ Threadwise(t) /\ calls[t].op = "removeCounter" /\ calls'[t].op = "removePrefix"
        /\ calls'[t].key = k
    <3>1. "removePrefix" \in Removals /\ "removeCounter" \in Removals
      BY DEF Removals
    <3>2. calls[t].op = "removeCounter" /\ Goes(t, [calls[t] EXCEPT !.op = "removePrefix"])
      BY <1>1 DEF RemovesCounter, At
    <3> QED
      BY <2>1, <3>1, <3>2, RemovalGoes
  <2>3. /\ counters' = Without(counters, k) /\ ~CounterHeld(k)
        /\ UNCHANGED <<prefixes, drawn, nonces, reused, crossed>>
    BY <1>1, <2>1 DEF RemovesCounter, history, gcmHistory
  <2>4. HoldersSame /\ HalfRemoved(k)'
    BY <2>2 DEF HoldersSame, Threadwise, HalfRemoved, At
  <2>5. \A l \in AesKeys \ {k} : HalfRemoved(l)' <=> HalfRemoved(l)
    BY <2>2 DEF Threadwise, HalfRemoved, At
  <2> QED
    BY <2>3, <2>4, <2>5, CounterDropped
<1>2. CASE RemovesPrefix(t)
  <2>1. PICK k : k = calls[t].key
    OBVIOUS
  <2>2. /\ Threadwise(t) /\ calls[t].op = "removePrefix" /\ calls'[t].op = "removeIvs"
    <3>1. "removePrefix" \in Removals /\ "removeIvs" \in Removals
      BY DEF Removals
    <3>2. calls[t].op = "removePrefix" /\ Goes(t, [calls[t] EXCEPT !.op = "removeIvs"])
      BY <1>2 DEF RemovesPrefix, At
    <3> QED
      BY <3>1, <3>2, RemovalGoes
  <2>3. /\ prefixes' = Without(prefixes, k)
        /\ UNCHANGED <<counters, drawn, nonces, reused, crossed>>
    BY <1>2, <2>1 DEF RemovesPrefix, history, gcmHistory
  <2>4. HoldersSame /\ (HalfRemoved(k)' => HalfRemoved(k))
    BY <2>2 DEF HoldersSame, Threadwise, HalfRemoved, At
  <2>5. \A l \in AesKeys \ {k} : HalfRemoved(l)' <=> HalfRemoved(l)
    BY <2>1, <2>2 DEF Threadwise, HalfRemoved, At
  <2> QED
    BY <2>3, <2>4, <2>5, PrefixDropped
<1>3. ASSUME NEW k \in AesKeys, ClearsCounter(t, k) PROVE NonceInv'
  <2>1. /\ Threadwise(t) /\ calls[t].op = "clearCounters"
        /\ \/ calls[t].left = {k} /\ calls'[t].op = "clearPrefixes" /\ calls'[t].left = AesKeys
           \/ calls'[t].op = "clearCounters" /\ calls'[t].left = calls[t].left \ {k}
    BY <1>3, ClearingStep DEF ClearsCounter, ClearsPrefix, At
  <2>2. /\ counters' = Without(counters, k) /\ ~CounterHeld(k)
        /\ UNCHANGED <<prefixes, drawn, nonces, reused, crossed>>
    BY <1>3 DEF ClearsCounter, history, gcmHistory
  <2>3. HoldersSame
    BY <2>1 DEF HoldersSame, Threadwise
  <2>4. HalfRemoved(k)'
    BY <2>1 DEF HalfRemoved, At
  <2>5. \A l \in AesKeys \ {k} : HalfRemoved(l)' <=> HalfRemoved(l)
    BY <2>1 DEF Threadwise, HalfRemoved, At
  <2> QED
    BY <2>2, <2>3, <2>4, <2>5, CounterDropped
<1>4. ASSUME NEW k \in AesKeys, ClearsPrefix(t, k) PROVE NonceInv'
  <2>1. /\ Threadwise(t) /\ calls[t].op = "clearPrefixes" /\ k \in calls[t].left
        /\ \/ calls[t].left = {k} /\ calls'[t].op = "clearIvs"
           \/ calls'[t].op = "clearPrefixes" /\ calls'[t].left = calls[t].left \ {k}
    BY <1>4, ClearingStep DEF ClearsCounter, ClearsPrefix, At
  <2>2. /\ prefixes' = Without(prefixes, k)
        /\ UNCHANGED <<counters, drawn, nonces, reused, crossed>>
    BY <1>4 DEF ClearsPrefix, history, gcmHistory
  <2>3. HoldersSame
    BY <2>1 DEF HoldersSame, Threadwise
  <2>4. HalfRemoved(k)' => HalfRemoved(k)
    BY <2>1 DEF HalfRemoved, At
  <2>5. \A l \in AesKeys \ {k} : HalfRemoved(l)' <=> HalfRemoved(l)
    BY <2>1 DEF Threadwise, HalfRemoved, At
  <2> QED
    BY <2>2, <2>3, <2>4, <2>5, PrefixDropped
<1> QED
  BY <1>1, <1>2, <1>3, <1>4

\* All the other steps leave the counters, the prefixes and who is at them.
LEMMA NonceQuiet ==
  ASSUME KeyInv, UNCHANGED <<counters, prefixes, drawn, nonces, reused, crossed>>,
         \/ UNCHANGED calls
         \/ \E t \in Threads : /\ Threadwise(t) /\ calls[t].op \notin NonceOps \ {"nonce"}
                               /\ calls'[t].op \notin NonceOps
  PROVE  NonceInv'
<1>1. CASE UNCHANGED calls
  <2>1. HoldersSame /\ \A k \in AesKeys : HalfRemoved(k)' <=> HalfRemoved(k)
    BY <1>1 DEF HoldersSame, HalfRemoved, At
  <2> QED
    BY <2>1, NonceSame
<1>2. ASSUME NEW t \in Threads, Threadwise(t), calls[t].op \notin NonceOps \ {"nonce"},
             calls'[t].op \notin NonceOps
      PROVE  NonceInv'
  BY <1>2, HalfSame, NonceSame
<1> QED
  BY <1>1, <1>2

LEMMA NonceNext ==
  ASSUME KeyInv, Next
  PROVE  NonceInv'
<1>1. ASSUME NEW t \in Threads, NEW k \in Keys, Makes(t, k) PROVE NonceInv'
  BY <1>1, NonceQuiet DEF Makes, history, gcmHistory
<1>2. ASSUME NEW t \in Threads, NEW h \in Handles, NEW s \in Slots, SignHits(t, s, h) PROVE NonceInv'
  BY <1>2, NonceQuiet DEF SignHits, gcmHistory
<1>3. ASSUME NEW t \in Threads, NEW h \in Handles,
             \/ EncryptGcm(t, h)
             \/ \E iv \in IVs : EncryptCbc(t, h, iv) \/ EncryptCtr(t, h, iv)
             \/ \E s \in Slots : SignMisses(t, s, h) \/ DestroyReads(t, s, h)
      PROVE  NonceInv'
  <2>1. /\ UNCHANGED <<counters, prefixes, drawn, nonces, reused, crossed>> /\ calls[t].op = "idle"
    BY <1>3 DEF EncryptGcm, EncryptCbc, EncryptCtr, SignMisses, sign_single_shot, DestroyReads, At,
                history, gcmHistory
  <2>2. Threadwise(t) /\ calls'[t].op \in Beginnings
    BY <1>3, CallBegins
  <2> QED
    BY <2>1, <2>2, NonceQuiet DEF NonceOps, Beginnings
<1>4. ASSUME NEW t \in Threads, GcmRefused(t) \/ GcmDrbgFails(t) \/ IvTracks(t) \/ SignCaches(t)
                                \/ DestroyEvicts(t) \/ ClearsIvs(t)
      PROVE  NonceInv'
  <2>1. /\ UNCHANGED <<counters, prefixes, drawn, nonces, reused, crossed>>
        /\ calls[t].op \in {"count", "nonce", "track", "parse", "evict", "clearIvs"}
    BY <1>4 DEF GcmRefused, GcmDrbgFails, IvTracks, SignCaches, DestroyEvicts, ClearsIvs, At,
                history, gcmHistory
  <2>2. Threadwise(t) /\ calls'[t].op = "idle"
    BY <1>4, EndingStep DEF Ending, Idle
  <2> QED
    BY <2>1, <2>2, NonceQuiet DEF NonceOps
<1>5. ASSUME NEW t \in Threads, DestroyRemoves(t) PROVE NonceInv'
  <2>1. UNCHANGED <<counters, prefixes, drawn, nonces, reused, crossed>> /\ calls[t].op = "remove"
    BY <1>5 DEF DestroyRemoves, At, gcmHistory
  <2>2. Threadwise(t) /\ calls'[t].op \in {"idle", "removeCounter"}
    BY <1>5, DestroyStep DEF Idle
  <2> QED
    BY <2>1, <2>2, NonceQuiet DEF NonceOps
<1>6. ASSUME NEW t \in Threads, RemovesIvs(t) PROVE NonceInv'
  <2>1. UNCHANGED <<counters, prefixes, drawn, nonces, reused, crossed>> /\ calls[t].op = "removeIvs"
    BY <1>6 DEF RemovesIvs, At, history, gcmHistory
  <2>2. Threadwise(t) /\ calls'[t].op = "evict"
    <3>1. "evict" \in Removals /\ "removeIvs" \in Removals /\ Goes(t, [calls[t] EXCEPT !.op = "evict"])
      BY <1>6 DEF RemovesIvs, Removals
    <3> QED
      BY <2>1, <3>1, RemovalGoes
  <2> QED
    BY <2>1, <2>2, NonceQuiet DEF NonceOps
<1>7. ASSUME NEW t \in Threads, InitToken(t) PROVE NonceInv'
  <2>1. UNCHANGED <<counters, prefixes, drawn, nonces, reused, crossed>> /\ calls[t].op = "idle"
    BY <1>7 DEF InitToken, At, gcmHistory
  <2>2. Threadwise(t) /\ calls'[t].op = "clearCounters" /\ calls'[t].left = AesKeys
    BY <1>7, InitTokenStep
  <2>3. HoldersSame /\ \A k \in AesKeys : HalfRemoved(k)' <=> HalfRemoved(k)
    BY <2>1, <2>2 DEF HoldersSame, HalfRemoved, Threadwise, At
  <2> QED
    BY <2>1, <2>3, NonceSame
<1>8. ASSUME NEW t \in Threads, NEW keep \in SUBSET Handles, Reinitialize(t, keep) PROVE NonceInv'
  BY <1>8, NonceQuiet DEF Reinitialize, gcmHistory
<1> QED
  BY <1>1, <1>2, <1>3, <1>4, <1>5, <1>6, <1>7, <1>8, CountTaken, NonceMade, TablesCleared DEF Next

-----------------------------------------------------------------------------
(* IVs                                                                     *)

\* Who clears the tracker of a key, or of all keys, has forgiven them.
Forgiving(u) ==
  /\ calls[u].op \in {"removeCounter", "removePrefix", "removeIvs"} /\ calls[u].key \in AesKeys =>
       calls[u].key \in forgiven
  /\ calls[u].op \in Clearings \cup {"clearIvs"} => AesKeys \subseteq forgiven

\* Entries leave the tracker, those of forgiven keys only.
LEMMA IvKept ==
  ASSUME KeyInv, UNCHANGED <<accepted, repeated>>, forgiven \subseteq forgiven',
         forgiven' \subseteq forgiven \cup AesKeys,
         DOMAIN ivs' \subseteq DOMAIN ivs, \A k \in DOMAIN ivs' : ivs'[k] = ivs[k],
         \A k \in AesKeys \ forgiven' : k \in DOMAIN ivs => k \in DOMAIN ivs',
         \A u \in Threads : Forgiving(u)'
  PROVE  IvInv'
<1> USE DEF KeyInv
<1>1. ASSUME NEW k \in AesKeys \ forgiven' PROVE accepted'[k] \subseteq IvsOf(k)'
  <2>1. accepted[k] \subseteq IvsOf(k)
    BY DEF IvInv
  <2> QED
    BY <2>1 DEF IvsOf
<1>2. /\ DOMAIN ivs' \subseteq AesKeys
      /\ \A k \in DOMAIN ivs' : /\ ivs'[k] \subseteq IVs \ {ZeroIV} /\ IsFiniteSet(ivs'[k])
                                /\ Cardinality(ivs'[k]) <= MAX_TRACKED_IVS
  BY DEF IvInv
<1> QED
  BY <1>1, <1>2 DEF IvInv, Forgiving

LEMMA IvSame ==
  ASSUME KeyInv, UNCHANGED <<ivs, accepted, repeated>>, forgiven \subseteq forgiven',
         forgiven' \subseteq forgiven \cup AesKeys,
         \A u \in Threads : Forgiving(u)'
  PROVE  IvInv'
  BY IvKept

\* A thread's step keeps what the others have forgiven.
LEMMA OthersForgive ==
  ASSUME KeyInv, NEW t \in Threads, Threadwise(t), forgiven \subseteq forgiven', Forgiving(t)'
  PROVE  \A u \in Threads : Forgiving(u)'
<1> SUFFICES ASSUME NEW u \in Threads, u # t PROVE Forgiving(u)'
  OBVIOUS
<1>1. calls'[u] = calls[u]
  BY DEF Threadwise
<1> QED
  BY <1>1 DEF KeyInv, IvInv, Forgiving

LEMMA NoneForgiving ==
  ASSUME NEW t \in Threads, calls'[t].op \notin Leaving \cup Clearings \cup {"clearIvs"} \/ calls'[t].op = "evict"
  PROVE  Forgiving(t)'
  BY DEF Forgiving, Leaving, Removals, Clearings

\* An IV is accepted that the tracker did not know, and it is kept.
LEMMA IvTracked ==
  ASSUME KeyInv, NEW t \in Threads, IvTracks(t)
  PROVE  IvInv'
<1> USE DEF KeyInv
<1> DEFINE k == calls[t].key
           iv == calls[t].iv
           old == IvsOf(k)
<1>1. calls[t].op = "track" /\ k \in AesKeys /\ iv \in IVs \ {ZeroIV}
  BY DEF IvTracks, At, CallsInv, CallSound
<1>2. Threadwise(t) /\ calls'[t].op = "idle"
  BY EndingStep DEF Ending, Idle
<1>3. UNCHANGED forgiven
  BY DEF IvTracks, Accepts, ivHistory
<1>4. \A u \in Threads : Forgiving(u)'
  <2>1. Forgiving(t)'
    BY <1>2, NoneForgiving DEF Leaving, Removals, Clearings
  <2> QED
    BY <1>2, <1>3, <2>1, OthersForgive
<1>5. MAX_TRACKED_IVS \in Nat \ {0}
  BY LimitsAssumption
<1>6. old \subseteq IVs \ {ZeroIV} /\ IsFiniteSet(old) /\ Cardinality(old) <= MAX_TRACKED_IVS
  <2>1. CASE k \in DOMAIN ivs
    BY <2>1 DEF IvInv, IvsOf
  <2>2. CASE k \notin DOMAIN ivs
    <3>1. old = {}
      BY <2>2 DEF IvsOf
    <3>2. IsFiniteSet({}) /\ Cardinality({}) = 0
      BY FS_EmptySet
    <3> QED
      BY <1>5, <3>1, <3>2
  <2> QED
    BY <2>1, <2>2
<1>7. iv \notin old /\ Cardinality(old) < MAX_TRACKED_IVS =>
        /\ IsFiniteSet(old \cup {iv}) /\ Cardinality(old \cup {iv}) <= MAX_TRACKED_IVS
  <2>1. IsFiniteSet(old \cup {iv}) /\ Cardinality(old) \in Nat
        /\ (iv \notin old => Cardinality(old \cup {iv}) = Cardinality(old) + 1)
    BY <1>6, FS_AddElement, FS_CardinalityType
  <2> QED
    BY <1>5, <2>1
<1>8. \E new : /\ ivs' = With(ivs, k, new) /\ old \subseteq new
               /\ new \subseteq IVs \ {ZeroIV} /\ IsFiniteSet(new) /\ Cardinality(new) <= MAX_TRACKED_IVS
               /\ \/ UNCHANGED <<accepted, repeated>>
                  \/ iv \in new /\ iv \notin old /\ Accepts(k, iv)
  <2>1. CASE iv \notin old /\ Cardinality(old) < MAX_TRACKED_IVS
    <3>1. ivs' = With(ivs, k, old \cup {iv}) /\ Accepts(k, iv)
      BY <2>1 DEF IvTracks
    <3> QED
      BY <1>1, <1>6, <1>7, <2>1, <3>1
  <2>2. CASE ~(iv \notin old /\ Cardinality(old) < MAX_TRACKED_IVS)
    <3>1. ivs' = With(ivs, k, old) /\ UNCHANGED <<accepted, repeated>>
      BY <2>2 DEF IvTracks, ivHistory
    <3> QED
      BY <1>6, <3>1
  <2> QED
    BY <2>1, <2>2
<1> HIDE DEF k, iv, old
<1>9. PICK new : /\ ivs' = With(ivs, k, new) /\ old \subseteq new
                 /\ new \subseteq IVs \ {ZeroIV} /\ IsFiniteSet(new) /\ Cardinality(new) <= MAX_TRACKED_IVS
                 /\ \/ UNCHANGED <<accepted, repeated>>
                    \/ iv \in new /\ iv \notin old /\ Accepts(k, iv)
  BY <1>8
<1>10. /\ DOMAIN ivs' = DOMAIN ivs \cup {k} /\ ivs'[k] = new
       /\ \A l \in DOMAIN ivs : l # k => ivs'[l] = ivs[l]
  BY <1>9 DEF With
<1>11. /\ DOMAIN ivs' \subseteq AesKeys
       /\ \A l \in DOMAIN ivs' : /\ ivs'[l] \subseteq IVs \ {ZeroIV} /\ IsFiniteSet(ivs'[l])
                                 /\ Cardinality(ivs'[l]) <= MAX_TRACKED_IVS
  BY <1>1, <1>9, <1>10 DEF IvInv
<1>12. /\ accepted' \in [AesKeys -> SUBSET IVs]
       /\ \A l \in AesKeys \ {k} : accepted'[l] = accepted[l]
       /\ k \notin forgiven => accepted'[k] \subseteq accepted[k] \cup new
  BY <1>1, <1>9 DEF IvInv, Accepts
<1>13. ASSUME NEW l \in AesKeys \ forgiven' PROVE accepted'[l] \subseteq IvsOf(l)'
  <2>1. accepted[l] \subseteq IvsOf(l)
    BY <1>3 DEF IvInv
  <2>2. CASE l = k
    <3>1. IvsOf(l)' = new /\ accepted[l] \subseteq new
      BY <1>9, <1>10, <2>1, <2>2 DEF IvsOf, old
    <3> QED
      BY <1>3, <1>12, <2>2, <3>1
  <2>3. CASE l # k
    <3>1. IvsOf(l)' = IvsOf(l)
      BY <1>10, <2>3 DEF IvsOf
    <3> QED
      BY <1>12, <2>1, <2>3, <3>1
  <2> QED
    BY <2>2, <2>3
<1>14. repeated' \subseteq forgiven'
  <2>1. CASE UNCHANGED repeated
    BY <1>3, <2>1 DEF IvInv
  <2>2. CASE iv \notin old /\ Accepts(k, iv)
    <3>1. iv \in accepted[k] => k \in forgiven
      BY <1>1, <2>2 DEF IvInv, old
    <3> QED
      BY <1>3, <2>2, <3>1 DEF IvInv, Accepts
  <2> QED
    BY <1>9, <2>1, <2>2
<1> QED
  BY <1>3, <1>4, <1>11, <1>12, <1>13, <1>14 DEF IvInv, Forgiving

LEMMA IvNext ==
  ASSUME KeyInv, Next
  PROVE  IvInv'
<1> USE DEF KeyInv
<1>1. ASSUME NEW t \in Threads, NEW k \in Keys, Makes(t, k) PROVE IvInv'
  BY <1>1, IvSame DEF Makes, history, ivHistory, IvInv, Forgiving
<1>2. ASSUME NEW t \in Threads, NEW h \in Handles, NEW s \in Slots, SignHits(t, s, h) PROVE IvInv'
  BY <1>2, IvSame DEF SignHits, ivHistory, IvInv, Forgiving
<1>3. ASSUME NEW t \in Threads, NEW h \in Handles,
             \/ EncryptGcm(t, h)
             \/ \E iv \in IVs : EncryptCbc(t, h, iv) \/ EncryptCtr(t, h, iv)
             \/ \E s \in Slots : SignMisses(t, s, h) \/ DestroyReads(t, s, h)
      PROVE  IvInv'
  <2>1. UNCHANGED <<ivs, accepted, repeated, forgiven>>
    BY <1>3 DEF EncryptGcm, EncryptCbc, EncryptCtr, SignMisses, DestroyReads, history, ivHistory
  <2>2. Threadwise(t) /\ calls'[t].op \in Beginnings
    BY <1>3, CallBegins
  <2>3. Forgiving(t)'
    BY <2>2, NoneForgiving DEF Beginnings, Leaving, Removals, Clearings
  <2> QED
    BY <2>1, <2>2, <2>3, OthersForgive, IvSame
<1>4. ASSUME NEW t \in Threads, GcmRefused(t) \/ GcmEncrypts(t) \/ GcmDrbgFails(t) \/ SignCaches(t)
                                \/ DestroyEvicts(t)
      PROVE  IvInv'
  <2>1. UNCHANGED <<ivs, accepted, repeated, forgiven>>
    BY <1>4 DEF GcmRefused, GcmEncrypts, GcmDrbgFails, SignCaches, DestroyEvicts, history, ivHistory
  <2>2. Threadwise(t) /\ calls'[t].op = "idle"
    BY <1>4, EndingStep DEF Ending, Idle
  <2>3. Forgiving(t)'
    BY <2>2, NoneForgiving DEF Leaving, Removals, Clearings
  <2> QED
    BY <2>1, <2>2, <2>3, OthersForgive, IvSame
<1>5. ASSUME NEW t \in Threads, GcmCounts(t) PROVE IvInv'
  <2>1. UNCHANGED <<ivs, accepted, repeated, forgiven>>
    BY <1>5 DEF GcmCounts, ivHistory
  <2>2. Threadwise(t) /\ calls'[t].op = "nonce"
    BY <1>5, CountStep
  <2>3. Forgiving(t)'
    BY <2>2, NoneForgiving DEF Leaving, Removals, Clearings
  <2> QED
    BY <2>1, <2>2, <2>3, OthersForgive, IvSame
<1>6. ASSUME NEW t \in Threads, DestroyRemoves(t) PROVE IvInv'
  <2>1. /\ UNCHANGED <<ivs, accepted, repeated>> /\ forgiven \subseteq forgiven'
        /\ forgiven' \subseteq forgiven \cup AesKeys
    BY <1>6 DEF DestroyRemoves
  <2>2. /\ Threadwise(t)
        /\ calls'[t] = Idle \/ (calls'[t].op = "removeCounter" /\ calls'[t].key = calls[t].key)
    BY <1>6, DestroyStep
  <2>3. Forgiving(t)'
    <3>1. CASE calls'[t] = Idle
      BY <3>1, NoneForgiving DEF Idle, Leaving, Removals, Clearings
    <3>2. CASE calls'[t].op = "removeCounter" /\ calls'[t].key = calls[t].key
      <4>1. Live(calls[t].handle)
        <5>1. ~Live(calls[t].handle) => Returns(t)
          BY <1>6 DEF DestroyRemoves
        <5>2. Returns(t) => calls'[t] = Idle
          BY GoesFacts DEF Returns
        <5> QED
          BY <3>2, <5>1, <5>2 DEF Idle
      <4>2. forgiven' = forgiven \cup ({calls[t].key} \cap AesKeys)
        BY <1>6, <4>1 DEF DestroyRemoves
      <4> QED
        BY <3>2, <4>2 DEF Forgiving, Clearings
    <3> QED
      BY <2>2, <3>1, <3>2
  <2> QED
    BY <2>1, <2>2, <2>3, OthersForgive, IvSame
<1>7. ASSUME NEW t \in Threads, RemovesCounter(t) \/ RemovesPrefix(t) \/ RemovesIvs(t) PROVE IvInv'
  <2>1. /\ UNCHANGED <<accepted, repeated, forgiven>>
        /\ calls[t].op \in {"removeCounter", "removePrefix", "removeIvs"}
        /\ ivs' = ivs \/ ivs' = Without(ivs, calls[t].key)
    BY <1>7 DEF RemovesCounter, RemovesPrefix, RemovesIvs, At, history, ivHistory
  <2>2. Threadwise(t) /\ calls'[t].op \in Removals /\ calls'[t].key = calls[t].key
    BY <1>7, RemovalStep
  <2>3. calls[t].key \in AesKeys => calls[t].key \in forgiven
    BY <2>1 DEF IvInv
  <2>4. Forgiving(t)'
    BY <2>1, <2>2, <2>3 DEF Forgiving, Removals, Clearings
  <2>5. \A u \in Threads : Forgiving(u)'
    BY <2>1, <2>2, <2>4, OthersForgive
  <2>6. CASE ivs' = ivs
    BY <2>1, <2>5, <2>6, IvSame
  <2>7. CASE ivs' = Without(ivs, calls[t].key)
    <3>1. /\ DOMAIN ivs' = DOMAIN ivs \ {calls[t].key}
          /\ \A k \in DOMAIN ivs' : ivs'[k] = ivs[k]
      BY <2>7 DEF Without
    <3> QED
      BY <2>1, <2>3, <2>5, <3>1, IvKept
  <2> QED
    BY <2>1, <2>6, <2>7
<1>8. ASSUME NEW t \in Threads, InitToken(t) PROVE IvInv'
  <2>1. UNCHANGED <<ivs, accepted, repeated>> /\ forgiven' = AesKeys /\ forgiven \subseteq AesKeys
    BY <1>8 DEF InitToken, IvInv
  <2>2. Threadwise(t) /\ calls'[t].op = "clearCounters"
    BY <1>8, InitTokenStep
  <2>3. Forgiving(t)'
    BY <2>1, <2>2 DEF Forgiving
  <2> QED
    BY <2>1, <2>2, <2>3, OthersForgive, IvSame
<1>9. ASSUME NEW t \in Threads, NEW k \in AesKeys, ClearsCounter(t, k) \/ ClearsPrefix(t, k)
      PROVE  IvInv'
  <2>1. /\ UNCHANGED <<ivs, accepted, repeated, forgiven>> /\ calls[t].op \in Clearings
    BY <1>9 DEF ClearsCounter, ClearsPrefix, At, Clearings, history, ivHistory
  <2>2. Threadwise(t) /\ calls'[t].op \in Clearings \cup {"clearIvs"}
    BY <1>9, <2>1, ClearingStep DEF Clearings
  <2>3. AesKeys \subseteq forgiven'
    BY <2>1 DEF IvInv
  <2>4. Forgiving(t)'
    BY <2>2, <2>3 DEF Forgiving
  <2> QED
    BY <2>1, <2>2, <2>4, OthersForgive, IvSame
<1>10. ASSUME NEW t \in Threads, ClearsIvs(t) PROVE IvInv'
  <2>1. UNCHANGED <<accepted, repeated, forgiven>> /\ ivs' = <<>> /\ AesKeys \subseteq forgiven
    BY <1>10 DEF ClearsIvs, At, history, ivHistory, IvInv
  <2>2. Threadwise(t) /\ calls'[t].op = "idle"
    BY <1>10, EndingStep DEF Ending, Idle
  <2>3. Forgiving(t)'
    BY <2>2, NoneForgiving DEF Leaving, Removals, Clearings
  <2>4. \A u \in Threads : Forgiving(u)'
    BY <2>1, <2>2, <2>3, OthersForgive
  <2>5. DOMAIN ivs' = {}
    BY <2>1
  <2> QED
    BY <2>1, <2>4, <2>5, IvKept
<1>11. ASSUME NEW t \in Threads, NEW keep \in SUBSET Handles, Reinitialize(t, keep) PROVE IvInv'
  <2>1. /\ UNCHANGED <<accepted, repeated>> /\ ivs' = <<>> /\ forgiven' = AesKeys
        /\ forgiven \subseteq AesKeys /\ \A u \in Threads : calls'[u].op = "idle"
    BY <1>11 DEF Reinitialize, At, IvInv
  <2>2. \A u \in Threads : Forgiving(u)'
    BY <2>1 DEF Forgiving
  <2>3. DOMAIN ivs' = {}
    BY <2>1
  <2> QED
    BY <2>1, <2>2, <2>3, IvKept
<1> QED
  BY <1>1, <1>2, <1>3, <1>4, <1>5, <1>6, <1>7, <1>8, <1>9, <1>10, <1>11, IvTracked DEF Next

-----------------------------------------------------------------------------
(* The cache of parsed keys                                                *)

Fits(q) == q \in Seq(CacheEntry) /\ Len(q) <= RSA_KEY_CACHE_MAX /\ Unique(q)
SameKey(e, f) == e.slot = f.slot /\ e.handle = f.handle

LEMMA RemoveAtFits ==
  ASSUME NEW q, Fits(q), NEW i \in DOMAIN q
  PROVE  /\ Fits(RemoveAt(q, i)) /\ Len(RemoveAt(q, i)) < RSA_KEY_CACHE_MAX
         /\ \A j \in DOMAIN RemoveAt(q, i) : \E m \in DOMAIN q : m # i /\ RemoveAt(q, i)[j] = q[m]
<1> DEFINE r == RemoveAt(q, i)
           n == Len(q)
           front == SubSeq(q, 1, i - 1)
           back == SubSeq(q, i + 1, n)
<1>1. q \in Seq(CacheEntry) /\ n \in Nat /\ DOMAIN q = 1 .. n /\ i \in 1 .. n
  BY DEF Fits
<1>2. /\ front \in Seq(CacheEntry) /\ Len(front) = i - 1
      /\ \A j \in 1 .. i - 1 : front[j] = q[j]
  BY <1>1
<1>3. /\ back \in Seq(CacheEntry) /\ Len(back) = n - i
      /\ \A j \in 1 .. n - i : back[j] = q[j + i]
  BY <1>1
<1>4. r = front \o back
  BY DEF RemoveAt
<1> HIDE DEF front, back
<1>5. /\ front \o back \in Seq(CacheEntry) /\ Len(front \o back) = Len(front) + Len(back)
      /\ \A j \in 1 .. Len(front) : (front \o back)[j] = front[j]
      /\ \A j \in 1 .. Len(back) : (front \o back)[j + Len(front)] = back[j]
  <2>1. front \in Seq(CacheEntry) /\ back \in Seq(CacheEntry) /\ Len(front) \in Nat /\ Len(back) \in Nat
    BY <1>2, <1>3
  <2>2. /\ front \o back \in Seq(CacheEntry) /\ Len(front \o back) = Len(front) + Len(back)
        /\ \A j \in 1 .. Len(front) + Len(back) :
             (front \o back)[j] = IF j <= Len(front) THEN front[j] ELSE back[j - Len(front)]
    BY <2>1, ConcatProperties
  <2>3. \A j \in 1 .. Len(front) : j \in 1 .. Len(front) + Len(back) /\ j <= Len(front)
    BY <2>1
  <2>4. \A j \in 1 .. Len(back) : /\ j + Len(front) \in 1 .. Len(front) + Len(back)
                                 /\ ~(j + Len(front) <= Len(front)) /\ j + Len(front) - Len(front) = j
    BY <2>1
  <2> QED
    BY <2>2, <2>3, <2>4
<1>6. r \in Seq(CacheEntry) /\ Len(r) = n - 1 /\ DOMAIN r = 1 .. n - 1
  <2>1. r \in Seq(CacheEntry) /\ Len(r) = n - 1
    BY <1>1, <1>2, <1>3, <1>4, <1>5
  <2> QED
    BY <2>1
<1>7. ASSUME NEW j \in 1 .. n - 1
      PROVE  IF j < i THEN r[j] = q[j] ELSE r[j] = q[j + 1]
  <2>1. CASE j < i
    <3>1. j \in 1 .. Len(front) /\ j \in 1 .. i - 1
      BY <1>1, <1>2, <2>1
    <3> QED
      BY <1>2, <1>4, <1>5, <2>1, <3>1
  <2>2. CASE ~(j < i)
    <3>1. PICK m \in Int : m = j - (i - 1)
      BY <1>1
    <3>2. m \in 1 .. Len(back) /\ m \in 1 .. n - i /\ m + Len(front) = j /\ m + i = j + 1
      BY <1>1, <1>2, <1>3, <2>2, <3>1
    <3>3. (front \o back)[m + Len(front)] = back[m] /\ back[m] = q[m + i]
      BY <1>3, <1>5, <3>2
    <3> QED
      BY <1>4, <2>2, <3>2, <3>3
  <2> QED
    BY <2>1, <2>2
<1> HIDE DEF r, n
<1>8. Unique(r)
  <2> SUFFICES ASSUME NEW j \in 1 .. n - 1, NEW l \in 1 .. n - 1, SameKey(r[j], r[l]) PROVE j = l
    BY <1>6 DEF Unique, SameKey
  <2>1. PICK a \in 1 .. n : r[j] = q[a] /\ a = IF j < i THEN j ELSE j + 1
    BY <1>1, <1>7
  <2>2. PICK b \in 1 .. n : r[l] = q[b] /\ b = IF l < i THEN l ELSE l + 1
    BY <1>1, <1>7
  <2>3. a = b
    BY <1>1, <2>1, <2>2 DEF Fits, Unique, SameKey
  <2> QED
    BY <1>1, <2>1, <2>2, <2>3
<1>9. \A j \in DOMAIN r : \E m \in DOMAIN q : m # i /\ r[j] = q[m]
  <2> SUFFICES ASSUME NEW j \in 1 .. n - 1 PROVE \E m \in 1 .. n : m # i /\ r[j] = q[m]
    BY <1>1, <1>6
  <2>1. PICK a \in 1 .. n : r[j] = q[a] /\ a = IF j < i THEN j ELSE j + 1
    BY <1>1, <1>7
  <2>2. a # i
    BY <1>1, <2>1
  <2> QED
    BY <2>1, <2>2
<1>10. Len(r) < RSA_KEY_CACHE_MAX /\ Len(r) <= RSA_KEY_CACHE_MAX
  BY <1>1, <1>6, LimitsAssumption DEF Fits, n
<1> QED
  BY <1>6, <1>8, <1>9, <1>10 DEF Fits, r

LEMMA AppendFits ==
  ASSUME NEW q, Fits(q), Len(q) < RSA_KEY_CACHE_MAX, NEW e \in CacheEntry,
         \A j \in DOMAIN q : ~SameKey(q[j], e)
  PROVE  /\ Fits(Append(q, e))
         /\ \A j \in DOMAIN Append(q, e) : Append(q, e)[j] = e \/ \E m \in DOMAIN q : Append(q, e)[j] = q[m]
<1> DEFINE n == Len(q)
           a == Append(q, e)
<1>1. q \in Seq(CacheEntry) /\ n \in Nat /\ DOMAIN q = 1 .. n
  BY DEF Fits
<1>2. /\ a \in Seq(CacheEntry) /\ Len(a) = n + 1 /\ DOMAIN a = 1 .. n + 1
      /\ \A j \in 1 .. n : a[j] = q[j]
      /\ a[n + 1] = e
  BY <1>1
<1> HIDE DEF a, n
<1>3. ASSUME NEW j \in DOMAIN a PROVE (j = n + 1 /\ a[j] = e) \/ (j \in DOMAIN q /\ a[j] = q[j])
  BY <1>1, <1>2
<1>4. Unique(a)
  BY <1>2, <1>3 DEF Unique, Fits, SameKey
<1>5. Len(a) <= RSA_KEY_CACHE_MAX
  BY <1>1, <1>2, LimitsAssumption DEF n
<1> QED
  BY <1>2, <1>3, <1>4, <1>5 DEF Fits, a

LEMMA TailFits ==
  ASSUME NEW q, Fits(q), q # <<>>
  PROVE  /\ Fits(Tail(q)) /\ Len(Tail(q)) < RSA_KEY_CACHE_MAX
         /\ \A j \in DOMAIN Tail(q) : \E m \in DOMAIN q : Tail(q)[j] = q[m]
<1> DEFINE n == Len(q)
           r == Tail(q)
<1>1. q \in Seq(CacheEntry) /\ n \in Nat /\ n > 0 /\ DOMAIN q = 1 .. n
  BY DEF Fits
<1>2. /\ r \in Seq(CacheEntry) /\ Len(r) = n - 1 /\ DOMAIN r = 1 .. n - 1
      /\ \A j \in 1 .. n - 1 : r[j] = q[j + 1]
  BY <1>1
<1>3. \A j \in 1 .. n - 1 : j + 1 \in 1 .. n
  BY <1>1
<1>4. Len(r) < RSA_KEY_CACHE_MAX /\ Len(r) <= RSA_KEY_CACHE_MAX
  BY <1>1, <1>2, LimitsAssumption DEF Fits
<1> HIDE DEF r, n
<1>5. Unique(r)
  <2> SUFFICES ASSUME NEW j \in 1 .. n - 1, NEW l \in 1 .. n - 1, SameKey(r[j], r[l]) PROVE j = l
    BY <1>2 DEF Unique, SameKey
  <2>1. PICK a \in 1 .. n : a = j + 1 /\ r[j] = q[a]
    BY <1>2, <1>3
  <2>2. PICK b \in 1 .. n : b = l + 1 /\ r[l] = q[b]
    BY <1>2, <1>3
  <2>3. a = b
    BY <1>1, <2>1, <2>2 DEF Fits, Unique, SameKey
  <2> QED
    BY <1>1, <2>1, <2>2, <2>3
<1> QED
  BY <1>1, <1>2, <1>3, <1>4, <1>5 DEF Fits, r

LEMMA OverwriteFits ==
  ASSUME NEW q, Fits(q), NEW e \in CacheEntry, NEW M,
         M = {i \in DOMAIN q : SameKey(q[i], e)}, NEW r, r = [i \in DOMAIN q |-> IF i \in M THEN e ELSE q[i]]
  PROVE  /\ Fits(r)
         /\ \A j \in DOMAIN r : r[j] = e \/ \E m \in DOMAIN q : r[j] = q[m]
<1>1. q \in Seq(CacheEntry) /\ Len(q) \in Nat /\ DOMAIN q = 1 .. Len(q)
  BY DEF Fits
<1>2. r \in [1 .. Len(q) -> CacheEntry]
  BY <1>1
<1>3. r \in Seq(CacheEntry) /\ Len(r) = Len(q) /\ DOMAIN r = DOMAIN q
  BY <1>1, <1>2
<1>4. \A i \in DOMAIN q : r[i].slot = q[i].slot /\ r[i].handle = q[i].handle
  BY DEF SameKey
<1>5. Unique(r)
  BY <1>3, <1>4 DEF Unique, Fits
<1> QED
  BY <1>3, <1>5 DEF Fits

\* Of a destroyed object, its key is with a stray or with the call that evicts it.
StatesKept == \A h \in Handles : objects'[h].state = "destroyed" => objects[h].state = "destroyed"
LeaverStays(e) ==
  \A u \in Threads : calls[u].op \in Leaving /\ calls[u].handle = e.handle /\ calls[u].slot = e.slot =>
    calls'[u].op \in Leaving /\ calls'[u].handle = e.handle /\ calls'[u].slot = e.slot

LEMMA EntryKept ==
  ASSUME NEW e, EntrySound(e), KeysKept, StatesKept, stray \subseteq stray', LeaverStays(e)
  PROVE  EntrySound(e)'
  BY DEF EntrySound, KeysKept, StatesKept, LeaverStays

\* The cache is what it was, or what one step made of it.
LEMMA CacheFrom ==
  ASSUME Fits(cache)', \A i \in DOMAIN cache' : \A e : e = cache'[i] => EntrySound(e)',
         ~wrongKey',
         \A u \in Threads : calls'[u].op = "parse" =>
           (objects'[calls'[u].handle].state = "destroyed" => calls'[u].handle \in stray')
  PROVE  CacheInv'
<1>1. \A i \in DOMAIN cache' : EntrySound(cache[i])'
  BY DEF EntrySound
<1> QED
  BY <1>1 DEF CacheInv, Fits, At

\* Parsing calls of the others: what they parse is still there, or a stray.
LEMMA ParsesKept ==
  ASSUME KeyInv, KeysKept, StatesKept, stray \subseteq stray',
         NEW t \in Threads, Threadwise(t), calls'[t].op # "parse"
  PROVE  \A u \in Threads : calls'[u].op = "parse" =>
           (objects'[calls'[u].handle].state = "destroyed" => calls'[u].handle \in stray')
<1> SUFFICES ASSUME NEW u \in Threads, calls'[u].op = "parse",
                    objects'[calls'[u].handle].state = "destroyed"
             PROVE  calls'[u].handle \in stray'
  OBVIOUS
<1>1. calls'[u] = calls[u]
  BY DEF Threadwise
<1>2. calls[u].handle \in Handles
  BY <1>1 DEF KeyInv, CallsInv, CallSound
<1> QED
  BY <1>1, <1>2 DEF KeyInv, CacheInv, StatesKept, At

LEMMA NobodyLeaves ==
  ASSUME NEW t \in Threads, Threadwise(t),
         \/ calls[t].op \notin Leaving
         \/ calls'[t].op \in Leaving /\ calls'[t].handle = calls[t].handle /\ calls'[t].slot = calls[t].slot
  PROVE  \A e : LeaverStays(e)
<1> SUFFICES ASSUME NEW e, NEW u \in Threads, calls[u].op \in Leaving,
                    calls[u].handle = e.handle, calls[u].slot = e.slot
             PROVE  calls'[u].op \in Leaving /\ calls'[u].handle = e.handle /\ calls'[u].slot = e.slot
  BY DEF LeaverStays
<1>1. CASE u = t
  BY <1>1
<1>2. CASE u # t
  <2>1. calls'[u] = calls[u]
    BY <1>2 DEF Threadwise
  <2> QED
    BY <2>1
<1> QED
  BY <1>1, <1>2

\* Steps that leave the cache, the states of the objects and who is to evict.
LEMMA CacheSame ==
  ASSUME KeyInv, UNCHANGED <<cache, wrongKey>>, stray \subseteq stray', KeysKept, StatesKept,
         \A e : LeaverStays(e),
         \A u \in Threads : calls'[u].op = "parse" =>
           (objects'[calls'[u].handle].state = "destroyed" => calls'[u].handle \in stray')
  PROVE  CacheInv'
<1>1. Fits(cache)'
  BY DEF KeyInv, CacheInv, Fits, Unique
<1>2. ASSUME NEW i \in DOMAIN cache', NEW e, e = cache'[i] PROVE EntrySound(e)'
  <2>1. EntrySound(e)
    BY <1>2 DEF KeyInv, CacheInv
  <2> QED
    BY <2>1, EntryKept
<1>3. ~wrongKey'
  BY DEF KeyInv, CacheInv
<1> QED
  BY <1>1, <1>2, <1>3, CacheFrom

LEMMA SameObjects ==
  ASSUME UNCHANGED objects
  PROVE  KeysKept /\ StatesKept
  BY DEF KeysKept, StatesKept, Handles

\* A hit: the entry has the key of the object, and goes to the back.
LEMMA CacheHit ==
  ASSUME KeyInv, NEW t \in Threads, NEW s \in Slots, NEW h \in Handles, SignHits(t, s, h)
  PROVE  CacheInv'
<1> USE DEF KeyInv
<1>1. /\ UNCHANGED <<objects, calls, stray>>
      /\ \E i \in Cached(s, h) : cache' = Promoted(i) /\ wrongKey' = (wrongKey \/ cache[i].key # objects[h].key)
  BY DEF SignHits
<1>2. PICK i \in Cached(s, h) : cache' = Promoted(i) /\ wrongKey' = (wrongKey \/ cache[i].key # objects[h].key)
  BY <1>1
<1>3. i \in DOMAIN cache /\ cache[i].handle = h /\ Fits(cache) /\ EntrySound(cache[i])
  BY DEF Cached, CacheInv, Fits
<1>4. ~wrongKey'
  BY <1>2, <1>3 DEF EntrySound, CacheInv
<1> DEFINE r == RemoveAt(cache, i)
           e == cache[i]
<1>5. /\ Fits(r) /\ Len(r) < RSA_KEY_CACHE_MAX
      /\ \A j \in DOMAIN r : \E m \in DOMAIN cache : m # i /\ r[j] = cache[m]
  BY <1>3, RemoveAtFits
<1>6. e \in CacheEntry /\ cache' = Append(r, e)
  BY <1>2, <1>3 DEF Fits, Promoted
<1>7. \A j \in DOMAIN r : ~SameKey(r[j], e)
  BY <1>3, <1>5 DEF SameKey, Fits, Unique
<1> HIDE DEF r, e
<1>8. /\ Fits(Append(r, e))
      /\ \A j \in DOMAIN Append(r, e) : Append(r, e)[j] = e \/ \E m \in DOMAIN r : Append(r, e)[j] = r[m]
  BY <1>5, <1>6, <1>7, AppendFits
<1>9. Fits(cache)'
  BY <1>6, <1>8 DEF Fits, Unique
<1>10. ASSUME NEW j \in DOMAIN cache', NEW f, f = cache'[j] PROVE EntrySound(f)'
  <2>1. f = e \/ \E m \in DOMAIN r : f = r[m]
    BY <1>6, <1>8, <1>10
  <2>2. \E m \in DOMAIN cache : f = cache[m]
    BY <1>3, <1>5, <2>1 DEF e
  <2>3. EntrySound(f)
    BY <2>2 DEF CacheInv
  <2>4. LeaverStays(f)
    BY <1>1 DEF LeaverStays
  <2> QED
    BY <1>1, <2>3, <2>4, EntryKept, SameObjects
<1>11. \A u \in Threads : calls'[u].op = "parse" =>
         (objects'[calls'[u].handle].state = "destroyed" => calls'[u].handle \in stray')
  BY <1>1 DEF CacheInv, At
<1> QED
  BY <1>4, <1>9, <1>10, <1>11, CacheFrom

\* A parsed key is cached: of an object that is there, or of a stray.
LEMMA CacheInsert ==
  ASSUME KeyInv, NEW t \in Threads, SignCaches(t)
  PROVE  CacheInv'
<1> USE DEF KeyInv
<1> DEFINE e == [slot |-> calls[t].slot, handle |-> calls[t].handle, key |-> calls[t].key]
<1>1. calls[t].op = "parse" /\ cache' = LruInsert(e) /\ UNCHANGED <<objects, stray, wrongKey>>
  BY DEF SignCaches, At, history
<1>2. Threadwise(t) /\ calls'[t].op = "idle"
  BY EndingStep DEF Ending, Idle
<1>3. /\ e.slot \in Slots /\ e.handle \in Handles /\ e.key \in RsaKeys
      /\ e.key = objects[e.handle].key
      /\ objects[e.handle].state = "destroyed" => e.handle \in stray
  BY <1>1 DEF CallsInv, CallSound, CacheInv, At
<1>4. e \in CacheEntry /\ EntrySound(e)
  <2>1. e.handle \in 1 .. MaxHandles
    BY <1>3, HandleFacts
  <2>2. e \in CacheEntry
    BY <1>3, <2>1 DEF CacheEntry
  <2> QED
    BY <1>3, <2>2 DEF EntrySound
<1>5. Fits(cache) /\ \A j \in DOMAIN cache : EntrySound(cache[j])
  BY DEF CacheInv, Fits
<1> HIDE DEF e
<1>6. Cached(e.slot, e.handle) = {j \in DOMAIN cache : SameKey(cache[j], e)}
  BY DEF Cached, SameKey
<1>7. /\ Fits(LruInsert(e))
      /\ \A j \in DOMAIN LruInsert(e) : LruInsert(e)[j] = e \/ \E m \in DOMAIN cache : LruInsert(e)[j] = cache[m]
  <2>1. CASE Cached(e.slot, e.handle) # {}
    <3> DEFINE r == [i \in DOMAIN cache |-> IF i \in Cached(e.slot, e.handle) THEN e ELSE cache[i]]
    <3>1. LruInsert(e) = r
      BY <2>1 DEF LruInsert
    <3>2. /\ Fits(r)
          /\ \A j \in DOMAIN r : r[j] = e \/ \E m \in DOMAIN cache : r[j] = cache[m]
      BY <1>4, <1>5, <1>6, OverwriteFits
    <3> QED
      BY <3>1, <3>2
  <2>2. CASE Cached(e.slot, e.handle) = {}
    <3> DEFINE q == IF Len(cache) >= RSA_KEY_CACHE_MAX THEN Tail(cache) ELSE cache
    <3>1. LruInsert(e) = Append(q, e)
      BY <2>2 DEF LruInsert
    <3>2. \A j \in DOMAIN cache : ~SameKey(cache[j], e)
      BY <1>6, <2>2
    <3>3. /\ Fits(q) /\ Len(q) < RSA_KEY_CACHE_MAX
          /\ \A j \in DOMAIN q : \E m \in DOMAIN cache : q[j] = cache[m]
      <4>1. CASE Len(cache) >= RSA_KEY_CACHE_MAX
        <5>1. cache # <<>>
          <6>1. Len(<<>>) = 0
            OBVIOUS
          <6>2. cache = <<>> => Len(cache) = Len(<<>>)
            OBVIOUS
          <6> QED
            BY <4>1, <6>1, <6>2, LimitsAssumption
        <5>2. q = Tail(cache)
          BY <4>1
        <5> QED
          BY <1>5, <5>1, <5>2, TailFits
      <4>2. CASE ~(Len(cache) >= RSA_KEY_CACHE_MAX)
        <5>1. q = cache
          BY <4>2
        <5>2. Len(cache) < RSA_KEY_CACHE_MAX
          BY <1>5, <4>2, LimitsAssumption DEF Fits
        <5> QED
          BY <1>5, <5>1, <5>2
      <4> QED
        BY <4>1, <4>2
    <3> HIDE DEF q
    <3>4. \A j \in DOMAIN q : ~SameKey(q[j], e)
      BY <3>2, <3>3
    <3>5. /\ Fits(Append(q, e))
          /\ \A j \in DOMAIN Append(q, e) : Append(q, e)[j] = e \/ \E m \in DOMAIN q : Append(q, e)[j] = q[m]
      BY <1>4, <3>3, <3>4, AppendFits
    <3> QED
      BY <3>1, <3>3, <3>5
  <2> QED
    BY <2>1, <2>2
<1>8. Fits(cache)'
  BY <1>1, <1>7 DEF Fits, Unique
<1>9. ASSUME NEW j \in DOMAIN cache', NEW f, f = cache'[j] PROVE EntrySound(f)'
  <2>1. f = e \/ \E m \in DOMAIN cache : f = cache[m]
    BY <1>1, <1>7, <1>9
  <2>2. EntrySound(f)
    BY <1>4, <1>5, <2>1
  <2>3. LeaverStays(f)
    BY <1>1, <1>2, NobodyLeaves DEF Leaving, Removals
  <2> QED
    BY <1>1, <2>2, <2>3, EntryKept, SameObjects
<1>10. \A u \in Threads : calls'[u].op = "parse" =>
         (objects'[calls'[u].handle].state = "destroyed" => calls'[u].handle \in stray')
  BY <1>1, <1>2, ParsesKept, SameObjects
<1>11. ~wrongKey'
  BY <1>1 DEF CacheInv
<1> QED
  BY <1>8, <1>9, <1>10, <1>11, CacheFrom

\* The destruction ends: the one entry of its slot and handle is gone.
LEMMA CacheEvict ==
  ASSUME KeyInv, NEW t \in Threads, DestroyEvicts(t)
  PROVE  CacheInv'
<1> USE DEF KeyInv
<1>1. /\ calls[t].op = "evict" /\ cache' = evict_cached_keys(calls[t].slot, calls[t].handle)
      /\ UNCHANGED <<objects, stray, wrongKey>>
  BY DEF DestroyEvicts, At, history
<1>2. Threadwise(t) /\ calls'[t].op = "idle"
  BY EndingStep DEF Ending, Idle
<1>3. Fits(cache) /\ \A j \in DOMAIN cache : EntrySound(cache[j])
  BY DEF CacheInv, Fits
<1> DEFINE M == Cached(calls[t].slot, calls[t].handle)
<1>4. /\ Fits(cache)'
      /\ \A j \in DOMAIN cache' : \E m \in DOMAIN cache : m \notin M /\ cache'[j] = cache[m]
  <2>1. CASE M = {}
    <3>1. cache' = cache
      BY <1>1, <2>1 DEF evict_cached_keys
    <3> QED
      BY <1>3, <2>1, <3>1 DEF Fits, Unique
  <2>2. CASE M # {}
    <3>1. PICK i : i \in M /\ cache' = RemoveAt(cache, i)
      BY <1>1, <2>2 DEF evict_cached_keys
    <3>2. i \in DOMAIN cache /\ \A m \in DOMAIN cache : m # i => m \notin M
      BY <1>3, <3>1 DEF Cached, Fits, Unique
    <3> HIDE DEF M
    <3> DEFINE r == RemoveAt(cache, i)
    <3>3. Fits(r) /\ \A j \in DOMAIN r : \E m \in DOMAIN cache : m # i /\ r[j] = cache[m]
      BY <1>3, <3>2, RemoveAtFits
    <3>4. cache' = r
      BY <3>1
    <3> HIDE DEF r
    <3>5. Fits(cache)'
      BY <3>3, <3>4 DEF Fits, Unique
    <3> QED
      BY <3>2, <3>3, <3>4, <3>5
  <2> QED
    BY <2>1, <2>2
<1>5. ASSUME NEW j \in DOMAIN cache', NEW f, f = cache'[j] PROVE EntrySound(f)'
  <2>1. EntrySound(f) /\ ~(f.slot = calls[t].slot /\ f.handle = calls[t].handle)
    BY <1>3, <1>4, <1>5 DEF Cached
  <2>2. LeaverStays(f)
    BY <1>2, <2>1 DEF LeaverStays, Threadwise
  <2> QED
    BY <1>1, <2>1, <2>2, EntryKept, SameObjects
<1>6. \A u \in Threads : calls'[u].op = "parse" =>
        (objects'[calls'[u].handle].state = "destroyed" => calls'[u].handle \in stray')
  BY <1>1, <1>2, ParsesKept, SameObjects
<1>7. ~wrongKey'
  BY <1>1 DEF CacheInv
<1> QED
  BY <1>4, <1>5, <1>6, <1>7, CacheFrom

\* An object is removed.  Its entry is of the slot that is to evict it, or the
\* handle is a stray; so is one that some call is parsing.
LEMMA CacheDestroy ==
  ASSUME KeyInv, NEW t \in Threads, DestroyRemoves(t)
  PROVE  CacheInv'
<1> USE DEF KeyInv
<1>1. calls[t].op = "remove" /\ UNCHANGED <<cache, wrongKey>>
  BY DEF DestroyRemoves, At
<1>2. PICK h : h = calls[t].handle
  OBVIOUS
<1>3. KeysKept /\ Threadwise(t) /\ Handles' = Handles
  BY DestroyStep
<1>4. CASE ~Live(h)
  <2>1. UNCHANGED <<objects, stray>> /\ Returns(t)
    BY <1>2, <1>4 DEF DestroyRemoves
  <2>2. calls'[t].op = "idle"
    BY <2>1, GoesFacts DEF Returns, Idle
  <2>3. \A e : LeaverStays(e)
    BY <1>1, <1>3, NobodyLeaves DEF Leaving
  <2>4. \A u \in Threads : calls'[u].op = "parse" =>
          (objects'[calls'[u].handle].state = "destroyed" => calls'[u].handle \in stray')
    BY <1>3, <2>1, <2>2, ParsesKept, SameObjects
  <2> QED
    BY <1>1, <2>1, <2>3, <2>4, CacheSame, SameObjects
<1>5. CASE Live(h)
  <2>1. /\ Goes(t, [calls[t] EXCEPT !.op = "removeCounter"])
        /\ objects' = [objects EXCEPT ![h].state = "destroyed"]
        /\ stray' = IF \/ \E u \in Threads : At(u, "parse") /\ calls[u].handle = h
                       \/ \E i \in DOMAIN cache : cache[i].handle = h /\ cache[i].slot # calls[t].slot
                    THEN stray \cup {h} ELSE stray
    BY <1>2, <1>5 DEF DestroyRemoves
  <2>2. calls'[t].op = "removeCounter" /\ calls'[t].slot = calls[t].slot /\ calls'[t].handle = h
    <3>1. "removeCounter" \in Removals /\ "remove" \in Removals
      BY DEF Removals
    <3> QED
      BY <1>1, <1>2, <2>1, <3>1, RemovalGoes
  <2>3. \A g \in Handles \ {h} : objects'[g] = objects[g]
    BY <1>5, <2>1, ObjectDestroyed DEF Live
  <2>4. ASSUME NEW i \in DOMAIN cache', NEW e, e = cache'[i] PROVE EntrySound(e)'
    <3>1. EntrySound(e) /\ e = cache[i] /\ i \in DOMAIN cache
      BY <1>1, <2>4 DEF CacheInv
    <3>2. e.handle \in Handles' /\ e.key = objects'[e.handle].key
      BY <1>3, <3>1 DEF EntrySound, KeysKept
    <3>3. CASE e.handle = h
      <4>1. e.handle \in stray' \/ e.slot = calls[t].slot
        BY <2>1, <3>1, <3>3
      <4>2. "removeCounter" \in Leaving
        BY DEF Leaving, Removals
      <4> QED
        BY <2>2, <3>2, <3>3, <4>1, <4>2 DEF EntrySound
    <3>4. CASE e.handle # h
      <4>1. objects'[e.handle] = objects[e.handle]
        BY <2>3, <3>1, <3>4 DEF EntrySound
      <4>2. stray \subseteq stray'
        BY <2>1
      <4>3. LeaverStays(e)
        BY <1>1, <1>3, NobodyLeaves DEF Leaving
      <4> QED
        BY <3>1, <3>2, <4>1, <4>2, <4>3 DEF EntrySound, LeaverStays
    <3> QED
      BY <3>3, <3>4
  <2>5. ASSUME NEW u \in Threads, calls'[u].op = "parse", objects'[calls'[u].handle].state = "destroyed"
        PROVE  calls'[u].handle \in stray'
    <3>1. calls'[u] = calls[u]
      BY <1>3, <2>2, <2>5 DEF Threadwise
    <3>2. calls[u].handle \in Handles
      BY <2>5, <3>1 DEF CallsInv, CallSound
    <3>3. CASE calls[u].handle = h
      BY <2>1, <2>5, <3>1, <3>3 DEF At
    <3>4. CASE calls[u].handle # h
      BY <2>1, <2>3, <2>5, <3>1, <3>2, <3>4 DEF CacheInv, At
    <3> QED
      BY <3>3, <3>4
  <2>6. Fits(cache)' /\ ~wrongKey'
    BY <1>1 DEF CacheInv, Fits, Unique
  <2> QED
    BY <2>4, <2>5, <2>6, CacheFrom
<1> QED
  BY <1>4, <1>5

\* Steps of one thread that leave the cache and who is to evict from it.
LEMMA CacheQuiet ==
  ASSUME KeyInv, NEW t \in Threads, Threadwise(t), UNCHANGED <<cache, stray, wrongKey>>,
         KeysKept, StatesKept, calls'[t].op # "parse",
         \/ calls[t].op \notin Leaving
         \/ calls'[t].op \in Leaving /\ calls'[t].handle = calls[t].handle /\ calls'[t].slot = calls[t].slot
  PROVE  CacheInv'
<1>1. \A e : LeaverStays(e)
  BY NobodyLeaves
<1>2. \A u \in Threads : calls'[u].op = "parse" =>
        (objects'[calls'[u].handle].state = "destroyed" => calls'[u].handle \in stray')
  BY ParsesKept
<1> QED
  BY <1>1, <1>2, CacheSame

\* A call begins to parse a key of an object that is there.
LEMMA ParseBegins ==
  ASSUME KeyInv, NEW t \in Threads, NEW s \in Slots, NEW h \in Handles, SignMisses(t, s, h)
  PROVE  CacheInv'
<1> USE DEF KeyInv
<1>1. /\ UNCHANGED <<objects, cache, stray, wrongKey>> /\ calls[t].op = "idle" /\ objects[h].state = "live"
      /\ Goes(t, [op |-> "parse", slot |-> s, handle |-> h, key |-> objects[h].key])
  BY DEF SignMisses, sign_single_shot, At, Live, history
<1>2. Threadwise(t) /\ calls'[t].handle = h
  BY <1>1, GoesFacts DEF Threadwise
<1>3. \A e : LeaverStays(e)
  BY <1>1, <1>2, NobodyLeaves DEF Leaving, Removals
<1>4. ASSUME NEW u \in Threads, calls'[u].op = "parse", objects'[calls'[u].handle].state = "destroyed"
      PROVE  calls'[u].handle \in stray'
  <2>1. u # t
    BY <1>1, <1>2, <1>4
  <2>2. calls'[u] = calls[u]
    BY <1>2, <2>1 DEF Threadwise
  <2> QED
    BY <1>1, <1>4, <2>2 DEF CacheInv, At
<1> QED
  BY <1>1, <1>3, <1>4, CacheSame, SameObjects

\* Steps that leave the calls too: an object is made, or the library restarts.
LEMMA CacheIdle ==
  ASSUME KeyInv, UNCHANGED <<cache, calls, stray, wrongKey>>, KeysKept, StatesKept
  PROVE  CacheInv'
<1>1. \A e : LeaverStays(e)
  BY DEF LeaverStays
<1>2. ASSUME NEW u \in Threads, calls'[u].op = "parse", objects'[calls'[u].handle].state = "destroyed"
      PROVE  calls'[u].handle \in stray'
  <2>1. calls[u].handle \in Handles
    BY <1>2 DEF KeyInv, CallsInv, CallSound
  <2> QED
    BY <1>2, <2>1 DEF KeyInv, CacheInv, StatesKept, At
<1> QED
  BY <1>1, <1>2, CacheSame

LEMMA CacheNext ==
  ASSUME KeyInv, Next
  PROVE  CacheInv'
<1> USE DEF KeyInv
<1>1. ASSUME NEW t \in Threads, NEW k \in Keys, Makes(t, k) PROVE CacheInv'
  <2>1. UNCHANGED <<cache, calls, stray, wrongKey>>
    BY <1>1 DEF Makes, history
  <2>2. KeysKept /\ StatesKept
    BY <1>1, ObjectMade DEF StatesKept
  <2> QED
    BY <2>1, <2>2, CacheIdle
<1>2. ASSUME NEW t \in Threads, NEW h \in Handles,
             \/ EncryptGcm(t, h)
             \/ \E iv \in IVs : EncryptCbc(t, h, iv) \/ EncryptCtr(t, h, iv)
             \/ \E s \in Slots : DestroyReads(t, s, h)
      PROVE  CacheInv'
  <2>1. UNCHANGED <<objects, cache, stray, wrongKey>> /\ calls[t].op = "idle"
    BY <1>2 DEF EncryptGcm, EncryptCbc, EncryptCtr, DestroyReads, At, history
  <2>2. Threadwise(t)
    BY <1>2, CallBegins
  <2>3. calls'[t].op # "parse"
    <3>1. PICK c : Goes(t, c) /\ c.op # "parse"
      <4>1. CASE EncryptGcm(t, h)
        BY <4>1 DEF EncryptGcm
      <4>2. ASSUME NEW iv \in IVs, EncryptCbc(t, h, iv) \/ EncryptCtr(t, h, iv)
            PROVE  \E c : Goes(t, c) /\ c.op # "parse"
        <5>1. Goes(t, [op |-> "track", key |-> objects[h].key, iv |-> iv])
          BY <4>2 DEF EncryptCbc, EncryptCtr
        <5> QED
          BY <5>1
      <4>3. ASSUME NEW s \in Slots, DestroyReads(t, s, h)
            PROVE  \E c : Goes(t, c) /\ c.op # "parse"
        BY <4>3 DEF DestroyReads
      <4> QED
        BY <1>2, <4>1, <4>2, <4>3
    <3> QED
      BY <3>1, GoesFacts
  <2> QED
    BY <2>1, <2>2, <2>3, CacheQuiet, SameObjects DEF Leaving, Removals
<1>3. ASSUME NEW t \in Threads, GcmRefused(t) \/ GcmEncrypts(t) \/ GcmDrbgFails(t) \/ IvTracks(t)
                                \/ ClearsIvs(t)
      PROVE  CacheInv'
  <2>1. /\ UNCHANGED <<cache, stray, wrongKey>>
        /\ calls[t].op \in {"count", "nonce", "track", "clearIvs"}
    BY <1>3 DEF GcmRefused, GcmEncrypts, GcmDrbgFails, IvTracks, ClearsIvs, At, history
  <2>2. Threadwise(t) /\ calls'[t].op = "idle" /\ UNCHANGED objects
    BY <1>3, EndingStep DEF Ending, Idle
  <2> QED
    BY <2>1, <2>2, CacheQuiet, SameObjects DEF Leaving, Removals
<1>4. ASSUME NEW t \in Threads, GcmCounts(t) PROVE CacheInv'
  <2>1. UNCHANGED <<objects, cache, stray, wrongKey>> /\ calls[t].op = "count"
    BY <1>4 DEF GcmCounts, At
  <2>2. Threadwise(t) /\ calls'[t].op = "nonce"
    BY <1>4, CountStep
  <2> QED
    BY <2>1, <2>2, CacheQuiet, SameObjects DEF Leaving, Removals
<1>5. ASSUME NEW t \in Threads, RemovesCounter(t) \/ RemovesPrefix(t) \/ RemovesIvs(t) PROVE CacheInv'
  <2>1. UNCHANGED <<objects, cache, stray, wrongKey>> /\ calls[t].op \in Removals
    BY <1>5 DEF RemovesCounter, RemovesPrefix, RemovesIvs, At, history, Removals
  <2>2. PICK o \in Leaving : Goes(t, [calls[t] EXCEPT !.op = o])
    BY <1>5 DEF RemovesCounter, RemovesPrefix, RemovesIvs, Leaving, Removals
  <2>3. o \in Removals /\ o # "parse"
    BY DEF Leaving, Removals
  <2>4. /\ Threadwise(t) /\ calls'[t].op = o
        /\ calls'[t].slot = calls[t].slot /\ calls'[t].handle = calls[t].handle
    BY <2>1, <2>2, <2>3, RemovalGoes
  <2> QED
    BY <2>1, <2>3, <2>4, CacheQuiet, SameObjects
<1>6. ASSUME NEW t \in Threads, NEW k \in AesKeys, ClearsCounter(t, k) \/ ClearsPrefix(t, k)
      PROVE  CacheInv'
  <2>1. UNCHANGED <<objects, cache, stray, wrongKey>> /\ calls[t].op \in Clearings
    BY <1>6 DEF ClearsCounter, ClearsPrefix, At, Clearings, history
  <2>2. Threadwise(t) /\ calls'[t].op \in Clearings \cup {"clearIvs"}
    BY <1>6, <2>1, ClearingStep DEF Clearings
  <2> QED
    BY <2>1, <2>2, CacheQuiet, SameObjects DEF Leaving, Removals, Clearings
<1>7. ASSUME NEW t \in Threads, InitToken(t) PROVE CacheInv'
  <2>1. UNCHANGED <<cache, stray, wrongKey>> /\ calls[t].op = "idle"
    BY <1>7 DEF InitToken, At
  <2>2. Threadwise(t) /\ calls'[t].op = "clearCounters" /\ KeysKept /\ StatesKept
    BY <1>7, InitTokenStep DEF StatesKept
  <2> QED
    BY <2>1, <2>2, CacheQuiet DEF Leaving, Removals
<1>8. ASSUME NEW t \in Threads, NEW keep \in SUBSET Handles, Reinitialize(t, keep) PROVE CacheInv'
  <2>1. UNCHANGED <<cache, calls, stray, wrongKey>>
    BY <1>8 DEF Reinitialize
  <2>2. KeysKept /\ StatesKept
    BY <1>8, ReinitializeStep DEF StatesKept
  <2> QED
    BY <2>1, <2>2, CacheIdle
<1> QED
  BY <1>1, <1>2, <1>3, <1>4, <1>5, <1>6, <1>7, <1>8,
     CacheHit, ParseBegins, CacheInsert, CacheDestroy, CacheEvict DEF Next

-----------------------------------------------------------------------------
(* The theorems                                                            *)

LEMMA InitInv == Init => KeyInv
<1> SUFFICES ASSUME Init PROVE KeyInv
  OBVIOUS
<1> USE DEF Init
<1>1. \A t \in Threads : calls[t].op = "idle"
  BY DEF Idle
<1>2. ObjectsInv
  BY LimitsAssumption DEF ObjectsInv
<1>3. CallsInv
  BY <1>1 DEF CallsInv, CallSound, Removals, Clearings
<1>4. DOMAIN counters = {} /\ DOMAIN prefixes = {} /\ DOMAIN ivs = {} /\ DOMAIN cache = {}
  OBVIOUS
<1>5. NonceInv
  BY <1>1, <1>4 DEF NonceInv, CounterHeld, At
<1>6. IvInv
  BY <1>1, <1>4 DEF IvInv, Clearings
<1>7. CacheInv
  BY <1>1, <1>4, LimitsAssumption DEF CacheInv, Unique, At
<1> QED
  BY <1>2, <1>3, <1>5, <1>6, <1>7 DEF KeyInv

LEMMA StutterInv ==
  ASSUME KeyInv, UNCHANGED vars
  PROVE  KeyInv'
<1> USE DEF KeyInv
<1>1. UNCHANGED <<objects, counters, prefixes, ivs, cache, calls, drawn, nonces, reused, crossed,
                  accepted, repeated, forgiven, stray, wrongKey>>
  BY DEF vars
<1>2. ObjectsInv' /\ KeysKept /\ StatesKept
  BY <1>1, ObjectsSame, SameObjects
<1>3. CallsInv'
  BY <1>1, <1>2, SameCalls
<1>4. NonceInv'
  BY <1>1, NonceSame DEF HoldersSame, HalfRemoved, At
<1>5. IvInv'
  BY <1>1 DEF IvInv, IvsOf
<1>6. CacheInv'
  BY <1>1, <1>2, CacheIdle
<1> QED
  BY <1>2, <1>3, <1>4, <1>5, <1>6

\* Every call of several threads that encrypts, signs, destroys or clears keeps
\* the tables of src/crypto/encrypt.rs and the cache of src/crypto/sign.rs such
\* that a key's counter is ahead of the nonces made with its present prefix, the
\* tracker knows every IV of a key it has not been made to forget, and a cached
\* key of a destroyed object is a stray or about to be evicted.
THEOREM KeyInvariant == Spec => []KeyInv
<1>1. KeyInv /\ [Next]_vars => KeyInv'
  <2>1. ASSUME KeyInv, Next PROVE KeyInv'
    BY <2>1, CallsNext, NonceNext, IvNext, CacheNext DEF KeyInv
  <2> QED
    BY <2>1, StutterInv
<1> QED
  BY <1>1, InitInv, PTL DEF Spec

\* For any threads, keys and limits, no key is used twice with a GCM nonce of its
\* own, but for one counted for while remove_gcm_counter or
\* force_reset_all_counters was between its two tables; and check_iv_reuse never
\* lets a key meet an IV again that no removal has made it forget.
THEOREM NoKeyReuse == Spec => []NoReuse
<1>1. KeyInv => NoReuse
  BY DEF KeyInv, NonceInv, IvInv, NoReuse, NonceUnique, IvUnique
<1> QED
  BY <1>1, KeyInvariant, PTL

\* For any threads, slots and cache size, get_or_parse_private_key gives a call
\* the key of its own object, the cache holds one entry per slot and handle and
\* no more than its maximum, and once C_DestroyObject has returned no parsed key
\* of the object is left but where CacheSound says so.
THEOREM CacheRight == Spec => []CacheSound
<1>1. ASSUME KeyInv PROVE TypeOK
  <2>1. \A h \in Handles : objects[h].key \in Keys /\ objects[h].state \in {"live", "destroyed", "cleared"}
    BY <1>1, HandleFacts DEF KeyInv, Object
  <2> QED
    BY <1>1, <2>1 DEF KeyInv, NonceInv, IvInv, CacheInv, Unique, TypeOK
<1>2. ASSUME KeyInv PROVE SignsOwnKey
  BY <1>2 DEF KeyInv, CacheInv, SignsOwnKey
<1>3. ASSUME KeyInv, NEW i \in DOMAIN cache, objects[cache[i].handle].state = "destroyed"
      PROVE  \/ cache[i].handle \in stray
             \/ \E t \in Threads : "handle" \in DOMAIN calls[t] /\ calls[t].handle = cache[i].handle
  <2>1. CASE cache[i].handle \notin stray
    <3>1. PICK t \in Threads : calls[t].op \in Leaving /\ calls[t].handle = cache[i].handle
      BY <1>3, <2>1 DEF KeyInv, CacheInv, EntrySound
    <3>2. calls[t] \in RemovalCall
      BY <1>3, <3>1 DEF KeyInv, CallsInv, CallSound, Leaving
    <3>3. "handle" \in DOMAIN calls[t]
      BY <3>2 DEF RemovalCall
    <3> QED
      BY <3>1, <3>3
  <2> QED
    BY <2>1
<1>4. KeyInv => CacheSound
  BY <1>1, <1>2, <1>3 DEF CacheSound, DestroyedNotCached
<1> QED
  BY <1>4, KeyInvariant, PTL
=============================================================================

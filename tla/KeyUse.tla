------------------------------- MODULE KeyUse -------------------------------
(***************************************************************************)
(* The process-wide tables that remember how a key has been used, and the  *)
(* calls of several threads that read and clear them:                      *)
(*   GCM_ENCRYPT_COUNTERS, GCM_NONCE_PREFIXES and CBC_CTR_IV_TRACKER of    *)
(*   src/crypto/encrypt.rs, keyed by a hash of the key material, and       *)
(*   RSA_PRIV_CACHE of src/crypto/sign.rs, keyed by slot and handle.       *)
(* They are statics: they outlive C_Finalize, and two objects with the     *)
(* same material (C_CopyObject, an import) share one counter.  The public  *)
(* key cache is the same code over another key type.                       *)
(*                                                                         *)
(* A GCM nonce is a prefix, drawn once per key, and a counter.  A prefix   *)
(* is a number that is new for its key: that two random prefixes of four   *)
(* bytes collide is left out.  So is a collision of two 64-bit handles.    *)
(***************************************************************************)
EXTENDS Integers, Sequences, FiniteSets, SequencesExt

CONSTANTS
  Threads,                \* the threads that call the library
  Slots,                  \* the slots their sessions are open on
  AesKeys, RsaKeys,       \* key material
  IVs, ZeroIV,            \* the IVs callers pass with CBC and CTR
  GCM_MAX,                \* GCM_MAX_RANDOM_NONCE_ENCRYPTIONS
  MAX_TRACKED_KEYS,       \* of the IV tracker
  MAX_TRACKED_IVS,        \* MAX_TRACKED_IVS_PER_KEY
  RSA_KEY_CACHE_MAX,
  MaxHandles,             \* bound: the objects ever made
  MaxPrefixes             \* bound: the prefixes drawn for one key

ASSUME LimitsAssumption ==
  /\ {GCM_MAX, MAX_TRACKED_KEYS, MAX_TRACKED_IVS, RSA_KEY_CACHE_MAX} \subseteq Nat \ {0}
  /\ {MaxHandles, MaxPrefixes} \subseteq Nat
  /\ AesKeys \cap RsaKeys = {}

VARIABLES
  objects,    \* [handle -> key and what became of it]
  counters,   \* GCM_ENCRYPT_COUNTERS: [key -> count], a partial function
  prefixes,   \* GCM_NONCE_PREFIXES: [key -> prefix], a partial function
  ivs,        \* CBC_CTR_IV_TRACKER: [key -> set of IVs], a partial function
  cache,      \* RSA_PRIV_CACHE: entries, the least recently used first
  calls,      \* what each thread is doing
  drawn,      \* history: the number of prefixes drawn for each key
  nonces,     \* history: the nonces encrypted with
  reused,     \* history: the keys that met one of their nonces twice
  crossed,    \* history: the keys counted for while a removal was half done
  accepted,   \* history: the IVs each key was used with
  repeated,   \* history: the keys that were used with one IV twice
  forgiven,   \* history: the keys some removal has made the tracker forget
  stray,      \* history: handles destroyed while a call was parsing their key,
              \* or destroyed through a session of another slot than a user's
  wrongKey    \* history: a call signed with the key of another object

vars == <<objects, counters, prefixes, ivs, cache, calls,
          drawn, nonces, reused, crossed, accepted, repeated, forgiven,
          stray, wrongKey>>
gcmHistory == <<drawn, nonces, reused, crossed>>
ivHistory == <<accepted, repeated, forgiven>>
history == <<gcmHistory, ivHistory, stray, wrongKey>>

Keys == AesKeys \cup RsaKeys
Handles == DOMAIN objects
Idle == [op |-> "idle"]
Nonce == [key : AesKeys, prefix : 1..MaxPrefixes, count : 0..(GCM_MAX - 1)]
CacheEntry == [slot : Slots, handle : 1..MaxHandles, key : RsaKeys]

\* A partial function without one of its keys, and with one set.
Without(f, k) == [x \in DOMAIN f \ {k} |-> f[x]]
With(f, k, v) == [x \in DOMAIN f \cup {k} |-> IF x = k THEN v ELSE f[x]]

Init ==
  /\ objects = <<>>
  /\ counters = <<>> /\ prefixes = <<>> /\ ivs = <<>> /\ cache = <<>>
  /\ calls = [t \in Threads |-> Idle]
  /\ drawn = [k \in AesKeys |-> 0]
  /\ nonces = {} /\ reused = {} /\ crossed = {}
  /\ accepted = [k \in AesKeys |-> {}] /\ repeated = {} /\ forgiven = {}
  /\ stray = {}
  /\ wrongKey = FALSE

At(t, op) == calls[t].op = op
Goes(t, call) == calls' = [calls EXCEPT ![t] = call]
Returns(t) == Goes(t, Idle)
Live(h) == h \in Handles /\ objects[h].state = "live"

(***************************************************************************)
(* Objects.  C_CreateObject, C_GenerateKey, C_CopyObject, C_UnwrapKey and  *)
(* a load from disk all end in a new entry of the object store.            *)
(***************************************************************************)

\* The allocator never gives a handle twice.
FreshHandle == Len(objects) + 1

Makes(t, k) ==
  /\ At(t, "idle") /\ FreshHandle <= MaxHandles
  /\ objects' = With(objects, FreshHandle, [key |-> k, state |-> "live"])
  /\ UNCHANGED <<counters, prefixes, ivs, cache, calls, history>>

(***************************************************************************)
(* AES-GCM encryption.  The entry of GCM_ENCRYPT_COUNTERS is held from the *)
(* count to the end of the function: two encryptions with one key, and a   *)
(* removal of its counter, wait for each other.                            *)
(***************************************************************************)

CounterHeld(k) == \E t \in Threads : At(t, "nonce") /\ calls[t].key = k

\* C_Encrypt finds the object and reads its key material.
EncryptGcm(t, h) ==
  /\ At(t, "idle") /\ Live(h) /\ objects[h].key \in AesKeys
  /\ Goes(t, [op |-> "count", key |-> objects[h].key])
  /\ UNCHANGED <<objects, counters, prefixes, ivs, cache, history>>

CountOf(k) == IF k \in DOMAIN counters THEN counters[k] ELSE 0

\* A removal of this key's counter has done its first step only.
HalfRemoved(k) ==
  \E t \in Threads :
    \/ At(t, "removePrefix") /\ calls[t].key = k
    \/ At(t, "clearCounters") /\ k \notin calls[t].left
    \/ At(t, "clearPrefixes") /\ k \in calls[t].left

\* The counter of the key is taken and advanced in one step.
GcmCounts(t) ==
  LET k == calls[t].key IN
  /\ At(t, "count") /\ ~CounterHeld(k)
  /\ CountOf(k) < GCM_MAX
  /\ counters' = With(counters, k, CountOf(k) + 1)
  /\ Goes(t, [op |-> "nonce", key |-> k, count |-> CountOf(k)])
  /\ crossed' = IF HalfRemoved(k) THEN crossed \cup {k} ELSE crossed
  /\ UNCHANGED <<objects, prefixes, ivs, cache, drawn, nonces, reused, ivHistory, stray, wrongKey>>

\* The key has reached its limit: the call fails and the counter stands.
GcmRefused(t) ==
  LET k == calls[t].key IN
  /\ At(t, "count") /\ ~CounterHeld(k)
  /\ CountOf(k) >= GCM_MAX
  /\ Returns(t)
  /\ UNCHANGED <<objects, counters, prefixes, ivs, cache, history>>

\* gcm_nonce_prefix: the key's prefix, drawn at its first use.
PrefixOf(k) == IF k \in DOMAIN prefixes THEN prefixes[k] ELSE drawn[k] + 1

GcmEncrypts(t) ==
  LET k == calls[t].key
      nonce == [key |-> k, prefix |-> PrefixOf(k), count |-> calls[t].count]
  IN
  /\ At(t, "nonce") /\ PrefixOf(k) <= MaxPrefixes
  /\ prefixes' = With(prefixes, k, PrefixOf(k))
  /\ drawn' = IF k \in DOMAIN prefixes THEN drawn ELSE [drawn EXCEPT ![k] = @ + 1]
  /\ nonces' = nonces \cup {nonce}
  /\ reused' = IF nonce \in nonces THEN reused \cup {k} ELSE reused
  /\ Returns(t)
  /\ UNCHANGED <<objects, counters, ivs, cache, crossed, ivHistory, stray, wrongKey>>

\* The generator fails: no prefix is kept, and the count is spent.
GcmDrbgFails(t) ==
  /\ At(t, "nonce") /\ calls[t].key \notin DOMAIN prefixes
  /\ Returns(t)
  /\ UNCHANGED <<objects, counters, prefixes, ivs, cache, history>>

(***************************************************************************)
(* AES-CBC and AES-CTR encryption with the caller's IV: check_iv_reuse.    *)
(* The limit on tracked keys is looked at before the entry is taken.       *)
(***************************************************************************)

\* The limit on tracked keys holds only for a key that has no entry yet.
MayTrack(k) == k \in DOMAIN ivs \/ Cardinality(DOMAIN ivs) < MAX_TRACKED_KEYS

\* aes_cbc_encrypt, and aes_ctr_encrypt below: the zero IV is refused, and both
\* modes ask the one tracker.
EncryptCbc(t, h, iv) ==
  /\ At(t, "idle") /\ Live(h) /\ objects[h].key \in AesKeys
  /\ iv # ZeroIV /\ MayTrack(objects[h].key)
  /\ Goes(t, [op |-> "track", key |-> objects[h].key, iv |-> iv])
  /\ UNCHANGED <<objects, counters, prefixes, ivs, cache, history>>

EncryptCtr(t, h, iv) ==
  /\ At(t, "idle") /\ Live(h) /\ objects[h].key \in AesKeys
  /\ iv # ZeroIV /\ MayTrack(objects[h].key)
  /\ Goes(t, [op |-> "track", key |-> objects[h].key, iv |-> iv])
  /\ UNCHANGED <<objects, counters, prefixes, ivs, cache, history>>

IvsOf(k) == IF k \in DOMAIN ivs THEN ivs[k] ELSE {}

\* The call encrypts with the IV: what the tracker should have prevented.  What
\* a forgiven key is used with is no longer of interest.
Accepts(k, iv) ==
  /\ accepted' = IF k \in forgiven THEN accepted ELSE [accepted EXCEPT ![k] = @ \cup {iv}]
  /\ repeated' = IF iv \in accepted[k] THEN repeated \cup {k} ELSE repeated
  /\ UNCHANGED forgiven

\* Under the entry of the key: a new IV is kept while there is room, and any
\* other refuses the call; the entry stays, new as it may be.
IvTracks(t) ==
  LET k == calls[t].key IN
  /\ At(t, "track")
  /\ IF calls[t].iv \notin IvsOf(k) /\ Cardinality(IvsOf(k)) < MAX_TRACKED_IVS
     THEN /\ ivs' = With(ivs, k, IvsOf(k) \cup {calls[t].iv})
          /\ Accepts(k, calls[t].iv)
     ELSE ivs' = With(ivs, k, IvsOf(k)) /\ UNCHANGED ivHistory
  /\ Returns(t)
  /\ UNCHANGED <<objects, counters, prefixes, cache, gcmHistory, stray, wrongKey>>

(***************************************************************************)
(* RSA with the handle cache: rsa_*_cached through                         *)
(* get_or_parse_private_key.  The cache's lock is free while a key is      *)
(* parsed.                                                                 *)
(***************************************************************************)

Cached(s, h) == {i \in DOMAIN cache : cache[i].slot = s /\ cache[i].handle = h}

\* lru_get: a hit moves to the back.
Promoted(i) == Append(RemoveAt(cache, i), cache[i])

\* lru_insert: an entry of the same slot and handle is overwritten where it
\* stands; a new one evicts the front of a full cache.
LruInsert(e) ==
  IF Cached(e.slot, e.handle) # {}
  THEN [i \in DOMAIN cache |-> IF i \in Cached(e.slot, e.handle) THEN e ELSE cache[i]]
  ELSE Append(IF Len(cache) >= RSA_KEY_CACHE_MAX THEN Tail(cache) ELSE cache, e)

\* An RSA mechanism hands the session's slot and the handle on to the cache.
sign_single_shot(t, h) == At(t, "idle") /\ Live(h) /\ objects[h].key \in RsaKeys

\* A hit: the call signs with what the cache holds.
SignHits(t, s, h) ==
  /\ sign_single_shot(t, h)
  /\ \E i \in Cached(s, h) :
       /\ cache' = Promoted(i)
       /\ wrongKey' = (wrongKey \/ cache[i].key # objects[h].key)
  /\ UNCHANGED <<objects, counters, prefixes, ivs, calls,
                 gcmHistory, ivHistory, stray>>

\* A miss: the call goes on to parse the object's own material.
SignMisses(t, s, h) ==
  /\ sign_single_shot(t, h)
  /\ Cached(s, h) = {}
  /\ Goes(t, [op |-> "parse", slot |-> s, handle |-> h, key |-> objects[h].key])
  /\ UNCHANGED <<objects, counters, prefixes, ivs, cache, history>>

\* The parsed key is cached, and the call signs with it.
SignCaches(t) ==
  /\ At(t, "parse")
  /\ cache' = LruInsert([slot |-> calls[t].slot, handle |-> calls[t].handle,
                         key |-> calls[t].key])
  /\ Returns(t)
  /\ UNCHANGED <<objects, counters, prefixes, ivs, history>>

(***************************************************************************)
(* C_DestroyObject.  It reads the material, removes the object, then       *)
(* clears the tables one after the other.                                  *)
(***************************************************************************)

DestroyReads(t, s, h) ==
  /\ At(t, "idle") /\ Live(h)
  /\ Goes(t, [op |-> "remove", slot |-> s, handle |-> h, key |-> objects[h].key])
  /\ UNCHANGED <<objects, counters, prefixes, ivs, cache, history>>

\* Another thread may have destroyed the object meanwhile: the call fails.
\* Calls that still hold the object, and entries made through sessions of
\* other slots, are noted as history.
DestroyRemoves(t) ==
  LET h == calls[t].handle IN
  /\ At(t, "remove")
  /\ IF Live(h)
     THEN /\ objects' = [objects EXCEPT ![h].state = "destroyed"]
          /\ Goes(t, [calls[t] EXCEPT !.op = "removeCounter"])
          /\ forgiven' = forgiven \cup ({calls[t].key} \cap AesKeys)
          /\ stray' = IF \/ \E u \in Threads : At(u, "parse") /\ calls[u].handle = h
                         \/ \E i \in DOMAIN cache :
                              cache[i].handle = h /\ cache[i].slot # calls[t].slot
                      THEN stray \cup {h} ELSE stray
     ELSE Returns(t) /\ UNCHANGED <<objects, forgiven, stray>>
  /\ UNCHANGED <<counters, prefixes, ivs, cache, gcmHistory, accepted, repeated, wrongKey>>

\* remove_gcm_counter, its three steps.  The first waits for an encryption.
RemovesCounter(t) ==
  /\ At(t, "removeCounter") /\ ~CounterHeld(calls[t].key)
  /\ counters' = Without(counters, calls[t].key)
  /\ Goes(t, [calls[t] EXCEPT !.op = "removePrefix"])
  /\ UNCHANGED <<objects, prefixes, ivs, cache, history>>

RemovesPrefix(t) ==
  /\ At(t, "removePrefix")
  /\ prefixes' = Without(prefixes, calls[t].key)
  /\ Goes(t, [calls[t] EXCEPT !.op = "removeIvs"])
  /\ UNCHANGED <<objects, counters, ivs, cache, history>>

RemovesIvs(t) ==
  /\ At(t, "removeIvs")
  /\ ivs' = Without(ivs, calls[t].key)
  /\ Goes(t, [calls[t] EXCEPT !.op = "evict"])
  /\ UNCHANGED <<objects, counters, prefixes, cache, history>>

\* Mutant of evict_cached_keys: the entry is left to the LRU order.
EvictsNothing(s, h) == cache

\* The entry of this slot and handle leaves the cache.
evict_cached_keys(s, h) ==
  IF Cached(s, h) = {} THEN cache ELSE RemoveAt(cache, CHOOSE i \in Cached(s, h) : TRUE)

\* C_DestroyObject ends with the eviction, under its own session's slot.
DestroyEvicts(t) ==
  /\ At(t, "evict")
  /\ cache' = evict_cached_keys(calls[t].slot, calls[t].handle)
  /\ Returns(t)
  /\ UNCHANGED <<objects, counters, prefixes, ivs, history>>

(***************************************************************************)
(* C_InitToken and C_Initialize.  Neither touches the RSA caches.          *)
(***************************************************************************)

\* The objects whose state is "live" and that `keep` does not hold are gone.
Cleared(keep) ==
  [h \in Handles |-> IF Live(h) /\ h \notin keep
                     THEN [objects[h] EXCEPT !.state = "cleared"] ELSE objects[h]]

\* C_InitToken empties the object store ...
InitToken(t) ==
  /\ At(t, "idle")
  /\ objects' = Cleared({})
  /\ Goes(t, [op |-> "clearCounters", left |-> AesKeys])
  /\ forgiven' = AesKeys
  /\ UNCHANGED <<counters, prefixes, ivs, cache, gcmHistory, accepted, repeated, stray, wrongKey>>

\* ... and force_reset_all_counters each table, one shard after the other.
ClearsCounter(t, k) ==
  /\ At(t, "clearCounters") /\ k \in calls[t].left /\ ~CounterHeld(k)
  /\ counters' = Without(counters, k)
  /\ Goes(t, IF calls[t].left = {k} THEN [op |-> "clearPrefixes", left |-> AesKeys]
             ELSE [calls[t] EXCEPT !.left = @ \ {k}])
  /\ UNCHANGED <<objects, prefixes, ivs, cache, history>>

ClearsPrefix(t, k) ==
  /\ At(t, "clearPrefixes") /\ k \in calls[t].left
  /\ prefixes' = Without(prefixes, k)
  /\ Goes(t, IF calls[t].left = {k} THEN [op |-> "clearIvs"]
             ELSE [calls[t] EXCEPT !.left = @ \ {k}])
  /\ UNCHANGED <<objects, counters, ivs, cache, history>>

ClearsIvs(t) ==
  /\ At(t, "clearIvs")
  /\ ivs' = <<>>
  /\ Returns(t)
  /\ UNCHANGED <<objects, counters, prefixes, cache, history>>

\* Mutant of Reinitialize: the GCM counters start afresh too.
ReinitializeCounters(t, keep) ==
  /\ \A u \in Threads : At(u, "idle")
  /\ objects' = Cleared(keep)
  /\ ivs' = <<>> /\ counters' = <<>>
  /\ forgiven' = AesKeys
  /\ UNCHANGED <<prefixes, cache, calls, gcmHistory, accepted, repeated, stray, wrongKey>>

\* C_Finalize and the next C_Initialize, which PKCS#11 forbids while other
\* threads are in a call.  reset_gcm_counters forgets the IVs alone.  The
\* session objects are gone; `keep` are token objects, loaded again.
Reinitialize(t, keep) ==
  /\ \A u \in Threads : At(u, "idle")
  /\ objects' = Cleared(keep)
  /\ ivs' = <<>>
  /\ forgiven' = AesKeys
  /\ UNCHANGED <<counters, prefixes, cache, calls, gcmHistory, accepted, repeated, stray, wrongKey>>

Next ==
  \E t \in Threads :
    \/ \E k \in Keys : Makes(t, k)
    \/ \E h \in Handles :
         \/ EncryptGcm(t, h)
         \/ \E iv \in IVs : EncryptCbc(t, h, iv) \/ EncryptCtr(t, h, iv)
         \/ \E s \in Slots : SignHits(t, s, h) \/ SignMisses(t, s, h) \/ DestroyReads(t, s, h)
    \/ GcmCounts(t) \/ GcmRefused(t) \/ GcmEncrypts(t) \/ GcmDrbgFails(t)
    \/ IvTracks(t) \/ SignCaches(t)
    \/ DestroyRemoves(t) \/ RemovesCounter(t) \/ RemovesPrefix(t) \/ RemovesIvs(t)
    \/ DestroyEvicts(t)
    \/ InitToken(t) \/ ClearsIvs(t)
    \/ \E k \in AesKeys : ClearsCounter(t, k) \/ ClearsPrefix(t, k)
    \/ \E keep \in SUBSET Handles : Reinitialize(t, keep)

Spec == Init /\ [][Next]_vars

(***************************************************************************)
(* Properties.                                                             *)
(***************************************************************************)

\* The tables hold what their types allow, no counter passes its limit, the
\* cache and the set of IVs of a key are no larger than their maximum, and
\* the cache holds one entry per slot and handle, though two threads may miss
\* and insert at the same time.
TypeOK ==
  /\ \A h \in Handles : objects[h].key \in Keys /\ objects[h].state \in {"live", "destroyed", "cleared"}
  /\ DOMAIN counters \subseteq AesKeys /\ \A k \in DOMAIN counters : counters[k] \in 0..GCM_MAX
  /\ DOMAIN prefixes \subseteq AesKeys /\ \A k \in DOMAIN prefixes : prefixes[k] \in 1..drawn[k]
  /\ DOMAIN ivs \subseteq AesKeys /\ \A k \in DOMAIN ivs : ivs[k] \subseteq IVs \ {ZeroIV}
  /\ cache \in Seq(CacheEntry) /\ Len(cache) <= RSA_KEY_CACHE_MAX
  /\ \A i, j \in DOMAIN cache :
       cache[i].slot = cache[j].slot /\ cache[i].handle = cache[j].handle => i = j
  /\ nonces \subseteq Nonce
  /\ \A k \in DOMAIN ivs : Cardinality(ivs[k]) <= MAX_TRACKED_IVS

\* No key is used twice with one GCM nonce, whatever threads encrypt with
\* objects of the same material, destroy one of them, re-initialize the
\* token or the library.  The one exception is the key whose counter was
\* taken while remove_gcm_counter or force_reset_all_counters had removed
\* it and not yet removed the prefix.
NonceUnique == reused \subseteq crossed

\* A CBC or CTR encryption never repeats an IV with a key, whatever threads
\* encrypt with copies of it at once, until an object with that material is
\* destroyed or the token or the library is re-initialized: check_iv_reuse
\* refuses rather than forgets.
IvUnique == repeated \subseteq forgiven

\* No key meets a nonce or an IV of its own again.
NoReuse == NonceUnique /\ IvUnique

\* A call that finds its handle in the cache signs with the key of the
\* object that has that handle now, even when the entry outlived an object.
SignsOwnKey == ~wrongKey

\* Once C_DestroyObject has returned, no parsed key of the object is left in
\* the cache, unless a call was parsing it when it was removed or a session
\* of another slot had used it.
DestroyedNotCached ==
  \A i \in DOMAIN cache :
    LET h == cache[i].handle IN
    objects[h].state = "destroyed" =>
      \/ h \in stray
      \/ \E t \in Threads : "handle" \in DOMAIN calls[t] /\ calls[t].handle = h

\* The cache stays within its size, has one entry per slot and handle, gives
\* the right key and forgets destroyed ones.
CacheSound == TypeOK /\ SignsOwnKey /\ DestroyedNotCached
=============================================================================

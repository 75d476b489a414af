# A verification project for Craton HSM Core

Craton HSM Core is a software HSM in Rust: a PKCS#11 library
(`src/pkcs11_abi/functions.rs`) over tokens, sessions, an object store, an audit
log and cryptographic back ends, with a gRPC daemon and tools around it. This
directory holds TLA+ modules that model its stateful core, TLC configurations
that check them on small instances, and TLAPS proofs of the most important
results for every value of the constants. `PROJECT.json` lists the runs, the
mutants that show that each property can fail, the lines each definition
models, the hazards and the theorems.

Run a check with `tlc -config X.cfg MCModule`, a proof with `tlapm XProofs.tla`.

## 1. The system

| Component | State | Operations | Hard about it |
|---|---|---|---|
| Token authentication (`token/token.rs`, `store/lockout_store.rs`, `token/token_state_store.rs`) | login state, failure counts, locks, backoff windows, PIN hashes, wrapped object master key; two files | `C_InitToken`, `C_InitPIN`, `C_SetPIN`, `C_Login`, `C_Logout`, load at start | two files written one after the other, crash between them; files that do not parse, fields that do not decode; one lockout file for all slots |
| Sessions (`session/manager.rs`, `session/session.rs`) | map of sessions, state and operation of each, two counters per token, the object key of the logged-in user | open, close, close all, propagate login and logout | no lock around a call; DashMap iteration while others insert; login state read early and used late |
| Library life cycle (`pkcs11_abi/functions.rs`) | the HSM behind a mutex, three atomics, a thread-local cache | `C_Initialize`, `C_Finalize`, `get_hsm`, self-test failure | atomics read one by one, stale caches, fork |
| Operation calls (`pkcs11_abi/functions.rs`, `session/session.rs`) | the active operation and search of a session, saved blobs | Init, single-part, Update, Final, `C_DigestKey`, `C_Get/SetOperationState`, `C_FindObjects*` | length queries, limits, calls that take the lock twice, logout and destruction in mid-operation |
| Object store (`store/attributes.rs`, `encrypted_store.rs`, `object.rs`, `lifecycle.rs`) | objects in memory and on disk, the map between them, the persist key | create, generate, derive, copy, wrap, unwrap, set, destroy, load at login, lifecycle sweep | crash and races between memory and disk; guards over chains of calls |
| Handles (`session/handle.rs`) | counter, Feistel keys, reserved handles | allocate | never twice, restarts included |
| Audit log (`audit/log.rs`) | worker thread, channel, hash chain, files | `record`, `record_sync`, `flush`, rotate, recover | ordering, writes that fail or break off, a worker that callers wait for |
| Counters and caches (`crypto/encrypt.rs`, `crypto/sign.rs`) | GCM counters and prefixes, IVs, parsed RSA keys, all static | encrypt, sign, destroy, re-initialize | tables cleared one by one under other threads |
| Random generation (`crypto/drbg.rs`, `entropy_health.rs`) | health monitor, error flag, DRBG states | fill, generate, reseed, abort | a flag read before a draw; windows at their edges |
| Self-tests (`crypto/self_test.rs`, `conditional_test.rs`, `pairwise_test.rs`) | error state | at start, on generation | entering and leaving the error state |
| Daemon (`craton-hsm-daemon/src/server.rs`) | sessions and objects of slots shared by all clients, throttle tables | RPC handlers | checks and effects in separate sections; slots as the only border |
| Backup (`store/backup.rs`) | replay guard | export, restore | replay |
| Primitives, configuration, TLS reload, tools | none, or read once | | |

How they interact: every `C_` function begins with `get_hsm` (Library). Session
functions go through the token's `auth` mutex and the session map (Sessions,
TokenAuth); operation functions look a session up, take its lock and look keys
up in the object store (Operations). `C_Login` loads the object master key that
`TokenAuth` keeps wrapped into the object store, which decrypts its records with it
(ObjectStore); `C_Logout` clears operations and that key. The calls that use a key
go through static tables of counters and parsed keys (KeyUse). Every call sends an
event to the audit worker (AuditLog). The daemon calls the same managers without the
ABI, with checks of its own (Daemon, LoginThrottle). Generators take their seeds
from one monitored source (Randomness).

What makes each part correct: attempts at a PIN are bounded across crashes, and
files reload to what memory was (TokenAuth); sessions agree with their token,
counters are exact, operation state and keys are erased in time (Sessions); no
call works on an HSM instance that was withdrawn or that belongs to a parent
process (Library); a Final call covers exactly what was fed, with keys the session
may still use (Operations); a protected key keeps its guards through every chain of
calls and every crash, and destruction is final (ObjectStore); what the audit log
confirms is on disk and chained (AuditLog); nonces and IVs do not repeat and a
cached key is the right one (KeyUse); a broken source is found and stops the process
(Randomness); a slot is a border, and guesses are bounded (Daemon, LoginThrottle).

## 2. Modules

`MC*` modules only name constants, model values and symmetry sets. Callers and
Requests hold the constants that two modules share: the threads of a process
(Library, Randomness), the slots and requests of the daemon (Daemon, LoginThrottle).
One proof module covers each of these pairs, so Randomness and LoginThrottle name
their specifications `RandomSpec` and `ThrottleSpec`, and their other parts likewise.

**TokenAuth** models every method of `Token` that changes authentication state,
under one `auth` mutex per slot, so a method is one step, split only where it writes
the lockout file first and the token-state file last (`saving`). A PIN hash is the
PIN it verifies; a wrapped key is the PIN that unwraps it. `Restart` is a crash
followed by `new_with_config_for_slot`. With `Faults`, writes fail, randomness fails
files do not parse, and single fields of the token-state file do not decode
(`Damaged`: `load` decodes each on its own and keeps the others). `failed_*` counters
keep a width (`U32Max`), because a corrupt lockout file loads as `u32::MAX`.

**Sessions** models threads inside the session calls of the ABI. A step is what runs
under one lock; `call[t].pc` names the place in the call. An iteration over the
session map visits handles behind a cursor, so that sessions inserted behind it are
missed and those ahead are met. PINs are right or wrong here (TokenAuth says why).

**Library** models `HSM`, `POST_FAILED`, `INIT_PID`, `HSM_GENERATION` and
`CACHED_HSM`, one access per step. After a fork the model follows the child, in
which only the forking thread exists (the others are `gone`); a fork may fall anywhere,
also while another thread holds the mutex, which then stays locked (`Orphaned`). `barred` and
`withdrawn` are history.

**Operations** models the operation of a session: kind, key, whether the mechanism
works in parts, accumulated data, what the hasher has consumed, whether the object
is kept (`cached_object`). Calls hold the session's write lock throughout and are one
step; `C_DigestKey` and `C_SetOperationState` are two. `given` is the history of what
the application fed since the operation began. Refusals that leave the state alone
(bad arguments, policy, wrong mechanism) are stuttering and not shown. `saved` holds
the last blob the application fetched.

**ObjectStore** models the concurrent map, the database, `handle_to_store_key` and
the mutex `persist_key`; a step is one access to one of them. An object is a handle,
the identity of its key material, nine Boolean attributes, a label, a validity period
in days, a stored lifecycle state, and `parts`: whether a secret was also put in as
attributes that end up in `extra_attributes` (`CKA_PRIVATE_EXPONENT`, `CKA_PRIME_1`).
The check of the lifecycle state by the operation calls is not here. A call begins in `Begin` and its later steps,
which crashes may cut off and failing transactions may turn into nothing, are in
`Continue`. The object master key is an epoch: `C_InitToken` starts a new one, and
records of an older one do not decrypt. **TokenObjects** is the abstract
specification: a set of objects from which one is added once, removed, or all are
wiped, and nothing returns once its removal was confirmed. `ObjectStore!Durable` maps
the database to it, labels and lifecycle states left out.

**AuditLog** models the callers of `record`, `record_sync` and `flush`, the channel
and the worker, whose handling of a record is one step per outcome: refused,
failed on disk, written. Lines of the file hold the previous hash; a hash is the
sequence it stands for. A write that breaks off leaves nothing, a fragment or a line
without newline (`shape`), and the next one goes directly behind it. Rotation renames
one generation per step. Recovery at `Open`, a full set of entries, the end
of the timestamps and a crash that tears the last line are there.

**KeyUse** models the static tables of `encrypt.rs` and `sign.rs` and the calls of
threads that read and clear them, one table access per step, with the entry of a GCM
counter held as the code holds it. `crossed`, `forgiven` and `stray` are history:
the cases in which the code itself gives up the guarantee.

**Randomness** models the health monitor sample by sample, the error flag, the abort,
and the HMAC_DRBG: private generators of key generation, the start-up test, and the
shared one of the daemon behind its mutex. A block of output is an abstract value.

**LoginThrottle** models the daemon's two throttle tables and the three sections of a
request (check, token, record). A connection shows a certificate, an address, both or
neither; `ThrottleKey` follows.

**Daemon** models the handlers of the gRPC service with their checks and effects in
separate steps (`call[c]` keeps what the check found). Generated key material is a
number, shared by copies; material that is not the daemon's alone (a public key, a
`CKA_VALUE` in a template, an unwrapped blob, an ECDH secret) is one of `Outside`, which
any slot may meet again. `revealed` is what clients were told.

Modules are kept separate: the interfaces between them are one value (right or
wrong PIN; logged in or not; a key in the store or not; an entropy sample good or
not), over-approximated on the side that uses it, so that what holds in a module
holds in the composition.

## 3. Runs

| Run | Shows |
|---|---|
| `TokenAuth_crash` | reliable disk, crash anywhere: files reload to memory, attempts bounded, locks lifted only by the SO or re-initialization, the object key follows the user's PIN |
| `TokenAuth_faults` | failing writes, failing randomness, corrupt files: a role at its limit is locked, flags and hashes agree |
| `Sessions_sequential` | one thread, two slots, all calls: agreement, SO and read-only exclusion, erasure |
| `Sessions_threads` | two threads: exact counters, limits |
| `Library_threads` | two threads, three instances, a fork: no withdrawn instance is used, `get_hsm` refuses in a child but for one window, INIT_PID is right, every call returns unless the fork orphaned the mutex |
| `Operations_calls` | a session used by several threads: exact input, no private key without login, limits, destroyed keys |
| `ObjectStore_crash` | every object call, crash between any two steps, failing transactions: guards hold, destruction is final, a login restores, the database implements TokenObjects |
| `AuditLog_faults` | failing and partial writes, rotation, restarts, torn lines: confirmed events have their whole line on disk, memory is on disk, flush drains, order, one chain |
| `LoginThrottle_calls` | concurrent requests at full tables: guesses and tables bounded, lockouts end early only as surplus |
| `Daemon_requests` | concurrent requests on two slots: key material stays inside, generated keys on one slot, counts follow sessions, roles |
| `KeyUse_threads` | threads over shared key material: nonces, IVs, the right cached key, eviction |
| `Randomness_threads` | threads over one source: both health tests find what they must, no late seed, no repeated block, a failure halts |

Several runs check a conjunction under one name: `SessionsCounted` is `TypeOK`,
`CountsExact` and `LimitsHold`; `SecretsErased` is `OperationsErased` and
`KeyNeedsUser`; `ForkSafe` is `PidTracksInstance` and `ChildRefused`; `ToldIsDurable`
is `SyncIsDurable` and `MemoryOnDisk`; `LogSound`, `ThrottleBounds`, `CountersSound`,
`RolesSound`, `NoReuse`, `CacheSound`, `FaultsDetected` and `GeneratorSound` gather the
parts that stand before them in their modules.

Bounds, and why they are enough:

* TokenAuth: two valid PINs and one that is refused, so that old, new and wrong
  differ (one of each where files are damaged); a limit of 3, or 2 with faults, to
  reach it, to lock and to guess again; a counter width just above it, so that the
  load of `u32::MAX` and the next increment meet.
* Sessions: two or three handles, two threads (every race here is between two
  calls), limits that are reached.
* Library: three instances so that a cache can be two generations old; two
  processes.
* Operations: a private and a digestible public key, one part (a part and a key
  suffice to tell orders apart), limits of two parts in memory, one in a blob,
  three fed in all, so that each limit is met from both sides; one thread inside the
  two-step calls, all others being able to take steps between its two.
* ObjectStore: two handles ever (a key and what is made from it), one thread (with
  two, section 5), four templates that between them allow and forbid every use, two
  days and a period that begins on the second, so that a sweep changes a state, two epochs, a
  limit of two objects, one store key per handle and call in flight.
* AuditLog: two callers, four events, files of one line and two generations kept, so
  that rotation drops a file; two entries in memory; timestamps 0 to 3, so that they
  run out.
* LoginThrottle: three clients on one address (one without certificate), a table
  limit of one entry, so that an eviction has a choice; two requests in flight; a
  lockout after two failures.
* Daemon: two slots, two requests in flight, two session handles, three object
  handles at a limit of two objects, one read-write session, one material of Outside,
  which is on two slots at once.
* KeyUse: two threads, two slots, one AES key that both objects may share and two RSA
  keys, counters up to 2, one tracked IV of two (and the zero IV), two object handles.
  The limit on tracked keys is never met with one AES key.
* Randomness: two sample values, cut-offs of 3, windows of 4, reseeding every third
  call, one or two blocks of output.

Symmetry: PINs in TokenAuth without faults, the two threads of Sessions, handles in
ObjectStore, callers in AuditLog, tables, requests and certificates in LoginThrottle,
slots and requests in Daemon, threads, slots, keys and IVs in KeyUse; no run that checks liveness has it. Deadlock is
checked but in Randomness, where the process may abort, and in Library, where a child
may inherit a mutex that nobody will unlock; `CallsReturn` says that this is the only
way to wait for ever.

Fairness. Library: weak fairness of steps that do not wait, and strong fairness of
taking the mutex, since `parking_lot` mutexes are eventually fair. Randomness: weak
fairness of the two steps between a failed test and the abort, which wait for nothing.
No fairness is assumed of beginning a call. The other modules state only safety.

## 4. Proofs

All theorems hold for any sets of slots, PINs, threads, sessions, keys, any limits
and any number of restarts, initializations and forks, under the ASSUMEs of the
modules (null values that are no object, key or thread, parts that are no keys, at
least one label and one slot, a login limit below the counter's width, finitely many
threads in Sessions, where they are counted).

**TokenAuthProofs.** `TypeCorrect`; `Consistent` (`AuthConsistent` and
`LimitEnforced`, with all faults), by `ConsistentInv`, which adds that what is in the
files is consistent, since a restart may load any of it, after a field was lost too. With a reliable disk,
`TokenStateDurable` and `ObjectKeyKept` by `DurableInv`, which adds what is pending
between the two writes. With one slot, `LockoutHolds`, `GuessesHeld` and `LocksHeld`
by `LockoutInv`, which adds that the history of answered wrong PINs is the counter;
the wrong SO PINs of `C_InitToken` are in neither (§5).

**LibraryProofs.** `NoStaleInstance`, by `LibraryInv`: who holds the mutex, that
cores and generations lie in the past (`Bounded`), that no cache is valid while there
is no instance (`NoneValid`), that outside the error state no valid cache holds a
withdrawn instance (`NotWithdrawn`), and, the crucial part, that a call inside
`get_hsm` cannot reach an instance barred for it, even if the error state was
entered and left while it was there (`GettingSafe`). `ForkKept` (`ForkSafe`), for forks
at any point, by `ForkInv` on top of it: what INIT_PID is at each place under the mutex
(`PidAt`), that a child has one thread (`ChildAlone`), that a valid cache holds the
instance behind the mutex or the one being finalized (`Current`), and that a call past
the fork check can find instances of its own process only (`PastCheck`).

The second half of LibraryProofs is about Randomness, which `C_Initialize` tests and
seeds, with variables of its own and Library's threads. `RandomLimits` collects the
ASSUMEs of Randomness (samples and blocks exist, cut-offs, window and reseed interval
of two at least, buffers are not empty; `LimitsHold`).
`FaultsAreDetected` (`FaultsDetected`) and `GeneratorIsSound` (`GeneratorSound`) hold by
`RandomInv` (`RandomInvariant`). Its core is `Tracks`, what the monitor's few counters
know of the samples it has seen: the repetitions counted are no fewer than the run the
samples end with, and the count is that of the first sample in the window under way or
just completed. One sample that passes keeps it (`FeedTracks`); a buffer does by
induction over its length (`FeedAllTracks`, for which `LoopExists` shows that the
recursive function in `FeedAll` is defined and `EveryNat` is induction for a set, got
from the least counterexample); and forgetting old samples does too
(`TrackedByLast`). `MonitorInv` says so of every state without error, although a thread
past the flag may feed a monitor that has failed. `DrawOK` says where a draw stands:
its bytes were read with the flag clear, or the flag is set where it will be looked at;
it holds the DRBG it shares, reseeded just before its blocks. `OutputInv` says that
`HsmCore`'s DRBG compares with the block it gave out last, which needs that one thread
at most builds the core (`OneStarts`).

**OperationsProofs.** `OperationsType`, `InputKept`, `PrivateKept` and
`DestroyedKept`, by `OperationsInv`: a digest keeps its input beside the hasher,
ciphers have no hasher (`WellFormed`), blobs hold what had been fed unless a hash was
lost (`SavedInv`), and so does what a call is about to restore, which has no object
in hand (`CallInv`). `AccumulationKept` (`AccumulationBounded`) by `DataInv`: the blobs
and the restores under way keep to the limit too, for else `C_SetOperationState` could
exceed it. A key digested by `C_DigestKey` is not counted, in the code and here.

**DaemonProofs.** `KeysInside` (`KeysStay`), `KeysOnOneSlot` (`MaterialInOneSlot`),
`CountsRight` (`CountersSound`) and `RolesRight` (`RolesSound`), by `DaemonInv`. The
properties speak of stored
objects and open sessions; a request carries both between its check and its effect,
so the invariant says of every object and session *in hand* what is to hold once it is
stored: an object is guarded, and its material, if the daemon generated it, is new or that of
an object of its own slot (`HeldInv`); a session waiting for its insertion is counted, and one that is taken out
is still counted (`CountsFollowSessions` over `HalfOpen`); a read-only session was
checked against an SO login before it was counted.

At its end DaemonProofs turns to LoginThrottle, over the same slots and requests.
`ThrottleLimits` collects what LoginThrottle assumes of its two limits; there are any
clients and tables. `GuessesBounded` (`ThrottleBounds`) and `LockoutsHold`
(the action property `LockoutHolds`) hold by `ThrottleInv`: an entry without a lockout has
attempts left, the wrong guesses at a key are those recorded and those refused but not
yet recorded, and what is recorded together with the requests admitted stays below the
limit and the number of requests in flight (`KeyInv`). That a lockout ends early only
as surplus needs that a table exceeds its limit by one entry at most (`TableInv`), and
then has none expired.

**AuditLogProofs.** `ToldDurable` (`ToldIsDurable`), `FlushComplete` (`FlushDrains`) and
`LogRight` (`LogSound`), by `LogInv`. Events are numbered as they are sent, so the queue,
the record in the worker's hand and the entries are in increasing order (`NumbersInv`,
`OrderInv`); a caller that waits has its event or its flush in the queue or in the
worker's hand, behind everything sent before (`CallersInv`); what the worker has
appended or synced is the last line of the file, whole (`DiskInv`); every event that was
confirmed or is shown has a whole line in a file (`ToldIsWhole`), which is a line of its
own unless what stands before it has no newline (`WholeIsShown`); and the worker's
`last_hash` is the hash of the last line of the newest file that has any, unless it was
disturbed, with all older files joined to it (`ChainInv`), which is what a rotation and a
recovery at `Open` need. The run has files of one line; the theorem holds for
any number of lines, generations and entries.

**KeyUseProofs.** `NoKeyReuse` (`NoReuse`) and `CacheRight` (`CacheSound`), by `KeyInv`. The
history variables alone are not inductive. `NonceInv` says that the counter of a key,
and the count a call has taken, is ahead of every nonce made with the key's present
prefix, unless a removal is between the two tables, and that then nobody holds the
counter unless the key is `crossed`; `IvInv` that the tracker knows every IV of a key
that is not forgiven, and that whoever is about to clear an entry has forgiven its key;
`CacheInv` that an entry of a destroyed object is a stray or has a thread that will evict
it *under the entry's own slot*, and that a key being parsed belongs to an object that
is there or to a stray.

**ObjectStoreProofs.** For any number of threads, `KeysProtected` (`ProtectionHolds`), by
`ObjectInv`: what a call has in hand at each place
(`PlaceOk`), that whoever encrypts holds the mutex and finds a key behind it (`LockInv`),
that an object lets no protected key out wherever it is, in memory, on disk or in a
queue (`SoundInv`), and that a fresh handle is a key that is neither protected nor out
(`GhostInv`), without which a new object could carry an old key.

While calls do not overlap (`OneThread`; crashes and failing transactions stay),
`DestroyFinal` (`DestroyIsFinal`), `LoginRestoresAll` (the action property
`LoginRestores`) and `DatabaseKeepsPromises`, the refinement `Spec => DurableSpec`, by
`OneInv`. `HandlesInv`: two objects with one handle make the same promise, wherever they
are, and no handle in use is gone. `MapInv`: no two records have one handle, and where
a handle's entry in `handle_to_store_key` counts (`Uses`: its object is in memory, in a
queue, or being destroyed) it names the handle's record; elsewhere it may be missing, as
after a restart or a failed deletion. `RelyInv`: what a call relies on between its
steps, such as that a record still to be loaded is on the list. The hypothesis is
needed: with two threads all three fail (§5).

**SessionsProofs.** For any finite number of threads, `CountsKept` (`SessionsCounted`),
assuming that `C_InitToken` is not called, by `CountInv`: each of the two counters is
the number of sessions in the map plus the units that calls hold (`Exact`), and a
session on its way in or out is in no map and, if it comes in, in nobody else's hand
(`HandsInv`), without which an insertion could be the second of one handle. One lemma
(`CountStep`) does the counting: a step changes one session and one thread at most, so
two sets change by one element at most, and the counter has to follow. The hypothesis is
needed: with a second thread the reset of `C_InitToken` meets sessions half opened (§5).

While calls do not overlap (`OneThread`), `CountsKeptAcrossInit`, in which `C_InitToken` is
allowed, `RolesAgree` (`SessionsAgree`), `NoReadOnlyUnderSO` (`SOExcludesReadOnly`) and
`SecretsGone` (`SecretsErased`), by `OneInv`. The properties hold between calls only;
`LoginInv` says who is behind meanwhile: the sessions a login is to collect or has on
its list, those ahead of a logout's cursor, the one being closed, the key a logout is to
clear. `RelyInv` says what each call relies on between its steps; with it
`login_rollback` is never reached, since `login_collect` lists public sessions only and
the SO has been refused if one of them is read-only. The iteration needs that the least
handle ahead of a cursor is visited (`Least`).

Only model-checked: liveness (`CallsReturn`, `FailureHalts`), which is out of the
prover's reach. Every invariant and action property of the runs has a
theorem, some under the hypotheses named above (one slot, one thread, a reliable disk,
no `C_InitToken`), where the runs show or §5 says
what happens without them.

## 5. What was met in the code

Places where the code does something else than a comment, a document or a reader
would expect. The runs state what holds; these are the cases outside of it.

Tokens, sessions, library, operations:

* All slots share one `lockout_state.json` (`lockout_store.rs:41`), though the doc of
  `new_with_config_for_slot` says state is "namespaced per `slot_id`" (`token.rs:166`):
  with two slots `LockoutDurable` fails.
* `init_pin` over an existing user PIN keeps the object master key wrapped under the
  old one (`token.rs:709`), while `functions.rs:960` says prior ciphertext "always
  decrypts".
* An open that overlaps a login makes `login_all` fail and roll the other sessions
  back (`manager.rs:316`); one that overlaps a logout inserts a logged-in session after
  it (`manager.rs:128`, against `functions.rs:1034`). `SessionsAgree` is therefore
  checked for one thread.
* `C_Initialize` in a fork child returns `CKR_CRYPTOKI_ALREADY_INITIALIZED`
  (`functions.rs:249`); `docs/fork-safety.md:33` expects `CKR_OK`.
* A hash-then-sign operation restored by `C_SetOperationState` has neither hasher nor
  input (`functions.rs:3684`).
* A wrong SO PIN in `C_InitToken` is delayed by backoff but never locks
  (`token.rs:637-654`), while `token.rs:616` speaks of "the same rate-limiting / lockout
  policy as `login()`". `GuessesBounded` counts `login` and `set_pin` only. The count
  behind the backoff is a `u32` that a release build wraps to 0.
* `load` decodes the hex fields of the token-state file one by one
  (`token_state_store.rs:140`): a lost SO hash gives an uninitialized token whose user PIN
  is still set, a lost user hash a wrapped key that no PIN opens. A field altered into
  another valid one is not found by `load` and not modelled.
* `C_InitToken` closes the sessions and clears the objects of all slots before the
  SO PIN is verified.
* The check for read-only sessions and the SO's login (`functions.rs:938`) are two
  steps; so are reading the login state and inserting a session.
* Counter resets of `C_InitToken` while an open or close is in flight
  (`token.rs:998`) make the session counters drift; `Sessions_threads` leaves
  `C_InitToken` out for that reason.
* The flag `closed` of a session (`session.rs:474`) is written and never read.
* `set_persist_key` of a login can follow `clear_persist_key` of a later logout
  (`functions.rs:1046`).
* `C_Finalize` has no fork check: in a child it audits, flushes and drops the inherited
  instance (`functions.rs:299-323`), while `docs/fork-safety.md:20` has the child's
  calls refused.
* A fork while another thread is between `INIT_PID = 0` and the new generation in
  `C_Finalize` lets the child use the inherited instance from its cache (the exception
  in `ChildRefused`); a fork while the mutex is held leaves it held in the child, whose
  `C_Initialize` and `C_Finalize` then never return.
* `C_Initialize` clears `POST_FAILED`, while `docs/fips-mode-guide.md:187` says
  "Process must be restarted to recover".
* A single-part call after Updates ignores the earlier parts, except `C_Digest`.
* `C_DigestFinal` and `C_SignFinal` end the operation when the buffer is too small;
  `C_EncryptFinal` and `C_DecryptFinal` keep it.
* A restored signing operation needs no login, and `C_DigestKey` neither login nor
  limit.
* `find_objects` does not look at the slot.

Object store:

* Attributes that `apply_attribute` does not know, `CKA_PRIVATE_EXPONENT` and
  `CKA_PRIME_1` among them, are kept in `extra_attributes` (`attributes.rs:653`) and read
  back without a look at `CKA_SENSITIVE` or `CKA_EXTRACTABLE` (`attributes.rs:740`);
  the admin tool's import creates RSA keys in this way
  (`tools/craton-hsm-admin/src/commands/import_parse.rs:237`).
  `docs/security-model.md:215` promises more. `ProtectionHolds` therefore speaks of keys
  whose secret is in `CKA_VALUE` alone.
* A key is deactivated on its end date, not after it: the comparison is with the
  date's midnight (`object.rs:343`).
* With two threads a destroyed object can return: a sweep persists a clone taken
  before the destruction, a login inserts a record read before it, and the record has
  then no entry in `handle_to_store_key`, so that the next write makes a duplicate.
* One record under another key ends the whole load (`attributes.rs:146`).
* `C_SetAttributeValue` changes memory only; the next login undoes it. A token object
  made without a login is never persisted. Failed writes, deletions and clears are
  logged and reported as success.
* A token key with `CKA_SENSITIVE` and `CKA_EXTRACTABLE` both false is written and then
  refused by `validate_deserialized_object` (`attributes.rs:765`) at every login,
  against `docs/persistence.md:5`.
* The object limit is checked before the insertion and not by a load.
* `C_DeriveKey`, the wrapped key of `C_WrapKey` and `C_DestroyObject` do not look at
  `CKA_PRIVATE` or the lifecycle state.
* `sweep_objects` has no caller, and `set_compromised` is not persisted.

Audit log:

* A write that fails half way (`log.rs:445`) leaves part of a line, and the next event is
  appended to it: `record_sync` confirms an event whose line does not parse, and the
  next process finds the file tampered with. `ToldIsDurable` counts such a line as on
  disk (`Glued`). That what a failed write or sync left survives a crash is assumed.
* A panic of the worker drops the completion channels, on which `record_sync` returns an
  error (`log.rs:821`); this path is not modelled.
* After a failed write the worker's `last_hash` has advanced (`log.rs:426`): the next
  line does not chain to the last one in the file. `OneChain` excludes that case, and
  the torn line of a crash.
* A rotated file does not verify from the zero hash (`docs/operator-runbook.md:180`),
  nor do the entries in memory once some were drained or recovered; `last_timestamp`
  restarts at 0.
* `docs/architecture.md:233` calls the log synchronous; `record` is not.

Counters and caches:

* An encryption between the removal of the counter and that of the prefix
  (`encrypt.rs:75`) starts at zero with the old prefix; destroying one of two objects
  with the same material resets the limit and the IVs of the other.
* IVs are forgotten at `C_Initialize`; the comment at `functions.rs:262` speaks of
  counters.
* `clear_rsa_key_cache` ("Called on C_Finalize / C_InitToken", `sign.rs:271`) has no
  caller outside tests; a call that was parsing a key when its object was destroyed
  puts it back into the cache; the eviction uses the slot of the destroying session.
* The limit on tracked keys is read before the entry is taken.

Random generation:

* `C_GenerateRandom` reads `OsRng` without the monitor (`functions.rs:3518`), while
  `docs/fips-gap-analysis.md:41` names the health-tested generator.
* The monitor accepts good samples again after a failure; until the abort a thread past
  the flag may use what it drew. The error flag stays.
* A proportion failure on the last sample of a window leaves `window_pos` at its end,
  and a racing thread's next sample indexes past it (`entropy_health.rs:219`).
* The module's doc (`entropy_health.rs:24`) promises `CKR_DEVICE_ERROR`; the process
  aborts. `RESEED_INTERVAL` is not reached by the code's own generators.

Daemon:

* `InitToken` under open sessions zeroes their counts, and the count of read-write
  sessions stays off when they close; it destroys no object and closes no session.
* The audit record follows the effect (`server.rs:365`): when it fails, the request
  reports an error for something done. A key pair whose second insertion fails leaves
  its public key.
* A template's `CKA_VALUE` replaces what the daemon generated, unwrapped, derived or copied
  (`attributes.rs:607`), and an ECDH secret is the same on the slots of both keys
  (`server.rs:2086`): one material can be on two slots. `MaterialInOneSlot` speaks of
  generated material.
* The login of a slot is shared by all clients; `InitPIN` works only on a session
  opened after the SO's login; the daemon never sets the persist key, so its objects
  are never persisted. Its destruction leaves GCM counters in place.
* The throttle tables may hold one entry more than their limit, a login of someone
  logged in already counts as a failure, and a restart forgets everything.

## 6. Not modelled, and the plan

Not modelled for good: cryptographic primitives and back ends (computation, not
protocol), parsing of configuration, the command-line tools, the mechanism tables,
metrics. Also left out: the idle timeout and session cache of the session manager, which
only its tests call; the RSA cache keyed by a hash; requests of the daemon that only
read (`GetTokenInfo`, `Digest`); the public template of a key pair where it names
attributes other than the modelled ones; TLS reload, a swap of one pointer.

Planned, in this order:

1. **LockOrder**: session, shard and object locks of the ABI calls; freedom from
   deadlock when threads do not share a session, and the order that fails if they do
   (`C_SetAttributeValue` holds the object and takes the session, `C_EncryptInit` the
   reverse).
2. **Backup**'s replay guard, the Feistel network of handles as a permutation checked
   on small domains, the conditional self-test tracker.
3. An abstract lockout (attempts left, locked) that TokenAuth implements, by
   refinement.

----------------------------- MODULE TokenAuth -----------------------------
(***************************************************************************)
(* Authentication state of the tokens of one HSM process: src/token/       *)
(* token.rs together with the two files it keeps, store/lockout_store.rs   *)
(* and token/token_state_store.rs.                                         *)
(*                                                                         *)
(* Every method of Token holds the `auth` mutex for its whole duration, so *)
(* a method is one step, with one exception: init_token, init_pin and      *)
(* set_pin write the lockout file first and the token-state file last.     *)
(* Those methods are split at that point (saving[s] holds while the mutex  *)
(* of slot s is held for the pending write), because the process may crash *)
(* between the two writes and the methods of other slots may run.          *)
(*                                                                         *)
(* A PIN hash is represented by the PIN it verifies and a wrapped object   *)
(* master key by the PIN whose derived key unwraps it.                     *)
(***************************************************************************)
EXTENDS Naturals

CONSTANTS
    Slots,          \* slot identifiers; each slot has its own Token
    Pins,           \* PINs a caller may present
    ValidPins,      \* the PINs validate_pin accepts
    NoPin,          \* an absent PIN hash or wrapped key (None)
    MaxFailed,      \* security.max_failed_logins
    U32Max,         \* largest value of a u32 counter
    PersistObjects, \* token.persist_objects: is there a token-state file?
    Faults          \* may disk writes, randomness and files be faulty?

ASSUME PinAssumption == ValidPins \subseteq Pins /\ NoPin \notin Pins
ASSUME CounterAssumption == /\ MaxFailed \in Nat \ {0}
                            /\ U32Max \in Nat
                            /\ MaxFailed < U32Max
ASSUME FlagAssumption == PersistObjects \in BOOLEAN /\ Faults \in BOOLEAN

VARIABLES
    auth,        \* [Slots -> AuthState]
    pins,        \* [Slots -> Credentials]: PIN hashes and wrapped OMK
    saving,      \* [Slots -> BOOLEAN]: auth held, token-state write pending
    lockoutFile, \* lockout_state.json, one file for the whole process
    stateFile,   \* [Slots -> token_state_<slot>.json]
    guesses      \* history: wrong PINs answered since the last reset

vars == <<auth, pins, saving, lockoutFile, stateFile, guesses>>

-----------------------------------------------------------------------------
(* Types                                                                   *)

Roles == {"USER", "SO"}
LoginState == {"Public"} \cup Roles
Counter == 0 .. U32Max

AuthState == [login : LoginState,
              initialized : BOOLEAN,
              userInit : BOOLEAN,
              failed : [Roles -> Counter],
              failedInit : Counter,
              locked : [Roles -> BOOLEAN],
              wait : [Roles -> BOOLEAN],     \* backoff window still open
              initWait : BOOLEAN]

Credentials == [hash : [Roles -> Pins \cup {NoPin}],
                salt : BOOLEAN,              \* object_key_salt is present
                wrapped : Pins \cup {NoPin}]

LockoutData == [failed : [Roles -> Counter],
                failedInit : Counter,
                locked : [Roles -> BOOLEAN]]

TokenStateData == [initialized : BOOLEAN, userInit : BOOLEAN,
                   creds : Credentials]

FileStatus == {"absent", "corrupt", "ok"}
LockoutFile == [status : FileStatus, data : LockoutData]
StateFile == [status : FileStatus, data : TokenStateData]

TypeOK ==
    /\ auth \in [Slots -> AuthState]
    /\ pins \in [Slots -> Credentials]
    /\ saving \in [Slots -> BOOLEAN]
    /\ lockoutFile \in LockoutFile
    /\ stateFile \in [Slots -> StateFile]
    /\ guesses \in [Slots -> [Roles -> Nat]]

-----------------------------------------------------------------------------
(* The lockout file and the token-state file                               *)

NoLockoutData == [failed |-> [r \in Roles |-> 0], failedInit |-> 0,
                  locked |-> [r \in Roles |-> FALSE]]

\* What LockoutStore::load returns for a file it cannot read or parse.
LockedOutData == [failed |-> [r \in Roles |-> U32Max], failedInit |-> U32Max,
                  locked |-> [r \in Roles |-> TRUE]]

LoadLockout(file) ==
    CASE file.status = "ok"      -> file.data
      [] file.status = "absent"  -> NoLockoutData
      [] file.status = "corrupt" -> LockedOutData

LockoutOf(a) == [failed |-> a.failed, failedInit |-> a.failedInit,
                 locked |-> a.locked]

NoCredentials == [hash |-> [r \in Roles |-> NoPin], salt |-> FALSE,
                  wrapped |-> NoPin]

NoTokenState == [initialized |-> FALSE, userInit |-> FALSE,
                 creds |-> NoCredentials]

\* Every hexadecimal field is decoded on its own, one that does not decode is
\* absent; an initialized flag only counts when the hash it refers to is
\* present, and the other flag and fields are restored all the same.
LoadTokenState(file) ==
    IF file.status # "ok" THEN NoTokenState
    ELSE [initialized |-> /\ file.data.initialized
                          /\ file.data.creds.hash["SO"] # NoPin,
          userInit |-> /\ file.data.userInit
                       /\ file.data.creds.hash["USER"] # NoPin,
          creds |-> file.data.creds]

TokenStateOf(a, p) == [initialized |-> a.initialized, userInit |-> a.userInit,
                       creds |-> p]

\* A write either takes effect or, on an I/O error, is logged and dropped.
FaultChoice == IF Faults THEN {TRUE, FALSE} ELSE {FALSE}

persist_counters_only(a) ==
    lockoutFile' = [status |-> "ok", data |->
                      [LockoutOf(a) EXCEPT !.locked = NoLockoutData.locked]]

persist_lockout(a) ==
    \E failed \in FaultChoice :
        lockoutFile' = IF failed THEN lockoutFile
                       ELSE [status |-> "ok", data |-> LockoutOf(a)]

\* init_token saves the reset counters and then removes the file.
reset_lockout_file ==
    \E kept \in FaultChoice :
        IF kept THEN persist_lockout([failed |-> NoLockoutData.failed,
                                      failedInit |-> 0,
                                      locked |-> NoLockoutData.locked])
        ELSE lockoutFile' = [status |-> "absent", data |-> NoLockoutData]

-----------------------------------------------------------------------------
(* Initial state and restart                                               *)

FreshAuth == [login |-> "Public", initialized |-> FALSE, userInit |-> FALSE,
              failed |-> [r \in Roles |-> 0], failedInit |-> 0,
              locked |-> [r \in Roles |-> FALSE],
              wait |-> [r \in Roles |-> FALSE], initWait |-> FALSE]

\* Token::new_with_config_for_slot: counters come from the lockout file,
\* flags and credentials from the slot's token-state file.
LoadedAuth(lf, sf) ==
    LET l == LoadLockout(lf)
        t == LoadTokenState(sf)
    IN  [FreshAuth EXCEPT !.failed = l.failed,
                          !.failedInit = l.failedInit,
                          !.locked = l.locked,
                          !.initialized = t.initialized,
                          !.userInit = t.userInit]

Init ==
    /\ auth = [s \in Slots |-> FreshAuth]
    /\ pins = [s \in Slots |-> NoCredentials]
    /\ saving = [s \in Slots |-> FALSE]
    /\ lockoutFile = [status |-> "absent", data |-> NoLockoutData]
    /\ stateFile = [s \in Slots |-> [status |-> "absent", data |-> NoTokenState]]
    /\ guesses = [s \in Slots |-> [r \in Roles |-> 0]]

-----------------------------------------------------------------------------
(* Counting failures, and the reset of re-initialization                   *)

\* `+= 1` on a u32: the release profile wraps silently.
Inc(n) == IF n = U32Max THEN 0 ELSE n + 1

LimitOffByOne(n) == n > MaxFailed

LimitReached(n) == n >= MaxFailed

\* The wrong-PIN branch shared by login and set_pin.  backoff_duration(0) is
\* zero, so a counter that has wrapped opens no backoff window.
CountFailure(a, r) ==
    LET n == Inc(a.failed[r])
    IN  [a EXCEPT !.failed[r] = n,
                  !.wait[r] = (n # 0),
                  !.locked[r] = @ \/ LimitReached(n)]

CountInitFailure(a) ==
    LET n == Inc(a.failedInit)
    IN  [a EXCEPT !.failedInit = n, !.initWait = (n # 0)]

ClearFailures(a, r) == [a EXCEPT !.failed[r] = 0, !.wait[r] = FALSE]

UserFlagKept(a) == [FreshAuth EXCEPT !.userInit = a.userInit]

reset_for_init(a) == FreshAuth

\* History: one more wrong PIN answered by login or set_pin, saturating just
\* past the limit.
CountGuess(s, r) ==
    guesses' = [guesses EXCEPT ![s][r] = IF @ > MaxFailed THEN @ ELSE @ + 1]

ForgetGuesses(s, rs) ==
    guesses' = [guesses EXCEPT ![s] =
                   [r \in Roles |-> IF r \in rs THEN 0 ELSE guesses[s][r]]]

verify_pin(s, r, pin) == pins[s].hash[r] = pin

\* The end of init_token, init_pin and set_pin: with a token-state store the
\* mutex stays held until save_token_state has run.
BeginSave(s) ==
    saving' = [saving EXCEPT ![s] = PersistObjects]

-----------------------------------------------------------------------------
(* Token methods                                                           *)

\* The SO PIN of an initialized token is wrong: counted and rate limited,
\* apart from the counters of login, and never locking.
init_token_rejected(s, pin) ==
    LET a == CountInitFailure(auth[s])
    IN  /\ ~saving[s]
        /\ pin \in ValidPins
        /\ auth[s].initialized
        /\ ~auth[s].initWait
        /\ pins[s].hash["SO"] # NoPin
        /\ ~verify_pin(s, "SO", pin)
        /\ auth' = [auth EXCEPT ![s] = a]
        /\ persist_lockout(a)
        /\ UNCHANGED <<pins, saving, stateFile, guesses>>

init_token(s, pin) ==
    LET a == [reset_for_init(auth[s]) EXCEPT !.initialized = TRUE]
    IN  /\ ~saving[s]
        /\ pin \in ValidPins
        /\ auth[s].initialized =>
               /\ ~auth[s].initWait
               /\ pins[s].hash["SO"] # NoPin => verify_pin(s, "SO", pin)
        /\ pins' = [pins EXCEPT ![s] = [NoCredentials EXCEPT !.hash["SO"] = pin]]
        /\ auth' = [auth EXCEPT ![s] = a]
        /\ reset_lockout_file
        /\ BeginSave(s)
        /\ ForgetGuesses(s, Roles)
        /\ UNCHANGED stateFile

\* provision_object_key: only where there is a token-state store and no salt
\* yet; a failure of the random generator leaves persistence unavailable.
provision_object_key(p, pin, failed) ==
    IF PersistObjects /\ ~p.salt /\ ~failed
    THEN [p EXCEPT !.salt = TRUE, !.wrapped = pin]
    ELSE p

init_pin(s, pin) ==
    LET a == [ClearFailures(auth[s], "USER") EXCEPT !.userInit = TRUE,
                                                    !.locked["USER"] = FALSE]
    IN  /\ ~saving[s]
        /\ auth[s].login = "SO"
        /\ pin \in ValidPins
        /\ \E failed \in FaultChoice :
              pins' = [pins EXCEPT ![s] =
                         provision_object_key([@ EXCEPT !.hash["USER"] = pin],
                                              pin, failed)]
        /\ auth' = [auth EXCEPT ![s] = a]
        /\ persist_lockout(a)
        /\ BeginSave(s)
        /\ ForgetGuesses(s, {"USER"})
        /\ UNCHANGED stateFile

KeyNotRewrapped(p, old, new, failed) == p

\* rewrap_object_key: the wrapped key opens only with the PIN it was wrapped
\* under; when it does not, the error is logged and the PIN changes anyway.
rewrap_object_key(p, old, new, failed) ==
    IF p.salt /\ p.wrapped = old /\ ~failed
    THEN [p EXCEPT !.wrapped = new]
    ELSE p

\* set_pin acts on the PIN of the role that is logged in.
set_pin_rejected(s, old, new) ==
    LET r == auth[s].login
        a == CountFailure(auth[s], r)
    IN  /\ ~saving[s]
        /\ new \in ValidPins
        /\ r \in Roles
        /\ ~auth[s].locked[r]
        /\ ~auth[s].wait[r]
        /\ pins[s].hash[r] # NoPin
        /\ ~verify_pin(s, r, old)
        /\ auth' = [auth EXCEPT ![s] = a]
        /\ persist_lockout(a)
        /\ CountGuess(s, r)
        /\ UNCHANGED <<pins, saving, stateFile>>

set_pin(s, old, new) ==
    LET r == auth[s].login
        a == ClearFailures(auth[s], r)
        changed == [pins[s] EXCEPT !.hash[r] = new]
    IN  /\ ~saving[s]
        /\ new \in ValidPins
        /\ r \in Roles
        /\ ~auth[s].locked[r]
        /\ ~auth[s].wait[r]
        /\ pins[s].hash[r] # NoPin
        /\ verify_pin(s, r, old)
        /\ auth' = [auth EXCEPT ![s] = a]
        /\ persist_lockout(a)
        /\ \E failed \in FaultChoice :
              pins' = [pins EXCEPT ![s] =
                         IF r = "USER"
                         THEN rewrap_object_key(changed, old, new, failed)
                         ELSE changed]
        /\ BeginSave(s)
        /\ ForgetGuesses(s, {r})
        /\ UNCHANGED stateFile

\* What login checks before it looks at the PIN.
LoginAllowed(s, r) ==
    /\ ~saving[s]
    /\ auth[s].initialized
    /\ auth[s].login = "Public"
    /\ r = "USER" => auth[s].userInit
    /\ ~auth[s].wait[r]
    /\ pins[s].hash[r] # NoPin
    /\ ~auth[s].locked[r]

login_rejected(s, r, pin) ==
    LET a == CountFailure(auth[s], r)
    IN  /\ LoginAllowed(s, r)
        /\ ~verify_pin(s, r, pin)
        /\ auth' = [auth EXCEPT ![s] = a]
        /\ persist_lockout(a)
        /\ CountGuess(s, r)
        /\ UNCHANGED <<pins, saving, stateFile>>

login(s, r, pin) ==
    LET a == ClearFailures(auth[s], r)
    IN  /\ LoginAllowed(s, r)
        /\ verify_pin(s, r, pin)
        /\ auth' = [auth EXCEPT ![s] = [a EXCEPT !.login = r]]
        /\ persist_lockout(a)
        /\ ForgetGuesses(s, {r})
        /\ UNCHANGED <<pins, saving, stateFile>>

LogoutOf(a) == [a EXCEPT !.login = "Public",
                         !.failed = [r \in Roles |-> 0],
                         !.wait = [r \in Roles |-> FALSE]]

logout_unlocking(s) ==
    LET a == [LogoutOf(auth[s]) EXCEPT !.locked = NoLockoutData.locked]
    IN  /\ ~saving[s]
        /\ auth[s].login # "Public"
        /\ auth' = [auth EXCEPT ![s] = a]
        /\ persist_lockout(a)
        /\ ForgetGuesses(s, Roles)
        /\ UNCHANGED <<pins, saving, stateFile>>

\* Failure counts and backoff of both roles go; locks stay.
logout(s) ==
    LET a == LogoutOf(auth[s])
    IN  /\ ~saving[s]
        /\ auth[s].login # "Public"
        /\ auth' = [auth EXCEPT ![s] = a]
        /\ persist_lockout(a)
        /\ ForgetGuesses(s, Roles)
        /\ UNCHANGED <<pins, saving, stateFile>>

persist_without_key(s) ==
    /\ saving[s]
    /\ stateFile' = [stateFile EXCEPT ![s] =
                       [status |-> "ok",
                        data |-> TokenStateOf(auth[s], [pins[s] EXCEPT
                                                          !.wrapped = NoPin])]]
    /\ saving' = [saving EXCEPT ![s] = FALSE]
    /\ UNCHANGED <<auth, pins, lockoutFile, guesses>>

\* TokenStateStore::save (temp file, fsync, rename), then the mutex is freed.
persist_token_state(s) ==
    /\ saving[s]
    /\ \E failed \in FaultChoice :
          stateFile' = IF failed THEN stateFile
                       ELSE [stateFile EXCEPT ![s] =
                               [status |-> "ok",
                                data |-> TokenStateOf(auth[s], pins[s])]]
    /\ saving' = [saving EXCEPT ![s] = FALSE]
    /\ UNCHANGED <<auth, pins, lockoutFile, guesses>>

\* Instant::now() passes a deadline.
backoff_expires(s, r) ==
    /\ auth[s].wait[r]
    /\ auth' = [auth EXCEPT ![s].wait[r] = FALSE]
    /\ UNCHANGED <<pins, saving, lockoutFile, stateFile, guesses>>

init_backoff_expires(s) ==
    /\ auth[s].initWait
    /\ auth' = [auth EXCEPT ![s].initWait = FALSE]
    /\ UNCHANGED <<pins, saving, lockoutFile, stateFile, guesses>>

-----------------------------------------------------------------------------
(* The environment: crashes and damaged files                              *)

\* The process dies, at any point of any method, and is started again.
Restart ==
    /\ auth' = [s \in Slots |-> LoadedAuth(lockoutFile, stateFile[s])]
    /\ pins' = [s \in Slots |-> LoadTokenState(stateFile[s]).creds]
    /\ saving' = [s \in Slots |-> FALSE]
    /\ UNCHANGED <<lockoutFile, stateFile, guesses>>

\* The lockout file becomes unreadable or unparsable.
CorruptLockout ==
    /\ Faults
    /\ lockoutFile' = [status |-> "corrupt", data |-> NoLockoutData]
    /\ UNCHANGED <<auth, pins, saving, stateFile, guesses>>

\* The token-state file as one that no longer parses, or, when it still does,
\* with one hexadecimal field that no longer decodes.
Damaged(f) ==
    LET c == f.data.creds
    IN  {[status |-> "corrupt", data |-> NoTokenState]} \cup
        IF f.status # "ok" THEN {}
        ELSE {[f EXCEPT !.data.creds = d] :
                d \in {[c EXCEPT !.hash["SO"] = NoPin],
                       [c EXCEPT !.hash["USER"] = NoPin],
                       [c EXCEPT !.salt = FALSE],
                       [c EXCEPT !.wrapped = NoPin]}}

CorruptTokenState(s) ==
    /\ Faults
    /\ \E f \in Damaged(stateFile[s]) :
          stateFile' = [stateFile EXCEPT ![s] = f]
    /\ UNCHANGED <<auth, pins, saving, lockoutFile, guesses>>

Method(s) ==
    \/ \E pin \in Pins : \/ init_token_rejected(s, pin)
                         \/ init_token(s, pin)
                         \/ init_pin(s, pin)
    \/ \E old, new \in Pins : \/ set_pin_rejected(s, old, new)
                              \/ set_pin(s, old, new)
    \/ \E r \in Roles, pin \in Pins : \/ login_rejected(s, r, pin)
                                      \/ login(s, r, pin)
    \/ logout(s)
    \/ persist_token_state(s)
    \/ \E r \in Roles : backoff_expires(s, r)
    \/ init_backoff_expires(s)
    \/ CorruptTokenState(s)

Next == (\E s \in Slots : Method(s)) \/ Restart \/ CorruptLockout

Spec == Init /\ [][Next]_vars

-----------------------------------------------------------------------------
(* Properties                                                              *)

StateConsistent(d) ==
    /\ d.initialized => d.creds.hash["SO"] # NoPin
    /\ d.userInit => d.creds.hash["USER"] # NoPin
    /\ d.userInit => d.initialized \/ d.creds.hash["SO"] = NoPin

(* Flags and PIN hashes agree, in memory and through every reload of the   *)
(* token-state file, a stale one, an unparsable one and one with a field   *)
(* that no longer decodes included: a role counts as having a PIN only     *)
(* when its hash is there, only an initialized token has a logged-in role, *)
(* and a token with a user PIN that is not initialized is one whose file   *)
(* lost the SO hash.                                                       *)
AuthConsistent ==
    \A s \in Slots :
        /\ StateConsistent(TokenStateOf(auth[s], pins[s]))
        /\ auth[s].login # "Public" => auth[s].initialized
        /\ auth[s].login = "USER" => auth[s].userInit

(* Failing closed: after lost writes, stale files, and files that cannot   *)
(* be read or parsed, a role whose failure count is at the limit is locked,*)
(* so no further attempt is answered.                                      *)
LimitEnforced ==
    \A s \in Slots, r \in Roles :
        LimitReached(auth[s].failed[r]) => auth[s].locked[r]

(* At every instant, and so at every crash point, the lockout file reloads *)
(* to exactly the counters and locks in memory: a restart never gives back *)
(* an attempt (token.rs persists before it answers).                       *)
LockoutDurable ==
    \A s \in Slots : LoadLockout(lockoutFile) = LockoutOf(auth[s])

(* Whenever no method is between its two writes, the token-state file      *)
(* reloads to the flags, PIN hashes and wrapped key in memory.             *)
StateDurable ==
    \A s \in Slots :
        PersistObjects /\ ~saving[s] =>
            LoadTokenState(stateFile[s]) = TokenStateOf(auth[s], pins[s])

(* Across crashes and restarts at any point, login and set_pin tell a role *)
(* of at most max_failed_logins wrong PINs between two events that reset   *)
(* its count.  init_token counts the wrong SO PINs it answers separately   *)
(* and never locks, so those are not among them.                           *)
GuessesBounded ==
    \A s \in Slots, r \in Roles : guesses[s][r] <= MaxFailed

(* A lock is lifted only by a logged-in SO, and only for the user (init_pin),*)
(* or by a re-initialization, which wipes the user PIN; not by logout, a   *)
(* crash or a restart.                                                     *)
LockLiftedOnlyBySO ==
    [][\A s \in Slots, r \in Roles :
          auth[s].locked[r] /\ ~auth'[s].locked[r] =>
              \/ r = "USER" /\ auth[s].login = "SO"
              \/ pins'[s].hash["USER"] = NoPin]_vars

OpensWithUserPin(p) ==
    p.salt /\ p.wrapped # NoPin /\ p.wrapped = p.hash["USER"]

SavedCredentials(s) == LoadTokenState(stateFile[s]).creds

(* The object master key on disk stays openable with the user PIN on disk  *)
(* across every PIN change by the user and every crash: it is lost only    *)
(* when a logged-in SO sets the PIN or the token is re-initialized.        *)
ObjectKeyFollowsPin ==
    [][\A s \in Slots :
          /\ OpensWithUserPin(SavedCredentials(s))
          /\ ~OpensWithUserPin(SavedCredentials(s)')
          => auth[s].login = "SO" \/ SavedCredentials(s)'.wrapped = NoPin]_vars
=============================================================================

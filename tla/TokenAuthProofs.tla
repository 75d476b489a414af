-------------------------- MODULE TokenAuthProofs --------------------------
(***************************************************************************)
(* Proofs about TokenAuth for every set of slots and PINs, every limit and *)
(* every counter width.                                                    *)
(***************************************************************************)
EXTENDS TokenAuth, TLAPS

(* Loading either file, whatever happened to it, yields well-typed data.   *)
LEMMA LoadTypes ==
    ASSUME NEW lf \in LockoutFile, NEW sf \in StateFile
    PROVE  /\ LoadLockout(lf) \in LockoutData
           /\ LoadTokenState(sf) \in TokenStateData
<1>1. NoLockoutData \in LockoutData /\ LockedOutData \in LockoutData
  BY CounterAssumption
  DEF NoLockoutData, LockedOutData, LockoutData, Roles, Counter
<1>2. LoadLockout(lf) \in LockoutData
  BY <1>1 DEF LoadLockout, LockoutFile, FileStatus
<1>3. NoTokenState \in TokenStateData
  BY DEF NoTokenState, NoCredentials, TokenStateData, Credentials
<1>4. LoadTokenState(sf) \in TokenStateData
  BY <1>3 DEF LoadTokenState, StateFile, TokenStateData, Credentials
<1> QED BY <1>2, <1>4

(* What the methods compute from an AuthState is an AuthState: counters    *)
(* stay within their width because Inc wraps.                              *)
LEMMA AuthTypes ==
    ASSUME NEW a \in AuthState, NEW r \in Roles
    PROVE  /\ CountFailure(a, r) \in AuthState
           /\ CountInitFailure(a) \in AuthState
           /\ ClearFailures(a, r) \in AuthState
           /\ LogoutOf(a) \in AuthState
           /\ [a EXCEPT !.wait[r] = FALSE] \in AuthState
           /\ [a EXCEPT !.initWait = FALSE] \in AuthState
           /\ LockoutOf(a) \in LockoutData
<1> USE DEF AuthState
<1>1. \A n \in Counter : Inc(n) \in Counter
  BY CounterAssumption DEF Inc, Counter
<1>2. CountFailure(a, r) \in AuthState
  <2>1. /\ a.failed[r] \in Counter
        /\ Inc(a.failed[r]) \in Counter
        /\ (a.locked[r] \/ LimitReached(Inc(a.failed[r]))) \in BOOLEAN
    BY <1>1 DEF LimitReached
  <2> QED BY <2>1 DEF CountFailure
<1>3. CountInitFailure(a) \in AuthState
  BY <1>1 DEF CountInitFailure
<1>4. 0 \in Counter
  BY CounterAssumption DEF Counter
<1>5. ClearFailures(a, r) \in AuthState
  BY <1>4 DEF ClearFailures
<1>6. LogoutOf(a) \in AuthState
  BY <1>4 DEF LogoutOf, LoginState
<1>7. LockoutOf(a) \in LockoutData
  BY DEF LockoutOf, LockoutData
<1> QED BY <1>2, <1>3, <1>5, <1>6, <1>7

(* Counting and expiring leave login state and flags alone.               *)
LEMMA AuthFrames ==
    ASSUME NEW a \in AuthState, NEW r \in Roles
    PROVE  \A b \in {CountFailure(a, r), CountInitFailure(a),
                     ClearFailures(a, r), [a EXCEPT !.wait[r] = FALSE],
                     [a EXCEPT !.initWait = FALSE]} :
              /\ b.login = a.login
              /\ b.initialized = a.initialized
              /\ b.userInit = a.userInit
  BY DEF CountFailure, CountInitFailure, ClearFailures, AuthState

\* States without a PIN and without failures.
LEMMA FreshTypes ==
    /\ FreshAuth \in AuthState
    /\ NoCredentials \in Credentials
    /\ NoLockoutData \in LockoutData
    /\ NoTokenState \in TokenStateData
<1>1. 0 \in Counter
  BY CounterAssumption DEF Counter
<1> QED
  BY <1>1 DEF FreshAuth, AuthState, LoginState, NoCredentials, Credentials,
              NoLockoutData, LockoutData, NoTokenState, TokenStateData, Roles

(* Each disk write leaves a well-typed lockout file.                       *)
LEMMA PersistType ==
    ASSUME NEW a \in AuthState, lockoutFile \in LockoutFile,
           persist_lockout(a) \/ reset_lockout_file
    PROVE  lockoutFile' \in LockoutFile
<1>1. CASE persist_lockout(a)
  <2>1. LockoutOf(a) \in LockoutData
    BY AuthTypes DEF Roles
  <2> QED BY <1>1, <2>1 DEF persist_lockout, LockoutFile, FileStatus
<1>2. CASE reset_lockout_file
  <2>1. LockoutOf([failed |-> NoLockoutData.failed, failedInit |-> 0,
                   locked |-> NoLockoutData.locked]) \in LockoutData
    BY FreshTypes, CounterAssumption
    DEF LockoutOf, LockoutData, NoLockoutData, Counter
  <2> QED BY <1>2, <2>1, FreshTypes
          DEF reset_lockout_file, persist_lockout, LockoutFile, FileStatus
<1> QED BY <1>1, <1>2

\* Types hold at first.
LEMMA InitType == Init => TypeOK
  BY FreshTypes DEF Init, TypeOK, LockoutFile, StateFile, FileStatus

(* What the credential helpers return.                                     *)
LEMMA CredentialTypes ==
    ASSUME NEW p \in Credentials, NEW old \in Pins, NEW new \in Pins,
           NEW failed \in BOOLEAN, NEW r \in Roles
    PROVE  /\ [p EXCEPT !.hash[r] = new] \in Credentials
           /\ provision_object_key(p, new, failed) \in Credentials
           /\ rewrap_object_key(p, old, new, failed) \in Credentials
           /\ [NoCredentials EXCEPT !.hash[r] = new] \in Credentials
  BY FreshTypes DEF Credentials, provision_object_key, rewrap_object_key

(* What damage leaves of a token-state file.                              *)
LEMMA DamagedType ==
    ASSUME NEW file \in StateFile, NEW f \in Damaged(file)
    PROVE  f \in StateFile
<1> DEFINE c == file.data.creds
<1>1. CASE f = [status |-> "corrupt", data |-> NoTokenState]
  BY <1>1, FreshTypes DEF StateFile, FileStatus
<1>2. ASSUME NEW d \in Credentials, f = [file EXCEPT !.data.creds = d]
      PROVE  f \in StateFile
  BY <1>2 DEF StateFile, TokenStateData
<1>3. /\ c \in Credentials
      /\ [c EXCEPT !.hash["SO"] = NoPin] \in Credentials
      /\ [c EXCEPT !.hash["USER"] = NoPin] \in Credentials
      /\ [c EXCEPT !.salt = FALSE] \in Credentials
      /\ [c EXCEPT !.wrapped = NoPin] \in Credentials
  BY DEF StateFile, TokenStateData, Credentials, Roles
<1> QED BY <1>1, <1>2, <1>3 DEF Damaged

\* Recording and forgetting answered wrong PINs.
LEMMA GuessTypes ==
    ASSUME NEW s \in Slots, NEW r \in Roles, NEW rs,
           guesses \in [Slots -> [Roles -> Nat]],
           CountGuess(s, r) \/ ForgetGuesses(s, rs)
    PROVE  guesses' \in [Slots -> [Roles -> Nat]]
  BY DEF CountGuess, ForgetGuesses

\* A write fails or does not.
LEMMA FaultType == FaultChoice \subseteq BOOLEAN
  BY DEF FaultChoice

(* Every step keeps the types: in particular the u32 counters stay within  *)
(* their width and no record gains a PIN no caller presented.              *)
LEMMA NextType == TypeOK /\ [Next]_vars => TypeOK'
<1> SUFFICES ASSUME TypeOK, [Next]_vars PROVE TypeOK'
  OBVIOUS
<1> USE DEF TypeOK
<1>s. "USER" \in Roles /\ "SO" \in Roles
  BY DEF Roles
<1>pv. ValidPins \subseteq Pins /\ PersistObjects \in BOOLEAN
  BY PinAssumption, FlagAssumption
<1>1. ASSUME NEW s \in Slots, NEW pin \in Pins, init_token_rejected(s, pin)
      PROVE  TypeOK'
  <2>1. CountInitFailure(auth[s]) \in AuthState
    BY AuthTypes, <1>s
  <2> QED BY <1>1, <2>1, PersistType DEF init_token_rejected
<1>2. ASSUME NEW s \in Slots, NEW pin \in Pins, init_token(s, pin)
      PROVE  TypeOK'
  <2>1. [reset_for_init(auth[s]) EXCEPT !.initialized = TRUE] \in AuthState
    BY FreshTypes DEF reset_for_init, AuthState
  <2>2. [NoCredentials EXCEPT !.hash["SO"] = pin] \in Credentials
    BY FreshTypes, <1>s DEF Credentials
  <2>3. lockoutFile' \in LockoutFile
    BY <1>2, <2>1, PersistType DEF init_token
  <2>4. guesses' \in [Slots -> [Roles -> Nat]]
    BY <1>2, <1>s, GuessTypes DEF init_token
  <2> QED BY <1>2, <1>pv, <2>1, <2>2, <2>3, <2>4 DEF init_token, BeginSave
<1>3. ASSUME NEW s \in Slots, NEW pin \in Pins, init_pin(s, pin)
      PROVE  TypeOK'
  <2> DEFINE a == [ClearFailures(auth[s], "USER")
                     EXCEPT !.userInit = TRUE, !.locked["USER"] = FALSE]
  <2>1. a \in AuthState
    <3>1. ClearFailures(auth[s], "USER") \in AuthState
      BY AuthTypes, <1>s
    <3> QED BY <3>1, <1>s DEF AuthState
  <2>2. pins' \in [Slots -> Credentials]
    <3>1. PICK failed \in FaultChoice :
            pins' = [pins EXCEPT ![s] =
                       provision_object_key([@ EXCEPT !.hash["USER"] = pin],
                                            pin, failed)]
      BY <1>3 DEF init_pin
    <3>2. [pins[s] EXCEPT !.hash["USER"] = pin] \in Credentials
      BY <1>s DEF Credentials
    <3>3. provision_object_key([pins[s] EXCEPT !.hash["USER"] = pin],
                               pin, failed) \in Credentials
      BY <3>2, FaultType, CredentialTypes, <1>s
    <3> QED BY <3>1, <3>3
  <2>3. lockoutFile' \in LockoutFile
    BY <1>3, <2>1, PersistType DEF init_pin
  <2>4. guesses' \in [Slots -> [Roles -> Nat]]
    BY <1>3, <1>s, GuessTypes DEF init_pin
  <2> QED BY <1>3, <1>pv, <2>1, <2>2, <2>3, <2>4 DEF init_pin, BeginSave
<1>4. ASSUME NEW s \in Slots, NEW old \in Pins, NEW new \in Pins,
             set_pin_rejected(s, old, new)
      PROVE  TypeOK'
  <2>1. auth[s].login \in Roles /\ CountFailure(auth[s], auth[s].login) \in AuthState
    BY <1>4, AuthTypes DEF set_pin_rejected
  <2>2. lockoutFile' \in LockoutFile
    BY <1>4, <2>1, PersistType DEF set_pin_rejected
  <2>3. guesses' \in [Slots -> [Roles -> Nat]]
    BY <1>4, <2>1, GuessTypes DEF set_pin_rejected
  <2> QED BY <1>4, <2>1, <2>2, <2>3 DEF set_pin_rejected
<1>5. ASSUME NEW s \in Slots, NEW old \in Pins, NEW new \in Pins,
             set_pin(s, old, new)
      PROVE  TypeOK'
  <2> DEFINE r == auth[s].login
             changed == [pins[s] EXCEPT !.hash[r] = new]
  <2>1. r \in Roles /\ ClearFailures(auth[s], r) \in AuthState
    BY <1>5, AuthTypes DEF set_pin
  <2>2. pins' \in [Slots -> Credentials]
    <3>1. PICK failed \in FaultChoice :
            pins' = [pins EXCEPT ![s] =
                       IF r = "USER"
                       THEN rewrap_object_key(changed, old, new, failed)
                       ELSE changed]
      BY <1>5 DEF set_pin
    <3>2. changed \in Credentials
      BY <2>1, CredentialTypes, FaultType
    <3>3. rewrap_object_key(changed, old, new, failed) \in Credentials
      <4> HIDE DEF changed
      <4> QED BY <3>2, <2>1, FaultType, CredentialTypes
    <3> QED BY <3>1, <3>2, <3>3
  <2>3. lockoutFile' \in LockoutFile
    BY <1>5, <2>1, PersistType DEF set_pin
  <2>4. guesses' \in [Slots -> [Roles -> Nat]]
    BY <1>5, <2>1, GuessTypes DEF set_pin
  <2> QED BY <1>5, <1>pv, <2>1, <2>2, <2>3, <2>4 DEF set_pin, BeginSave
<1>6. ASSUME NEW s \in Slots, NEW r \in Roles, NEW pin \in Pins,
             login_rejected(s, r, pin)
      PROVE  TypeOK'
  <2>1. CountFailure(auth[s], r) \in AuthState
    BY AuthTypes
  <2> QED BY <1>6, <2>1, PersistType, GuessTypes DEF login_rejected
<1>7. ASSUME NEW s \in Slots, NEW r \in Roles, NEW pin \in Pins,
             login(s, r, pin)
      PROVE  TypeOK'
  <2>1. ClearFailures(auth[s], r) \in AuthState
    BY AuthTypes
  <2>2. [ClearFailures(auth[s], r) EXCEPT !.login = r] \in AuthState
    BY <2>1 DEF AuthState, LoginState
  <2>3. guesses' \in [Slots -> [Roles -> Nat]]
    BY <1>7, GuessTypes DEF login
  <2> QED BY <1>7, <2>1, <2>2, <2>3, PersistType DEF login
<1>8. ASSUME NEW s \in Slots, logout(s) PROVE TypeOK'
  <2>1. LogoutOf(auth[s]) \in AuthState
    BY AuthTypes, <1>s
  <2>2. guesses' \in [Slots -> [Roles -> Nat]]
    BY <1>8, <1>s, GuessTypes DEF logout
  <2> QED BY <1>8, <2>1, <2>2, PersistType DEF logout
<1>9. ASSUME NEW s \in Slots, persist_token_state(s) PROVE TypeOK'
  <2>1. TokenStateOf(auth[s], pins[s]) \in TokenStateData
    BY DEF TokenStateOf, TokenStateData, AuthState
  <2> QED BY <1>9, <2>1 DEF persist_token_state, StateFile, FileStatus
<1>10. ASSUME NEW s \in Slots, NEW r \in Roles, backoff_expires(s, r)
       PROVE  TypeOK'
  BY <1>10, AuthTypes DEF backoff_expires
<1>11. ASSUME NEW s \in Slots, init_backoff_expires(s) PROVE TypeOK'
  BY <1>11, <1>s, AuthTypes DEF init_backoff_expires
<1>12. ASSUME NEW s \in Slots, CorruptTokenState(s) PROVE TypeOK'
  <2>1. PICK f \in Damaged(stateFile[s]) :
          stateFile' = [stateFile EXCEPT ![s] = f]
    BY <1>12 DEF CorruptTokenState
  <2>2. f \in StateFile
    BY DamagedType
  <2> QED BY <1>12, <2>1, <2>2 DEF CorruptTokenState
<1>13. ASSUME Restart PROVE TypeOK'
  <2>1. ASSUME NEW s \in Slots
        PROVE  /\ LoadedAuth(lockoutFile, stateFile[s]) \in AuthState
               /\ LoadTokenState(stateFile[s]).creds \in Credentials
    BY LoadTypes, FreshTypes
    DEF LoadedAuth, AuthState, LockoutData, TokenStateData
  <2> QED BY <1>13, <2>1 DEF Restart
<1>14. ASSUME CorruptLockout PROVE TypeOK'
  BY <1>14, FreshTypes DEF CorruptLockout, LockoutFile, FileStatus
<1>15. CASE UNCHANGED vars
  BY <1>15 DEF vars
<1> QED
  BY <1>1, <1>2, <1>3, <1>4, <1>5, <1>6, <1>7, <1>8, <1>9, <1>10, <1>11,
     <1>12, <1>13, <1>14, <1>15 DEF Next, Method

(* Types hold in every reachable state, damaged files and lost writes      *)
(* included: every counter stays within the width of a u32.                *)
THEOREM TypeCorrect == Spec => []TypeOK
  BY InitType, NextType, PTL DEF Spec

-----------------------------------------------------------------------------
(* Consistency through arbitrary disk faults.  AuthConsistent and          *)
(* LimitEnforced speak of memory; what a restart loads must have the same  *)
(* shape, so the inductive invariant says it of the files as well.         *)

LockoutConsistent(d) ==
    \A r \in Roles : LimitReached(d.failed[r]) => d.locked[r]

\* A file may keep a flag whose hash is damaged: loading clears it.
FileConsistent(d) == d.userInit => d.initialized \/ d.creds.hash["SO"] = NoPin

FilesConsistent ==
    /\ \A s \in Slots : FileConsistent(stateFile[s].data)
    /\ LockoutConsistent(lockoutFile.data)

ConsistentInv == TypeOK /\ AuthConsistent /\ LimitEnforced /\ FilesConsistent

\* What an absent file loads as is consistent.
LEMMA FreshConsistent ==
    /\ StateConsistent(NoTokenState) /\ FileConsistent(NoTokenState)
    /\ LockoutConsistent(NoLockoutData)
  BY CounterAssumption
  DEF StateConsistent, FileConsistent, NoTokenState, NoCredentials, Roles, LockoutConsistent,
      NoLockoutData, LimitReached

(* Loading a consistent file, or replacing a damaged one by its defaults,  *)
(* gives consistent data: the defaults of the lockout file are all locked. *)
LEMMA LoadConsistent ==
    ASSUME NEW lf \in LockoutFile, NEW sf \in StateFile,
           FileConsistent(sf.data), LockoutConsistent(lf.data)
    PROVE  /\ StateConsistent(LoadTokenState(sf))
           /\ LockoutConsistent(LoadLockout(lf))
<1>1. StateConsistent(LoadTokenState(sf))
  BY FreshConsistent DEF LoadTokenState, StateConsistent, FileConsistent
<1>2. LockoutConsistent(LockedOutData)
  BY DEF LockoutConsistent, LockedOutData
<1>3. LockoutConsistent(LoadLockout(lf))
  BY <1>2, FreshConsistent DEF LoadLockout, LockoutFile, FileStatus
<1> QED BY <1>1, <1>3

(* Damage to a token-state file keeps what the loader builds on.           *)
LEMMA DamagedConsistent ==
    ASSUME NEW file \in StateFile, FileConsistent(file.data),
           NEW f \in Damaged(file)
    PROVE  FileConsistent(f.data)
<1> DEFINE c == file.data.creds
<1>1. CASE f = [status |-> "corrupt", data |-> NoTokenState]
  BY <1>1, FreshConsistent
<1>2. ASSUME NEW d \in Credentials, f = [file EXCEPT !.data.creds = d],
             d.hash["SO"] = c.hash["SO"] \/ d.hash["SO"] = NoPin
      PROVE  FileConsistent(f.data)
  <2>1. /\ f.data.creds = d /\ f.data.userInit = file.data.userInit
        /\ f.data.initialized = file.data.initialized
    BY <1>2 DEF StateFile, TokenStateData
  <2> QED BY <1>2, <2>1 DEF FileConsistent
<1>3. /\ c \in Credentials /\ "SO" \in Roles /\ "USER" \in Roles
      /\ "SO" # "USER"
  BY DEF StateFile, TokenStateData, Roles
<1>4. ASSUME NEW d \in {[c EXCEPT !.hash["SO"] = NoPin],
                        [c EXCEPT !.hash["USER"] = NoPin],
                        [c EXCEPT !.salt = FALSE],
                        [c EXCEPT !.wrapped = NoPin]}
      PROVE  /\ d \in Credentials
             /\ d.hash["SO"] = c.hash["SO"] \/ d.hash["SO"] = NoPin
  <2> HIDE DEF c
  <2> QED BY <1>3, <1>4 DEF Credentials
<1> QED BY <1>1, <1>2, <1>4 DEF Damaged

(* Counting a failure locks at the limit, and no other update of the       *)
(* counters lifts a lock that is needed.                                   *)
LEMMA CountingConsistent ==
    ASSUME NEW a \in AuthState, NEW r \in Roles,
           LockoutConsistent(LockoutOf(a))
    PROVE  /\ LockoutConsistent(LockoutOf(CountFailure(a, r)))
           /\ LockoutConsistent(LockoutOf(ClearFailures(a, r)))
           /\ LockoutConsistent(LockoutOf(LogoutOf(a)))
           /\ LockoutConsistent(LockoutOf(CountInitFailure(a)))
<1>0. ~LimitReached(0)
  BY CounterAssumption DEF LimitReached
<1>1. \A q \in Roles : LimitReached(a.failed[q]) => a.locked[q]
  BY DEF LockoutConsistent, LockoutOf
<1>2. LockoutConsistent(LockoutOf(CountFailure(a, r)))
  <2> SUFFICES ASSUME NEW q \in Roles,
                      LimitReached(CountFailure(a, r).failed[q])
               PROVE  CountFailure(a, r).locked[q]
    BY DEF LockoutConsistent, LockoutOf
  <2>1. CASE q = r
    BY <2>1 DEF CountFailure, AuthState
  <2>2. CASE q # r
    BY <2>2, <1>1 DEF CountFailure, AuthState
  <2> QED BY <2>1, <2>2
<1>3. LockoutConsistent(LockoutOf(ClearFailures(a, r)))
  BY <1>0, <1>1 DEF LockoutConsistent, LockoutOf, ClearFailures, AuthState
<1>4. LockoutConsistent(LockoutOf(LogoutOf(a)))
  BY <1>0 DEF LockoutConsistent, LockoutOf, LogoutOf, AuthState
<1>5. LockoutConsistent(LockoutOf(CountInitFailure(a)))
  BY <1>1 DEF LockoutConsistent, LockoutOf, CountInitFailure, AuthState
<1> QED BY <1>2, <1>3, <1>4, <1>5

\* Flags, hashes and files agree at first.
LEMMA InitConsistent == Init => ConsistentInv
<1> SUFFICES ASSUME Init PROVE ConsistentInv
  OBVIOUS
<1>1. TypeOK BY InitType
<1>2. \A s \in Slots : StateConsistent(TokenStateOf(auth[s], pins[s]))
  BY FreshConsistent DEF Init, TokenStateOf, FreshAuth, NoTokenState
<1>3. AuthConsistent
  BY <1>2 DEF Init, FreshAuth, AuthConsistent
<1>4. LimitEnforced
  BY CounterAssumption DEF Init, FreshAuth, LimitEnforced, LimitReached
<1>5. FilesConsistent
  BY FreshConsistent DEF Init, FilesConsistent
<1> QED BY <1>1, <1>3, <1>4, <1>5 DEF ConsistentInv

(* One method of slot s: it suffices that the new memory of the slot is    *)
(* consistent and that what it saves is the new counters.                  *)
LEMMA MethodConsistent ==
    ASSUME ConsistentInv, NEW s \in Slots,
           NEW a \in AuthState, NEW p \in Credentials,
           auth' = [auth EXCEPT ![s] = a], pins' = [pins EXCEPT ![s] = p],
           stateFile' = stateFile,
           LockoutConsistent(LockoutOf(a)),
           StateConsistent(TokenStateOf(a, p)),
           a.login # "Public" => a.initialized,
           a.login = "USER" => a.userInit,
           LockoutConsistent(lockoutFile'.data)
    PROVE  AuthConsistent' /\ LimitEnforced' /\ FilesConsistent'
<1> USE DEF ConsistentInv
<1>0. auth \in [Slots -> AuthState] /\ pins \in [Slots -> Credentials]
  BY DEF TypeOK
<1>1. AuthConsistent'
  <2> SUFFICES ASSUME NEW q \in Slots
               PROVE  /\ StateConsistent(TokenStateOf(auth'[q], pins'[q]))
                      /\ auth'[q].login # "Public" => auth'[q].initialized
                      /\ auth'[q].login = "USER" => auth'[q].userInit
    BY DEF AuthConsistent, StateConsistent, TokenStateOf
  <2>1. CASE q = s
    <3>1. auth'[q] = a /\ pins'[q] = p
      BY <2>1, <1>0
    <3> QED BY <3>1
  <2>2. CASE q # s
    <3>1. auth'[q] = auth[q] /\ pins'[q] = pins[q]
      BY <2>2, <1>0
    <3> QED BY <3>1 DEF AuthConsistent
  <2> QED BY <2>1, <2>2
<1>2. LimitEnforced'
  <2> SUFFICES ASSUME NEW q \in Slots, NEW r \in Roles,
                      LimitReached(auth'[q].failed[r])
               PROVE  auth'[q].locked[r]
    BY DEF LimitEnforced, LimitReached
  <2>1. CASE q = s
    BY <2>1, <1>0 DEF LockoutConsistent, LockoutOf
  <2>2. CASE q # s
    BY <2>2, <1>0 DEF LimitEnforced
  <2> QED BY <2>1, <2>2
<1>3. FilesConsistent'
  BY DEF FilesConsistent, LockoutConsistent, FileConsistent, LimitReached
<1> QED BY <1>1, <1>2, <1>3

\* A saved or lost write leaves consistent files.
LEMMA PersistConsistent ==
    ASSUME LockoutConsistent(lockoutFile.data), NEW a \in AuthState,
           LockoutConsistent(LockoutOf(a)),
           persist_lockout(a) \/ reset_lockout_file
    PROVE  LockoutConsistent(lockoutFile'.data)
<1>1. CASE persist_lockout(a)
  BY <1>1 DEF persist_lockout
<1>2. CASE reset_lockout_file
  <2>1. LockoutOf([failed |-> NoLockoutData.failed, failedInit |-> 0,
                   locked |-> NoLockoutData.locked]) = NoLockoutData
    BY DEF LockoutOf, NoLockoutData
  <2> QED BY <1>2, <2>1, FreshConsistent
          DEF reset_lockout_file, persist_lockout
<1> QED BY <1>1, <1>2

\* Every step, faults included, keeps them consistent.
LEMMA NextConsistent == ConsistentInv /\ [Next]_vars => ConsistentInv'
<1> SUFFICES ASSUME ConsistentInv, [Next]_vars PROVE ConsistentInv'
  OBVIOUS
<1>t. TypeOK /\ TypeOK'
  BY NextType DEF ConsistentInv
<1>f. LockoutConsistent(lockoutFile.data)
  BY DEF ConsistentInv, FilesConsistent
<1>s. "USER" \in Roles /\ "SO" \in Roles /\ Roles = {"USER", "SO"}
  BY DEF Roles
<1> SUFFICES AuthConsistent' /\ LimitEnforced' /\ FilesConsistent'
  BY <1>t DEF ConsistentInv
<1>m. ASSUME NEW s \in Slots
      PROVE  /\ auth[s] \in AuthState /\ pins[s] \in Credentials
             /\ LockoutConsistent(LockoutOf(auth[s]))
             /\ StateConsistent(TokenStateOf(auth[s], pins[s]))
             /\ auth[s].login # "Public" => auth[s].initialized
             /\ auth[s].login = "USER" => auth[s].userInit
             /\ pins = [pins EXCEPT ![s] = pins[s]]
  BY <1>t DEF ConsistentInv, TypeOK, AuthConsistent, LimitEnforced,
              LockoutConsistent, LockoutOf
<1>1. ASSUME NEW s \in Slots, NEW pin \in Pins, init_token_rejected(s, pin)
      PROVE  AuthConsistent' /\ LimitEnforced' /\ FilesConsistent'
  <2> DEFINE a == CountInitFailure(auth[s])
  <2>1. a \in AuthState /\ LockoutConsistent(LockoutOf(a))
    BY <1>m, <1>s, AuthTypes, CountingConsistent
  <2>2. /\ a.login = auth[s].login
        /\ a.initialized = auth[s].initialized
        /\ a.userInit = auth[s].userInit
    BY <1>m DEF CountInitFailure, AuthState
  <2>3. StateConsistent(TokenStateOf(a, pins[s]))
    BY <1>m, <2>2 DEF TokenStateOf
  <2>4. LockoutConsistent(lockoutFile'.data)
    BY <1>1, <1>f, <2>1, PersistConsistent DEF init_token_rejected
  <2>5. /\ auth' = [auth EXCEPT ![s] = a]
        /\ pins' = [pins EXCEPT ![s] = pins[s]] /\ stateFile' = stateFile
    BY <1>1, <1>m DEF init_token_rejected
  <2> HIDE DEF a
  <2> QED BY <1>m, <2>1, <2>2, <2>3, <2>4, <2>5, MethodConsistent
<1>2. ASSUME NEW s \in Slots, NEW pin \in Pins, init_token(s, pin)
      PROVE  AuthConsistent' /\ LimitEnforced' /\ FilesConsistent'
  <2> DEFINE a == [reset_for_init(auth[s]) EXCEPT !.initialized = TRUE]
             p == [NoCredentials EXCEPT !.hash["SO"] = pin]
  <2>1. a \in AuthState /\ p \in Credentials
    BY FreshTypes, <1>s DEF reset_for_init, AuthState, Credentials
  <2>2. /\ a.login = "Public" /\ a.initialized /\ ~a.userInit
        /\ LockoutOf(a) = NoLockoutData
    BY DEF reset_for_init, FreshAuth, LockoutOf, NoLockoutData
  <2>3. LockoutConsistent(LockoutOf(a))
    BY <2>2, FreshConsistent
  <2>4. StateConsistent(TokenStateOf(a, p))
    <3>1. p.hash["SO"] = pin /\ pin # NoPin
      BY <1>s, PinAssumption DEF NoCredentials
    <3> QED BY <2>2, <3>1 DEF TokenStateOf, StateConsistent
  <2>5. LockoutConsistent(lockoutFile'.data)
    BY <1>2, <1>f, <2>1, <2>3, PersistConsistent DEF init_token
  <2>6. /\ auth' = [auth EXCEPT ![s] = a]
        /\ pins' = [pins EXCEPT ![s] = p] /\ stateFile' = stateFile
    BY <1>2 DEF init_token
  <2> HIDE DEF a, p
  <2> QED BY <2>1, <2>2, <2>3, <2>4, <2>5, <2>6, MethodConsistent
<1>3. ASSUME NEW s \in Slots, NEW pin \in Pins, init_pin(s, pin)
      PROVE  AuthConsistent' /\ LimitEnforced' /\ FilesConsistent'
  <2> DEFINE c == ClearFailures(auth[s], "USER")
             a == [c EXCEPT !.userInit = TRUE, !.locked["USER"] = FALSE]
             h == [pins[s] EXCEPT !.hash["USER"] = pin]
  <2>1. PICK failed \in FaultChoice :
          pins' = [pins EXCEPT ![s] = provision_object_key(h, pin, failed)]
    BY <1>3 DEF init_pin
  <2> DEFINE p == provision_object_key(h, pin, failed)
  <2>2. c \in AuthState
    BY <1>m, <1>s, AuthTypes
  <2>3. /\ a \in AuthState
        /\ a.login = "SO" /\ a.initialized /\ a.userInit
        /\ a.failed["USER"] = 0 /\ a.failed["SO"] = auth[s].failed["SO"]
        /\ a.locked["SO"] = auth[s].locked["SO"]
    BY <1>3, <1>m, <1>s, <2>2 DEF ClearFailures, AuthState, init_pin
  <2>4. LockoutConsistent(LockoutOf(a))
    BY <1>m, <1>s, <2>3, CounterAssumption
    DEF LockoutConsistent, LockoutOf, LimitReached
  <2>5. /\ h \in Credentials /\ p \in Credentials
        /\ p.hash["USER"] = pin /\ p.hash["SO"] = pins[s].hash["SO"]
    BY <1>m, <1>s DEF Credentials, provision_object_key
  <2>6. StateConsistent(TokenStateOf(a, p))
    BY <1>m, <2>3, <2>5, PinAssumption, <1>3
    DEF TokenStateOf, StateConsistent, init_pin
  <2>7. LockoutConsistent(lockoutFile'.data)
    BY <1>3, <1>f, <2>3, <2>4, PersistConsistent DEF init_pin
  <2>8. auth' = [auth EXCEPT ![s] = a] /\ stateFile' = stateFile
    BY <1>3 DEF init_pin
  <2>9. pins' = [pins EXCEPT ![s] = p]
    BY <2>1
  <2> HIDE DEF a, p
  <2> QED BY <2>3, <2>4, <2>5, <2>6, <2>7, <2>8, <2>9, MethodConsistent
<1>4. ASSUME NEW s \in Slots, NEW old \in Pins, NEW new \in Pins,
             set_pin_rejected(s, old, new)
      PROVE  AuthConsistent' /\ LimitEnforced' /\ FilesConsistent'
  <2> DEFINE a == CountFailure(auth[s], auth[s].login)
  <2>1. auth[s].login \in Roles
    BY <1>4 DEF set_pin_rejected
  <2>2. a \in AuthState /\ LockoutConsistent(LockoutOf(a))
    BY <1>m, <2>1, AuthTypes, CountingConsistent
  <2>3. /\ a.login = auth[s].login
        /\ a.initialized = auth[s].initialized
        /\ a.userInit = auth[s].userInit
    BY <1>m DEF CountFailure, AuthState
  <2>4. StateConsistent(TokenStateOf(a, pins[s]))
    BY <1>m, <2>3 DEF TokenStateOf
  <2>5. LockoutConsistent(lockoutFile'.data)
    BY <1>4, <1>f, <2>2, PersistConsistent DEF set_pin_rejected
  <2>6. /\ auth' = [auth EXCEPT ![s] = a]
        /\ pins' = [pins EXCEPT ![s] = pins[s]] /\ stateFile' = stateFile
    BY <1>4, <1>m DEF set_pin_rejected
  <2> HIDE DEF a
  <2> QED BY <1>m, <2>2, <2>3, <2>4, <2>5, <2>6, MethodConsistent
<1>5. ASSUME NEW s \in Slots, NEW old \in Pins, NEW new \in Pins,
             set_pin(s, old, new)
      PROVE  AuthConsistent' /\ LimitEnforced' /\ FilesConsistent'
  <2> DEFINE r == auth[s].login
             a == ClearFailures(auth[s], r)
             h == [pins[s] EXCEPT !.hash[r] = new]
  <2>1. r \in Roles
    BY <1>5 DEF set_pin
  <2>2. PICK failed \in FaultChoice :
          pins' = [pins EXCEPT ![s] =
                     IF r = "USER" THEN rewrap_object_key(h, old, new, failed)
                     ELSE h]
    BY <1>5 DEF set_pin
  <2> DEFINE p == IF r = "USER" THEN rewrap_object_key(h, old, new, failed)
                  ELSE h
  <2>3. a \in AuthState /\ LockoutConsistent(LockoutOf(a))
    BY <1>m, <2>1, AuthTypes, CountingConsistent
  <2>4. /\ a.login = auth[s].login
        /\ a.initialized = auth[s].initialized
        /\ a.userInit = auth[s].userInit
    BY <1>m DEF ClearFailures, AuthState
  <2>5. /\ h \in Credentials
        /\ \A q \in Roles : pins[s].hash[q] # NoPin => h.hash[q] # NoPin
        /\ pins[s].hash["SO"] = NoPin => h.hash["SO"] = NoPin
    BY <1>5, <1>m, <1>s, <2>1, PinAssumption DEF Credentials, set_pin
  <2>6. /\ p \in Credentials
        /\ \A q \in Roles : pins[s].hash[q] # NoPin => p.hash[q] # NoPin
        /\ pins[s].hash["SO"] = NoPin => p.hash["SO"] = NoPin
    <3> HIDE DEF h, r
    <3>1. p = h \/ (h.wrapped = old /\ p = [h EXCEPT !.wrapped = new])
      BY DEF rewrap_object_key
    <3> HIDE DEF p
    <3>2. CASE p = h
      BY <3>2, <2>5
    <3>3. CASE h.wrapped = old /\ p = [h EXCEPT !.wrapped = new]
      BY <3>3, <2>5 DEF Credentials
    <3> QED BY <3>1, <3>2, <3>3
  <2>7. StateConsistent(TokenStateOf(a, p))
    <3> HIDE DEF a, p
    <3> QED BY <1>m, <1>s, <2>4, <2>6, PinAssumption
            DEF TokenStateOf, StateConsistent
  <2>8. LockoutConsistent(lockoutFile'.data)
    BY <1>5, <1>f, <2>3, PersistConsistent DEF set_pin
  <2>9. auth' = [auth EXCEPT ![s] = a] /\ stateFile' = stateFile
    BY <1>5 DEF set_pin
  <2>10. pins' = [pins EXCEPT ![s] = p]
    BY <2>2
  <2> HIDE DEF a, p
  <2> QED BY <1>m, <2>3, <2>4, <2>6, <2>7, <2>8, <2>9, <2>10, MethodConsistent
<1>6. ASSUME NEW s \in Slots, NEW r \in Roles, NEW pin \in Pins,
             login_rejected(s, r, pin)
      PROVE  AuthConsistent' /\ LimitEnforced' /\ FilesConsistent'
  <2> DEFINE a == CountFailure(auth[s], r)
  <2>1. a \in AuthState /\ LockoutConsistent(LockoutOf(a))
    BY <1>m, AuthTypes, CountingConsistent
  <2>2. /\ a.login = auth[s].login
        /\ a.initialized = auth[s].initialized
        /\ a.userInit = auth[s].userInit
    BY <1>m DEF CountFailure, AuthState
  <2>3. StateConsistent(TokenStateOf(a, pins[s]))
    BY <1>m, <2>2 DEF TokenStateOf
  <2>4. LockoutConsistent(lockoutFile'.data)
    BY <1>6, <1>f, <2>1, PersistConsistent DEF login_rejected
  <2>5. /\ auth' = [auth EXCEPT ![s] = a]
        /\ pins' = [pins EXCEPT ![s] = pins[s]] /\ stateFile' = stateFile
    BY <1>6, <1>m DEF login_rejected
  <2> HIDE DEF a
  <2> QED BY <1>m, <2>1, <2>2, <2>3, <2>4, <2>5, MethodConsistent
<1>7. ASSUME NEW s \in Slots, NEW r \in Roles, NEW pin \in Pins,
             login(s, r, pin)
      PROVE  AuthConsistent' /\ LimitEnforced' /\ FilesConsistent'
  <2> DEFINE c == ClearFailures(auth[s], r)
             a == [c EXCEPT !.login = r]
  <2>1. c \in AuthState /\ LockoutConsistent(LockoutOf(c))
    BY <1>m, AuthTypes, CountingConsistent
  <2>2. /\ a \in AuthState /\ LockoutOf(a) = LockoutOf(c)
        /\ a.login = r /\ a.initialized = c.initialized
        /\ a.userInit = c.userInit
    <3> HIDE DEF c
    <3> QED BY <2>1 DEF AuthState, LoginState, LockoutOf
  <2>3. /\ c.initialized = auth[s].initialized
        /\ c.userInit = auth[s].userInit
    BY <1>m DEF ClearFailures, AuthState
  <2>4. StateConsistent(TokenStateOf(a, pins[s]))
    <3> HIDE DEF a, c
    <3> QED BY <1>m, <2>2, <2>3 DEF TokenStateOf
  <2>5. a.initialized /\ (a.login = "USER" => a.userInit)
    <3> HIDE DEF a, c
    <3>1. auth[s].initialized /\ (r = "USER" => auth[s].userInit)
      BY <1>7 DEF login, LoginAllowed
    <3> QED BY <2>2, <2>3, <3>1
  <2>6. LockoutConsistent(lockoutFile'.data)
    BY <1>7, <1>f, <2>1, PersistConsistent DEF login
  <2>7. /\ auth' = [auth EXCEPT ![s] = a]
        /\ pins' = [pins EXCEPT ![s] = pins[s]] /\ stateFile' = stateFile
    BY <1>7, <1>m DEF login
  <2> HIDE DEF a, c
  <2> QED BY <1>m, <2>1, <2>2, <2>4, <2>5, <2>6, <2>7, MethodConsistent
<1>8. ASSUME NEW s \in Slots, logout(s)
      PROVE  AuthConsistent' /\ LimitEnforced' /\ FilesConsistent'
  <2> DEFINE a == LogoutOf(auth[s])
  <2>1. a \in AuthState /\ LockoutConsistent(LockoutOf(a))
    BY <1>m, <1>s, AuthTypes, CountingConsistent
  <2>2. /\ a.login = "Public"
        /\ a.initialized = auth[s].initialized
        /\ a.userInit = auth[s].userInit
    BY <1>m DEF LogoutOf, AuthState
  <2>3. StateConsistent(TokenStateOf(a, pins[s]))
    BY <1>m, <2>2 DEF TokenStateOf
  <2>4. LockoutConsistent(lockoutFile'.data)
    BY <1>8, <1>f, <2>1, PersistConsistent DEF logout
  <2>5. /\ auth' = [auth EXCEPT ![s] = a]
        /\ pins' = [pins EXCEPT ![s] = pins[s]] /\ stateFile' = stateFile
    BY <1>8, <1>m DEF logout
  <2> HIDE DEF a
  <2> QED BY <1>m, <2>1, <2>2, <2>3, <2>4, <2>5, MethodConsistent
<1>9. ASSUME NEW s \in Slots, persist_token_state(s)
      PROVE  AuthConsistent' /\ LimitEnforced' /\ FilesConsistent'
  <2>1. auth' = auth /\ pins' = pins /\ lockoutFile' = lockoutFile
    BY <1>9 DEF persist_token_state
  <2>2. AuthConsistent' /\ LimitEnforced'
    BY <2>1 DEF ConsistentInv, AuthConsistent, StateConsistent, TokenStateOf,
                LimitEnforced, LimitReached
  <2>3. ASSUME NEW q \in Slots PROVE FileConsistent(stateFile'[q].data)
    <3>1. \/ stateFile'[q] = stateFile[q]
          \/ stateFile'[q].data = TokenStateOf(auth[q], pins[q])
      BY <1>9, <1>t DEF persist_token_state, TypeOK
    <3>2. FileConsistent(TokenStateOf(auth[q], pins[q]))
      BY <1>m DEF StateConsistent, FileConsistent
    <3> QED BY <3>1, <3>2 DEF ConsistentInv, FilesConsistent
  <2> QED BY <2>1, <2>2, <2>3, <1>f
          DEF FilesConsistent, LockoutConsistent, LimitReached, FileConsistent
<1>10. ASSUME NEW s \in Slots, NEW r \in Roles, backoff_expires(s, r)
       PROVE  AuthConsistent' /\ LimitEnforced' /\ FilesConsistent'
  <2> DEFINE a == [auth[s] EXCEPT !.wait[r] = FALSE]
  <2>1. a \in AuthState
    BY <1>m, AuthTypes
  <2>2. /\ a.login = auth[s].login
        /\ a.initialized = auth[s].initialized
        /\ a.userInit = auth[s].userInit
        /\ LockoutOf(a) = LockoutOf(auth[s])
    BY <1>m DEF AuthState, LockoutOf
  <2>3. StateConsistent(TokenStateOf(a, pins[s]))
    BY <1>m, <2>2 DEF TokenStateOf
  <2>4. /\ auth' = [auth EXCEPT ![s] = a] /\ lockoutFile' = lockoutFile
        /\ pins' = [pins EXCEPT ![s] = pins[s]] /\ stateFile' = stateFile
    BY <1>10, <1>m DEF backoff_expires
  <2> HIDE DEF a
  <2> QED BY ZenonT(40), <1>m, <1>f, <2>1, <2>2, <2>3, <2>4, MethodConsistent
<1>11. ASSUME NEW s \in Slots, init_backoff_expires(s)
       PROVE  AuthConsistent' /\ LimitEnforced' /\ FilesConsistent'
  <2> DEFINE a == [auth[s] EXCEPT !.initWait = FALSE]
  <2>1. a \in AuthState
    BY <1>m, <1>s, AuthTypes
  <2>2. /\ a.login = auth[s].login
        /\ a.initialized = auth[s].initialized
        /\ a.userInit = auth[s].userInit
        /\ LockoutOf(a) = LockoutOf(auth[s])
    BY <1>m DEF AuthState, LockoutOf
  <2>3. StateConsistent(TokenStateOf(a, pins[s]))
    BY <1>m, <2>2 DEF TokenStateOf
  <2>4. /\ auth' = [auth EXCEPT ![s] = a] /\ lockoutFile' = lockoutFile
        /\ pins' = [pins EXCEPT ![s] = pins[s]] /\ stateFile' = stateFile
    BY <1>11, <1>m DEF init_backoff_expires
  <2> HIDE DEF a
  <2> QED BY ZenonT(40), <1>m, <1>f, <2>1, <2>2, <2>3, <2>4, MethodConsistent
<1>12. ASSUME NEW s \in Slots, CorruptTokenState(s)
       PROVE  AuthConsistent' /\ LimitEnforced' /\ FilesConsistent'
  <2>1. auth' = auth /\ pins' = pins /\ lockoutFile' = lockoutFile
    BY <1>12 DEF CorruptTokenState
  <2>2. ASSUME NEW q \in Slots PROVE FileConsistent(stateFile'[q].data)
    <3>1. PICK f \in Damaged(stateFile[s]) :
            stateFile' = [stateFile EXCEPT ![s] = f]
      BY <1>12 DEF CorruptTokenState
    <3>2. FileConsistent(stateFile[s].data) /\ FileConsistent(stateFile[q].data)
      BY DEF ConsistentInv, FilesConsistent
    <3>3. FileConsistent(f.data)
      BY <1>t, <3>2, DamagedConsistent DEF TypeOK
    <3> QED BY <1>t, <3>1, <3>2, <3>3 DEF TypeOK
  <2> QED BY <2>1, <2>2
          DEF ConsistentInv, AuthConsistent, StateConsistent, TokenStateOf,
              FileConsistent,
              LimitEnforced, LimitReached, FilesConsistent, LockoutConsistent
<1>13. ASSUME Restart
       PROVE  AuthConsistent' /\ LimitEnforced' /\ FilesConsistent'
  <2>1. ASSUME NEW s \in Slots
        PROVE  /\ StateConsistent(TokenStateOf(auth'[s], pins'[s]))
               /\ auth'[s].login = "Public"
               /\ LockoutConsistent(LockoutOf(auth'[s]))
    <3> DEFINE l == LoadLockout(lockoutFile)
               d == LoadTokenState(stateFile[s])
    <3>1. /\ l \in LockoutData /\ d \in TokenStateData
          /\ StateConsistent(d) /\ LockoutConsistent(l)
      BY <1>t, <1>f, LoadTypes, LoadConsistent
      DEF TypeOK, ConsistentInv, FilesConsistent
    <3>2. /\ auth'[s] = LoadedAuth(lockoutFile, stateFile[s])
          /\ pins'[s] = d.creds
      BY <1>13 DEF Restart
    <3>3. /\ auth'[s].login = "Public"
          /\ auth'[s].failed = l.failed /\ auth'[s].locked = l.locked
          /\ auth'[s].initialized = d.initialized
          /\ auth'[s].userInit = d.userInit
      BY <3>2 DEF LoadedAuth, FreshAuth
    <3> HIDE DEF l, d
    <3> QED BY <3>1, <3>2, <3>3
            DEF StateConsistent, TokenStateOf, LockoutConsistent, LockoutOf
  <2>2. lockoutFile' = lockoutFile /\ stateFile' = stateFile
    BY <1>13 DEF Restart
  <2>3. AuthConsistent'
    BY <2>1 DEF AuthConsistent, StateConsistent, TokenStateOf
  <2>4. LimitEnforced'
    BY <2>1 DEF LimitEnforced, LimitReached, LockoutConsistent, LockoutOf
  <2>5. FilesConsistent'
    BY <2>2 DEF ConsistentInv, FilesConsistent, FileConsistent,
                LockoutConsistent, LimitReached
  <2> QED BY <2>3, <2>4, <2>5
<1>14. ASSUME CorruptLockout
       PROVE  AuthConsistent' /\ LimitEnforced' /\ FilesConsistent'
  <2>1. /\ auth' = auth /\ pins' = pins /\ stateFile' = stateFile
        /\ lockoutFile'.data = NoLockoutData
    BY <1>14 DEF CorruptLockout
  <2> QED BY <2>1, FreshConsistent
          DEF ConsistentInv, AuthConsistent, StateConsistent, TokenStateOf,
              LimitEnforced, LimitReached, FilesConsistent, FileConsistent,
              LockoutConsistent
<1>15. CASE UNCHANGED vars
  BY <1>15 DEF vars, ConsistentInv, AuthConsistent, StateConsistent,
               TokenStateOf, LimitEnforced, LimitReached, FilesConsistent,
               FileConsistent, LockoutConsistent
<1> QED
  BY <1>1, <1>2, <1>3, <1>4, <1>5, <1>6, <1>7, <1>8, <1>9, <1>10, <1>11,
     <1>12, <1>13, <1>14, <1>15 DEF Next, Method

(* However writes fail, whichever file cannot be read or parsed and        *)
(* whichever field of the token state does not decode, flags and PIN       *)
(* hashes agree and a role at its limit is locked.                         *)
THEOREM Consistent == Spec => [](AuthConsistent /\ LimitEnforced)
<1>1. Spec => []ConsistentInv
  BY InitConsistent, NextConsistent, PTL DEF Spec
<1>2. ConsistentInv => AuthConsistent /\ LimitEnforced
  BY DEF ConsistentInv
<1> QED BY <1>1, <1>2, PTL

-----------------------------------------------------------------------------
(* Durability of the token state when disk and randomness work.  Between   *)
(* the two writes of a method memory is ahead of the token-state file, so  *)
(* the inductive invariant also says what is pending: a key that the file's*)
(* PIN opens will still open after the write, unless the SO set the PIN or *)
(* the token was re-initialized.                                           *)

KeyPending ==
    \A s \in Slots :
        saving[s] /\ OpensWithUserPin(SavedCredentials(s)) =>
            \/ OpensWithUserPin(pins[s])
            \/ auth[s].login = "SO"
            \/ pins[s].wrapped = NoPin

DurableInv == ConsistentInv /\ StateDurable /\ KeyPending

(* A method that leaves credentials, flags and the file alone.             *)
LEMMA SameState ==
    ASSUME DurableInv, NEW s \in Slots, NEW a \in AuthState,
           auth' = [auth EXCEPT ![s] = a], pins' = pins,
           saving' = saving, stateFile' = stateFile,
           a.initialized = auth[s].initialized,
           a.userInit = auth[s].userInit,
           ~saving[s] \/ a.login = auth[s].login
    PROVE  StateDurable' /\ KeyPending'
<1>0. auth \in [Slots -> AuthState]
  BY DEF DurableInv, ConsistentInv, TypeOK
<1>1. StateDurable'
  <2> SUFFICES ASSUME NEW q \in Slots, PersistObjects, ~saving'[q]
               PROVE  LoadTokenState(stateFile'[q])
                         = TokenStateOf(auth'[q], pins'[q])
    BY DEF StateDurable, LoadTokenState, TokenStateOf
  <2>1. LoadTokenState(stateFile[q]) = TokenStateOf(auth[q], pins[q])
    BY DEF DurableInv, StateDurable
  <2>2. /\ auth'[q].initialized = auth[q].initialized
        /\ auth'[q].userInit = auth[q].userInit
    BY <1>0
  <2> QED BY <2>1, <2>2 DEF TokenStateOf
<1>2. KeyPending'
  <2> SUFFICES ASSUME NEW q \in Slots, saving'[q],
                      OpensWithUserPin(LoadTokenState(stateFile'[q]).creds)
               PROVE  \/ OpensWithUserPin(pins'[q])
                      \/ auth'[q].login = "SO"
                      \/ pins'[q].wrapped = NoPin
    BY DEF KeyPending, SavedCredentials, OpensWithUserPin, LoadTokenState
  <2>1. auth'[q].login = auth[q].login
    BY <1>0
  <2> QED BY <2>1 DEF DurableInv, KeyPending, SavedCredentials
<1> QED BY <1>1, <1>2

(* A method that ends by saving the token state of its slot.               *)
LEMMA StateChange ==
    ASSUME DurableInv, NEW s \in Slots, NEW a \in AuthState,
           NEW p \in Credentials, ~saving[s],
           auth' = [auth EXCEPT ![s] = a], pins' = [pins EXCEPT ![s] = p],
           BeginSave(s), stateFile' = stateFile,
           PersistObjects /\ OpensWithUserPin(pins[s]) =>
              \/ OpensWithUserPin(p) \/ a.login = "SO" \/ p.wrapped = NoPin
    PROVE  StateDurable' /\ KeyPending'
<1>0. /\ auth \in [Slots -> AuthState] /\ pins \in [Slots -> Credentials]
      /\ saving \in [Slots -> BOOLEAN]
  BY DEF DurableInv, ConsistentInv, TypeOK
<1>1. StateDurable'
  <2> SUFFICES ASSUME NEW q \in Slots, PersistObjects, ~saving'[q]
               PROVE  LoadTokenState(stateFile'[q])
                         = TokenStateOf(auth'[q], pins'[q])
    BY DEF StateDurable, LoadTokenState, TokenStateOf
  <2>1. q # s /\ ~saving[q]
    BY <1>0 DEF BeginSave
  <2>2. auth'[q] = auth[q] /\ pins'[q] = pins[q]
    BY <1>0, <2>1
  <2> QED BY <2>1, <2>2 DEF DurableInv, StateDurable
<1>2. KeyPending'
  <2> SUFFICES ASSUME NEW q \in Slots, saving'[q],
                      OpensWithUserPin(LoadTokenState(stateFile'[q]).creds)
               PROVE  \/ OpensWithUserPin(pins'[q])
                      \/ auth'[q].login = "SO"
                      \/ pins'[q].wrapped = NoPin
    BY DEF KeyPending, SavedCredentials, OpensWithUserPin, LoadTokenState
  <2>1. CASE q = s
    <3>1. PersistObjects
      BY <1>0, <2>1 DEF BeginSave
    <3>a. LoadTokenState(stateFile[s]) = TokenStateOf(auth[s], pins[s])
      BY <3>1 DEF DurableInv, StateDurable
    <3>2. LoadTokenState(stateFile[s]).creds = pins[s]
      BY <3>a DEF TokenStateOf
    <3>3. OpensWithUserPin(pins[s])
      BY <2>1, <3>2
    <3>4. auth'[q] = a /\ pins'[q] = p
      BY <1>0, <2>1
    <3> QED BY <3>1, <3>3, <3>4
  <2>2. CASE q # s
    <3>1. auth'[q] = auth[q] /\ pins'[q] = pins[q] /\ saving[q]
      BY <1>0, <2>2 DEF BeginSave
    <3> QED BY <3>1 DEF DurableInv, KeyPending, SavedCredentials
  <2> QED BY <2>1, <2>2
<1> QED BY <1>1, <1>2

\* The token-state files agree with memory at first.
LEMMA InitDurable == Init => DurableInv
<1> SUFFICES ASSUME Init PROVE DurableInv
  OBVIOUS
<1>1. ConsistentInv BY InitConsistent
<1>2. ASSUME NEW s \in Slots
      PROVE  LoadTokenState(stateFile[s]) = TokenStateOf(auth[s], pins[s])
  BY DEF Init, LoadTokenState, TokenStateOf, NoTokenState, FreshAuth
<1>3. StateDurable
  BY <1>2 DEF StateDurable
<1>4. KeyPending
  BY DEF Init, KeyPending
<1> QED BY <1>1, <1>3, <1>4 DEF DurableInv

(* A consistent record survives saving and loading unchanged.              *)
LEMMA LoadSaved ==
    ASSUME NEW d \in TokenStateData, StateConsistent(d)
    PROVE  LoadTokenState([status |-> "ok", data |-> d]) = d
  BY DEF LoadTokenState, StateConsistent, TokenStateData

\* Every step of a reliable disk keeps them in agreement.
LEMMA NextDurable ==
    ASSUME ~Faults PROVE DurableInv /\ [Next]_vars => DurableInv'
<1> SUFFICES ASSUME DurableInv, [Next]_vars PROVE DurableInv'
  OBVIOUS
<1>c. ConsistentInv'
  BY NextConsistent DEF DurableInv
<1> SUFFICES StateDurable' /\ KeyPending'
  BY <1>c DEF DurableInv
<1>f. FaultChoice = {FALSE}
  BY DEF FaultChoice
<1>s. "USER" \in Roles /\ "SO" \in Roles
  BY DEF Roles
<1>m. ASSUME NEW s \in Slots
      PROVE  /\ auth[s] \in AuthState /\ pins[s] \in Credentials
             /\ auth'[s] \in AuthState /\ pins'[s] \in Credentials
  BY <1>c DEF DurableInv, ConsistentInv, TypeOK
<1>1. ASSUME NEW s \in Slots, NEW pin \in Pins, init_token_rejected(s, pin)
      PROVE  StateDurable' /\ KeyPending'
  <2> DEFINE a == CountInitFailure(auth[s])
  <2>1. /\ a \in AuthState /\ a.initialized = auth[s].initialized
        /\ a.userInit = auth[s].userInit
    BY <1>m, <1>s, AuthTypes, AuthFrames
  <2>2. /\ auth' = [auth EXCEPT ![s] = a] /\ pins' = pins
        /\ saving' = saving /\ stateFile' = stateFile /\ ~saving[s]
    BY <1>1 DEF init_token_rejected
  <2> HIDE DEF a
  <2> QED BY <2>1, <2>2, SameState
<1>2. ASSUME NEW s \in Slots, NEW pin \in Pins, init_token(s, pin)
      PROVE  StateDurable' /\ KeyPending'
  <2> DEFINE a == [reset_for_init(auth[s]) EXCEPT !.initialized = TRUE]
             p == [NoCredentials EXCEPT !.hash["SO"] = pin]
  <2>1. a \in AuthState /\ p \in Credentials /\ p.wrapped = NoPin
    BY FreshTypes, <1>s
    DEF reset_for_init, AuthState, Credentials, NoCredentials
  <2>2. /\ auth' = [auth EXCEPT ![s] = a] /\ pins' = [pins EXCEPT ![s] = p]
        /\ BeginSave(s) /\ stateFile' = stateFile /\ ~saving[s]
    BY <1>2 DEF init_token
  <2> HIDE DEF a, p
  <2> QED BY <2>1, <2>2, StateChange
<1>3. ASSUME NEW s \in Slots, NEW pin \in Pins, init_pin(s, pin)
      PROVE  StateDurable' /\ KeyPending'
  <2> DEFINE a == [ClearFailures(auth[s], "USER")
                     EXCEPT !.userInit = TRUE, !.locked["USER"] = FALSE]
             p == provision_object_key([pins[s] EXCEPT !.hash["USER"] = pin],
                                       pin, FALSE)
  <2>1. /\ auth' = [auth EXCEPT ![s] = a] /\ pins' = [pins EXCEPT ![s] = p]
        /\ BeginSave(s) /\ stateFile' = stateFile /\ ~saving[s]
        /\ auth[s].login = "SO"
    BY <1>3, <1>f DEF init_pin
  <2>2. a.login = "SO"
    BY <1>m, <2>1 DEF ClearFailures, AuthState
  <2>3. a \in AuthState /\ p \in Credentials
    <3>1. auth'[s] = a /\ pins'[s] = p
      BY <2>1, <1>m DEF DurableInv, ConsistentInv, TypeOK
    <3> QED BY <3>1, <1>m
  <2> HIDE DEF a, p
  <2> QED BY <2>1, <2>2, <2>3, StateChange
<1>4. ASSUME NEW s \in Slots, NEW old \in Pins, NEW new \in Pins,
             set_pin_rejected(s, old, new)
      PROVE  StateDurable' /\ KeyPending'
  <2> DEFINE a == CountFailure(auth[s], auth[s].login)
  <2>1. auth[s].login \in Roles
    BY <1>4 DEF set_pin_rejected
  <2>2. /\ a \in AuthState /\ a.initialized = auth[s].initialized
        /\ a.userInit = auth[s].userInit
    BY <1>m, <2>1, AuthTypes, AuthFrames
  <2>3. /\ auth' = [auth EXCEPT ![s] = a] /\ pins' = pins
        /\ saving' = saving /\ stateFile' = stateFile /\ ~saving[s]
    BY <1>4 DEF set_pin_rejected
  <2> HIDE DEF a
  <2> QED BY <2>2, <2>3, SameState
<1>5. ASSUME NEW s \in Slots, NEW old \in Pins, NEW new \in Pins,
             set_pin(s, old, new)
      PROVE  StateDurable' /\ KeyPending'
  <2> DEFINE r == auth[s].login
             a == ClearFailures(auth[s], r)
             h == [pins[s] EXCEPT !.hash[r] = new]
             p == IF r = "USER" THEN rewrap_object_key(h, old, new, FALSE)
                  ELSE h
  <2>1. /\ auth' = [auth EXCEPT ![s] = a] /\ pins' = [pins EXCEPT ![s] = p]
        /\ BeginSave(s) /\ stateFile' = stateFile /\ ~saving[s]
        /\ r \in Roles /\ pins[s].hash[r] = old
    BY <1>5, <1>f DEF set_pin, verify_pin
  <2>2. a \in AuthState /\ p \in Credentials
    <3>1. auth'[s] = a /\ pins'[s] = p
      BY <2>1, <1>m DEF DurableInv, ConsistentInv, TypeOK
    <3> QED BY <3>1, <1>m
  <2>3. a.login = r
    BY <1>m DEF ClearFailures, AuthState
  <2>4. OpensWithUserPin(pins[s]) => OpensWithUserPin(p) \/ r = "SO"
    <3> SUFFICES ASSUME OpensWithUserPin(pins[s]), r = "USER"
                 PROVE  OpensWithUserPin(p)
      BY <2>1 DEF Roles
    <3>1. /\ h.wrapped = pins[s].wrapped /\ h.hash["USER"] = new
          /\ h \in Credentials /\ h.salt = pins[s].salt
      <4>1. "USER" \in DOMAIN pins[s].hash
        BY <1>m, <1>s DEF Credentials
      <4> QED BY <1>m, <4>1 DEF Credentials
    <3>a. h.wrapped = old /\ h.salt
      BY <3>1, <2>1 DEF OpensWithUserPin
    <3>2. p = [h EXCEPT !.wrapped = new]
      BY <3>a DEF rewrap_object_key
    <3> HIDE DEF p, h
    <3> QED BY <3>1, <3>2, PinAssumption DEF OpensWithUserPin, Credentials
  <2> HIDE DEF a, p, r
  <2> QED BY <2>1, <2>2, <2>3, <2>4, StateChange
<1>6. ASSUME NEW s \in Slots, NEW r \in Roles, NEW pin \in Pins,
             login_rejected(s, r, pin)
      PROVE  StateDurable' /\ KeyPending'
  <2> DEFINE a == CountFailure(auth[s], r)
  <2>1. /\ a \in AuthState /\ a.initialized = auth[s].initialized
        /\ a.userInit = auth[s].userInit
    BY <1>m, AuthTypes, AuthFrames
  <2>2. /\ auth' = [auth EXCEPT ![s] = a] /\ pins' = pins
        /\ saving' = saving /\ stateFile' = stateFile /\ ~saving[s]
    BY <1>6 DEF login_rejected, LoginAllowed
  <2> HIDE DEF a
  <2> QED BY <2>1, <2>2, SameState
<1>7. ASSUME NEW s \in Slots, NEW r \in Roles, NEW pin \in Pins,
             login(s, r, pin)
      PROVE  StateDurable' /\ KeyPending'
  <2> DEFINE a == [ClearFailures(auth[s], r) EXCEPT !.login = r]
  <2>1. /\ auth' = [auth EXCEPT ![s] = a] /\ pins' = pins
        /\ saving' = saving /\ stateFile' = stateFile /\ ~saving[s]
    BY <1>7 DEF login, LoginAllowed
  <2>2. /\ a.initialized = auth[s].initialized
        /\ a.userInit = auth[s].userInit
    BY <1>m DEF ClearFailures, AuthState
  <2>3. a \in AuthState
    <3>1. auth'[s] = a
      BY <2>1, <1>m DEF DurableInv, ConsistentInv, TypeOK
    <3> QED BY <3>1, <1>m
  <2> HIDE DEF a
  <2> QED BY <2>1, <2>2, <2>3, SameState
<1>8. ASSUME NEW s \in Slots, logout(s)
      PROVE  StateDurable' /\ KeyPending'
  <2> DEFINE a == LogoutOf(auth[s])
  <2>1. /\ a \in AuthState /\ a.initialized = auth[s].initialized
        /\ a.userInit = auth[s].userInit
    BY ZenonT(40), <1>m, <1>s, AuthTypes DEF LogoutOf, AuthState
  <2>2. /\ auth' = [auth EXCEPT ![s] = a] /\ pins' = pins
        /\ saving' = saving /\ stateFile' = stateFile /\ ~saving[s]
    BY <1>8 DEF logout
  <2> HIDE DEF a
  <2> QED BY <2>1, <2>2, SameState
<1>9. ASSUME NEW s \in Slots, persist_token_state(s)
      PROVE  StateDurable' /\ KeyPending'
  <2> DEFINE d == TokenStateOf(auth[s], pins[s])
  <2>1. d \in TokenStateData /\ StateConsistent(d)
    BY <1>m DEF TokenStateOf, TokenStateData, AuthState, DurableInv,
                ConsistentInv, AuthConsistent
  <2>2. /\ auth' = auth /\ pins' = pins
        /\ saving' = [saving EXCEPT ![s] = FALSE]
        /\ stateFile' = [stateFile EXCEPT ![s] = [status |-> "ok", data |-> d]]
    BY <1>9, <1>f DEF persist_token_state
  <2>3. LoadTokenState(stateFile'[s]) = d /\ ~saving'[s]
    BY <2>1, <2>2, LoadSaved DEF DurableInv, ConsistentInv, TypeOK
  <2>4. \A q \in Slots : q # s => /\ stateFile'[q] = stateFile[q]
                                  /\ saving'[q] = saving[q]
    BY <2>2 DEF DurableInv, ConsistentInv, TypeOK
  <2>5. StateDurable'
    BY <2>2, <2>3, <2>4
    DEF DurableInv, StateDurable, TokenStateOf
  <2>6. KeyPending'
    <3> SUFFICES ASSUME NEW q \in Slots, saving'[q],
                        OpensWithUserPin(LoadTokenState(stateFile'[q]).creds)
                 PROVE  \/ OpensWithUserPin(pins'[q])
                        \/ auth'[q].login = "SO"
                        \/ pins'[q].wrapped = NoPin
      BY DEF KeyPending, SavedCredentials, OpensWithUserPin, LoadTokenState
    <3> QED BY <2>2, <2>3, <2>4 DEF DurableInv, KeyPending, SavedCredentials
  <2> QED BY <2>5, <2>6
<1>10. ASSUME NEW s \in Slots, NEW r \in Roles, backoff_expires(s, r)
       PROVE  StateDurable' /\ KeyPending'
  <2> DEFINE a == [auth[s] EXCEPT !.wait[r] = FALSE]
  <2>1. /\ a \in AuthState /\ a.initialized = auth[s].initialized
        /\ a.userInit = auth[s].userInit /\ a.login = auth[s].login
    BY <1>m, AuthTypes, AuthFrames
  <2>2. /\ auth' = [auth EXCEPT ![s] = a] /\ pins' = pins
        /\ saving' = saving /\ stateFile' = stateFile
    BY <1>10 DEF backoff_expires
  <2> HIDE DEF a
  <2> QED BY <2>1, <2>2, SameState
<1>11. ASSUME NEW s \in Slots, init_backoff_expires(s)
       PROVE  StateDurable' /\ KeyPending'
  <2> DEFINE a == [auth[s] EXCEPT !.initWait = FALSE]
  <2>1. /\ a \in AuthState /\ a.initialized = auth[s].initialized
        /\ a.userInit = auth[s].userInit /\ a.login = auth[s].login
    BY <1>m DEF AuthState
  <2>2. /\ auth' = [auth EXCEPT ![s] = a] /\ pins' = pins
        /\ saving' = saving /\ stateFile' = stateFile
    BY <1>11 DEF init_backoff_expires
  <2> HIDE DEF a
  <2> QED BY <2>1, <2>2, SameState
<1>12. ASSUME Restart PROVE StateDurable' /\ KeyPending'
  <2>1. ASSUME NEW s \in Slots
        PROVE  LoadTokenState(stateFile'[s])
                  = TokenStateOf(auth'[s], pins'[s])
    <3>1. LoadTokenState(stateFile[s]) \in TokenStateData
      BY LoadTypes DEF DurableInv, ConsistentInv, TypeOK
    <3> QED BY <1>12, <3>1
            DEF Restart, LoadedAuth, FreshAuth, TokenStateOf, TokenStateData
  <2>2. \A s \in Slots : ~saving'[s]
    BY <1>12 DEF Restart
  <2>3. StateDurable'
    BY <2>1 DEF StateDurable, TokenStateOf, LoadTokenState
  <2> QED BY <2>2, <2>3 DEF KeyPending
<1>13. CASE UNCHANGED vars
  BY <1>13 DEF vars, DurableInv, StateDurable, KeyPending, SavedCredentials,
               OpensWithUserPin, LoadTokenState, TokenStateOf
<1>14. ~CorruptLockout /\ \A s \in Slots : ~CorruptTokenState(s)
  BY DEF CorruptLockout, CorruptTokenState
<1> QED
  BY <1>1, <1>2, <1>3, <1>4, <1>5, <1>6, <1>7, <1>8, <1>9, <1>10, <1>11,
     <1>12, <1>13, <1>14 DEF Next, Method

(* With a working disk the token-state file is what memory is, for any     *)
(* number of slots, except while a method is writing it.                   *)
THEOREM TokenStateDurable == ASSUME ~Faults PROVE Spec => []StateDurable
<1>1. Spec => []DurableInv
  BY InitDurable, NextDurable, PTL DEF Spec
<1>2. DurableInv => StateDurable
  BY DEF DurableInv
<1> QED BY <1>1, <1>2, PTL

(* The saved object key stays openable with the saved user PIN in every    *)
(* step that is not the SO's and does not re-initialize the token.         *)
THEOREM ObjectKeyKept == ASSUME ~Faults PROVE Spec => ObjectKeyFollowsPin
<1> DEFINE Keeps(s) ==
             /\ OpensWithUserPin(SavedCredentials(s))
             /\ ~OpensWithUserPin(SavedCredentials(s)')
             => auth[s].login = "SO" \/ SavedCredentials(s)'.wrapped = NoPin
<1>1. Spec => []DurableInv
  BY InitDurable, NextDurable, PTL DEF Spec
<1>2. DurableInv /\ [Next]_vars => [\A s \in Slots : Keeps(s)]_vars
  <2> SUFFICES ASSUME DurableInv, Next, NEW s \in Slots PROVE Keeps(s)
    BY DEF vars
  <2>1. ASSUME stateFile' = stateFile PROVE Keeps(s)
    BY <2>1 DEF SavedCredentials, LoadTokenState, OpensWithUserPin
  <2>2. ASSUME NEW q \in Slots, persist_token_state(q) PROVE Keeps(s)
    <3>f. FaultChoice = {FALSE}
      BY DEF FaultChoice
    <3> DEFINE d == TokenStateOf(auth[q], pins[q])
    <3>1. /\ saving[q]
          /\ stateFile' = [stateFile EXCEPT ![q] = [status |-> "ok", data |-> d]]
      BY <2>2, <3>f DEF persist_token_state
    <3>2. CASE s # q
      <4>1. stateFile'[s] = stateFile[s]
        BY <3>1, <3>2 DEF DurableInv, ConsistentInv, TypeOK
      <4> QED BY <4>1 DEF SavedCredentials, LoadTokenState, OpensWithUserPin
    <3>3. CASE s = q
      <4>1. d \in TokenStateData /\ StateConsistent(d) /\ d.creds = pins[q]
        BY DEF TokenStateOf, TokenStateData, AuthState, DurableInv, TypeOK,
               ConsistentInv, AuthConsistent
      <4>2. LoadTokenState(stateFile'[s]) = d
        BY <3>1, <3>3, <4>1, LoadSaved DEF DurableInv, ConsistentInv, TypeOK
      <4>3. SavedCredentials(s)' = pins[s]
        BY <3>3, <4>1, <4>2 DEF SavedCredentials, LoadTokenState
      <4>4. OpensWithUserPin(SavedCredentials(s)) =>
               \/ OpensWithUserPin(pins[s]) \/ auth[s].login = "SO"
               \/ pins[s].wrapped = NoPin
        BY <3>1, <3>3 DEF DurableInv, KeyPending
      <4> QED BY <4>3, <4>4
    <3> QED BY <3>2, <3>3
  <2>3. ASSUME NEW q \in Slots, CorruptTokenState(q) PROVE Keeps(s)
    BY <2>3 DEF CorruptTokenState
  <2> HIDE DEF Keeps
  <2>4. CASE \E q \in Slots : Method(q)
    <3>1. PICK q \in Slots : Method(q)
      BY <2>4
    <3> QED BY <3>1, <2>1, <2>2, <2>3
            DEF Method, init_token_rejected, init_token, init_pin,
                set_pin_rejected, set_pin, login_rejected, login, logout,
                backoff_expires, init_backoff_expires
  <2>5. CASE Restart \/ CorruptLockout
    BY <2>5, <2>1 DEF Restart, CorruptLockout
  <2> QED BY <2>4, <2>5 DEF Next
<1> QED BY <1>1, <1>2, PTL DEF Spec, ObjectKeyFollowsPin

-----------------------------------------------------------------------------
(* Lockout with a working disk and a single slot, so that one lockout file *)
(* belongs to one token.  The inductive invariant adds that the history of *)
(* answered wrong PINs is the failure counter itself: with LimitEnforced a *)
(* role that may still be answered is strictly below its limit.            *)

OneSlot == \A s, q \in Slots : s = q

GuessesCounted ==
    \A s \in Slots, r \in Roles : guesses[s][r] = auth[s].failed[r]

LockoutInv ==
    ConsistentInv /\ LockoutDurable /\ GuessesCounted /\ GuessesBounded

\* The lockout file agrees with memory at first.
LEMMA InitLockout == Init => LockoutInv
<1> SUFFICES ASSUME Init PROVE LockoutInv
  OBVIOUS
<1>1. ConsistentInv BY InitConsistent
<1>2. LockoutDurable
  BY DEF Init, LockoutDurable, LoadLockout, LockoutOf, FreshAuth, NoLockoutData
<1>3. GuessesCounted /\ GuessesBounded
  BY CounterAssumption DEF Init, GuessesCounted, GuessesBounded, FreshAuth
<1> QED BY <1>1, <1>2, <1>3 DEF LockoutInv

(* A method that saves the counters it leaves in memory.                   *)
LEMMA SavedLockout ==
    ASSUME ~Faults, OneSlot, NEW s \in Slots, NEW a \in AuthState,
           NEW b \in AuthState,
           auth \in [Slots -> AuthState], auth' = [auth EXCEPT ![s] = a],
           LockoutOf(a) = LockoutOf(b), persist_lockout(b)
    PROVE  LockoutDurable'
<1>1. lockoutFile' = [status |-> "ok", data |-> LockoutOf(b)]
  BY DEF persist_lockout, FaultChoice
<1>2. LoadLockout(lockoutFile') = LockoutOf(a)
  BY <1>1 DEF LoadLockout
<1>3. \A q \in Slots : auth'[q] = a
  BY DEF OneSlot
<1> QED BY <1>2, <1>3 DEF LockoutDurable, LoadLockout, LockoutOf

(* Where it matters a counter does not wrap: a role that is not locked is  *)
(* below its limit, which is below the width.                              *)
LEMMA CountsOne ==
    ASSUME NEW a \in AuthState, NEW r \in Roles,
           ~LimitReached(a.failed[r])
    PROVE  /\ CountFailure(a, r).failed[r] = a.failed[r] + 1
           /\ a.failed[r] + 1 <= MaxFailed
           /\ \A q \in Roles \ {r} : CountFailure(a, r).failed[q] = a.failed[q]
<1>1. a.failed[r] \in Nat /\ a.failed[r] < MaxFailed
  BY CounterAssumption DEF AuthState, Counter, LimitReached
<1>2. Inc(a.failed[r]) = a.failed[r] + 1
  BY <1>1, CounterAssumption DEF Inc
<1>3. a.failed[r] + 1 <= MaxFailed
  BY <1>1, CounterAssumption
<1>4. \A q \in Roles : CountFailure(a, r).failed[q] =
                          IF q = r THEN Inc(a.failed[r]) ELSE a.failed[q]
  BY DEF CountFailure, AuthState
<1> QED BY <1>2, <1>3, <1>4

(* The history after a wrong PIN, and after a reset for the roles rs.      *)
LEMMA GuessesAfterFailure ==
    ASSUME LockoutInv, NEW s \in Slots, NEW r \in Roles,
           ~auth[s].locked[r], CountGuess(s, r),
           auth' = [auth EXCEPT ![s] = CountFailure(auth[s], r)]
    PROVE  GuessesCounted' /\ GuessesBounded'
<1>0. /\ auth \in [Slots -> AuthState]
      /\ guesses \in [Slots -> [Roles -> Nat]]
  BY DEF LockoutInv, ConsistentInv, TypeOK
<1>1. ~LimitReached(auth[s].failed[r])
  BY DEF LockoutInv, ConsistentInv, LimitEnforced
<1>2. ~(guesses[s][r] > MaxFailed) /\ guesses[s][r] = auth[s].failed[r]
  BY <1>0, CounterAssumption DEF LockoutInv, GuessesBounded, GuessesCounted
<1>3. \A q \in Slots, x \in Roles :
        guesses'[q][x] = IF q = s /\ x = r THEN guesses[s][r] + 1
                         ELSE guesses[q][x]
  BY <1>0, <1>2 DEF CountGuess
<1>4. \A q \in Slots, x \in Roles :
        auth'[q].failed[x] = IF q = s /\ x = r THEN auth[s].failed[r] + 1
                             ELSE auth[q].failed[x]
  BY <1>0, <1>1, CountsOne
<1>5. GuessesCounted'
  BY <1>2, <1>3, <1>4 DEF LockoutInv, GuessesCounted
<1>6. auth[s].failed[r] + 1 <= MaxFailed
  BY <1>0, <1>1, CountsOne
<1>7. GuessesBounded'
  BY <1>2, <1>3, <1>6 DEF LockoutInv, GuessesBounded
<1> QED BY <1>5, <1>7

\* Counter and history are reset together.
LEMMA GuessesAfterReset ==
    ASSUME LockoutInv, NEW s \in Slots, NEW a \in AuthState,
           auth' = [auth EXCEPT ![s] = a],
           \A q \in Slots \ {s} : guesses'[q] = guesses[q],
           \A x \in Roles :
              \/ guesses'[s][x] = 0 /\ a.failed[x] = 0
              \/ /\ guesses'[s][x] = guesses[s][x]
                 /\ a.failed[x] = auth[s].failed[x]
    PROVE  GuessesCounted' /\ GuessesBounded'
<1>0. /\ auth \in [Slots -> AuthState]
      /\ guesses \in [Slots -> [Roles -> Nat]]
  BY DEF LockoutInv, ConsistentInv, TypeOK
<1>1. ASSUME NEW q \in Slots, NEW x \in Roles
      PROVE  /\ guesses'[q][x] = auth'[q].failed[x]
             /\ guesses'[q][x] <= MaxFailed
  <2>1. CASE q = s
    <3>1. auth'[q] = a
      BY <2>1, <1>0
    <3>2. 0 <= MaxFailed
      BY CounterAssumption
    <3> QED BY <2>1, <3>1, <3>2
            DEF LockoutInv, GuessesCounted, GuessesBounded
  <2>2. CASE q # s
    <3>1. auth'[q] = auth[q]
      BY <2>2, <1>0
    <3> QED BY <2>2, <3>1 DEF LockoutInv, GuessesCounted, GuessesBounded
  <2> QED BY <2>1, <2>2
<1> QED BY <1>1 DEF GuessesCounted, GuessesBounded

(* A step after which every slot has the counters it had before.           *)
LEMMA SameLockout ==
    ASSUME LockoutInv, lockoutFile' = lockoutFile, guesses' = guesses,
           \A s \in Slots : LockoutOf(auth'[s]) = LockoutOf(auth[s])
    PROVE  LockoutDurable' /\ GuessesCounted' /\ GuessesBounded'
<1>1. \A s \in Slots : auth'[s].failed = auth[s].failed
  BY DEF LockoutOf
<1>2. LockoutDurable'
  BY DEF LockoutInv, LockoutDurable, LoadLockout, LockoutOf
<1>3. GuessesCounted'
  BY <1>1 DEF LockoutInv, GuessesCounted
<1> QED BY <1>2, <1>3 DEF LockoutInv, GuessesBounded

\* Every step with one slot and a reliable disk keeps it so.
LEMMA NextLockout ==
    ASSUME ~Faults, OneSlot
    PROVE  LockoutInv /\ [Next]_vars => LockoutInv'
<1> SUFFICES ASSUME LockoutInv, [Next]_vars PROVE LockoutInv'
  OBVIOUS
<1> DEFINE Goal == LockoutDurable' /\ GuessesCounted' /\ GuessesBounded'
<1>c. ConsistentInv'
  BY NextConsistent DEF LockoutInv
<1> SUFFICES Goal
  BY <1>c DEF LockoutInv
<1>f. FaultChoice = {FALSE}
  BY DEF FaultChoice
<1>s. "USER" \in Roles /\ "SO" \in Roles /\ Roles = {"USER", "SO"}
  BY DEF Roles
<1>t. auth \in [Slots -> AuthState] /\ guesses \in [Slots -> [Roles -> Nat]]
  BY DEF LockoutInv, ConsistentInv, TypeOK
<1>1. ASSUME NEW s \in Slots, NEW pin \in Pins, init_token_rejected(s, pin)
      PROVE  Goal
  <2> DEFINE a == CountInitFailure(auth[s])
  <2>1. a \in AuthState
    BY <1>t, <1>s, AuthTypes
  <2>2. a.failed = auth[s].failed
    BY <1>t DEF CountInitFailure, AuthState
  <2>3. /\ auth' = [auth EXCEPT ![s] = a] /\ persist_lockout(a)
        /\ guesses' = guesses
    BY <1>1 DEF init_token_rejected
  <2> HIDE DEF a
  <2>4. LockoutDurable'
    BY <1>t, <2>1, <2>3, SavedLockout
  <2>5. \A q \in Slots : auth'[q].failed = auth[q].failed
    BY <1>t, <2>2, <2>3
  <2> QED BY <2>3, <2>4, <2>5 DEF LockoutInv, GuessesCounted, GuessesBounded
<1>2. ASSUME NEW s \in Slots, NEW pin \in Pins, init_token(s, pin)
      PROVE  Goal
  <2> DEFINE a == [reset_for_init(auth[s]) EXCEPT !.initialized = TRUE]
  <2>1. a \in AuthState /\ LockoutOf(a) = NoLockoutData
    BY FreshTypes
    DEF reset_for_init, AuthState, FreshAuth, LockoutOf, NoLockoutData
  <2>2. /\ auth' = [auth EXCEPT ![s] = a] /\ ForgetGuesses(s, Roles)
        /\ lockoutFile' = [status |-> "absent", data |-> NoLockoutData]
    BY <1>2, <1>f DEF init_token, reset_lockout_file
  <2>3. \A r \in Roles : a.failed[r] = 0
    BY DEF reset_for_init, FreshAuth
  <2> HIDE DEF a
  <2>4. LoadLockout(lockoutFile') = LockoutOf(a)
    BY <2>1, <2>2 DEF LoadLockout
  <2>5. \A q \in Slots : auth'[q] = a
    BY <1>t, <2>2 DEF OneSlot
  <2>6. LockoutDurable'
    BY <2>4, <2>5 DEF LockoutDurable, LoadLockout, LockoutOf
  <2>7. GuessesCounted' /\ GuessesBounded'
    <3>1. /\ \A q \in Slots \ {s} : guesses'[q] = guesses[q]
          /\ \A x \in Roles : guesses'[s][x] = 0
      BY <1>t, <2>2 DEF ForgetGuesses
    <3> QED BY <2>1, <2>2, <2>3, <3>1, GuessesAfterReset
  <2> QED BY <2>6, <2>7
<1>3. ASSUME NEW s \in Slots, NEW pin \in Pins, init_pin(s, pin)
      PROVE  Goal
  <2> DEFINE c == ClearFailures(auth[s], "USER")
             a == [c EXCEPT !.userInit = TRUE, !.locked["USER"] = FALSE]
  <2>1. c \in AuthState
    BY <1>t, <1>s, AuthTypes
  <2>2. /\ a \in AuthState /\ a.failed["USER"] = 0
        /\ a.failed["SO"] = auth[s].failed["SO"]
    BY <1>t, <1>s, <2>1 DEF ClearFailures, AuthState
  <2>3. /\ auth' = [auth EXCEPT ![s] = a] /\ persist_lockout(a)
        /\ ForgetGuesses(s, {"USER"})
    BY <1>3 DEF init_pin
  <2> HIDE DEF a
  <2>4. LockoutDurable'
    BY <1>t, <2>2, <2>3, SavedLockout
  <2>5. GuessesCounted' /\ GuessesBounded'
    <3>1. /\ \A q \in Slots \ {s} : guesses'[q] = guesses[q]
          /\ guesses'[s]["USER"] = 0 /\ guesses'[s]["SO"] = guesses[s]["SO"]
      BY <1>t, <1>s, <2>3 DEF ForgetGuesses
    <3>2. \A x \in Roles :
            \/ guesses'[s][x] = 0 /\ a.failed[x] = 0
            \/ /\ guesses'[s][x] = guesses[s][x]
               /\ a.failed[x] = auth[s].failed[x]
      BY <1>s, <2>2, <3>1
    <3> QED BY <2>2, <2>3, <3>1, <3>2, GuessesAfterReset
  <2> QED BY <2>4, <2>5
<1>4. ASSUME NEW s \in Slots, NEW old \in Pins, NEW new \in Pins,
             set_pin_rejected(s, old, new)
      PROVE  Goal
  <2> DEFINE r == auth[s].login
             a == CountFailure(auth[s], r)
  <2>1. /\ r \in Roles /\ ~auth[s].locked[r] /\ CountGuess(s, r)
        /\ auth' = [auth EXCEPT ![s] = a] /\ persist_lockout(a)
    BY <1>4 DEF set_pin_rejected
  <2>2. a \in AuthState
    BY <1>t, <2>1, AuthTypes
  <2>3. LockoutDurable'
    BY <1>t, <2>1, <2>2, SavedLockout
  <2>4. GuessesCounted' /\ GuessesBounded'
    BY <2>1, GuessesAfterFailure
  <2> QED BY <2>3, <2>4
<1>5. ASSUME NEW s \in Slots, NEW old \in Pins, NEW new \in Pins,
             set_pin(s, old, new)
      PROVE  Goal
  <2> DEFINE r == auth[s].login
             a == ClearFailures(auth[s], r)
  <2>1. /\ r \in Roles /\ ForgetGuesses(s, {r})
        /\ auth' = [auth EXCEPT ![s] = a] /\ persist_lockout(a)
    BY <1>5 DEF set_pin
  <2>2. a \in AuthState
    BY <1>t, <2>1, AuthTypes
  <2>3. \A q \in Roles : a.failed[q] = IF q = r THEN 0
                                       ELSE auth[s].failed[q]
    BY <1>t, <2>1 DEF ClearFailures, AuthState
  <2> HIDE DEF a, r
  <2>4. LockoutDurable'
    BY <1>t, <2>1, <2>2, SavedLockout
  <2>5. GuessesCounted' /\ GuessesBounded'
    <3>1. /\ \A q \in Slots \ {s} : guesses'[q] = guesses[q]
          /\ \A x \in Roles : guesses'[s][x] = IF x = r THEN 0
                                              ELSE guesses[s][x]
      BY <1>t, <2>1 DEF ForgetGuesses
    <3> QED BY ZenonT(40), <2>1, <2>2, <2>3, <3>1, GuessesAfterReset
  <2> QED BY <2>4, <2>5
<1>6. ASSUME NEW s \in Slots, NEW r \in Roles, NEW pin \in Pins,
             login_rejected(s, r, pin)
      PROVE  Goal
  <2> DEFINE a == CountFailure(auth[s], r)
  <2>1. /\ ~auth[s].locked[r] /\ CountGuess(s, r)
        /\ auth' = [auth EXCEPT ![s] = a] /\ persist_lockout(a)
    BY <1>6 DEF login_rejected, LoginAllowed
  <2>2. a \in AuthState
    BY <1>t, AuthTypes
  <2>3. LockoutDurable'
    BY <1>t, <2>1, <2>2, SavedLockout
  <2>4. GuessesCounted' /\ GuessesBounded'
    BY <2>1, GuessesAfterFailure
  <2> QED BY <2>3, <2>4
<1>7. ASSUME NEW s \in Slots, NEW r \in Roles, NEW pin \in Pins,
             login(s, r, pin)
      PROVE  Goal
  <2> DEFINE c == ClearFailures(auth[s], r)
             a == [c EXCEPT !.login = r]
  <2>1. /\ auth' = [auth EXCEPT ![s] = a] /\ persist_lockout(c)
        /\ ForgetGuesses(s, {r})
    BY <1>7 DEF login
  <2>2. c \in AuthState
    BY <1>t, AuthTypes
  <2>3. a \in AuthState /\ LockoutOf(a) = LockoutOf(c) /\ a.failed = c.failed
    <3> HIDE DEF c
    <3> QED BY <2>2 DEF AuthState, LoginState, LockoutOf
  <2>4. \A q \in Roles : c.failed[q] = IF q = r THEN 0
                                       ELSE auth[s].failed[q]
    BY <1>t DEF ClearFailures, AuthState
  <2> HIDE DEF a, c
  <2>5. LockoutDurable'
    BY <1>t, <2>1, <2>2, <2>3, SavedLockout
  <2>6. GuessesCounted' /\ GuessesBounded'
    <3>1. /\ \A q \in Slots \ {s} : guesses'[q] = guesses[q]
          /\ \A x \in Roles : guesses'[s][x] = IF x = r THEN 0
                                              ELSE guesses[s][x]
      BY <1>t, <2>1 DEF ForgetGuesses
    <3>2. \A x \in Roles :
            \/ guesses'[s][x] = 0 /\ a.failed[x] = 0
            \/ /\ guesses'[s][x] = guesses[s][x]
               /\ a.failed[x] = auth[s].failed[x]
      BY <2>3, <2>4, <3>1
    <3> QED BY <2>1, <2>3, <3>1, <3>2, GuessesAfterReset
  <2> QED BY <2>5, <2>6
<1>8. ASSUME NEW s \in Slots, logout(s) PROVE Goal
  <2> DEFINE a == LogoutOf(auth[s])
  <2>1. /\ auth' = [auth EXCEPT ![s] = a] /\ persist_lockout(a)
        /\ ForgetGuesses(s, Roles)
    BY <1>8 DEF logout
  <2>2. a \in AuthState
    BY <1>t, <1>s, AuthTypes
  <2>3. \A r \in Roles : a.failed[r] = 0
    BY <1>t DEF LogoutOf, AuthState
  <2> HIDE DEF a
  <2>4. LockoutDurable'
    BY <1>t, <2>1, <2>2, SavedLockout
  <2>5. GuessesCounted' /\ GuessesBounded'
    <3>1. /\ \A q \in Slots \ {s} : guesses'[q] = guesses[q]
          /\ \A x \in Roles : guesses'[s][x] = 0
      BY <1>t, <2>1 DEF ForgetGuesses
    <3> QED BY <2>1, <2>2, <2>3, <3>1, GuessesAfterReset
  <2> QED BY <2>4, <2>5
<1>9. ASSUME NEW s \in Slots, persist_token_state(s) PROVE Goal
  <2>1. auth' = auth /\ lockoutFile' = lockoutFile /\ guesses' = guesses
    BY <1>9 DEF persist_token_state
  <2> QED BY <2>1, SameLockout
<1>10. ASSUME NEW s \in Slots, NEW r \in Roles, backoff_expires(s, r)
       PROVE  Goal
  <2>1. /\ auth' = [auth EXCEPT ![s] = [auth[s] EXCEPT !.wait[r] = FALSE]]
        /\ lockoutFile' = lockoutFile /\ guesses' = guesses
    BY <1>10 DEF backoff_expires
  <2>2. \A q \in Slots : LockoutOf(auth'[q]) = LockoutOf(auth[q])
    BY <2>1, <1>t DEF LockoutOf, AuthState
  <2> QED BY <2>1, <2>2, SameLockout
<1>11. ASSUME NEW s \in Slots, init_backoff_expires(s) PROVE Goal
  <2>1. /\ auth' = [auth EXCEPT ![s] = [auth[s] EXCEPT !.initWait = FALSE]]
        /\ lockoutFile' = lockoutFile /\ guesses' = guesses
    BY <1>11 DEF init_backoff_expires
  <2>2. \A q \in Slots : LockoutOf(auth'[q]) = LockoutOf(auth[q])
    BY <2>1, <1>t DEF LockoutOf, AuthState
  <2> QED BY <2>1, <2>2, SameLockout
<1>12. ASSUME Restart PROVE Goal
  <2>1. ASSUME NEW q \in Slots PROVE LockoutOf(auth'[q]) = LockoutOf(auth[q])
    <3>1. LoadLockout(lockoutFile) = LockoutOf(auth[q])
      BY DEF LockoutInv, LockoutDurable
    <3>2. auth'[q] = LoadedAuth(lockoutFile, stateFile[q])
      BY <1>12 DEF Restart
    <3> QED BY <3>1, <3>2 DEF LoadedAuth, FreshAuth, LockoutOf
  <2>2. lockoutFile' = lockoutFile /\ guesses' = guesses
    BY <1>12 DEF Restart
  <2> QED BY <2>1, <2>2, SameLockout
<1>13. CASE UNCHANGED vars
  BY <1>13, SameLockout DEF vars
<1>14. ~CorruptLockout /\ \A s \in Slots : ~CorruptTokenState(s)
  BY DEF CorruptLockout, CorruptTokenState
<1> HIDE DEF Goal
<1> QED
  BY <1>1, <1>2, <1>3, <1>4, <1>5, <1>6, <1>7, <1>8, <1>9, <1>10, <1>11,
     <1>12, <1>13, <1>14 DEF Next, Method

(* The inductive invariant of the lockout.                                 *)
LEMMA LockoutInvariant == ASSUME ~Faults, OneSlot PROVE Spec => []LockoutInv
  BY InitLockout, NextLockout, PTL DEF Spec

(* A crash at any point never gives an attempt back: the lockout file      *)
(* reloads to the counts and locks that are in memory.                     *)
THEOREM LockoutHolds == ASSUME ~Faults, OneSlot PROVE Spec => []LockoutDurable
<1>1. LockoutInv => LockoutDurable
  BY DEF LockoutInv
<1> QED BY <1>1, LockoutInvariant, PTL

(* login and set_pin tell a role of at most max_failed_logins wrong PINs   *)
(* between two events that reset its count, however often the process      *)
(* crashes: the count is saved before the answer.  The wrong SO PINs that  *)
(* init_token answers have a count of their own and no limit.              *)
THEOREM GuessesHeld == ASSUME ~Faults, OneSlot PROVE Spec => []GuessesBounded
<1>1. LockoutInv => GuessesBounded
  BY DEF LockoutInv
<1> QED BY <1>1, LockoutInvariant, PTL

(* No step other than the SO's init_pin and re-initialization lifts a lock,*)
(* restarts after a crash included.                                        *)
THEOREM LocksHeld ==
    ASSUME ~Faults, OneSlot PROVE Spec => LockLiftedOnlyBySO
<1> DEFINE Held(s, r) ==
             auth[s].locked[r] /\ ~auth'[s].locked[r] =>
                \/ r = "USER" /\ auth[s].login = "SO"
                \/ pins'[s].hash["USER"] = NoPin
<1>1. Spec => []LockoutInv
  BY InitLockout, NextLockout, PTL DEF Spec
<1>2. LockoutInv /\ [Next]_vars => [\A s \in Slots, r \in Roles : Held(s, r)]_vars
  <2> SUFFICES ASSUME LockoutInv, Next, NEW s \in Slots, NEW r \in Roles
               PROVE  Held(s, r)
    BY DEF vars
  <2>t. /\ auth \in [Slots -> AuthState] /\ pins \in [Slots -> Credentials]
    BY DEF LockoutInv, ConsistentInv, TypeOK
  <2>s. "USER" \in Roles /\ "SO" \in Roles
    BY DEF Roles
  <2>1. ASSUME NEW q \in Slots, NEW a \in AuthState,
               auth' = [auth EXCEPT ![q] = a],
               auth[q].locked[r] => a.locked[r]
        PROVE  Held(s, r)
    BY <2>1, <2>t
  <2>2. ASSUME NEW q \in Slots, NEW x \in Roles
        PROVE  /\ auth[q].locked[r] => CountFailure(auth[q], x).locked[r]
               /\ CountInitFailure(auth[q]).locked = auth[q].locked
               /\ ClearFailures(auth[q], x).locked = auth[q].locked
               /\ [ClearFailures(auth[q], x) EXCEPT !.login = x].locked
                     = auth[q].locked
               /\ LogoutOf(auth[q]).locked = auth[q].locked
    BY <2>t DEF CountFailure, CountInitFailure, ClearFailures, LogoutOf,
                AuthState
  <2>3. ASSUME NEW q \in Slots, NEW pin \in Pins, init_token_rejected(q, pin)
        PROVE  Held(s, r)
    BY <2>1, <2>2, <2>3, <2>t, <2>s, AuthTypes DEF init_token_rejected
  <2>4. ASSUME NEW q \in Slots, NEW pin \in Pins, init_token(q, pin)
        PROVE  Held(s, r)
    <3>1. pins'[s] = [NoCredentials EXCEPT !.hash["SO"] = pin]
      BY <2>4, <2>t DEF init_token, OneSlot
    <3>2. pins'[s].hash["USER"] = NoPin
      BY <3>1, <2>s DEF NoCredentials
    <3> QED BY <3>2
  <2>5. ASSUME NEW q \in Slots, NEW pin \in Pins, init_pin(q, pin)
        PROVE  Held(s, r)
    <3>1. q = s /\ auth[s].login = "SO"
      BY <2>5 DEF init_pin, OneSlot
    <3>2. CASE r = "USER"
      BY <3>1, <3>2
    <3>3. CASE r # "USER"
      <4> DEFINE c == ClearFailures(auth[s], "USER")
      <4>1. c \in AuthState /\ c.locked = auth[s].locked
        BY <2>t, <2>s, <2>2, AuthTypes
      <4>2. auth'[s] = [c EXCEPT !.userInit = TRUE, !.locked["USER"] = FALSE]
        BY <2>5, <3>1, <2>t DEF init_pin
      <4> HIDE DEF c
      <4>3. auth'[s].locked[r] = auth[s].locked[r]
        BY <3>3, <4>1, <4>2 DEF AuthState
      <4> QED BY <4>3
    <3> QED BY <3>2, <3>3
  <2>6. ASSUME NEW q \in Slots, NEW old \in Pins, NEW new \in Pins,
               set_pin_rejected(q, old, new)
        PROVE  Held(s, r)
    BY <2>1, <2>2, <2>6, <2>t, AuthTypes DEF set_pin_rejected
  <2>7. ASSUME NEW q \in Slots, NEW old \in Pins, NEW new \in Pins,
               set_pin(q, old, new)
        PROVE  Held(s, r)
    BY <2>1, <2>2, <2>7, <2>t, AuthTypes DEF set_pin
  <2>8. ASSUME NEW q \in Slots, NEW x \in Roles, NEW pin \in Pins,
               login_rejected(q, x, pin)
        PROVE  Held(s, r)
    BY <2>1, <2>2, <2>8, <2>t, AuthTypes DEF login_rejected
  <2>9. ASSUME NEW q \in Slots, NEW x \in Roles, NEW pin \in Pins,
               login(q, x, pin)
        PROVE  Held(s, r)
    <3> DEFINE a == [ClearFailures(auth[q], x) EXCEPT !.login = x]
    <3>1. ClearFailures(auth[q], x) \in AuthState
      BY <2>t, AuthTypes
    <3>2. a \in AuthState
      BY <3>1 DEF AuthState, LoginState
    <3>3. auth' = [auth EXCEPT ![q] = a]
      BY <2>9 DEF login
    <3> QED BY <2>1, <2>2, <3>2, <3>3
  <2>10. ASSUME NEW q \in Slots, logout(q) PROVE Held(s, r)
    BY <2>1, <2>2, <2>10, <2>t, <2>s, AuthTypes DEF logout
  <2>11. ASSUME NEW q \in Slots, NEW x \in Roles, backoff_expires(q, x)
         PROVE  Held(s, r)
    BY <2>11, <2>t DEF backoff_expires, AuthState
  <2>12. ASSUME NEW q \in Slots, init_backoff_expires(q) PROVE Held(s, r)
    BY <2>12, <2>t DEF init_backoff_expires, AuthState
  <2>13. ASSUME auth' = auth PROVE Held(s, r)
    BY <2>13
  <2>14. ASSUME Restart PROVE Held(s, r)
    <3>1. LoadLockout(lockoutFile) = LockoutOf(auth[s])
      BY DEF LockoutInv, LockoutDurable
    <3>2. LoadLockout(lockoutFile).locked = auth[s].locked
      BY <3>1 DEF LockoutOf
    <3>3. auth'[s] = LoadedAuth(lockoutFile, stateFile[s])
      BY <2>14 DEF Restart
    <3>4. auth'[s].locked = LoadLockout(lockoutFile).locked
      BY <3>3 DEF LoadedAuth, FreshAuth
    <3> QED BY <3>2, <3>4
  <2> HIDE DEF Held
  <2>15. CASE \E q \in Slots : Method(q)
    <3>1. PICK q \in Slots : Method(q)
      BY <2>15
    <3> QED
      BY <3>1, <2>3, <2>4, <2>5, <2>6, <2>7, <2>8, <2>9, <2>10, <2>11, <2>12,
         <2>13 DEF Method, persist_token_state, CorruptTokenState
  <2> QED BY <2>13, <2>14, <2>15 DEF Next, CorruptLockout
<1> QED BY <1>1, <1>2, PTL DEF Spec, LockLiftedOnlyBySO
=============================================================================

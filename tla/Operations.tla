----------------------------- MODULE Operations -----------------------------
(***************************************************************************)
(* The cryptographic operation of a session (session/session.rs, the C_    *)
(* functions of pkcs11_abi/functions.rs): Init, single-part, Update and    *)
(* Final calls, saving and restoring it, and the object search.            *)
(*                                                                         *)
(* A call takes the session's write lock at its beginning and keeps it, so *)
(* that it is one step here.  C_DigestKey and C_SetOperationState take the *)
(* lock twice and are two steps, between which other threads run.  Login   *)
(* and logout visit one session at a time under its lock.  A mechanism is  *)
(* what the calls ask of it, a part of the input one unit of length.       *)
(***************************************************************************)
EXTENDS Naturals, Sequences, FiniteSets

CONSTANTS
    Sessions,
    Keys,           \* objects; all exist at first
    NoKey,
    Private,        \* the keys with CKA_PRIVATE
    Digestible,     \* secret keys that are not sensitive
    Parts,          \* data an application passes
    Callers,        \* threads inside the calls that are two steps
    MaxAccumulated, \* MAX_MULTIPART_ACCUMULATION
    MaxSaved,       \* OP_STATE_MAX_DATA_LEN
    MaxGiven        \* bound: parts and keys fed into one operation

ASSUME KeyAssumption == /\ NoKey \notin Keys
                        /\ Private \subseteq Keys
                        /\ Digestible \subseteq Keys
                        /\ Parts \cap Keys = {}
ASSUME LengthAssumption == /\ MaxAccumulated \in Nat
                           /\ MaxSaved \in Nat
                           /\ MaxGiven \in Nat

VARIABLES
    op,         \* [Sessions -> Operation]: active_operation
    find,       \* [Sessions -> Search]: find_context
    loggedIn,   \* [Sessions -> BOOLEAN]: state.is_logged_in()
    live,       \* objects in the object store
    saved,      \* the blob the application keeps (bound: the last one)
    call,       \* [Callers -> Call]
    given       \* [Sessions -> Input]: what the application has fed, a history

vars == <<op, find, loggedIn, live, saved, call, given>>

Input == Seq(Parts \cup Keys)

Kinds == {"None", "Encrypt", "Decrypt", "Sign", "Verify", "Digest"}

\* ActiveOperation; kind "None" stands for Option::None.  multipart: the
\* mechanism takes parts, for a signature through a hash of its own.  hashed:
\* there is a hasher, which has consumed fed.  cached: cached_object is Some.
Operation == [kind : Kinds, multipart : BOOLEAN, key : Keys \cup {NoKey},
              data : Input, hashed : BOOLEAN, fed : Input, cached : BOOLEAN]

NoOp == [kind |-> "None", multipart |-> FALSE, key |-> NoKey, data |-> <<>>,
         hashed |-> FALSE, fed |-> <<>>, cached |-> FALSE]

\* FindContext: the results not returned yet.
Search == [on : BOOLEAN, left : SUBSET Keys]
NoSearch == [on |-> FALSE, left |-> {}]

\* The blob of C_GetOperationState, with what had been fed by then.
Blob == [session : Sessions, kind : Kinds, multipart : BOOLEAN,
         key : Keys \cup {NoKey}, data : Input, given : Input]

\* Inside C_DigestKey with a key, or C_SetOperationState with an operation.
Call == [pc : {"idle", "digest_key", "restore"}, session : Sessions,
         key : Keys \cup {NoKey}, op : Operation, given : Input]

TypeOK ==
    /\ op \in [Sessions -> Operation]
    /\ find \in [Sessions -> Search]
    /\ loggedIn \in [Sessions -> BOOLEAN]
    /\ live \subseteq Keys
    /\ saved \subseteq Blob
    /\ call \in [Callers -> Call]
    /\ given \in [Sessions -> Input]

Idle(s) == [pc |-> "idle", session |-> s, key |-> NoKey, op |-> NoOp,
            given |-> <<>>]
Digesting(s, k) == [pc |-> "digest_key", session |-> s, key |-> k, op |-> NoOp,
                    given |-> <<>>]
Restoring(s, o, g) == [pc |-> "restore", session |-> s, key |-> NoKey, op |-> o,
                       given |-> g]

Init ==
    /\ op = [s \in Sessions |-> NoOp]
    /\ find = [s \in Sessions |-> NoSearch]
    /\ loggedIn = [s \in Sessions |-> FALSE]
    /\ live = Keys
    /\ saved = {}
    /\ \E s \in Sessions : call = [c \in Callers |-> Idle(s)]
    /\ given = [s \in Sessions |-> <<>>]

-----------------------------------------------------------------------------
(* The ways in which a call leaves the operation                           *)

Active(s, kind) == op[s].kind = kind

Start(s, o) ==
    /\ op' = [op EXCEPT ![s] = o]
    /\ given' = [given EXCEPT ![s] = <<>>]

\* Finished, failed or refused: active_operation = None.
End(s) == Start(s, NoOp)

TakeData(s) ==
    /\ op' = [op EXCEPT ![s].data = <<>>]
    /\ UNCHANGED given

\* A length query, or a buffer found too small before anything is taken.
Keep(s) == UNCHANGED <<op, given>>

\* p is added to the input of the operation, which becomes o.
Feed(s, o, p) ==
    /\ op' = [op EXCEPT ![s] = o]
    /\ given' = [given EXCEPT ![s] = Append(@, p)]

\* The calls leave everything else alone.
Others == UNCHANGED <<find, loggedIn, live, saved, call>>

-----------------------------------------------------------------------------
(* Init calls: they look the key up and keep the object                    *)

Permitted(s, k) == k \in Private => loggedIn[s]

Fresh(kind, k, multipart, hashed) ==
    [kind |-> kind, multipart |-> multipart, key |-> k, data |-> <<>>,
     hashed |-> hashed, fed |-> <<>>, cached |-> TRUE]

CipherInit(s, kind) ==
    /\ op[s] = NoOp
    /\ \E k \in live, multipart \in BOOLEAN :
         /\ Permitted(s, k)
         /\ Start(s, Fresh(kind, k, multipart, FALSE))
    /\ Others

C_EncryptInit(s) == CipherInit(s, "Encrypt")

C_DecryptInit(s) == CipherInit(s, "Decrypt")

\* create_hasher may fail, which leaves no hasher.
C_SignInit(s) ==
    /\ loggedIn[s]
    /\ op[s] = NoOp
    /\ \E k \in live, multipart \in BOOLEAN, hashed \in BOOLEAN :
         /\ hashed => multipart
         /\ Start(s, Fresh("Sign", k, multipart, hashed))
    /\ Others

C_VerifyInit(s) ==
    /\ op[s] = NoOp
    /\ \E k \in live, multipart \in BOOLEAN, hashed \in BOOLEAN :
         /\ hashed => multipart
         /\ Permitted(s, k)
         /\ Start(s, Fresh("Verify", k, multipart, hashed))
    /\ Others

FreshDigest ==
    [kind |-> "Digest", multipart |-> TRUE, key |-> NoKey, data |-> <<>>,
     hashed |-> TRUE, fed |-> <<>>, cached |-> FALSE]

C_DigestInit(s) ==
    /\ op[s] = NoOp
    /\ Start(s, FreshDigest)
    /\ Others

-----------------------------------------------------------------------------
(* Single-part calls: they look the key up again                           *)

SinglePart(s, kind) ==
    /\ Active(s, kind)
    /\ (op[s].key \in live /\ Keep(s)) \/ End(s)
    /\ Others

C_Encrypt(s) == SinglePart(s, "Encrypt")

C_Decrypt(s) == SinglePart(s, "Decrypt")

C_Sign(s) == SinglePart(s, "Sign")

C_Verify(s) == Active(s, "Verify") /\ End(s) /\ Others

\* Refused, and the operation ended, if there was input before.
C_Digest(s) ==
    /\ Active(s, "Digest")
    /\ (op[s].data = <<>> /\ Keep(s)) \/ End(s)
    /\ Others

-----------------------------------------------------------------------------
(* Update calls                                                            *)

LimitPassed(s) == Len(op[s].data) > MaxAccumulated

\* One more part would be too many.
OverLimit(s) == Len(op[s].data) + 1 > MaxAccumulated

\* A part may also be too long by itself.
Refuse(s) == End(s)

WithData(o, p) == [o EXCEPT !.data = Append(@, p)]

WithHash(o, p) == [o EXCEPT !.fed = Append(@, p)]

CipherUpdate(s, kind) ==
    /\ Active(s, kind)
    /\ Len(given[s]) < MaxGiven
    /\ \/ Refuse(s)
       \/ /\ op[s].multipart
          /\ ~OverLimit(s)
          /\ \E p \in Parts : Feed(s, WithData(op[s], p), p)
    /\ Others

C_EncryptUpdate(s) == CipherUpdate(s, "Encrypt")

C_DecryptUpdate(s) == CipherUpdate(s, "Decrypt")

\* With a hasher the data is not kept; a mechanism that needs a hasher and
\* has none ends the operation.
SignatureUpdate(s, kind) ==
    /\ Active(s, kind)
    /\ Len(given[s]) < MaxGiven
    /\ \/ Refuse(s)
       \/ /\ ~OverLimit(s)
          /\ op[s].hashed
          /\ \E p \in Parts : Feed(s, WithHash(op[s], p), p)
       \/ /\ ~OverLimit(s)
          /\ ~op[s].hashed /\ ~op[s].multipart
          /\ \E p \in Parts : Feed(s, WithData(op[s], p), p)
    /\ Others

C_SignUpdate(s) == SignatureUpdate(s, "Sign")

C_VerifyUpdate(s) == SignatureUpdate(s, "Verify")

\* The data is kept beside the hasher, for C_GetOperationState.
C_DigestUpdate(s) ==
    /\ Active(s, "Digest")
    /\ Len(given[s]) < MaxGiven
    /\ \/ Refuse(s)
       \/ /\ ~OverLimit(s)
          /\ \E p \in Parts : Feed(s, WithHash(WithData(op[s], p), p), p)
    /\ Others

\* Under the read lock; no limit applies to keys, and no login is needed.
C_DigestKey(c, s) ==
    /\ call[c].pc = "idle"
    /\ Active(s, "Digest")
    /\ \E k \in live \cap Digestible :
         call' = [call EXCEPT ![c] = Digesting(s, k)]
    /\ UNCHANGED <<op, find, loggedIn, live, saved, given>>

\* Under the write lock, whichever digest is active by now.
digest_key_feed(c) ==
    LET s == call[c].session
        k == call[c].key
    IN  /\ call[c].pc = "digest_key"
        /\ IF Active(s, "Digest")
           THEN /\ Len(given[s]) < MaxGiven
                /\ Feed(s, WithHash(WithData(op[s], k), k), k)
           ELSE UNCHANGED <<op, given>>
        /\ call' = [call EXCEPT ![c] = Idle(s)]
        /\ UNCHANGED <<find, loggedIn, live, saved>>

-----------------------------------------------------------------------------
(* Final calls: with the object kept by Init, or looked up again           *)

CipherFinal(s, kind) ==
    /\ Active(s, kind)
    /\ (op[s].multipart /\ Keep(s)) \/ End(s)
    /\ Others

C_EncryptFinal(s) == CipherFinal(s, "Encrypt")

C_DecryptFinal(s) == CipherFinal(s, "Decrypt")

\* Only the length query keeps the operation, and it looks the key up.
C_SignFinal(s) ==
    /\ Active(s, "Sign")
    /\ (op[s].key \in live /\ Keep(s)) \/ End(s)
    /\ Others

C_VerifyFinal(s) == Active(s, "Verify") /\ End(s) /\ Others

C_DigestFinal(s) ==
    /\ Active(s, "Digest")
    /\ Keep(s) \/ End(s)
    /\ Others

-----------------------------------------------------------------------------
(* Saving and restoring: the blob is bound to the session                  *)

serialize_state(s) ==
    [session |-> s, kind |-> op[s].kind, multipart |-> op[s].multipart,
     key |-> op[s].key, data |-> op[s].data, given |-> given[s]]

C_GetOperationState(s) ==
    /\ op[s].kind \in {"Digest", "Sign", "Verify"}
    /\ Len(op[s].data) <= MaxSaved
    /\ saved' = {serialize_state(s)}
    /\ UNCHANGED <<op, find, loggedIn, live, call, given>>

RestoredWithObject(b, k) ==
    [kind |-> b.kind, multipart |-> b.multipart, key |-> k, data |-> b.data,
     hashed |-> b.kind = "Digest",
     fed |-> IF b.kind = "Digest" THEN b.data ELSE <<>>, cached |-> TRUE]

\* A digest is fed its data again.  For a signature create_hasher is asked
\* for the signature's mechanism, knows only digests, and leaves no hasher.
Restored(b, k) ==
    [kind |-> b.kind, multipart |-> b.multipart, key |-> k, data |-> b.data,
     hashed |-> b.kind = "Digest",
     fed |-> IF b.kind = "Digest" THEN b.data ELSE <<>>, cached |-> FALSE]

\* What authenticates: the tag covers the session and its slot.
deserialize_state(s) == {b \in saved : b.session = s}

\* Without the lock: the blob is checked, and the key, the application's or
\* the one in the blob, is looked up.
C_SetOperationState(c, s) ==
    /\ call[c].pc = "idle"
    /\ \E b \in deserialize_state(s), k \in live \cup {NoKey} :
         /\ (k = NoKey) <=> (b.kind = "Digest")
         /\ call' = [call EXCEPT ![c] = Restoring(s, Restored(b, k), b.given)]
    /\ UNCHANGED <<op, find, loggedIn, live, saved, given>>

\* Under the write lock, over whatever operation is active by now.
restore_operation(c) ==
    LET s == call[c].session
    IN  /\ call[c].pc = "restore"
        /\ op' = [op EXCEPT ![s] = call[c].op]
        /\ given' = [given EXCEPT ![s] = call[c].given]
        /\ call' = [call EXCEPT ![c] = Idle(s)]
        /\ UNCHANGED <<find, loggedIn, live, saved>>

-----------------------------------------------------------------------------
(* The object search: handles as of its beginning                          *)

find_objects(s) == {k \in live : Permitted(s, k)}

C_FindObjectsInit(s) ==
    /\ ~find[s].on
    /\ \E matching \in SUBSET Keys :
         find' = [find EXCEPT ![s] = [on |-> TRUE,
                                      left |-> find_objects(s) \cap matching]]
    /\ UNCHANGED <<op, loggedIn, live, saved, call, given>>

C_FindObjects(s) ==
    /\ find[s].on
    /\ \E returned \in SUBSET find[s].left :
         find' = [find EXCEPT ![s].left = @ \ returned]
    /\ UNCHANGED <<op, loggedIn, live, saved, call, given>>

C_FindObjectsFinal(s) ==
    /\ find[s].on
    /\ find' = [find EXCEPT ![s] = NoSearch]
    /\ UNCHANGED <<op, loggedIn, live, saved, call, given>>

-----------------------------------------------------------------------------
(* What happens to the session and the keys meanwhile                      *)

C_DestroyObject(k) ==
    /\ k \in live
    /\ live' = live \ {k}
    /\ UNCHANGED <<op, find, loggedIn, saved, call, given>>

on_login(s) ==
    /\ ~loggedIn[s]
    /\ loggedIn' = [loggedIn EXCEPT ![s] = TRUE]
    /\ UNCHANGED <<op, find, live, saved, call, given>>

cancel_operation_only(s) ==
    /\ End(s)
    /\ loggedIn' = [loggedIn EXCEPT ![s] = FALSE]
    /\ UNCHANGED <<find, live, saved, call>>

\* One session's turn in cancel_sessions_for_slot.
cancel_session(s) ==
    /\ End(s)
    /\ find' = [find EXCEPT ![s] = NoSearch]
    /\ loggedIn' = [loggedIn EXCEPT ![s] = FALSE]
    /\ UNCHANGED <<live, saved, call>>

InitCall(s) ==
    \/ C_EncryptInit(s) \/ C_DecryptInit(s) \/ C_SignInit(s)
    \/ C_VerifyInit(s) \/ C_DigestInit(s)

SinglePartCall(s) ==
    C_Encrypt(s) \/ C_Decrypt(s) \/ C_Sign(s) \/ C_Verify(s) \/ C_Digest(s)

UpdateCall(s) ==
    \/ C_EncryptUpdate(s) \/ C_DecryptUpdate(s) \/ C_SignUpdate(s)
    \/ C_VerifyUpdate(s) \/ C_DigestUpdate(s)

FinalCall(s) ==
    \/ C_EncryptFinal(s) \/ C_DecryptFinal(s) \/ C_SignFinal(s)
    \/ C_VerifyFinal(s) \/ C_DigestFinal(s)

SearchCall(s) ==
    C_FindObjectsInit(s) \/ C_FindObjects(s) \/ C_FindObjectsFinal(s)

TwoStepCall(c) ==
    \/ \E s \in Sessions : C_DigestKey(c, s) \/ C_SetOperationState(c, s)
    \/ digest_key_feed(c) \/ restore_operation(c)

SessionStep(s) ==
    \/ InitCall(s) \/ SinglePartCall(s) \/ UpdateCall(s) \/ FinalCall(s)
    \/ SearchCall(s) \/ C_GetOperationState(s) \/ on_login(s)
    \/ cancel_session(s)

Next ==
    \/ \E s \in Sessions : SessionStep(s)
    \/ \E c \in Callers : TwoStepCall(c)
    \/ \E k \in Keys : C_DestroyObject(k)

Spec == Init /\ [][Next]_vars

-----------------------------------------------------------------------------
(* Properties                                                              *)

\* What the Final call would work on.
Covered(o) == IF o.hashed THEN o.fed ELSE o.data

\* A hash-then-sign operation that C_SetOperationState has brought back.
Rehashed(o) == o.kind \in {"Sign", "Verify"} /\ o.multipart /\ ~o.cached

(* A Final call works on exactly the input the application fed, in its     *)
(* order: through length queries, buffers too small, digested keys, saving *)
(* and restoring, whichever thread comes in between.  Restored hash-then-  *)
(* sign operations are left out: their blob has no hasher in it.           *)
InputExact ==
    \A s \in Sessions : ~Rehashed(op[s]) => Covered(op[s]) = given[s]

(* C_Logout: "every CSP that could outlive the logout has been zeroized".  *)
(* A session that is not logged in has neither an operation on a private   *)
(* key in hand nor a search that would return one.  (Operations without a  *)
(* kept object are restored ones, for which C_SetOperationState does not   *)
(* look at the login.)                                                     *)
PrivateNeedsLogin ==
    \A s \in Sessions :
        ~loggedIn[s] => /\ find[s].left \cap Private = {}
                        /\ op[s].cached => op[s].key \notin Private

\* The operation has its key, or would find it.
Usable(s) == op[s].cached \/ op[s].key \in live

(* A destroyed key serves only operations that had it in hand when it was  *)
(* destroyed: none can be begun with it, or restored, not even by a call   *)
(* that looked the key up before.                                          *)
DestroyedKeyUnusable ==
    [][\A s \in Sessions :
         (op'[s].key \in Keys \ live' /\ Usable(s)')
             => (Usable(s) /\ op[s].key = op'[s].key)]_vars

\* The places of the application's parts among the input.
PartsOf(d) == {i \in DOMAIN d : d[i] \in Parts}

(* "Maximum bytes that multi-part Update functions may accumulate": the    *)
(* application's parts in memory stay within the limit, in operations,     *)
(* restored ones included, however often they are saved and brought back.  *)
AccumulationBounded ==
    \A s \in Sessions : Cardinality(PartsOf(op[s].data)) <= MaxAccumulated
=============================================================================

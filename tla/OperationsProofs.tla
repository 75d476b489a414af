-------------------------- MODULE OperationsProofs --------------------------
(***************************************************************************)
(* For any sessions, keys, inputs, limits and threads: a Final call works  *)
(* on exactly the input that was fed, and a session that is not logged in  *)
(* has no private key in hand.                                             *)
(***************************************************************************)
EXTENDS Operations, FiniteSetTheorems, TLAPS

\* A digest keeps its input beside the hasher; only mechanisms that hash
\* have a hasher.
WellFormed(o) ==
    /\ o.kind = "Digest" => o.hashed /\ o.data = o.fed
    /\ o.kind \in {"Encrypt", "Decrypt"} => ~o.hashed
    /\ (o.kind \in {"Sign", "Verify"} /\ ~o.multipart) => ~o.hashed

\* An operation and what was fed into it.
Exact(o, g) == WellFormed(o) /\ (~Rehashed(o) => Covered(o) = g)

\* No private key without login.
Allowed(o, login) == (~login /\ o.cached) => o.key \notin Private

SessionInv ==
    /\ op \in [Sessions -> Operation]
    /\ given \in [Sessions -> Input]
    /\ loggedIn \in [Sessions -> BOOLEAN]
    /\ \A s \in Sessions : Exact(op[s], given[s])
    /\ \A s \in Sessions : Allowed(op[s], loggedIn[s])

SearchInv ==
    /\ find \in [Sessions -> Search]
    /\ live \subseteq Keys
    /\ \A s \in Sessions : ~loggedIn[s] => find[s].left \cap Private = {}

\* What a blob holds is what had been fed, unless a hash was lost.
SavedInv ==
    /\ saved \subseteq Blob
    /\ \A b \in saved :
         /\ b.kind \in {"Digest", "Sign", "Verify"}
         /\ (b.kind = "Digest" \/ ~b.multipart) => b.data = b.given

\* So is what a call is about to restore, and it has no object in hand.
CallInv ==
    /\ call \in [Callers -> Call]
    /\ \A c \in Callers :
         /\ call[c].pc = "digest_key" => call[c].key \in Keys
         /\ call[c].pc = "restore" => /\ Exact(call[c].op, call[c].given)
                                      /\ ~call[c].op.cached

OperationsInv == SessionInv /\ SearchInv /\ SavedInv /\ CallInv

-----------------------------------------------------------------------------
(* Operations and their input                                              *)

\* No operation.
LEMMA NoOpExact == NoOp \in Operation /\ Exact(NoOp, <<>>) /\ ~NoOp.cached
<1>1. <<>> \in Input
  BY DEF Input
<1> QED
  BY <1>1 DEF NoOp, Operation, Kinds, Exact, WellFormed, Rehashed, Covered

\* The operation an Init call begins.
LEMMA FreshExact ==
    ASSUME NEW kind \in {"Encrypt", "Decrypt", "Sign", "Verify"}, NEW k \in Keys,
           NEW multipart \in BOOLEAN, NEW hashed \in BOOLEAN,
           hashed => multipart,
           kind \in {"Encrypt", "Decrypt"} => ~hashed
    PROVE  /\ Fresh(kind, k, multipart, hashed) \in Operation
           /\ Exact(Fresh(kind, k, multipart, hashed), <<>>)
           /\ Fresh(kind, k, multipart, hashed).key = k
<1>1. <<>> \in Input
  BY DEF Input
<1>2. Fresh(kind, k, multipart, hashed) \in Operation
  BY <1>1 DEF Fresh, Operation, Kinds
<1> QED
  BY <1>2 DEF Fresh, Exact, WellFormed, Rehashed, Covered

\* The digest C_DigestInit begins.
LEMMA DigestExact ==
    /\ FreshDigest \in Operation
    /\ Exact(FreshDigest, <<>>)
    /\ ~FreshDigest.cached
<1>1. <<>> \in Input
  BY DEF Input
<1> QED
  BY <1>1 DEF FreshDigest, Operation, Kinds, Exact, WellFormed, Rehashed, Covered

\* A part in the data.
LEMMA WithDataFields ==
    ASSUME NEW o \in Operation, NEW p \in Parts \cup Keys
    PROVE  /\ WithData(o, p) \in Operation
           /\ WithData(o, p).data = Append(o.data, p)
           /\ WithData(o, p).kind = o.kind
           /\ WithData(o, p).multipart = o.multipart
           /\ WithData(o, p).key = o.key
           /\ WithData(o, p).hashed = o.hashed
           /\ WithData(o, p).fed = o.fed
           /\ WithData(o, p).cached = o.cached
<1>1. Append(o.data, p) \in Input
  BY DEF Operation, Input
<1>2. WithData(o, p) = [kind |-> o.kind, multipart |-> o.multipart,
                        key |-> o.key, data |-> Append(o.data, p),
                        hashed |-> o.hashed, fed |-> o.fed,
                        cached |-> o.cached]
  BY SMTT(30) DEF WithData, Operation
<1> QED
  BY <1>1, <1>2 DEF Operation

\* A part in the hasher.
LEMMA WithHashFields ==
    ASSUME NEW o \in Operation, NEW p \in Parts \cup Keys
    PROVE  /\ WithHash(o, p) \in Operation
           /\ WithHash(o, p).data = o.data
           /\ WithHash(o, p).kind = o.kind
           /\ WithHash(o, p).multipart = o.multipart
           /\ WithHash(o, p).key = o.key
           /\ WithHash(o, p).hashed = o.hashed
           /\ WithHash(o, p).fed = Append(o.fed, p)
           /\ WithHash(o, p).cached = o.cached
<1>1. Append(o.fed, p) \in Input
  BY DEF Operation, Input
<1>2. WithHash(o, p) = [kind |-> o.kind, multipart |-> o.multipart,
                        key |-> o.key, data |-> o.data,
                        hashed |-> o.hashed, fed |-> Append(o.fed, p),
                        cached |-> o.cached]
  BY SMTT(30) DEF WithHash, Operation
<1> QED
  BY <1>1, <1>2 DEF Operation

\* What C_SetOperationState makes of a blob.
LEMMA RestoredIsExact ==
    ASSUME SavedInv, NEW b \in saved, NEW k \in Keys \cup {NoKey}
    PROVE  /\ Restored(b, k) \in Operation
           /\ Exact(Restored(b, k), b.given)
           /\ ~Restored(b, k).cached
           /\ b.given \in Input
<1>1. b \in Blob /\ b.kind \in {"Digest", "Sign", "Verify"}
  BY DEF SavedInv
<1>2. (b.kind = "Digest" \/ ~b.multipart) => b.data = b.given
  BY DEF SavedInv
<1>3. /\ b.multipart \in BOOLEAN
      /\ b.data \in Input
      /\ b.given \in Input
  BY <1>1 DEF Blob
<1>4. <<>> \in Input
  BY DEF Input
<1>5. Restored(b, k) \in Operation
  BY <1>1, <1>3, <1>4 DEF Restored, Operation, Kinds
<1>6. Exact(Restored(b, k), b.given)
  BY <1>1, <1>2, <1>3 DEF Restored, Exact, WellFormed, Rehashed, Covered
<1> QED
  BY <1>3, <1>5, <1>6 DEF Restored

-----------------------------------------------------------------------------
(* The ways in which a step leaves the parts of the invariant              *)

\* One session gets another operation and another input.
LEMMA SetOperation ==
    ASSUME SessionInv, NEW s \in Sessions, NEW o \in Operation, NEW g \in Input,
           Exact(o, g), Allowed(o, loggedIn[s]),
           op' = [op EXCEPT ![s] = o],
           given' = [given EXCEPT ![s] = g],
           UNCHANGED loggedIn
    PROVE  SessionInv'
<1>1. /\ op' \in [Sessions -> Operation]
      /\ given' \in [Sessions -> Input]
      /\ loggedIn' \in [Sessions -> BOOLEAN]
  BY DEF SessionInv
<1>2. ASSUME NEW r \in Sessions
      PROVE  Exact(op[r], given[r])' /\ Allowed(op[r], loggedIn[r])'
  <2>1. CASE r = s
    <3>1. op'[r] = o /\ given'[r] = g /\ loggedIn'[r] = loggedIn[s]
      BY <2>1 DEF SessionInv
    <3> QED
      BY <3>1 DEF Exact, Allowed, WellFormed, Rehashed, Covered
  <2>2. CASE r # s
    <3>1. op'[r] = op[r] /\ given'[r] = given[r] /\ loggedIn'[r] = loggedIn[r]
      BY <2>2 DEF SessionInv
    <3> QED
      BY <3>1 DEF SessionInv, Exact, Allowed, WellFormed, Rehashed, Covered
  <2> QED
    BY <2>1, <2>2
<1> QED
  BY <1>1, <1>2 DEF SessionInv

\* No session's operation changes.
LEMMA SameOperations ==
    ASSUME SessionInv, UNCHANGED <<op, given, loggedIn>>
    PROVE  SessionInv'
BY DEF SessionInv, Exact, Allowed, WellFormed, Rehashed, Covered

\* The operation ends.
LEMMA EndKeeps ==
    ASSUME SessionInv, NEW s \in Sessions, End(s), UNCHANGED loggedIn
    PROVE  SessionInv'
<1>1. Allowed(NoOp, loggedIn[s])
  BY NoOpExact DEF Allowed
<1>2. <<>> \in Input
  BY DEF Input
<1> QED
  BY <1>1, <1>2, NoOpExact, SetOperation DEF End, Start

\* The calls on an operation leave the rest of the invariant alone.
LEMMA OthersKeep ==
    ASSUME OperationsInv, SessionInv', Others
    PROVE  OperationsInv'
BY DEF OperationsInv, Others, SearchInv, SavedInv, CallInv

\* One thread's call changes.
LEMMA SetCall ==
    ASSUME CallInv, NEW c \in Callers, NEW v \in Call,
           v.pc = "digest_key" => v.key \in Keys,
           v.pc = "restore" => Exact(v.op, v.given) /\ ~v.op.cached,
           call' = [call EXCEPT ![c] = v]
    PROVE  CallInv'
<1>1. call' \in [Callers -> Call]
  BY DEF CallInv
<1>2. ASSUME NEW d \in Callers
      PROVE  /\ call'[d].pc = "digest_key" => call'[d].key \in Keys
             /\ call'[d].pc = "restore" => /\ Exact(call'[d].op, call'[d].given)
                                           /\ ~call'[d].op.cached
  <2>1. CASE d = c
    BY <2>1 DEF CallInv
  <2>2. CASE d # c
    BY <2>2 DEF CallInv
  <2> QED
    BY <2>1, <2>2
<1> QED
  BY <1>1, <1>2 DEF CallInv, Exact, WellFormed, Rehashed, Covered

\* A thread leaves its call.
LEMMA IdleKeeps ==
    ASSUME CallInv, NEW c \in Callers, NEW s \in Sessions,
           call' = [call EXCEPT ![c] = Idle(s)]
    PROVE  CallInv'
<1>1. <<>> \in Input
  BY DEF Input
<1>2. Idle(s) \in Call
  BY <1>1, NoOpExact DEF Idle, Call
<1> QED
  BY <1>2, SetCall DEF Idle

\* Only a call changes.
LEMMA SessionsKept ==
    ASSUME OperationsInv, CallInv',
           UNCHANGED <<op, find, loggedIn, live, saved, given>>
    PROVE  OperationsInv'
<1>1. SessionInv'
  BY SameOperations DEF OperationsInv
<1> QED
  BY <1>1 DEF OperationsInv, SearchInv, SavedInv

\* An operation is kept or ends.
LEMMA KeepOrEnd ==
    ASSUME OperationsInv, NEW s \in Sessions, Keep(s) \/ End(s), Others
    PROVE  OperationsInv'
<1>1. UNCHANGED loggedIn /\ SessionInv
  BY DEF Others, OperationsInv
<1>2. SessionInv'
  <2>1. CASE Keep(s)
    BY <1>1, <2>1, SameOperations DEF Keep
  <2>2. CASE End(s)
    BY <1>1, <2>2, EndKeeps
  <2> QED
    BY <2>1, <2>2
<1> QED
  BY <1>2, OthersKeep

-----------------------------------------------------------------------------
(* Init calls                                                              *)

\* An operation begins with a key the session may use.
LEMMA BeginKeeps ==
    ASSUME OperationsInv, NEW s \in Sessions,
           NEW kind \in {"Encrypt", "Decrypt", "Sign", "Verify"}, NEW k \in live,
           NEW multipart \in BOOLEAN, NEW hashed \in BOOLEAN,
           hashed => multipart, kind \in {"Encrypt", "Decrypt"} => ~hashed,
           Permitted(s, k),
           Start(s, Fresh(kind, k, multipart, hashed)), Others
    PROVE  OperationsInv'
<1> DEFINE o == Fresh(kind, k, multipart, hashed)
<1>1. k \in Keys
  BY DEF OperationsInv, SearchInv
<1>2. o \in Operation /\ Exact(o, <<>>) /\ o.key = k
  BY <1>1, FreshExact
<1>3. Allowed(o, loggedIn[s])
  BY <1>2 DEF Allowed, Permitted
<1>4. <<>> \in Input
  BY DEF Input
<1>5. SessionInv /\ UNCHANGED loggedIn
  BY DEF OperationsInv, Others
<1>6. op' = [op EXCEPT ![s] = o] /\ given' = [given EXCEPT ![s] = <<>>]
  BY DEF Start
<1> HIDE DEF o
<1>7. SessionInv'
  BY <1>2, <1>3, <1>4, <1>5, <1>6, SetOperation
<1> QED
  BY <1>7, OthersKeep

\* C_EncryptInit, C_DecryptInit.
LEMMA CipherInitKeeps ==
    ASSUME OperationsInv, NEW s \in Sessions, NEW kind \in {"Encrypt", "Decrypt"},
           CipherInit(s, kind)
    PROVE  OperationsInv'
<1>1. PICK k \in live, multipart \in BOOLEAN :
         Permitted(s, k) /\ Start(s, Fresh(kind, k, multipart, FALSE))
  BY DEF CipherInit
<1>2. Others
  BY DEF CipherInit
<1> QED
  BY <1>1, <1>2, BeginKeeps

\* C_SignInit.
LEMMA SignInitKeeps ==
    ASSUME OperationsInv, NEW s \in Sessions, C_SignInit(s)
    PROVE  OperationsInv'
<1>1. PICK k \in live, multipart \in BOOLEAN, hashed \in BOOLEAN :
         (hashed => multipart) /\ Start(s, Fresh("Sign", k, multipart, hashed))
  BY DEF C_SignInit
<1>2. Others /\ Permitted(s, k)
  BY DEF C_SignInit, Permitted
<1> QED
  BY <1>1, <1>2, BeginKeeps

\* C_VerifyInit.
LEMMA VerifyInitKeeps ==
    ASSUME OperationsInv, NEW s \in Sessions, C_VerifyInit(s)
    PROVE  OperationsInv'
<1>1. PICK k \in live, multipart \in BOOLEAN, hashed \in BOOLEAN :
         /\ hashed => multipart
         /\ Permitted(s, k)
         /\ Start(s, Fresh("Verify", k, multipart, hashed))
  BY DEF C_VerifyInit
<1>2. Others
  BY DEF C_VerifyInit
<1> QED
  BY <1>1, <1>2, BeginKeeps

\* C_DigestInit.
LEMMA DigestInitKeeps ==
    ASSUME OperationsInv, NEW s \in Sessions, C_DigestInit(s)
    PROVE  OperationsInv'
<1>1. Allowed(FreshDigest, loggedIn[s])
  BY DigestExact DEF Allowed
<1>2. <<>> \in Input
  BY DEF Input
<1>3. SessionInv /\ UNCHANGED loggedIn /\ Others
  BY DEF OperationsInv, C_DigestInit, Others
<1>4. SessionInv'
  BY <1>1, <1>2, <1>3, DigestExact, SetOperation DEF C_DigestInit, Start
<1> QED
  BY <1>3, <1>4, OthersKeep

\* The calls that begin an operation.
LEMMA InitCallKeeps ==
    ASSUME OperationsInv, NEW s \in Sessions, InitCall(s)
    PROVE  OperationsInv'
BY CipherInitKeeps, SignInitKeeps, VerifyInitKeeps, DigestInitKeeps
   DEF InitCall, C_EncryptInit, C_DecryptInit

-----------------------------------------------------------------------------
(* Single-part and Final calls                                             *)

\* The single-part calls keep the operation or end it.
LEMMA SinglePartCallKeeps ==
    ASSUME OperationsInv, NEW s \in Sessions, SinglePartCall(s)
    PROVE  OperationsInv'
<1>1. (Keep(s) \/ End(s)) /\ Others
  BY DEF SinglePartCall, C_Encrypt, C_Decrypt, C_Sign, C_Verify, C_Digest,
         SinglePart
<1> QED
  BY <1>1, KeepOrEnd

\* So do the Final calls.
LEMMA FinalCallKeeps ==
    ASSUME OperationsInv, NEW s \in Sessions, FinalCall(s)
    PROVE  OperationsInv'
<1>1. (Keep(s) \/ End(s)) /\ Others
  BY DEF FinalCall, C_EncryptFinal, C_DecryptFinal, C_SignFinal, C_VerifyFinal,
         C_DigestFinal, CipherFinal
<1> QED
  BY <1>1, KeepOrEnd

-----------------------------------------------------------------------------
(* Update calls                                                            *)

\* A part or a key goes where the operation's Final call will look for it.
LEMMA FedExact ==
    ASSUME NEW o \in Operation, NEW g \in Input, Exact(o, g),
           NEW p \in Parts \cup Keys
    PROVE  /\ (~o.hashed /\ o.kind # "Digest") => Exact(WithData(o, p), Append(g, p))
           /\ (o.hashed /\ o.kind # "Digest") => Exact(WithHash(o, p), Append(g, p))
           /\ o.kind = "Digest"
                  => Exact(WithHash(WithData(o, p), p), Append(g, p))
<1>1. WithData(o, p) \in Operation
  BY WithDataFields
<1> DEFINE d == WithData(o, p)
           h == WithHash(o, p)
           e == WithHash(WithData(o, p), p)
<1>2. /\ d.data = Append(o.data, p) /\ d.kind = o.kind
      /\ d.multipart = o.multipart /\ d.hashed = o.hashed
      /\ d.fed = o.fed /\ d.cached = o.cached
  BY WithDataFields
<1>3. /\ h.data = o.data /\ h.kind = o.kind
      /\ h.multipart = o.multipart /\ h.hashed = o.hashed
      /\ h.fed = Append(o.fed, p) /\ h.cached = o.cached
  BY WithHashFields
<1>4. /\ e.data = Append(o.data, p) /\ e.kind = o.kind
      /\ e.multipart = o.multipart /\ e.hashed = o.hashed
      /\ e.fed = Append(o.fed, p) /\ e.cached = o.cached
  BY <1>1, <1>2, WithHashFields
<1> HIDE DEF d, h, e
<1>5. (~o.hashed /\ o.kind # "Digest") => Exact(d, Append(g, p))
  BY <1>2 DEF Exact, WellFormed, Rehashed, Covered
<1>6. (o.hashed /\ o.kind # "Digest") => Exact(h, Append(g, p))
  BY <1>3 DEF Exact, WellFormed, Rehashed, Covered
<1>7. o.kind = "Digest" => Exact(e, Append(g, p))
  BY <1>4 DEF Exact, WellFormed, Rehashed, Covered
<1> QED
  BY <1>5, <1>6, <1>7 DEF d, h, e

\* Feeding an operation keeps its key and its object.
LEMMA FeedKeeps ==
    ASSUME SessionInv, NEW s \in Sessions, NEW o \in Operation,
           NEW p \in Parts \cup Keys, Exact(o, Append(given[s], p)),
           o.key = op[s].key, o.cached = op[s].cached,
           Feed(s, o, p), UNCHANGED loggedIn
    PROVE  SessionInv'
<1>1. given[s] \in Input
  BY DEF SessionInv
<1>2. Append(given[s], p) \in Input
  BY <1>1 DEF Input
<1>3. Allowed(o, loggedIn[s])
  BY DEF SessionInv, Allowed
<1>4. given' = [given EXCEPT ![s] = Append(given[s], p)]
  BY DEF Feed
<1> QED
  BY <1>2, <1>3, <1>4, SetOperation DEF Feed

\* A digest is fed with a part or with a key.
LEMMA DigestFed ==
    ASSUME SessionInv, NEW s \in Sessions, NEW p \in Parts \cup Keys,
           op[s].kind = "Digest",
           Feed(s, WithHash(WithData(op[s], p), p), p), UNCHANGED loggedIn
    PROVE  SessionInv'
<1>1. op[s] \in Operation /\ given[s] \in Input /\ Exact(op[s], given[s])
  BY DEF SessionInv
<1> DEFINE d == WithData(op[s], p)
           o == WithHash(d, p)
<1>2. Exact(o, Append(given[s], p))
  BY <1>1, FedExact
<1>3. d \in Operation /\ d.key = op[s].key /\ d.cached = op[s].cached
  BY <1>1, WithDataFields
<1>4. o \in Operation /\ o.key = op[s].key /\ o.cached = op[s].cached
  BY <1>3, WithHashFields
<1> QED
  BY <1>2, <1>4, FeedKeeps

\* What an Update call leaves: nothing, or the operation fed with one part.
LEMMA UpdateShape ==
    ASSUME NEW s \in Sessions, UpdateCall(s)
    PROVE  /\ Others
           /\ \/ End(s)
              \/ \E p \in Parts :
                    /\ ~op[s].hashed /\ op[s].kind # "Digest"
                    /\ Feed(s, WithData(op[s], p), p)
              \/ \E p \in Parts :
                    /\ op[s].hashed /\ op[s].kind # "Digest"
                    /\ Feed(s, WithHash(op[s], p), p)
              \/ \E p \in Parts :
                    /\ op[s].kind = "Digest"
                    /\ Feed(s, WithHash(WithData(op[s], p), p), p)
              \/ \E p \in Parts :
                    /\ op[s].kind \in {"Encrypt", "Decrypt"}
                    /\ Feed(s, WithData(op[s], p), p)
BY DEF UpdateCall, C_EncryptUpdate, C_DecryptUpdate, C_SignUpdate, C_VerifyUpdate,
       C_DigestUpdate, CipherUpdate, SignatureUpdate, Refuse, Active

\* The Update calls.
LEMMA UpdateCallKeeps ==
    ASSUME OperationsInv, NEW s \in Sessions, UpdateCall(s)
    PROVE  OperationsInv'
<1>1. SessionInv /\ UNCHANGED loggedIn /\ Others
  BY UpdateShape DEF OperationsInv, Others
<1>2. op[s] \in Operation /\ given[s] \in Input /\ Exact(op[s], given[s])
  BY <1>1 DEF SessionInv
<1>3. op[s].kind \in {"Encrypt", "Decrypt"} => ~op[s].hashed
  BY <1>1 DEF SessionInv, Exact, WellFormed
<1>4. CASE End(s)
  BY <1>1, <1>4, EndKeeps, OthersKeep
<1>5. ASSUME NEW p \in Parts, ~op[s].hashed /\ op[s].kind # "Digest",
             Feed(s, WithData(op[s], p), p)
      PROVE  OperationsInv'
  <2>1. Exact(WithData(op[s], p), Append(given[s], p))
    BY <1>2, <1>5, FedExact
  <2>2. /\ WithData(op[s], p) \in Operation
        /\ WithData(op[s], p).key = op[s].key
        /\ WithData(op[s], p).cached = op[s].cached
    BY <1>2, WithDataFields
  <2>3. SessionInv'
    BY <1>1, <1>5, <2>1, <2>2, FeedKeeps
  <2> QED
    BY <1>1, <2>3, OthersKeep
<1>6. ASSUME NEW p \in Parts, op[s].hashed /\ op[s].kind # "Digest",
             Feed(s, WithHash(op[s], p), p)
      PROVE  OperationsInv'
  <2>1. Exact(WithHash(op[s], p), Append(given[s], p))
    BY <1>2, <1>6, FedExact
  <2>2. /\ WithHash(op[s], p) \in Operation
        /\ WithHash(op[s], p).key = op[s].key
        /\ WithHash(op[s], p).cached = op[s].cached
    BY <1>2, WithHashFields
  <2>3. SessionInv'
    BY <1>1, <1>6, <2>1, <2>2, FeedKeeps
  <2> QED
    BY <1>1, <2>3, OthersKeep
<1>7. ASSUME NEW p \in Parts, op[s].kind = "Digest",
             Feed(s, WithHash(WithData(op[s], p), p), p)
      PROVE  OperationsInv'
  <2>1. SessionInv'
    BY <1>1, <1>7, DigestFed
  <2> QED
    BY <1>1, <2>1, OthersKeep
<1> QED
  BY <1>3, <1>4, <1>5, <1>6, <1>7, UpdateShape

\* The first half of C_DigestKey.
LEMMA DigestKeyKeeps ==
    ASSUME OperationsInv, NEW c \in Callers, NEW s \in Sessions, C_DigestKey(c, s)
    PROVE  OperationsInv'
<1>1. PICK k \in live \cap Digestible : call' = [call EXCEPT ![c] = Digesting(s, k)]
  BY DEF C_DigestKey
<1>2. k \in Keys /\ <<>> \in Input
  BY DEF OperationsInv, SearchInv, Input
<1>3. Digesting(s, k) \in Call
  BY <1>2, NoOpExact DEF Digesting, Call
<1>4. CallInv'
  BY <1>1, <1>2, <1>3, SetCall DEF OperationsInv, Digesting
<1> QED
  BY <1>4, SessionsKept DEF C_DigestKey

\* Its second half.
LEMMA digest_key_feedKeeps ==
    ASSUME OperationsInv, NEW c \in Callers, digest_key_feed(c)
    PROVE  OperationsInv'
<1> DEFINE s == call[c].session
           k == call[c].key
<1>1. s \in Sessions /\ k \in Keys /\ SessionInv /\ UNCHANGED loggedIn
  BY DEF OperationsInv, CallInv, Call, digest_key_feed
<1>2. SessionInv'
  <2>1. CASE Active(s, "Digest")
    BY <1>1, <2>1, DigestFed DEF digest_key_feed, Active
  <2>2. CASE ~Active(s, "Digest")
    BY <1>1, <2>2, SameOperations DEF digest_key_feed
  <2> QED
    BY <2>1, <2>2
<1>3. CallInv'
  BY <1>1, IdleKeeps DEF digest_key_feed, OperationsInv
<1> QED
  BY <1>2, <1>3 DEF OperationsInv, digest_key_feed, SearchInv, SavedInv

-----------------------------------------------------------------------------
(* Saving and restoring                                                    *)

\* C_GetOperationState.
LEMMA GetOperationStateKeeps ==
    ASSUME OperationsInv, NEW s \in Sessions, C_GetOperationState(s)
    PROVE  OperationsInv'
<1> DEFINE b == serialize_state(s)
<1>1. op[s] \in Operation /\ given[s] \in Input /\ Exact(op[s], given[s])
  BY DEF OperationsInv, SessionInv
<1>2. op[s].kind \in {"Digest", "Sign", "Verify"} /\ saved' = {b}
  BY DEF C_GetOperationState
<1>3. b \in Blob
  BY <1>1 DEF serialize_state, Blob, Operation
<1>4. (op[s].kind = "Digest" \/ ~op[s].multipart) => op[s].data = given[s]
  BY <1>1, <1>2 DEF Exact, WellFormed, Rehashed, Covered
<1>5. /\ b.kind \in {"Digest", "Sign", "Verify"}
      /\ (b.kind = "Digest" \/ ~b.multipart) => b.data = b.given
  BY <1>2, <1>4 DEF serialize_state
<1> HIDE DEF b
<1>6. SavedInv'
  BY <1>2, <1>3, <1>5 DEF SavedInv
<1>7. SessionInv'
  BY SameOperations DEF OperationsInv, C_GetOperationState
<1> QED
  BY <1>6, <1>7 DEF OperationsInv, SearchInv, CallInv, C_GetOperationState

\* The first half of C_SetOperationState.
LEMMA SetOperationStateKeeps ==
    ASSUME OperationsInv, NEW c \in Callers, NEW s \in Sessions,
           C_SetOperationState(c, s)
    PROVE  OperationsInv'
<1>1. PICK b \in saved, k \in live \cup {NoKey} :
         call' = [call EXCEPT ![c] = Restoring(s, Restored(b, k), b.given)]
  BY DEF C_SetOperationState, deserialize_state
<1>2. k \in Keys \cup {NoKey} /\ SavedInv /\ CallInv
  BY DEF OperationsInv, SearchInv
<1>3. /\ Restored(b, k) \in Operation
      /\ Exact(Restored(b, k), b.given)
      /\ ~Restored(b, k).cached
      /\ b.given \in Input
  BY <1>2, RestoredIsExact
<1> DEFINE v == Restoring(s, Restored(b, k), b.given)
<1>4. v \in Call
  BY <1>3 DEF Restoring, Call
<1>5. v.pc = "restore" /\ v.op = Restored(b, k) /\ v.given = b.given
  BY DEF Restoring
<1> HIDE DEF v
<1>6. CallInv'
  BY <1>1, <1>2, <1>3, <1>4, <1>5, SetCall DEF v
<1> QED
  BY <1>6, SessionsKept DEF C_SetOperationState

\* Its second half.
LEMMA restore_operationKeeps ==
    ASSUME OperationsInv, NEW c \in Callers, restore_operation(c)
    PROVE  OperationsInv'
<1> DEFINE s == call[c].session
           o == call[c].op
           g == call[c].given
<1>1. s \in Sessions /\ o \in Operation /\ g \in Input
  BY DEF OperationsInv, CallInv, Call
<1>2. Exact(o, g) /\ ~o.cached
  BY DEF OperationsInv, CallInv, restore_operation
<1>3. Allowed(o, loggedIn[s])
  BY <1>2 DEF Allowed
<1>4. /\ op' = [op EXCEPT ![s] = o]
      /\ given' = [given EXCEPT ![s] = g]
      /\ UNCHANGED loggedIn
      /\ call' = [call EXCEPT ![c] = Idle(s)]
      /\ SessionInv
      /\ CallInv
  BY DEF restore_operation, OperationsInv
<1> HIDE DEF s, o, g
<1>5. SessionInv'
  BY <1>1, <1>2, <1>3, <1>4, SetOperation
<1>6. CallInv'
  BY <1>1, <1>4, IdleKeeps
<1> QED
  BY <1>5, <1>6 DEF OperationsInv, restore_operation, SearchInv, SavedInv

\* The calls that are two steps.
LEMMA TwoStepCallKeeps ==
    ASSUME OperationsInv, NEW c \in Callers, TwoStepCall(c)
    PROVE  OperationsInv'
BY DigestKeyKeeps, digest_key_feedKeeps, SetOperationStateKeeps,
   restore_operationKeeps
   DEF TwoStepCall

-----------------------------------------------------------------------------
(* The search, login and logout, destruction                               *)

\* Only a search changes, to results the session may see.
LEMMA SetSearch ==
    ASSUME OperationsInv, NEW s \in Sessions, NEW f \in Search,
           ~loggedIn[s] => f.left \cap Private = {},
           find' = [find EXCEPT ![s] = f],
           UNCHANGED <<op, loggedIn, live, saved, call, given>>
    PROVE  OperationsInv'
<1>1. SessionInv'
  BY SameOperations DEF OperationsInv
<1>2. SearchInv'
  <2>1. find' \in [Sessions -> Search] /\ live' \subseteq Keys
    BY DEF OperationsInv, SearchInv
  <2>2. ASSUME NEW r \in Sessions, ~loggedIn'[r]
        PROVE  find'[r].left \cap Private = {}
    <3>1. CASE r = s
      BY <2>2, <3>1 DEF OperationsInv, SearchInv
    <3>2. CASE r # s
      BY <2>2, <3>2 DEF OperationsInv, SearchInv
    <3> QED
      BY <3>1, <3>2
  <2> QED
    BY <2>1, <2>2 DEF SearchInv
<1> QED
  BY <1>1, <1>2 DEF OperationsInv, SavedInv, CallInv

\* The search calls.
LEMMA SearchCallKeeps ==
    ASSUME OperationsInv, NEW s \in Sessions, SearchCall(s)
    PROVE  OperationsInv'
<1>1. live \subseteq Keys /\ find[s] \in Search
  BY DEF OperationsInv, SearchInv
<1>2. UNCHANGED <<op, loggedIn, live, saved, call, given>>
  BY DEF SearchCall, C_FindObjectsInit, C_FindObjects, C_FindObjectsFinal
<1>3. CASE C_FindObjectsInit(s)
  <2>1. PICK matching \in SUBSET Keys :
           find' = [find EXCEPT ![s] = [on |-> TRUE,
                                        left |-> find_objects(s) \cap matching]]
    BY <1>3 DEF C_FindObjectsInit
  <2> DEFINE f == [on |-> TRUE, left |-> find_objects(s) \cap matching]
  <2>2. f \in Search /\ f.left = find_objects(s) \cap matching
    BY <1>1 DEF Search, find_objects
  <2>3. ~loggedIn[s] => f.left \cap Private = {}
    BY <2>2 DEF find_objects, Permitted
  <2> HIDE DEF f
  <2> QED
    BY <1>2, <2>1, <2>2, <2>3, SetSearch DEF f
<1>4. CASE C_FindObjects(s)
  <2>1. PICK returned \in SUBSET find[s].left :
           find' = [find EXCEPT ![s].left = @ \ returned]
    BY <1>4 DEF C_FindObjects
  <2> DEFINE f == [find[s] EXCEPT !.left = @ \ returned]
  <2>2. f \in Search /\ f.left = find[s].left \ returned
    BY <1>1 DEF Search
  <2>3. ~loggedIn[s] => f.left \cap Private = {}
    BY <2>2 DEF OperationsInv, SearchInv
  <2>4. find' = [find EXCEPT ![s] = f]
    BY <2>1
  <2> HIDE DEF f
  <2> QED
    BY <1>2, <2>2, <2>3, <2>4, SetSearch
<1>5. CASE C_FindObjectsFinal(s)
  <2>1. NoSearch \in Search /\ NoSearch.left = {}
    BY DEF NoSearch, Search
  <2>2. find' = [find EXCEPT ![s] = NoSearch]
    BY <1>5 DEF C_FindObjectsFinal
  <2> QED
    BY <1>2, <2>1, <2>2, SetSearch
<1> QED
  BY <1>3, <1>4, <1>5 DEF SearchCall

\* A key is destroyed.
LEMMA DestroyObjectKeeps ==
    ASSUME OperationsInv, NEW k \in Keys, C_DestroyObject(k)
    PROVE  OperationsInv'
<1>1. SessionInv'
  BY SameOperations DEF OperationsInv, C_DestroyObject
<1> QED
  BY <1>1 DEF OperationsInv, SearchInv, SavedInv, CallInv, C_DestroyObject

\* A session is logged in.
LEMMA LoginKeeps ==
    ASSUME OperationsInv, NEW s \in Sessions, on_login(s)
    PROVE  OperationsInv'
<1>1. /\ loggedIn' \in [Sessions -> BOOLEAN]
      /\ \A r \in Sessions : ~loggedIn'[r] => ~loggedIn[r]
  BY DEF OperationsInv, SessionInv, on_login
<1>2. SessionInv'
  BY <1>1 DEF OperationsInv, SessionInv, on_login, Allowed, Exact, WellFormed,
              Rehashed, Covered
<1>3. SearchInv'
  BY <1>1 DEF OperationsInv, SearchInv, on_login
<1> QED
  BY <1>2, <1>3 DEF OperationsInv, SavedInv, CallInv, on_login

\* A session is logged out.
LEMMA CancelKeeps ==
    ASSUME OperationsInv, NEW s \in Sessions, cancel_session(s)
    PROVE  OperationsInv'
<1>1. SessionInv'
  <2>1. /\ op' = [op EXCEPT ![s] = NoOp]
        /\ given' = [given EXCEPT ![s] = <<>>]
        /\ loggedIn' = [loggedIn EXCEPT ![s] = FALSE]
    BY DEF cancel_session, End, Start
  <2>2. <<>> \in Input
    BY DEF Input
  <2>3. /\ op' \in [Sessions -> Operation]
        /\ given' \in [Sessions -> Input]
        /\ loggedIn' \in [Sessions -> BOOLEAN]
    BY <2>1, <2>2, NoOpExact DEF OperationsInv, SessionInv
  <2>4. ASSUME NEW r \in Sessions
        PROVE  Exact(op'[r], given'[r]) /\ Allowed(op'[r], loggedIn'[r])
    <3>1. CASE r = s
      <4>1. op'[r] = NoOp /\ given'[r] = <<>>
        BY <2>1, <3>1 DEF OperationsInv, SessionInv
      <4> QED
        BY <4>1, NoOpExact DEF Allowed
    <3>2. CASE r # s
      <4>1. op'[r] = op[r] /\ given'[r] = given[r] /\ loggedIn'[r] = loggedIn[r]
        BY <2>1, <3>2 DEF OperationsInv, SessionInv
      <4> QED
        BY <4>1 DEF OperationsInv, SessionInv
    <3> QED
      BY <3>1, <3>2
  <2> QED
    BY <2>3, <2>4 DEF SessionInv, Exact, Allowed, WellFormed, Rehashed, Covered
<1>2. SearchInv'
  <2>1. NoSearch \in Search /\ NoSearch.left = {}
    BY DEF NoSearch, Search
  <2> QED
    BY <2>1 DEF OperationsInv, SearchInv, SessionInv, cancel_session
<1> QED
  BY <1>1, <1>2 DEF OperationsInv, SavedInv, CallInv, cancel_session

-----------------------------------------------------------------------------
(* The theorems                                                            *)

\* The invariant holds at first.
LEMMA InitOperationsInv == Init => OperationsInv
<1> SUFFICES ASSUME Init PROVE OperationsInv
  OBVIOUS
<1>1. <<>> \in Input
  BY DEF Input
<1>2. SessionInv
  BY <1>1, NoOpExact DEF Init, SessionInv, Allowed
<1>3. SearchInv
  BY DEF Init, SearchInv, NoSearch, Search
<1>4. SavedInv
  BY DEF Init, SavedInv
<1>5. CallInv
  <2>1. PICK s \in Sessions : call = [c \in Callers |-> Idle(s)]
    BY DEF Init
  <2>2. Idle(s) \in Call /\ Idle(s).pc = "idle"
    BY <1>1, NoOpExact DEF Idle, Call
  <2> QED
    BY <2>1, <2>2 DEF CallInv
<1> QED
  BY <1>2, <1>3, <1>4, <1>5 DEF OperationsInv

\* Every step keeps it.
LEMMA NextOperationsInv == OperationsInv /\ [Next]_vars => OperationsInv'
<1> SUFFICES ASSUME OperationsInv, [Next]_vars PROVE OperationsInv'
  OBVIOUS
<1>1. ASSUME NEW s \in Sessions, SessionStep(s) PROVE OperationsInv'
  BY <1>1, InitCallKeeps, SinglePartCallKeeps, UpdateCallKeeps, FinalCallKeeps,
     SearchCallKeeps, GetOperationStateKeeps, LoginKeeps, CancelKeeps
     DEF SessionStep
<1>2. CASE UNCHANGED vars
  <2>1. SessionInv'
    BY <1>2, SameOperations DEF OperationsInv, vars
  <2> QED
    BY <1>2, <2>1 DEF OperationsInv, SearchInv, SavedInv, CallInv, vars
<1> QED
  BY <1>1, <1>2, TwoStepCallKeeps, DestroyObjectKeeps DEF Next

\* The inductive invariant of the operation calls.
THEOREM OperationsInvariant == Spec => []OperationsInv
<1> QED
  BY InitOperationsInv, NextOperationsInv, PTL DEF Spec

(* The state of the sessions, searches, blobs and calls keeps its type.    *)
THEOREM OperationsType == Spec => []TypeOK
<1>1. OperationsInv => TypeOK
  BY DEF OperationsInv, SessionInv, SearchInv, SavedInv, CallInv, TypeOK
<1> QED
  BY <1>1, OperationsInvariant, PTL

(* A Final call works on exactly what the application fed, in its order,   *)
(* whatever calls on the session and whatever threads come in between.     *)
THEOREM InputKept == Spec => []InputExact
<1>1. OperationsInv => InputExact
  BY DEF OperationsInv, SessionInv, Exact, InputExact
<1> QED
  BY <1>1, OperationsInvariant, PTL

(* After cancel_session no operation with a private key in hand and no     *)
(* search that would return one is left in the session, until it is logged *)
(* in again.                                                               *)
THEOREM PrivateKept == Spec => []PrivateNeedsLogin
<1>1. OperationsInv => PrivateNeedsLogin
  BY DEF OperationsInv, SessionInv, SearchInv, Allowed, PrivateNeedsLogin
<1> QED
  BY <1>1, OperationsInvariant, PTL

-----------------------------------------------------------------------------
(* Destroyed keys                                                          *)

\* The operation a step gives a session: with no object in hand, with an
\* object that is in the store, or with the one it had.
Owned(s, o) ==
    \/ ~o.cached
    \/ o.key \in live'
    \/ o.key = op[s].key /\ o.cached = op[s].cached

\* What DestroyedKeyUnusable says of one step.
KeyStep ==
    \A s \in Sessions :
        (op'[s].key \in Keys \ live' /\ Usable(s)')
            => (Usable(s) /\ op[s].key = op'[s].key)

\* Such an operation in one session.
LEMMA OwnedStep ==
    ASSUME SessionInv, NEW s \in Sessions, NEW o, Owned(s, o),
           op' = [op EXCEPT ![s] = o]
    PROVE  KeyStep
<1> SUFFICES ASSUME NEW r \in Sessions, op'[r].key \in Keys \ live', Usable(r)'
             PROVE  Usable(r) /\ op[r].key = op'[r].key
  BY DEF KeyStep
<1>1. op'[r].cached
  BY DEF Usable
<1>2. CASE r = s
  BY <1>1, <1>2 DEF SessionInv, Owned, Usable
<1>3. CASE r # s
  BY <1>1, <1>3 DEF SessionInv, Usable
<1> QED
  BY <1>2, <1>3

\* No operation changes.
LEMMA SameKeys ==
    ASSUME UNCHANGED op
    PROVE  KeyStep
BY DEF KeyStep, Usable

\* Every step.
LEMMA NextKeyStep == OperationsInv /\ [Next]_vars => KeyStep
<1> SUFFICES ASSUME OperationsInv, [Next]_vars PROVE KeyStep
  OBVIOUS
<1>1. SessionInv
  BY DEF OperationsInv
<1>2. ASSUME NEW s \in Sessions, End(s) PROVE KeyStep
  <2>1. Owned(s, NoOp)
    BY NoOpExact DEF Owned
  <2> QED
    BY <1>1, <1>2, <2>1, OwnedStep DEF End, Start
<1>3. ASSUME NEW s \in Sessions, InitCall(s) PROVE KeyStep
  <2>1. UNCHANGED live
    BY <1>3 DEF InitCall, C_EncryptInit, C_DecryptInit, CipherInit, C_SignInit,
                C_VerifyInit, C_DigestInit, Others
  <2>2. CASE C_DigestInit(s)
    <3>1. Owned(s, FreshDigest)
      BY DigestExact DEF Owned
    <3> QED
      BY <1>1, <2>2, <3>1, OwnedStep DEF C_DigestInit, Start
  <2>3. ASSUME NEW kind, NEW k \in live, NEW multipart, NEW hashed,
               Start(s, Fresh(kind, k, multipart, hashed))
        PROVE  KeyStep
    <3> DEFINE o == Fresh(kind, k, multipart, hashed)
    <3>1. Owned(s, o)
      BY <2>1 DEF Owned, Fresh
    <3>2. op' = [op EXCEPT ![s] = o]
      BY <2>3 DEF Start
    <3> HIDE DEF o
    <3> QED
      BY <1>1, <3>1, <3>2, OwnedStep
  <2> QED
    BY <1>3, <2>2, <2>3 DEF InitCall, C_EncryptInit, C_DecryptInit, CipherInit,
                            C_SignInit, C_VerifyInit
<1>4. ASSUME NEW s \in Sessions, SinglePartCall(s) \/ FinalCall(s) PROVE KeyStep
  <2>1. Keep(s) \/ End(s)
    BY <1>4 DEF SinglePartCall, C_Encrypt, C_Decrypt, C_Sign, C_Verify, C_Digest,
                SinglePart, FinalCall, C_EncryptFinal, C_DecryptFinal,
                C_SignFinal, C_VerifyFinal, C_DigestFinal, CipherFinal
  <2> QED
    BY <1>2, <2>1, SameKeys DEF Keep
<1>5. ASSUME NEW s \in Sessions, NEW p \in Parts \cup Keys, NEW o \in Operation,
             o.key = op[s].key, o.cached = op[s].cached, Feed(s, o, p)
      PROVE  KeyStep
  <2>1. Owned(s, o)
    BY <1>5 DEF Owned
  <2> QED
    BY <1>1, <1>5, <2>1, OwnedStep DEF Feed
<1>6. ASSUME NEW s \in Sessions, NEW p \in Parts \cup Keys,
             \/ Feed(s, WithData(op[s], p), p)
             \/ Feed(s, WithHash(op[s], p), p)
             \/ Feed(s, WithHash(WithData(op[s], p), p), p)
      PROVE  KeyStep
  <2>1. op[s] \in Operation
    BY <1>1 DEF SessionInv
  <2> DEFINE d == WithData(op[s], p)
             h == WithHash(op[s], p)
             e == WithHash(d, p)
  <2>2. d \in Operation /\ d.key = op[s].key /\ d.cached = op[s].cached
    BY <2>1, WithDataFields
  <2>3. h \in Operation /\ h.key = op[s].key /\ h.cached = op[s].cached
    BY <2>1, WithHashFields
  <2>4. e \in Operation /\ e.key = op[s].key /\ e.cached = op[s].cached
    BY <2>2, WithHashFields
  <2> HIDE DEF d, h, e
  <2>5. Feed(s, d, p) \/ Feed(s, h, p) \/ Feed(s, e, p)
    BY <1>6 DEF d, h, e
  <2> QED
    BY <1>5, <2>2, <2>3, <2>4, <2>5
<1>7. ASSUME NEW s \in Sessions, UpdateCall(s) PROVE KeyStep
  BY <1>2, <1>6, <1>7, UpdateShape
<1>8. ASSUME NEW s \in Sessions, SessionStep(s) PROVE KeyStep
  <2>1. CASE SearchCall(s) \/ C_GetOperationState(s) \/ on_login(s)
    BY <2>1, SameKeys DEF SearchCall, C_FindObjectsInit, C_FindObjects,
                          C_FindObjectsFinal, C_GetOperationState, on_login
  <2>2. CASE cancel_session(s)
    BY <1>2, <2>2 DEF cancel_session
  <2> QED
    BY <1>3, <1>4, <1>7, <1>8, <2>1, <2>2 DEF SessionStep
<1>9. ASSUME NEW c \in Callers, TwoStepCall(c) PROVE KeyStep
  <2>1. /\ call[c].session \in Sessions
        /\ call[c].pc = "digest_key" => call[c].key \in Keys
        /\ call[c].pc = "restore" => ~call[c].op.cached
    BY DEF OperationsInv, CallInv, Call
  <2>2. ASSUME NEW s \in Sessions, C_DigestKey(c, s) \/ C_SetOperationState(c, s)
        PROVE  KeyStep
    BY <2>2, SameKeys DEF C_DigestKey, C_SetOperationState
  <2>3. CASE digest_key_feed(c)
    <3>1. \/ UNCHANGED op
          \/ Feed(call[c].session,
                  WithHash(WithData(op[call[c].session], call[c].key), call[c].key),
                  call[c].key)
      BY <2>3 DEF digest_key_feed
    <3>2. call[c].key \in Keys
      BY <2>1, <2>3 DEF digest_key_feed
    <3> QED
      BY <1>6, <2>1, <3>1, <3>2, SameKeys
  <2>4. CASE restore_operation(c)
    <3>1. Owned(call[c].session, call[c].op)
      BY <2>1, <2>4 DEF restore_operation, Owned
    <3> QED
      BY <1>1, <2>1, <2>4, <3>1, OwnedStep DEF restore_operation
  <2> QED
    BY <1>9, <2>2, <2>3, <2>4 DEF TwoStepCall
<1>10. ASSUME NEW k \in Keys, C_DestroyObject(k) PROVE KeyStep
  BY <1>10, SameKeys DEF C_DestroyObject
<1>11. CASE UNCHANGED vars
  BY <1>11, SameKeys DEF vars
<1> QED
  BY <1>8, <1>9, <1>10, <1>11 DEF Next

(* A key that C_DestroyObject has removed serves only the operations that  *)
(* had the object in hand, whatever call was under way when it was removed.*)
THEOREM DestroyedKept == Spec => DestroyedKeyUnusable
<1>1. OperationsInv /\ [Next]_vars => [KeyStep]_vars
  BY NextKeyStep
<1>2. Spec => [][KeyStep]_vars
  BY <1>1, OperationsInvariant, PTL DEF Spec
<1>3. KeyStep <=> \A s \in Sessions :
         (op'[s].key \in Keys \ live' /\ Usable(s)')
             => (Usable(s) /\ op[s].key = op'[s].key)
  BY DEF KeyStep
<1> QED
  BY <1>2, <1>3, PTL DEF DestroyedKeyUnusable

-----------------------------------------------------------------------------
(* The accumulated input                                                   *)

Small(d) == Cardinality(PartsOf(d)) <= MaxAccumulated

\* Blobs, and what a call is about to restore, were in an operation once.
DataInv ==
    /\ \A s \in Sessions : Small(op[s].data)
    /\ \A b \in saved : Small(b.data)
    /\ \A c \in Callers : call[c].pc = "restore" => Small(call[c].op.data)

\* Input that is short has few parts.
LEMMA ShortIsSmall ==
    ASSUME NEW d \in Input, Len(d) <= MaxAccumulated
    PROVE  Small(d)
<1>1. Len(d) \in Nat /\ DOMAIN d = 1 .. Len(d)
  BY DEF Input
<1>2. IsFiniteSet(1 .. Len(d)) /\ Cardinality(1 .. Len(d)) = Len(d)
  <2>1. PICK n \in Nat : n = Len(d)
    BY <1>1
  <2>2. IsFiniteSet(1 .. n) /\ Cardinality(1 .. n) = IF 1 > n THEN 0 ELSE n - 1 + 1
    <3>1. 1 \in Int /\ n \in Int
      OBVIOUS
    <3> QED
      BY <3>1, FS_Interval
  <2> QED
    BY <2>1, <2>2
<1>3. PartsOf(d) \subseteq 1 .. Len(d)
  BY <1>1 DEF PartsOf
<1>4. Cardinality(PartsOf(d)) <= Len(d) /\ Cardinality(PartsOf(d)) \in Nat
  BY <1>2, <1>3, FS_Subset, FS_CardinalityType
<1> QED
  BY <1>1, <1>4, LengthAssumption DEF Small

LEMMA EmptyIsSmall == Small(<<>>)
<1> DEFINE d == <<>>
<1>1. d \in Input /\ Len(d) = 0
  BY DEF Input
<1> HIDE DEF d
<1>2. Small(d)
  BY <1>1, ShortIsSmall, LengthAssumption
<1> QED
  BY <1>2 DEF d

\* C_DigestKey adds no part.
LEMMA KeyKeepsSmall ==
    ASSUME NEW d \in Input, NEW k \in Keys, Small(d)
    PROVE  Small(Append(d, k))
<1>1. d \in Seq(Parts \cup Keys) /\ Len(d) \in Nat /\ DOMAIN d = 1 .. Len(d)
  BY DEF Input
<1>2. /\ DOMAIN Append(d, k) = 1 .. Len(d) + 1
      /\ \A i \in 1 .. Len(d) : Append(d, k)[i] = d[i]
      /\ Append(d, k)[Len(d) + 1] = k
  BY <1>1
<1>3. k \notin Parts
  BY KeyAssumption
<1>4. ASSUME NEW i PROVE i \in PartsOf(Append(d, k)) <=> i \in PartsOf(d)
  BY <1>1, <1>2, <1>3 DEF PartsOf
<1>5. PartsOf(Append(d, k)) = PartsOf(d)
  BY <1>4
<1> QED
  BY <1>5 DEF Small

\* One session has another operation, and blobs and calls are as they were.
LEMMA SmallStep ==
    ASSUME SessionInv, DataInv, NEW s \in Sessions, NEW o, op' = [op EXCEPT ![s] = o],
           Small(o.data), UNCHANGED <<saved, call>>
    PROVE  DataInv'
BY DEF SessionInv, DataInv

\* What an Update call feeds is within the limit.
LEMMA UpdateWithin ==
    ASSUME NEW s \in Sessions, UpdateCall(s)
    PROVE  /\ UNCHANGED <<saved, call>>
           /\ \/ End(s)
              \/ /\ ~OverLimit(s)
                 /\ \E p \in Parts :
                      \/ Feed(s, WithData(op[s], p), p)
                      \/ Feed(s, WithHash(op[s], p), p)
                      \/ Feed(s, WithHash(WithData(op[s], p), p), p)
BY DEF UpdateCall, C_EncryptUpdate, C_DecryptUpdate, C_SignUpdate, C_VerifyUpdate,
       C_DigestUpdate, CipherUpdate, SignatureUpdate, Refuse, Others

LEMMA NextDataInv == OperationsInv /\ DataInv /\ [Next]_vars => DataInv'
<1> SUFFICES ASSUME OperationsInv, DataInv, [Next]_vars PROVE DataInv'
  OBVIOUS
<1>1. SessionInv
  BY DEF OperationsInv
<1>2. ASSUME UNCHANGED <<op, saved, call>> PROVE DataInv'
  BY <1>2 DEF DataInv
<1>3. ASSUME NEW s \in Sessions, NEW o, Start(s, o), o.data = <<>>, UNCHANGED <<saved, call>>
      PROVE  DataInv'
  BY <1>1, <1>3, EmptyIsSmall, SmallStep DEF Start
<1>4. ASSUME NEW s \in Sessions, End(s), UNCHANGED <<saved, call>> PROVE DataInv'
  BY <1>3, <1>4 DEF End, NoOp
<1>5. ASSUME NEW s \in Sessions, InitCall(s) PROVE DataInv'
  <2>1. UNCHANGED <<saved, call>>
    BY <1>5 DEF InitCall, C_EncryptInit, C_DecryptInit, CipherInit, C_SignInit,
                C_VerifyInit, C_DigestInit, Others
  <2>2. CASE C_DigestInit(s)
    BY <1>3, <2>1, <2>2 DEF C_DigestInit, FreshDigest
  <2>3. ASSUME NEW kind, NEW k \in live, NEW multipart, NEW hashed,
               Start(s, Fresh(kind, k, multipart, hashed))
        PROVE  DataInv'
    <3> DEFINE o == Fresh(kind, k, multipart, hashed)
    <3>1. Start(s, o) /\ o.data = <<>>
      BY <2>3 DEF Fresh
    <3> HIDE DEF o
    <3> QED
      BY <1>3, <2>1, <3>1
  <2> QED
    BY <1>5, <2>2, <2>3 DEF InitCall, C_EncryptInit, C_DecryptInit, CipherInit,
                            C_SignInit, C_VerifyInit
<1>6. ASSUME NEW s \in Sessions, SinglePartCall(s) \/ FinalCall(s) PROVE DataInv'
  <2>1. (Keep(s) \/ End(s)) /\ UNCHANGED <<saved, call>>
    BY <1>6 DEF SinglePartCall, C_Encrypt, C_Decrypt, C_Sign, C_Verify, C_Digest,
                SinglePart, FinalCall, C_EncryptFinal, C_DecryptFinal,
                C_SignFinal, C_VerifyFinal, C_DigestFinal, CipherFinal, Others
  <2> QED
    BY <1>2, <1>4, <2>1 DEF Keep
<1>7. ASSUME NEW s \in Sessions, UpdateCall(s) PROVE DataInv'
  <2>1. op[s] \in Operation /\ op[s].data \in Input /\ Small(op[s].data)
    BY <1>1 DEF SessionInv, Operation, DataInv
  <2>2. UNCHANGED <<saved, call>>
    BY <1>7, UpdateWithin
  <2>3. ASSUME NEW p \in Parts, ~OverLimit(s),
               \/ Feed(s, WithData(op[s], p), p)
               \/ Feed(s, WithHash(op[s], p), p)
               \/ Feed(s, WithHash(WithData(op[s], p), p), p)
        PROVE  DataInv'
    <3> DEFINE d == WithData(op[s], p)
               h == WithHash(op[s], p)
               e == WithHash(d, p)
    <3>1. Small(Append(op[s].data, p))
      <4>1. Append(op[s].data, p) \in Input /\ Len(Append(op[s].data, p)) = Len(op[s].data) + 1
            /\ Len(op[s].data) \in Nat
        BY <2>1 DEF Input
      <4>2. Len(op[s].data) + 1 <= MaxAccumulated
        BY <2>3, <4>1, LengthAssumption DEF OverLimit
      <4> QED
        BY <4>1, <4>2, ShortIsSmall
    <3>2. d \in Operation /\ d.data = Append(op[s].data, p)
      BY <2>1, WithDataFields
    <3>3. h.data = op[s].data
      BY <2>1, WithHashFields
    <3>4. e.data = d.data
      BY <3>2, WithHashFields
    <3> HIDE DEF d, h, e
    <3>5. Feed(s, d, p) \/ Feed(s, h, p) \/ Feed(s, e, p)
      BY <2>3 DEF d, h, e
    <3>6. PICK o \in {d, h, e} : op' = [op EXCEPT ![s] = o]
      BY <3>5 DEF Feed
    <3>7. Small(o.data)
      BY <2>1, <3>1, <3>2, <3>3, <3>4
    <3> QED
      BY <1>1, <2>2, <3>6, <3>7, SmallStep
  <2> QED
    BY <1>4, <1>7, <2>2, <2>3, UpdateWithin
<1>8. ASSUME NEW s \in Sessions, C_GetOperationState(s) PROVE DataInv'
  BY <1>8 DEF C_GetOperationState, serialize_state, DataInv
<1>9. ASSUME NEW s \in Sessions, SessionStep(s) PROVE DataInv'
  <2>1. CASE SearchCall(s) \/ on_login(s)
    BY <1>2, <2>1 DEF SearchCall, C_FindObjectsInit, C_FindObjects, C_FindObjectsFinal, on_login
  <2>2. CASE cancel_session(s)
    BY <1>4, <2>2 DEF cancel_session
  <2> QED
    BY <1>5, <1>6, <1>7, <1>8, <1>9, <2>1, <2>2 DEF SessionStep
<1>10. ASSUME NEW c \in Callers, TwoStepCall(c) PROVE DataInv'
  <2>1. /\ call \in [Callers -> Call] /\ call[c].session \in Sessions
        /\ call[c].pc = "digest_key" => call[c].key \in Keys
    BY DEF OperationsInv, CallInv, Call
  <2>2. ASSUME NEW d, call' = [call EXCEPT ![c] = d], d.pc = "restore" => Small(d.op.data),
               UNCHANGED saved, \A s \in Sessions : Small(op'[s].data)
        PROVE  DataInv'
    BY <2>1, <2>2 DEF DataInv
  <2>3. ASSUME NEW s \in Sessions, C_DigestKey(c, s) PROVE DataInv'
    <3>1. PICK k : call' = [call EXCEPT ![c] = Digesting(s, k)]
      BY <2>3 DEF C_DigestKey
    <3>2. Digesting(s, k).pc = "digest_key"
      BY DEF Digesting
    <3> QED
      BY <2>2, <2>3, <3>1, <3>2 DEF C_DigestKey, DataInv
  <2>4. ASSUME NEW s \in Sessions, C_SetOperationState(c, s) PROVE DataInv'
    <3>1. PICK b \in saved, k \in live \cup {NoKey} :
            call' = [call EXCEPT ![c] = Restoring(s, Restored(b, k), b.given)]
      BY <2>4 DEF C_SetOperationState, deserialize_state
    <3>2. Restoring(s, Restored(b, k), b.given).op.data = b.data
      BY DEF Restoring, Restored
    <3> QED
      BY <2>2, <2>4, <3>1, <3>2 DEF C_SetOperationState, DataInv
  <2>5. CASE digest_key_feed(c)
    <3>1. PICK s \in Sessions, k \in Keys : s = call[c].session /\ k = call[c].key
      BY <2>1, <2>5 DEF digest_key_feed
    <3>2. \/ UNCHANGED op
          \/ op' = [op EXCEPT ![s] = WithHash(WithData(op[s], k), k)]
      BY <2>5, <3>1 DEF digest_key_feed, Feed
    <3>3. op \in [Sessions -> Operation] /\ op[s].data \in Input /\ Small(op[s].data)
      BY <1>1 DEF SessionInv, Operation, DataInv
    <3> DEFINE d == WithData(op[s], k)
               e == WithHash(d, k)
    <3>4. d \in Operation /\ d.data = Append(op[s].data, k)
      BY <3>3, WithDataFields
    <3>5. e.data = Append(op[s].data, k)
      BY <3>4, WithHashFields
    <3>6. Small(e.data)
      BY <3>3, <3>5, KeyKeepsSmall
    <3>7. UNCHANGED op \/ op' = [op EXCEPT ![s] = e]
      BY <3>2
    <3> HIDE DEF d, e
    <3>8. \A r \in Sessions : Small(op'[r].data)
      BY <3>3, <3>6, <3>7 DEF DataInv
    <3>9. Idle(s).pc = "idle" /\ call' = [call EXCEPT ![c] = Idle(s)] /\ UNCHANGED saved
      BY <2>5, <3>1 DEF Idle, digest_key_feed
    <3> QED
      BY <2>2, <3>8, <3>9
  <2>6. CASE restore_operation(c)
    <3>1. PICK s \in Sessions, o \in Operation : s = call[c].session /\ o = call[c].op
      BY <2>1 DEF Call
    <3>2. op' = [op EXCEPT ![s] = o] /\ Small(o.data)
      BY <2>6, <3>1 DEF restore_operation, DataInv
    <3>3. \A r \in Sessions : Small(op'[r].data)
      BY <1>1, <3>2 DEF DataInv, SessionInv
    <3>4. Idle(s).pc = "idle" /\ call' = [call EXCEPT ![c] = Idle(s)] /\ UNCHANGED saved
      BY <2>6, <3>1 DEF Idle, restore_operation
    <3> QED
      BY <2>2, <3>3, <3>4
  <2> QED
    BY <1>10, <2>3, <2>4, <2>5, <2>6 DEF TwoStepCall
<1>11. ASSUME NEW k \in Keys, C_DestroyObject(k) PROVE DataInv'
  BY <1>2, <1>11 DEF C_DestroyObject
<1>12. CASE UNCHANGED vars
  BY <1>2, <1>12 DEF vars
<1> QED
  BY <1>9, <1>10, <1>11, <1>12 DEF Next

(* MAX_MULTIPART_ACCUMULATION holds for any number of sessions and threads *)
(* and any limits: no session ever keeps more parts of the application,    *)
(* however its operation was saved, restored and fed keys in between.      *)
THEOREM AccumulationKept == Spec => []AccumulationBounded
<1>1. Init => DataInv
  <2> SUFFICES ASSUME Init PROVE DataInv
    OBVIOUS
  <2>1. \A s \in Sessions : op[s].data = <<>>
    BY DEF Init, NoOp
  <2>2. \A c \in Callers : call[c].pc = "idle"
    BY DEF Init, Idle
  <2>3. saved = {}
    BY DEF Init
  <2> QED
    BY <2>1, <2>2, <2>3, EmptyIsSmall DEF DataInv
<1>2. DataInv => AccumulationBounded
  BY DEF DataInv, AccumulationBounded, Small
<1> QED
  BY <1>1, <1>2, OperationsInvariant, NextDataInv, PTL DEF Spec
=============================================================================

---------------------------- MODULE LoginThrottle ----------------------------
(***************************************************************************)
(* The daemon's brute-force throttle (craton-hsm-daemon/src/server.rs).    *)
(* Login and InitToken requests run on many tasks at once; each one checks *)
(* the throttle, lets the token test the PIN, and records the outcome, in  *)
(* three separate critical sections.  Both request kinds use a table of    *)
(* their own, keyed by slot and client identity, with the same code.       *)
(*                                                                         *)
(* Whether the token accepts is left open here: TokenAuth has that part.   *)
(***************************************************************************)
EXTENDS Requests, Naturals, FiniteSets, Functions

CONSTANTS
    Tables,               \* login_attempts and init_token_attempts
    Peers,                \* what a connection shows: a certificate, an address
    None,                 \* a connection without one of them
    max_login_attempts,
    MAX_THROTTLE_ENTRIES

ASSUME PeersAssumption == IsFiniteSet(Peers)
ASSUME AttemptsAssumption == max_login_attempts \in Nat \ {0}  \* 0 disables the throttle
ASSUME EntriesAssumption == MAX_THROTTLE_ENTRIES \in Nat

\* client_id_from_request: the certificate, else the address, else one identity
\* for all.
ClientId(peer) ==
    IF peer.cert # None THEN <<"cert", peer.cert>>
    ELSE IF peer.ip # None THEN <<"ip", peer.ip>>
    ELSE <<"unknown">>

ThrottleKey(slot, peer) == [slot_id |-> slot, client_id |-> ClientId(peer)]
Keys == {ThrottleKey(slot, peer) : slot \in Slots, peer \in Peers}

VARIABLES
    attempts,   \* [Tables -> entries by key]
    requests,   \* [Calls -> Attempt]
    guesses     \* PINs the token refused since the key's entry last started

throttleVars == <<attempts, requests, guesses>>

\* LoginThrottle; lockout_until is "none", still "running", or "over".
Entry == [failed_attempts : Nat, lockout : {"none", "running", "over"}]
NewEntry == [failed_attempts |-> 0, lockout |-> "none"]

NoAttempt == [pc |-> "idle"]
Attempt == {NoAttempt} \cup [pc : {"token", "record", "clear"}, table : Tables, key : Keys]

Entries(t) == DOMAIN attempts[t]
Running(t, k) == k \in Entries(t) /\ attempts[t][k].lockout = "running"
Without(table, ks) == Restrict(table, DOMAIN table \ ks)

ThrottleTypeOK ==
    /\ DOMAIN attempts = Tables
    /\ \A t \in Tables : Entries(t) \subseteq Keys /\ attempts[t] \in [Entries(t) -> Entry]
    /\ requests \in [Calls -> Attempt]
    /\ guesses \in [Tables -> [Keys -> Nat]]

ThrottleInit ==
    /\ attempts = [t \in Tables |-> [k \in {} |-> NewEntry]]
    /\ requests = [c \in Calls |-> NoAttempt]
    /\ guesses = [t \in Tables |-> [k \in Keys |-> 0]]

Goto(c, pc) == requests' = [requests EXCEPT ![c].pc = pc]
AttemptReturns(c) == requests' = [requests EXCEPT ![c] = NoAttempt]

\* The parts of a table that start again, in the guesses counted for them.
Restarted(t, ks) == [guesses EXCEPT ![t] = [k \in Keys |-> IF k \in ks THEN 0 ELSE @[k]]]

-----------------------------------------------------------------------------
\* A Login or InitToken request passes check_login_throttle or
\* check_init_token_throttle: refused while the lockout runs; one that is over
\* starts the entry again.
Request(c, t, slot, peer) ==
    LET k == ThrottleKey(slot, peer)
        over == k \in Entries(t) /\ attempts[t][k].lockout = "over"
    IN  /\ requests[c].pc = "idle"
        /\ ~Running(t, k)
        /\ attempts' = IF over THEN [attempts EXCEPT ![t][k] = NewEntry] ELSE attempts
        /\ guesses' = IF over THEN Restarted(t, {k}) ELSE guesses
        /\ requests' = [requests EXCEPT ![c] = [pc |-> "token", table |-> t, key |-> k]]

\* token.login or token.init_token returns.
TokenAccepts(c) ==
    /\ requests[c].pc = "token"
    /\ Goto(c, "clear")
    /\ UNCHANGED <<attempts, guesses>>

TokenRefuses(c) ==
    /\ requests[c].pc = "token"
    /\ Goto(c, "record")
    /\ guesses' = [guesses EXCEPT ![requests[c].table][requests[c].key] = @ + 1]
    /\ UNCHANGED attempts

\* clear_login_attempts, clear_init_token_attempts.
Clear(c) ==
    /\ requests[c].pc = "clear"
    /\ attempts' = [attempts EXCEPT ![requests[c].table] = Without(@, {requests[c].key})]
    /\ guesses' = Restarted(requests[c].table, {requests[c].key})
    /\ AttemptReturns(c)

\* evict_expired_throttle_entries: expired entries go, and while there are more
\* than MAX_THROTTLE_ENTRIES, one with the fewest failed attempts.
Expired(table) == {k \in DOMAIN table : table[k].lockout = "over"}

\* Mutant of Surplus: the entries with the most failed attempts go.
SurplusHighest(table) ==
    LET rest == DOMAIN table \ Expired(table)
        excess == Cardinality(rest) - MAX_THROTTLE_ENTRIES
    IN  {ks \in SUBSET rest :
            /\ Cardinality(ks) = IF excess > 0 THEN excess ELSE 0
            /\ \A k \in ks : \A l \in rest \ ks :
                    table[k].failed_attempts >= table[l].failed_attempts}

Surplus(table) ==
    LET rest == DOMAIN table \ Expired(table)
        excess == Cardinality(rest) - MAX_THROTTLE_ENTRIES
    IN  {ks \in SUBSET rest :
            /\ Cardinality(ks) = IF excess > 0 THEN excess ELSE 0
            /\ \A k \in ks : \A l \in rest \ ks :
                    table[k].failed_attempts <= table[l].failed_attempts}

\* Mutant of Failed: one attempt too many before the lockout.
FailedLate(entry) ==
    LET n == entry.failed_attempts + 1
    IN  [failed_attempts |-> n,
         lockout |-> IF n > max_login_attempts THEN "running" ELSE entry.lockout]

Failed(entry) ==
    LET n == entry.failed_attempts + 1
    IN  [failed_attempts |-> n,
         lockout |-> IF n >= max_login_attempts THEN "running" ELSE entry.lockout]

\* record_login_failure, record_init_token_failure: room is made before the
\* entry goes in.
Record(c) ==
    LET t == requests[c].table
        k == requests[c].key
        table == attempts[t]
    IN  /\ requests[c].pc = "record"
        /\ \E surplus \in Surplus(table) :
              LET gone == Expired(table) \cup surplus
                  kept == Without(table, gone)
                  entry == IF k \in DOMAIN kept THEN kept[k] ELSE NewEntry
              IN  /\ attempts' = [attempts EXCEPT ![t] =
                         [l \in DOMAIN kept \cup {k} |->
                             IF l = k THEN Failed(entry) ELSE kept[l]]]
                  /\ guesses' = Restarted(t, gone)
        /\ AttemptReturns(c)

\* login_cooldown has passed since the lockout was set.
CooldownEnds(t, k) ==
    /\ Running(t, k)
    /\ attempts' = [attempts EXCEPT ![t][k].lockout = "over"]
    /\ UNCHANGED <<requests, guesses>>

-----------------------------------------------------------------------------
Step(c) ==
    \/ \E t \in Tables, slot \in Slots, peer \in Peers : Request(c, t, slot, peer)
    \/ TokenAccepts(c) \/ TokenRefuses(c)
    \/ Clear(c) \/ Record(c)

ThrottleNext ==
    \/ \E c \in Calls : Step(c)
    \/ \E t \in Tables, k \in Keys : CooldownEnds(t, k)

ThrottleSpec == ThrottleInit /\ [][ThrottleNext]_throttleVars

-----------------------------------------------------------------------------
\* Between two starts of its entry (an expired lockout, an accepted PIN, an
\* eviction) a client gets no more guesses out of the token than
\* max_login_attempts, and one for each further request it has in flight: a
\* request that passed the check before the lockout was set still runs.
GuessesThrottled ==
    \A t \in Tables, k \in Keys :
        guesses[t][k] <= max_login_attempts + Cardinality(Calls) - 1

\* The tables are bounded, to one entry more than MAX_THROTTLE_ENTRIES: room is
\* made before the new entry goes in.
TablesBounded ==
    \A t \in Tables : Cardinality(Entries(t)) <= MAX_THROTTLE_ENTRIES + 1

\* The throttle does what record_login_failure is for, within its memory.
ThrottleBounds == ThrottleTypeOK /\ GuessesThrottled /\ TablesBounded

\* A running lockout ends by its cooldown or by an accepted PIN of the same
\* client; another client's failures end it only when the table is over its
\* limit and holds nothing with fewer failed attempts.
LockoutHolds ==
    [][\A t \in Tables, k \in Keys :
          Running(t, k) /\ k \notin DOMAIN attempts'[t] =>
            \/ \E c \in Calls : /\ requests[c] = [pc |-> "clear", table |-> t, key |-> k]
                               /\ requests'[c].pc = "idle"
            \/ /\ Cardinality(Entries(t)) > MAX_THROTTLE_ENTRIES
               /\ \A l \in Entries(t) : l \in DOMAIN attempts'[t] =>
                    attempts[t][k].failed_attempts <= attempts[t][l].failed_attempts]_throttleVars
=============================================================================

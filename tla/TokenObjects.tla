---------------------------- MODULE TokenObjects ----------------------------
(***************************************************************************)
(* What the persistent store promises of token objects, crashes included:  *)
(* the set of the objects a login finds.                                   *)
(***************************************************************************)
VARIABLES
    live,   \* the objects in the store, records with a field handle
    past,   \* the handles ever in it
    gone    \* the handles whose removal was confirmed

vars == <<live, past, gone>>

Init == live = {} /\ past = {} /\ gone = {}

HandlesOf(objects) == {o.handle : o \in objects}

\* A handle enters the store once.
Add ==
    /\ \E o \in live' \ live :
        /\ o.handle \notin past \cup gone
        /\ live' = live \cup {o}
        /\ past' = past \cup {o.handle}
    /\ UNCHANGED gone

Remove ==
    /\ \E o \in live : live' = live \ {o}
    /\ UNCHANGED <<past, gone>>

Wipe == live' = {} /\ UNCHANGED <<past, gone>>

\* Confirmed only once it has happened.
Confirm ==
    /\ \E h \in gone' : h \notin HandlesOf(live) /\ gone' = gone \cup {h}
    /\ UNCHANGED <<live, past>>

Next == Add \/ Remove \/ Wipe \/ Confirm

Spec == Init /\ [][Next]_vars
=============================================================================

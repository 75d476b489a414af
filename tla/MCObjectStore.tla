--------------------------- MODULE MCObjectStore ----------------------------
(* Instances of ObjectStore for TLC. *)
EXTENDS ObjectStore, TLC

\* A token key with the default guards that derives; one that leaves and wraps
\* others; one that is neither sensitive nor extractable; a session key that stays.
TemplatesAll == {
    "token" :> TRUE @@ "derive" :> TRUE,
    "token" :> TRUE @@ "extractable" :> TRUE @@ "wrap" :> TRUE @@ "unwrap" :> TRUE,
    "token" :> TRUE @@ "sensitive" :> FALSE,
    "extractable" :> FALSE @@ "destroyable" :> FALSE }

\* Nothing tells handles apart but the order in which they are issued, and
\* nothing at all store keys.
Symmetry == Permutations(Handles) \cup Permutations(StoreKeys)

\* Imported and generated keys are valid from the second day, derived and
\* unwrapped ones always.
PeriodsSome == {[start |-> 2, end |-> 0]}
=============================================================================

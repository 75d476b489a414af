---------------------------- MODULE MCTokenAuth ----------------------------
(* Model values and bounds for checking TokenAuth with TLC.                *)
EXTENDS TokenAuth, TLC

CONSTANTS p1, p2, p3

\* p1 and p2 pass validate_pin, p3 does not: it can only be a wrong guess.
MCPins == {p1, p2, p3}
MCValidPins == {p1, p2}

\* The two valid PINs play the same part everywhere.
MCSymmetry == Permutations({p1, p2})
=============================================================================

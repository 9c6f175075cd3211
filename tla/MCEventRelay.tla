----------------------------- MODULE MCEventRelay -----------------------------
(* EventRelay with model values for TLC. *)
EXTENDS EventRelay

CONSTANTS e1, e2, r1
=============================================================================

--------------------------- MODULE MCEventWindow ----------------------------
(* EventWindow for TLC: cfg values cannot be negative numbers.             *)
EXTENDS EventWindow

BackAndForth == -3 .. 2
=============================================================================

------------------------- MODULE MCParameterInterest -------------------------
(* ParameterInterest for TLC. *)
EXTENDS ParameterInterest
=============================================================================

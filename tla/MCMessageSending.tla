-------------------------- MODULE MCMessageSending ---------------------------
(* MessageSending for TLC. *)
EXTENDS MessageSending
=============================================================================

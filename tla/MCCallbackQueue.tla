--------------------------- MODULE MCCallbackQueue ---------------------------
(* CallbackQueue for TLC; the threads and callbacks are model values. *)
EXTENDS CallbackQueue
=============================================================================

--------------------------- MODULE MCOutputRetry ---------------------------
(* TLC instances of OutputRetry. *)
EXTENDS OutputRetry
=============================================================================

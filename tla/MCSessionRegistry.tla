------------------------- MODULE MCSessionRegistry -------------------------
(* TLC instances of SessionRegistry. *)
EXTENDS SessionRegistry
=============================================================================

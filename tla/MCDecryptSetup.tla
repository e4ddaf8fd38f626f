--------------------------- MODULE MCDecryptSetup ---------------------------
(* TLC instances of DecryptSetup: as many threads as can meet in it. *)
EXTENDS DecryptSetup
=============================================================================

------------------------- MODULE MCDecryptExchange -------------------------
(* TLC instances of DecryptExchange.                                        *)
EXTENDS DecryptExchange

CONSTANTS p1, p2, q1, q2

\* One call of each kind, on ordinary and on FPS sessions; opencdm_session_decrypt
\* passes no stream properties, opencdm_session_decrypt_v2 and _v3 may.
KindsOfCalls ==
  {[kind |-> "single", params |-> p1, props |-> q1],
   [kind |-> "single", params |-> p1, props |-> None],
   [kind |-> "multi",  params |-> p2, props |-> q2],
   [kind |-> "audio",  params |-> p1, props |-> None],
   [kind |-> "svp",    params |-> p2, props |-> None],
   [kind |-> "other",  params |-> p1, props |-> None]}
=============================================================================

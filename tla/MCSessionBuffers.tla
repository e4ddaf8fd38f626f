-------------------------- MODULE MCSessionBuffers --------------------------
(* TLC instances of SessionBuffers: more sessions than locators, so that the  *)
(* pool runs dry and a freed locator is taken by another session.            *)
EXTENDS SessionBuffers
=============================================================================

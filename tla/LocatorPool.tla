---------------------------- MODULE LocatorPool ----------------------------
(***************************************************************************)
(* What the buffer administration promises its sessions, without sessions'  *)
(* lives, locks or worker threads: a session holds at most one locator, two *)
(* sessions never hold the same one, and a locator is handed out again only *)
(* after it was given back.  The locator granted is the lowest one nobody   *)
(* holds, so the names in use stay few.                                     *)
(***************************************************************************)
EXTENDS Naturals

CONSTANTS Holders, NumSlots, NoSlot

VARIABLE held   \* the locator each holder has, NoSlot if none

Free(n) == \A h \in Holders : held[h] # n

Init == held = [h \in Holders |-> NoSlot]

Grant(h, n) ==
  /\ held[h] = NoSlot
  /\ Free(n) /\ \A m \in 0 .. n - 1 : ~Free(m)
  /\ held' = [held EXCEPT ![h] = n]

GiveBack(h) ==
  /\ held[h] # NoSlot
  /\ held' = [held EXCEPT ![h] = NoSlot]

Next == \E h \in Holders : \/ \E n \in 0 .. NumSlots - 1 : Grant(h, n)
                           \/ GiveBack(h)

Spec == Init /\ [][Next]_held

=============================================================================

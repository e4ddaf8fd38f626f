------------------------ MODULE BufferAdministrator ------------------------
(***************************************************************************)
(* AccessorOCDM::BufferAdministrator (plugin/FrameworkRPC.cpp): the bitmask *)
(* that hands out the names of the shared-memory files through which a     *)
(* client and the OCDM server exchange samples.  A locator is modelled by  *)
(* its slot number, the bit it occupies in _occupation; the empty locator  *)
(* is NoSlot.  Both operations run under the administrator's own lock, so  *)
(* each is one action on the variable occupation.                          *)
(***************************************************************************)
EXTENDS Naturals

CONSTANTS
  NumSlots,   \* bits of _occupation: sizeof(_occupation) * 8, 16 in the code
  NoSlot      \* the empty locator

ASSUME SlotAssumption ==
  /\ NumSlots \in Nat \ {0}
  /\ NoSlot \notin Nat

VARIABLE occupation   \* the set of bits that are 1 in _occupation

Slots == 0 .. NumSlots - 1

InitOccupation == occupation = {}

\* Mutant: the search runs one bit too far.
IsFirstFree_OffByOne(n) == /\ n \in (0 .. NumSlots) \ occupation
                           /\ \A m \in 0 .. n - 1 : m \in occupation

IsFirstFree(n) == /\ n \in Slots \ occupation
                  /\ \A m \in 0 .. n - 1 : m \in occupation

\* Mutant: the bit is never set, so the next caller finds it free again.
AquireBuffer_ForgetsBit(n) == IsFirstFree(n) /\ UNCHANGED occupation

\* The search finds the first zero bit, sets it and returns its name.
AquireBuffer(n) ==
  /\ IsFirstFree(n)
  /\ occupation' = occupation \cup {n}

\* No zero bit: nothing is taken and the locator stays empty.
AquireBufferFails ==
  /\ Slots \subseteq occupation
  /\ UNCHANGED occupation

\* The number the name ends with selects a bit; a set bit is cleared and any
\* other is left alone (the debug build asserts, see TeardownAssertsHold).
\* Bit NumSlots passes the code's "<=" but is never set.
ReleaseBuffer(n) ==
  occupation' = IF n <= NumSlots THEN occupation \ {n} ELSE occupation

=============================================================================

------------------------- MODULE DecryptSetupProofs -------------------------
(***************************************************************************)
(* The lazily made buffer, for any number of threads and locators, and      *)
(* whatever replies are lost.  The strengthening ties the three places that  *)
(* know of the buffer together: the server, the thread that was told it has  *)
(* made it, and the client's pointer.                                       *)
(***************************************************************************)
EXTENDS DecryptSetup, TLAPS

\* The server's buffer has a locator of its own.
BufferIsOwn == buffer # NoSlot => buffer \in occupation \ others

\* Who is told that it made the buffer has its name.
ReplyIsTheBuffer == \A t \in Threads : pc[t] = "created" => buffer # NoSlot /\ reply[t] = buffer

\* Outside its life a session has no buffer and no calls, and in the end no exchange.
NothingRemains ==
  /\ phase # "live" => buffer = NoSlot /\ \A t \in Threads : pc[t] = "idle"
  /\ phase = "none" => exchange = NoSlot

IInv ==
  /\ TypeOK /\ BufferIsOwn /\ ReplyIsTheBuffer /\ NothingRemains
  /\ OneOpens /\ ExchangeIsServers

\* No slot is the empty locator, and every slot is a number ReleaseBuffer accepts.
LEMMA SlotFacts ==
  /\ NoSlot \notin Slots
  /\ \A n \in Slots : n <= NumSlots
BY SlotAssumption DEF Slots

\* Every step keeps the strengthening.
LEMMA IInvStep == IInv /\ [Next]_vars => IInv'
<1> SUFFICES ASSUME IInv, [Next]_vars PROVE IInv'
  OBVIOUS
<1> USE SlotFacts DEF IInv, TypeOK, BufferIsOwn, ReplyIsTheBuffer, NothingRemains, OneOpens,
                      ExchangeIsServers, Phases, Stages, poolVars
<1>1. ASSUME NEW n \in 0 .. NumSlots, OtherTakes(n) PROVE IInv'
  BY <1>1 DEF OtherTakes, AquireBuffer, IsFirstFree
<1>2. ASSUME NEW n \in 0 .. NumSlots, OtherGivesBack(n) PROVE IInv'
  BY <1>2 DEF OtherGivesBack, ReleaseBuffer
<1>3. ASSUME NEW t \in Threads, Decrypt(t) PROVE IInv'
  BY <1>3 DEF Decrypt
<1>4. ASSUME NEW t \in Threads, BufferCreated(t) PROVE IInv'
  <2>1. PICK n \in 0 .. NumSlots :
          /\ n \in Slots \ occupation
          /\ occupation' = occupation \cup {n}
          /\ buffer' = n
          /\ reply' = [reply EXCEPT ![t] = n]
    BY <1>4 DEF BufferCreated, AquireBuffer, IsFirstFree
  <2>2. /\ pc[t] = "asking" /\ buffer = NoSlot
        /\ pc' = [pc EXCEPT ![t] = "created"]
        /\ UNCHANGED <<others, phase, exchange, lost>>
    BY <1>4 DEF BufferCreated
  <2>3. phase = "live" /\ exchange = NoSlot /\ \A u \in Threads : pc[u] # "created"
    BY <2>2
  <2>4. \A u \in Threads \ {t} : pc'[u] = pc[u] /\ reply'[u] = reply[u]
    BY <2>1, <2>2
  <2>5. TypeOK'
    BY <2>1, <2>2
  <2>6. QED
    BY <2>1, <2>2, <2>3, <2>4, <2>5
<1>5. ASSUME NEW t \in Threads, BufferExists(t) PROVE IInv'
  BY <1>5 DEF BufferExists
<1>6. ASSUME NEW t \in Threads, BufferRefused(t) PROVE IInv'
  BY <1>6 DEF BufferRefused, AquireBufferFails
<1>7. ASSUME NEW t \in Threads, ReplyLost(t) PROVE IInv'
  BY <1>7 DEF ReplyLost
<1>8. ASSUME NEW t \in Threads, OpenExchange(t) PROVE IInv'
  BY <1>8 DEF OpenExchange
<1>9. ASSUME NEW t \in Threads, SeeExchange(t) \/ Refused(t) \/ Decrypted(t) PROVE IInv'
  BY <1>9 DEF SeeExchange, Refused, Decrypted
<1>10. CASE CreateSession \/ DeleteExchange
  BY <1>10 DEF CreateSession, DeleteExchange
<1>11. CASE ReleaseSession
  <2>1. CASE buffer = NoSlot
    BY <1>11, <2>1 DEF ReleaseSession
  <2>2. CASE buffer # NoSlot
    <3>1. occupation' = occupation \ {buffer}
      BY <1>11, <2>2 DEF ReleaseSession, ReleaseBuffer
    <3>2. QED
      BY <1>11, <2>2, <3>1 DEF ReleaseSession
  <2>3. QED
    BY <2>1, <2>2
<1>12. CASE UNCHANGED vars
  BY <1>12 DEF vars
<1>13. QED
  BY <1>1, <1>2, <1>3, <1>4, <1>5, <1>6, <1>7, <1>8, <1>9, <1>10, <1>11, <1>12
  DEF Next, CallStep, Answered

\* The strengthening is an invariant.
THEOREM IInvHolds == Spec => []IInv
<1>1. Init => IInv
  BY SlotFacts DEF Init, InitOccupation, IInv, TypeOK, BufferIsOwn, ReplyIsTheBuffer,
                   NothingRemains, OneOpens, ExchangeIsServers, Phases, Stages
<1>2. QED
  BY <1>1, IInvStep, PTL DEF Spec

\* Every variable of the two sides keeps its type.
THEOREM TypeCorrect == Spec => []TypeOK
<1>1. IInv => TypeOK
  BY DEF IInv
<1>2. QED
  BY <1>1, IInvHolds, PTL

\* ASSERT(_decryptSession == nullptr) before _decryptSession is assigned never fires.
THEOREM OneThreadOpens == Spec => []OneOpens
<1>1. IInv => OneOpens
  BY DEF IInv
<1>2. QED
  BY <1>1, IInvHolds, PTL

\* _decryptSession is the client's side of the session's own buffer in the server.
THEOREM ExchangeIsTheServersBuffer == Spec => []ExchangeIsServers
<1>1. IInv => ExchangeIsServers
  BY DEF IInv
<1>2. QED
  BY <1>1, IInvHolds, PTL

=============================================================================

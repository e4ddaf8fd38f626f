------------------------ MODULE SessionBuffersProofs ------------------------
(* Theorems of SessionBuffers for every number of sessions and locators.     *)
EXTENDS SessionBuffers, TLAPS

(***************************************************************************)
(* The inductive invariant: types, the bookkeeping of the locators, and for *)
(* each session what its phase says about the list, the CDM session, the    *)
(* lock and its buffer.                                                     *)
(***************************************************************************)
Lifecycle(s) ==
  /\ opening[s] # NoSlot => phase[s] = "live" /\ buffer[s] = NoSlot
  /\ phase[s] \in {"none", "created", "registering"} => buffer[s] = NoSlot
  /\ adminLock = s <=> phase[s] = "registering" \/ phase[s] \in Removing
  /\ s \in sessionList <=>
       phase[s] \in {"registering", "live", "dying"} \/ phase[s] \in Removing
  /\ s \in cdm <=> phase[s] \in {"created", "registering", "live", "dying", "detached"}

IInv == TypeOK /\ SlotBookkeeping /\ \A s \in Sessions : Lifecycle(s)

\* Type correctness does not need the rest of the invariant.
THEOREM TypeCorrect == Spec => []TypeOK
<1>1. Init => TypeOK
  BY DEF Init, InitOccupation, TypeOK, Phases
<1>2. TypeOK /\ [Next]_vars => TypeOK'
  <2> SUFFICES ASSUME TypeOK, [Next]_vars PROVE TypeOK'
    OBVIOUS
  <2> USE DEF TypeOK, exchangeVars
  <2>1. ASSUME NEW s \in Sessions,
               CreateSession(s) \/ Register(s) \/ CreateSessionReturns(s)
        PROVE TypeOK'
    BY <2>1 DEF CreateSession, Register, CreateSessionReturns, Phases
  <2>2. ASSUME NEW s \in Sessions, TakeLocator(s) PROVE TypeOK'
    BY <2>2 DEF TakeLocator, AquireBuffer, IsFirstFree
  <2>3. ASSUME NEW s \in Sessions, OpenBuffer(s) \/ CreateSessionBufferKeepsState(s)
        PROVE TypeOK'
    BY <2>3 DEF OpenBuffer, CreateSessionBufferKeepsState, AquireBufferFails
  <2>4. ASSUME NEW s \in Sessions, Release(s) \/ ClientDies(s) PROVE TypeOK'
    BY <2>4 DEF Release, ClientDies, DropLastReference, Phases
  <2>5. ASSUME NEW s \in Sessions,
               EnterRemove(s) \/ DestroyCdmSession(s) \/ LeaveRemove(s)
        PROVE TypeOK'
    BY <2>5 DEF EnterRemove, DestroyCdmSession, LeaveRemove, Phases
  <2>6. ASSUME NEW s \in Sessions, FreeLocator(s) PROVE TypeOK'
    BY <2>6 DEF FreeLocator, ReleaseBuffer, Phases
  <2>7. ASSUME NEW s \in Sessions, StopWorker(s) \/ Destroyed(s) PROVE TypeOK'
    BY <2>7 DEF StopWorker, Destroyed, Phases
  <2>8. ASSUME NEW s \in Sessions, ExchangeStep(s) PROVE TypeOK'
    BY <2>8 DEF ExchangeStep, ClientProduces, WorkerWakes, WorkerConsumed
  <2>9. CASE UNCHANGED vars
    BY <2>9 DEF vars
  <2>10. QED
    BY <2>1, <2>2, <2>3, <2>4, <2>5, <2>6, <2>7, <2>8, <2>9 DEF Next, SessionStep
<1>3. QED
  BY <1>1, <1>2, PTL DEF Spec

-----------------------------------------------------------------------------
(* What a step does to the locators: nothing, a grant or a return. *)

NoTransfer == /\ occupation' = occupation
              /\ \A t \in Sessions : Holding(t)' = Holding(t)

Granted(s, n) == /\ IsFirstFree(n)
                 /\ occupation' = occupation \cup {n}
                 /\ Holding(s) = NoSlot /\ Holding(s)' = n
                 /\ \A t \in Sessions \ {s} : Holding(t)' = Holding(t)

GivenBack(s) == /\ Holding(s) # NoSlot /\ Holding(s)' = NoSlot
                /\ occupation' = occupation \ {Holding(s)}
                /\ \A t \in Sessions \ {s} : Holding(t)' = Holding(t)

\* Each session's phase keeps agreeing with the list, the CDM, the lock and its
\* buffer: the part of the invariant that the locators are not needed for.
LEMMA LifecycleStep ==
  ASSUME TypeOK, \A s \in Sessions : Lifecycle(s), [Next]_vars
  PROVE  \A s \in Sessions : Lifecycle(s)'
<1> USE SessionAssumption DEF TypeOK, Lifecycle, Removing, exchangeVars
<1> SUFFICES ASSUME NEW t \in Sessions PROVE Lifecycle(t)'
  OBVIOUS
<1>1. ASSUME NEW s \in Sessions, CreateSession(s) PROVE Lifecycle(t)'
  BY <1>1 DEF CreateSession
<1>2. ASSUME NEW s \in Sessions, Register(s) PROVE Lifecycle(t)'
  BY <1>2 DEF Register
<1>3. ASSUME NEW s \in Sessions, CreateSessionReturns(s) PROVE Lifecycle(t)'
  BY <1>3 DEF CreateSessionReturns
<1>4. ASSUME NEW s \in Sessions, TakeLocator(s) PROVE Lifecycle(t)'
  BY <1>4 DEF TakeLocator
<1>5. ASSUME NEW s \in Sessions, OpenBuffer(s) PROVE Lifecycle(t)'
  BY <1>5 DEF OpenBuffer
<1>6. ASSUME NEW s \in Sessions, CreateSessionBufferKeepsState(s) PROVE Lifecycle(t)'
  BY <1>6 DEF CreateSessionBufferKeepsState
<1>7. ASSUME NEW s \in Sessions, Release(s) \/ ClientDies(s) PROVE Lifecycle(t)'
  BY <1>7 DEF Release, ClientDies, DropLastReference
<1>8. ASSUME NEW s \in Sessions, EnterRemove(s) PROVE Lifecycle(t)'
  BY <1>8 DEF EnterRemove
<1>9. ASSUME NEW s \in Sessions, DestroyCdmSession(s) PROVE Lifecycle(t)'
  BY <1>9 DEF DestroyCdmSession
<1>10. ASSUME NEW s \in Sessions, FreeLocator(s) PROVE Lifecycle(t)'
  BY <1>10 DEF FreeLocator
<1>11. ASSUME NEW s \in Sessions, LeaveRemove(s) PROVE Lifecycle(t)'
  BY <1>11 DEF LeaveRemove
<1>12. ASSUME NEW s \in Sessions, StopWorker(s) PROVE Lifecycle(t)'
  BY <1>12 DEF StopWorker
<1>13. ASSUME NEW s \in Sessions, Destroyed(s) PROVE Lifecycle(t)'
  BY <1>13 DEF Destroyed
<1>14. ASSUME NEW s \in Sessions, ExchangeStep(s) PROVE Lifecycle(t)'
  BY <1>14 DEF ExchangeStep, ClientProduces, WorkerWakes, WorkerConsumed
<1>15. CASE UNCHANGED vars
  BY <1>15 DEF vars
<1>16. QED
  BY <1>1, <1>2, <1>3, <1>4, <1>5, <1>6, <1>7, <1>8, <1>9, <1>10, <1>11, <1>12,
     <1>13, <1>14, <1>15 DEF Next, SessionStep

\* Only TakeLocator and FreeLocator move a locator, one at a time.
LEMMA LocatorStep ==
  ASSUME IInv, [Next]_vars
  PROVE  \/ NoTransfer
         \/ \E s \in Sessions, n \in Slots : Granted(s, n)
         \/ \E s \in Sessions : GivenBack(s)
<1> USE SlotAssumption DEF IInv, TypeOK, Lifecycle, Removing, Holding, exchangeVars
<1>1. ASSUME NEW s \in Sessions,
             CreateSession(s) \/ Register(s) \/ CreateSessionReturns(s)
      PROVE NoTransfer
  BY <1>1 DEF CreateSession, Register, CreateSessionReturns, NoTransfer
<1>2. ASSUME NEW s \in Sessions, TakeLocator(s)
      PROVE \E n \in Slots : Granted(s, n)
  <2>1. PICK n \in Slots : /\ AquireBuffer(n)
                           /\ opening' = [opening EXCEPT ![s] = n]
    BY <1>2 DEF TakeLocator, AquireBuffer, IsFirstFree
  <2>2. Granted(s, n)
    BY <1>2, <2>1 DEF TakeLocator, AquireBuffer, Granted, Slots
  <2>3. QED
    BY <2>2
<1>3. ASSUME NEW s \in Sessions, OpenBuffer(s) PROVE NoTransfer
  BY <1>3 DEF OpenBuffer, NoTransfer
<1>4. ASSUME NEW s \in Sessions, CreateSessionBufferKeepsState(s) PROVE NoTransfer
  BY <1>4 DEF CreateSessionBufferKeepsState, AquireBufferFails, NoTransfer
<1>5. ASSUME NEW s \in Sessions, Release(s) \/ ClientDies(s) PROVE NoTransfer
  BY <1>5 DEF Release, ClientDies, DropLastReference, NoTransfer
<1>6. ASSUME NEW s \in Sessions, EnterRemove(s) \/ DestroyCdmSession(s) PROVE NoTransfer
  BY <1>6 DEF EnterRemove, DestroyCdmSession, NoTransfer
<1>7. ASSUME NEW s \in Sessions, FreeLocator(s) PROVE NoTransfer \/ GivenBack(s)
  <2>1. CASE buffer[s] = NoSlot
    BY <1>7, <2>1 DEF FreeLocator, NoTransfer
  <2>2. CASE buffer[s] # NoSlot
    BY <1>7, <2>2 DEF FreeLocator, ReleaseBuffer, GivenBack, Slots
  <2>3. QED
    BY <2>1, <2>2
<1>8. ASSUME NEW s \in Sessions, LeaveRemove(s) \/ StopWorker(s) PROVE NoTransfer
  BY <1>8 DEF LeaveRemove, StopWorker, NoTransfer
<1>9. ASSUME NEW s \in Sessions, Destroyed(s) PROVE NoTransfer
  BY <1>9 DEF Destroyed, NoTransfer
<1>10. ASSUME NEW s \in Sessions, ExchangeStep(s) PROVE NoTransfer
  BY <1>10 DEF ExchangeStep, ClientProduces, WorkerWakes, WorkerConsumed, NoTransfer
<1>11. CASE UNCHANGED vars
  BY <1>11 DEF vars, NoTransfer
<1>12. QED
  BY <1>1, <1>2, <1>3, <1>4, <1>5, <1>6, <1>7, <1>8, <1>9, <1>10, <1>11
  DEF Next, SessionStep

\* A grant takes a bit nobody held and a return clears the holder's bit only, so
\* the bits stay exactly the locators held, each by one session.
LEMMA BookkeepingStep ==
  ASSUME TypeOK, SlotBookkeeping,
         \/ NoTransfer
         \/ \E s \in Sessions, n \in Slots : Granted(s, n)
         \/ \E s \in Sessions : GivenBack(s)
  PROVE  SlotBookkeeping'
<1>0. \A n \in Slots : n # NoSlot
  BY SlotAssumption DEF Slots
<1>1. CASE NoTransfer
  BY <1>1 DEF NoTransfer, SlotBookkeeping
<1>2. ASSUME NEW s \in Sessions, NEW n \in Slots, Granted(s, n)
      PROVE SlotBookkeeping'
  <2>1. n \notin occupation /\ n # NoSlot
    BY <1>0, <1>2 DEF Granted, IsFirstFree
  <2>2. occupation' = {Holding(t)' : t \in Sessions} \ {NoSlot}
    BY <1>2, <2>1 DEF Granted, SlotBookkeeping
  <2>3. \A t \in Sessions \ {s} : Holding(t)' # n
    BY <1>2, <2>1 DEF Granted, SlotBookkeeping
  <2>4. QED
    BY <1>2, <2>2, <2>3 DEF Granted, SlotBookkeeping
<1>3. ASSUME NEW s \in Sessions, GivenBack(s)
      PROVE SlotBookkeeping'
  <2>1. occupation' = {Holding(t)' : t \in Sessions} \ {NoSlot}
    BY <1>3 DEF GivenBack, SlotBookkeeping
  <2>2. QED
    BY <1>3, <2>1 DEF GivenBack, SlotBookkeeping
<1>4. QED
  BY <1>1, <1>2, <1>3

\* The strengthening is an invariant: lifecycle of each session and bookkeeping of
\* the locators together.
THEOREM IInvHolds == Spec => []IInv
<1>1. Init => IInv
  BY SlotAssumption, SessionAssumption
  DEF Init, InitOccupation, IInv, TypeOK, Phases, SlotBookkeeping, Holding, Lifecycle, Removing
<1>2. IInv /\ TypeOK' /\ [Next]_vars => IInv'
  <2> SUFFICES ASSUME IInv, TypeOK', [Next]_vars PROVE IInv'
    OBVIOUS
  <2>1. \A s \in Sessions : Lifecycle(s)'
    BY LifecycleStep DEF IInv
  <2>2. SlotBookkeeping'
    BY LocatorStep, BookkeepingStep DEF IInv
  <2>3. QED
    BY <2>1, <2>2 DEF IInv
<1>3. QED
  BY <1>1, <1>2, TypeCorrect, PTL DEF Spec

\* For any pool size and any number of sessions, the bits of _occupation are the
\* locators in use and no two sessions that have not given theirs back share one.
THEOREM BookkeepingHolds == Spec => []SlotBookkeeping
<1>1. IInv => SlotBookkeeping
  BY DEF IInv
<1>2. QED
  BY <1>1, IInvHolds, PTL

\* The two ASSERTs of the teardown cannot fire.
THEOREM TeardownSafe == Spec => []TeardownAssertsHold
<1>1. IInv => TeardownAssertsHold
  <2> SUFFICES ASSUME IInv, NEW s \in Sessions
               PROVE /\ phase[s] = "cdmGone" /\ buffer[s] # NoSlot => buffer[s] \in occupation
                     /\ phase[s] = "slotFreed" => s \in sessionList
    BY DEF TeardownAssertsHold
  <2>1. ASSUME phase[s] = "cdmGone", buffer[s] # NoSlot PROVE buffer[s] \in occupation
    <3>1. Holding(s) = buffer[s]
      BY <2>1 DEF IInv, Lifecycle, Holding
    <3>2. QED
      BY <2>1, <3>1 DEF IInv, SlotBookkeeping
  <2>2. phase[s] = "slotFreed" => s \in sessionList
    BY DEF IInv, Lifecycle, Removing
  <2>3. QED
    BY <2>1, <2>2
<1>2. QED
  BY <1>1, IInvHolds, PTL

\* With the accessor's lock free, every listed session is whole.
THEOREM ListSound == Spec => []ListedSessionsAreWhole
<1>1. IInv => ListedSessionsAreWhole
  <2> SUFFICES ASSUME IInv, adminLock = NoSession, NEW s \in sessionList
               PROVE s \in cdm /\ Holding(s) \in occupation \cup {NoSlot}
    BY DEF ListedSessionsAreWhole
  <2>1. s \in Sessions
    BY DEF IInv, TypeOK
  <2>2. phase[s] \in {"live", "dying"}
    BY <2>1, SessionAssumption DEF IInv, Lifecycle
  <2>3. s \in cdm
    BY <2>1, <2>2 DEF IInv, Lifecycle
  <2>4. Holding(s) \in occupation \cup {NoSlot}
    BY <2>1 DEF IInv, SlotBookkeeping
  <2>5. QED
    BY <2>3, <2>4
<1>2. QED
  BY <1>1, IInvHolds, PTL

-----------------------------------------------------------------------------
(* The worker and the CDM session it uses, when clients outlive their calls. *)

\* Sessions whose clients do not vanish inside a call.
Immortal == Sessions \ MortalClients

\* A worker that decrypts, or is about to, does so for a client that waits and
\* therefore still has its reference.
CallProtects(s) ==
  /\ inCall[s] => phase[s] = "live"
  /\ worker[s] = "decrypting" => inCall[s] /\ ~signal[s]
  /\ signal[s] => inCall[s] \/ phase[s] = "stopping"
  /\ worker[s] # "none" => buffer[s] # NoSlot

\* The worker never decrypts with a destroyed CDM session (CdmAliveWhileDecrypting)
\* of a client that releases its session only between its calls; for one that dies
\* inside a call this does not hold, as Remove destroys the CDM session before the worker is stopped.
THEOREM CallProtectsSession == Spec => []CdmAliveWhileDecrypting
<1>1. Init => \A s \in Immortal : CallProtects(s)
  BY DEF Init, CallProtects, Immortal
<1>2. IInv /\ (\A s \in Immortal : CallProtects(s)) /\ [Next]_vars
        => (\A s \in Immortal : CallProtects(s))'
  <2> SUFFICES ASSUME IInv, \A s \in Immortal : CallProtects(s), [Next]_vars,
                      NEW t \in Immortal
               PROVE  CallProtects(t)'
    OBVIOUS
  <2> USE SlotAssumption DEF Immortal, IInv, TypeOK, Lifecycle, CallProtects, exchangeVars
  <2>1. ASSUME NEW s \in Sessions,
               CreateSession(s) \/ Register(s) \/ CreateSessionReturns(s)
        PROVE CallProtects(t)'
    BY <2>1 DEF CreateSession, Register, CreateSessionReturns
  <2>2. ASSUME NEW s \in Sessions, TakeLocator(s) \/ CreateSessionBufferKeepsState(s)
        PROVE CallProtects(t)'
    BY <2>2 DEF TakeLocator, CreateSessionBufferKeepsState
  <2>3. ASSUME NEW s \in Sessions, OpenBuffer(s) PROVE CallProtects(t)'
    BY <2>3 DEF OpenBuffer
  <2>4. ASSUME NEW s \in Sessions, Release(s) \/ ClientDies(s) PROVE CallProtects(t)'
    BY <2>4 DEF Release, ClientDies, DropLastReference
  <2>5. ASSUME NEW s \in Sessions,
               EnterRemove(s) \/ DestroyCdmSession(s) \/ FreeLocator(s) \/ LeaveRemove(s)
        PROVE CallProtects(t)'
    BY <2>5 DEF EnterRemove, DestroyCdmSession, FreeLocator, LeaveRemove
  <2>6. ASSUME NEW s \in Sessions, StopWorker(s) PROVE CallProtects(t)'
    BY <2>6 DEF StopWorker
  <2>7. ASSUME NEW s \in Sessions, Destroyed(s) PROVE CallProtects(t)'
    BY <2>7 DEF Destroyed
  <2>8. ASSUME NEW s \in Sessions, ExchangeStep(s) PROVE CallProtects(t)'
    BY <2>8 DEF ExchangeStep, ClientProduces, WorkerWakes, WorkerConsumed, Stopped
  <2>9. CASE UNCHANGED vars
    BY <2>9 DEF vars
  <2>10. QED
    BY <2>1, <2>2, <2>3, <2>4, <2>5, <2>6, <2>7, <2>8, <2>9 DEF Next, SessionStep
<1>3. IInv /\ (\A s \in Immortal : CallProtects(s)) => CdmAliveWhileDecrypting
  BY DEF Immortal, IInv, Lifecycle, CallProtects, CdmAliveWhileDecrypting
<1>4. QED
  BY <1>1, <1>2, <1>3, IInvHolds, PTL DEF Spec

-----------------------------------------------------------------------------
\* The locators that sessions hold follow the abstract pool: every step grants the
\* lowest free locator to one session, takes one back, or leaves the pool alone.
THEOREM ImplementsPool == Spec => PoolSpec
<1> DEFINE h == [s \in Sessions |-> Holding(s)]
<1>1. Init => Pool!Init
  BY DEF Init, Pool!Init, Holding
<1>2. IInv /\ [Next]_vars => [Pool!Next]_h
  <2> SUFFICES ASSUME IInv, [Next]_vars PROVE Pool!Next \/ h' = h
    OBVIOUS
  <2>1. CASE NoTransfer
    BY <2>1 DEF NoTransfer
  <2>2. ASSUME NEW s \in Sessions, NEW n \in Slots, Granted(s, n) PROVE Pool!Next
    <3>1. \A m \in Nat : Pool!Free(m) <=> m \notin occupation
      BY SlotAssumption DEF Pool!Free, IInv, SlotBookkeeping
    <3>2. n \in Nat /\ 0 .. n - 1 \subseteq Nat
      BY DEF Slots
    <3>3. Pool!Free(n) /\ \A m \in 0 .. n - 1 : ~Pool!Free(m)
      BY <2>2, <3>1, <3>2 DEF Granted, IsFirstFree
    <3>4. h' = [h EXCEPT ![s] = n]
      BY <2>2 DEF Granted
    <3>5. Pool!Grant(s, n)
      BY <2>2, <3>3, <3>4 DEF Granted, Pool!Grant
    <3>6. QED
      BY <3>5 DEF Pool!Next, Slots
  <2>3. ASSUME NEW s \in Sessions, GivenBack(s) PROVE Pool!Next
    <3>1. \A t \in Sessions : Holding(t)' = IF t = s THEN NoSlot ELSE Holding(t)
      BY <2>3, Zenon DEF GivenBack
    <3>2. h' = [h EXCEPT ![s] = NoSlot]
      BY <3>1
    <3>3. Pool!GiveBack(s)
      BY <2>3, <3>2 DEF GivenBack, Pool!GiveBack
    <3>4. QED
      BY <3>3 DEF Pool!Next
  <2>4. QED
    BY <2>1, <2>2, <2>3, LocatorStep
<1>3. QED
  BY <1>1, <1>2, IInvHolds, PTL DEF Spec, PoolSpec, Pool!Spec

=============================================================================

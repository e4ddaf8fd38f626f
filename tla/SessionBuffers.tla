--------------------------- MODULE SessionBuffers ---------------------------
(***************************************************************************)
(* The life of the server side of a DRM session (plugin/FrameworkRPC.cpp):  *)
(* AccessorOCDM::CreateSession makes it, CreateSessionBuffer gives it a     *)
(* shared buffer with a worker thread (class DataExchange), and the last    *)
(* Release runs ~SessionImplementation, which calls AccessorOCDM::Remove    *)
(* under the accessor's lock and only then deletes the buffer, stopping the *)
(* worker.  Sessions run all of this concurrently, each on its own thread.  *)
(***************************************************************************)
EXTENDS BufferAdministrator

CONSTANTS
  Sessions,       \* identities of SessionImplementation objects, reused after delete
  NoSession,      \* the accessor's _adminLock is free
  MortalClients   \* sessions whose client process may vanish inside a decrypt call

ASSUME SessionAssumption ==
  /\ NoSession \notin Sessions
  /\ MortalClients \subseteq Sessions

VARIABLES
  phase,        \* how far each session is in its life, see Phases
  sessionList,  \* AccessorOCDM::_sessionList (its order is never used)
  cdm,          \* sessions whose CDM media key session exists
  opening,      \* locator taken by a CreateSessionBuffer that is still running
  buffer,       \* locator of the session's DataExchange, NoSlot while _buffer is null
  worker,       \* the DRMSessionThread of the session's DataExchange
  signal,       \* "produced" semaphore of the exchange
  inCall,       \* a client waits in Decrypt for the exchange to come back
  adminLock     \* holder of AccessorOCDM::_adminLock

vars == <<occupation, phase, sessionList, cdm, opening, buffer, worker, signal,
          inCall, adminLock>>

Phases == {"none",        \* no object
           "created",     \* constructed, not yet in _sessionList
           "registering", \* in the list, pending statuses sent under _adminLock
           "live",        \* referenced by the client
           "dying",       \* last reference gone, ~SessionImplementation entered
           "detached",    \* in Remove: lock taken, Run(nullptr) done
           "cdmGone",     \* DestroyMediaKeySession done
           "slotFreed",   \* ReleaseBuffer done
           "removed",     \* erased from the list, lock released
           "stopping"}    \* ~DataExchange: Stop() and the fake Produced() done

\* Phases in which the thread of the session is inside Remove.
Removing == {"detached", "cdmGone", "slotFreed"}

Init ==
  /\ InitOccupation
  /\ phase = [s \in Sessions |-> "none"]
  /\ sessionList = {}
  /\ cdm = {}
  /\ opening = [s \in Sessions |-> NoSlot]
  /\ buffer = [s \in Sessions |-> NoSlot]
  /\ worker = [s \in Sessions |-> "none"]
  /\ signal = [s \in Sessions |-> FALSE]
  /\ inCall = [s \in Sessions |-> FALSE]
  /\ adminLock = NoSession

exchangeVars == <<worker, signal, inCall>>

-----------------------------------------------------------------------------
(* AccessorOCDM::CreateSession *)

\* The key system makes a CDM session and the object is constructed over it.
CreateSession(s) ==
  /\ phase[s] = "none"
  /\ phase' = [phase EXCEPT ![s] = "created"]
  /\ cdm' = cdm \cup {s}
  /\ UNCHANGED <<occupation, sessionList, opening, buffer, exchangeVars, adminLock>>

\* _adminLock is taken, the session is listed, and the client is told that its
\* keys are pending while the lock is still held.
Register(s) ==
  /\ phase[s] = "created"
  /\ adminLock = NoSession
  /\ adminLock' = s
  /\ sessionList' = sessionList \cup {s}
  /\ phase' = [phase EXCEPT ![s] = "registering"]
  /\ UNCHANGED <<occupation, cdm, opening, buffer, exchangeVars>>

\* The callbacks returned: unlock, and the client owns the only reference.
CreateSessionReturns(s) ==
  /\ phase[s] = "registering"
  /\ adminLock' = NoSession
  /\ phase' = [phase EXCEPT ![s] = "live"]
  /\ UNCHANGED <<occupation, sessionList, cdm, opening, buffer, exchangeVars>>

-----------------------------------------------------------------------------
(* SessionImplementation::CreateSessionBuffer, under the session's own lock:
   from the locator being taken (opening) to the assignment of _buffer. *)

TakeLocator(s) ==
  /\ phase[s] = "live"
  /\ buffer[s] = NoSlot
  /\ opening[s] = NoSlot
  /\ \E n \in 0 .. NumSlots : /\ AquireBuffer(n)
                               /\ opening' = [opening EXCEPT ![s] = n]
  /\ UNCHANGED <<phase, sessionList, cdm, buffer, exchangeVars, adminLock>>

\* new DataExchange(...): its constructor starts the worker thread.
OpenBuffer(s) ==
  /\ opening[s] # NoSlot
  /\ buffer' = [buffer EXCEPT ![s] = opening[s]]
  /\ opening' = [opening EXCEPT ![s] = NoSlot]
  /\ worker' = [worker EXCEPT ![s] = "waiting"]
  /\ signal' = [signal EXCEPT ![s] = FALSE]
  /\ UNCHANGED <<occupation, phase, sessionList, cdm, inCall, adminLock>>

\* Nothing is taken: the pool is exhausted (OCDM_INVALID_DECRYPT_BUFFER), or the
\* buffer exists already and only its name is returned (OCDM_S_FALSE).
CreateSessionBufferKeepsState(s) ==
  /\ phase[s] = "live"
  /\ opening[s] = NoSlot
  /\ \/ buffer[s] = NoSlot /\ AquireBufferFails
     \/ buffer[s] # NoSlot /\ UNCHANGED occupation
  /\ UNCHANGED <<phase, sessionList, cdm, opening, buffer, exchangeVars, adminLock>>

-----------------------------------------------------------------------------
(* The exchange, seen from the session: DecryptExchange has the details. *)

\* Mutant: the client does not wait for the answer.
ClientProduces_NoWait(s) ==
  /\ phase[s] = "live"
  /\ buffer[s] # NoSlot
  /\ signal' = [signal EXCEPT ![s] = TRUE]
  /\ UNCHANGED <<occupation, phase, sessionList, cdm, opening, buffer, worker, inCall, adminLock>>

\* A client thread has filled the buffer and called Produced().
ClientProduces(s) ==
  /\ phase[s] = "live"
  /\ buffer[s] # NoSlot
  /\ ~inCall[s]
  /\ inCall' = [inCall EXCEPT ![s] = TRUE]
  /\ signal' = [signal EXCEPT ![s] = TRUE]
  /\ UNCHANGED <<occupation, phase, sessionList, cdm, opening, buffer, worker, adminLock>>

\* Core::Thread::Stop() was called on the exchange.
Stopped(s) == phase[s] = "stopping"

\* Mutant: a worker that finds itself stopped goes round its loop again.
WorkerWakes_Loops(s) ==
  /\ worker[s] = "waiting"
  /\ signal[s]
  /\ signal' = [signal EXCEPT ![s] = Stopped(s)]
  /\ worker' = [worker EXCEPT ![s] = IF Stopped(s) THEN "waiting" ELSE "decrypting"]
  /\ UNCHANGED <<occupation, phase, sessionList, cdm, opening, buffer, inCall, adminLock>>

\* RequestConsume returns; IsRunning() is tested again before the CDM is used.
WorkerWakes(s) ==
  /\ worker[s] = "waiting"
  /\ signal[s]
  /\ signal' = [signal EXCEPT ![s] = FALSE]
  /\ worker' = [worker EXCEPT ![s] = IF Stopped(s) THEN "stopped" ELSE "decrypting"]
  /\ UNCHANGED <<occupation, phase, sessionList, cdm, opening, buffer, inCall, adminLock>>

\* Decrypt returned; Status, Consumed(), and the loop condition is evaluated.
WorkerConsumed(s) ==
  /\ worker[s] = "decrypting"
  /\ inCall' = [inCall EXCEPT ![s] = FALSE]
  /\ worker' = [worker EXCEPT ![s] = IF Stopped(s) THEN "stopped" ELSE "waiting"]
  /\ UNCHANGED <<occupation, phase, sessionList, cdm, opening, buffer, signal, adminLock>>

-----------------------------------------------------------------------------
(* The last reference: ~SessionImplementation, Remove, ~DataExchange. *)

DropLastReference(s) ==
  /\ phase' = [phase EXCEPT ![s] = "dying"]
  /\ UNCHANGED <<occupation, sessionList, cdm, opening, buffer, exchangeVars, adminLock>>

\* A client releases a session once its own calls on it have returned.
Release(s) ==
  /\ phase[s] = "live"
  /\ opening[s] = NoSlot
  /\ ~inCall[s]
  /\ DropLastReference(s)

\* The client's process is gone and with it the reference it held.
ClientDies(s) ==
  /\ s \in MortalClients
  /\ phase[s] = "live"
  /\ opening[s] = NoSlot
  /\ inCall[s]
  /\ DropLastReference(s)

\* Mutant: the lock is taken only around the erase.
EnterRemove_Unlocked(s) ==
  /\ phase[s] = "dying"
  /\ phase' = [phase EXCEPT ![s] = "detached"]
  /\ UNCHANGED <<occupation, sessionList, cdm, opening, buffer, exchangeVars, adminLock>>

\* Remove: lock, then mediaKeySession->Run(nullptr).
EnterRemove(s) ==
  /\ phase[s] = "dying"
  /\ adminLock = NoSession
  /\ adminLock' = s
  /\ phase' = [phase EXCEPT ![s] = "detached"]
  /\ UNCHANGED <<occupation, sessionList, cdm, opening, buffer, exchangeVars>>

\* system->DestroyMediaKeySession(mediaKeySession).
DestroyCdmSession(s) ==
  /\ phase[s] = "detached"
  /\ cdm' = cdm \ {s}
  /\ phase' = [phase EXCEPT ![s] = "cdmGone"]
  /\ UNCHANGED <<occupation, sessionList, opening, buffer, exchangeVars, adminLock>>

\* _administrator.ReleaseBuffer(session->BufferId()), skipped for an empty name.
FreeLocator(s) ==
  /\ phase[s] = "cdmGone"
  /\ phase' = [phase EXCEPT ![s] = "slotFreed"]
  /\ IF buffer[s] # NoSlot THEN ReleaseBuffer(buffer[s]) ELSE UNCHANGED occupation
  /\ UNCHANGED <<sessionList, cdm, opening, buffer, exchangeVars, adminLock>>

\* The entry is erased and _adminLock released: Remove returns.
LeaveRemove(s) ==
  /\ phase[s] = "slotFreed"
  /\ sessionList' = sessionList \ {s}
  /\ adminLock' = NoSession
  /\ phase' = [phase EXCEPT ![s] = "removed"]
  /\ UNCHANGED <<occupation, cdm, opening, buffer, exchangeVars>>

\* delete _buffer: Stop(), then Produced() so that a waiting worker wakes up.
StopWorker(s) ==
  /\ phase[s] = "removed"
  /\ buffer[s] # NoSlot
  /\ phase' = [phase EXCEPT ![s] = "stopping"]
  /\ signal' = [signal EXCEPT ![s] = TRUE]
  /\ UNCHANGED <<occupation, sessionList, cdm, opening, buffer, worker, inCall, adminLock>>

\* Wait(STOPPED, infinite) returned, or there was no buffer: the object is gone.
Destroyed(s) ==
  /\ \/ phase[s] = "stopping" /\ worker[s] = "stopped"
     \/ phase[s] = "removed" /\ buffer[s] = NoSlot
  /\ phase' = [phase EXCEPT ![s] = "none"]
  /\ buffer' = [buffer EXCEPT ![s] = NoSlot]
  /\ worker' = [worker EXCEPT ![s] = "none"]
  /\ signal' = [signal EXCEPT ![s] = FALSE]
  /\ inCall' = [inCall EXCEPT ![s] = FALSE]
  /\ UNCHANGED <<occupation, sessionList, cdm, opening, adminLock>>

-----------------------------------------------------------------------------
SessionStep(s) ==
  \/ CreateSession(s) \/ Register(s) \/ CreateSessionReturns(s)
  \/ TakeLocator(s) \/ OpenBuffer(s) \/ CreateSessionBufferKeepsState(s)
  \/ Release(s) \/ ClientDies(s)
  \/ EnterRemove(s) \/ DestroyCdmSession(s) \/ FreeLocator(s) \/ LeaveRemove(s)
  \/ StopWorker(s) \/ Destroyed(s)

ExchangeStep(s) == ClientProduces(s) \/ WorkerWakes(s) \/ WorkerConsumed(s)

Next == \E s \in Sessions : SessionStep(s) \/ ExchangeStep(s)

Spec == Init /\ [][Next]_vars

(* Threads that are past their last decision go on; a mutex is not withheld
   for ever from a thread that keeps finding it free again (strong fairness);
   the CDM's Decrypt returns.  Clients owe nothing: they may never create,
   use or release a session. *)
Fairness ==
  \A s \in Sessions :
    /\ SF_vars(Register(s)) /\ SF_vars(EnterRemove(s))
    /\ WF_vars(CreateSessionReturns(s)) /\ WF_vars(OpenBuffer(s))
    /\ WF_vars(DestroyCdmSession(s)) /\ WF_vars(FreeLocator(s)) /\ WF_vars(LeaveRemove(s))
    /\ WF_vars(StopWorker(s)) /\ WF_vars(Destroyed(s))
    /\ WF_vars(WorkerWakes(s)) /\ WF_vars(WorkerConsumed(s))

FairSpec == Spec /\ Fairness

-----------------------------------------------------------------------------
(* Properties *)

TypeOK ==
  /\ occupation \in SUBSET Slots
  /\ phase \in [Sessions -> Phases]
  /\ sessionList \in SUBSET Sessions
  /\ cdm \in SUBSET Sessions
  /\ opening \in [Sessions -> Slots \cup {NoSlot}]
  /\ buffer \in [Sessions -> Slots \cup {NoSlot}]
  /\ worker \in [Sessions -> {"none", "waiting", "decrypting", "stopped"}]
  /\ signal \in [Sessions -> BOOLEAN]
  /\ inCall \in [Sessions -> BOOLEAN]
  /\ adminLock \in Sessions \cup {NoSession}

\* The locator a session has taken and not given back yet.
Holding(s) ==
  IF phase[s] \in {"slotFreed", "removed", "stopping"} THEN NoSlot
  ELSE IF opening[s] # NoSlot THEN opening[s] ELSE buffer[s]

\* The bits of _occupation are exactly the locators sessions hold, each held by
\* one session: however creations, buffer requests and destructions interleave,
\* no bit is lost with a dead session and none is shared by two live ones.
SlotBookkeeping ==
  /\ occupation = {Holding(s) : s \in Sessions} \ {NoSlot}
  /\ \A s, t \in Sessions : s # t /\ Holding(s) = Holding(t) => Holding(s) = NoSlot

\* The ASSERTs of the teardown never fire: ReleaseBuffer finds its bit set
\* ("Freeing a buffer that is already free sounds dangerous !!!") and Remove
\* finds the session in the list it is about to erase it from.
TeardownAssertsHold ==
  \A s \in Sessions :
    /\ phase[s] = "cdmGone" /\ buffer[s] # NoSlot => buffer[s] \in occupation
    /\ phase[s] = "slotFreed" => s \in sessionList

\* Whoever takes the accessor's lock finds only sessions in _sessionList whose
\* CDM session exists and whose locator, if they have one, is theirs: the steps
\* between DestroyMediaKeySession and the erase are hidden by the lock.
ListedSessionsAreWhole ==
  adminLock = NoSession =>
    \A s \in sessionList : s \in cdm /\ Holding(s) \in occupation \cup {NoSlot}

\* The worker is inside the CDM's Decrypt only while that CDM session exists,
\* although Remove destroys it before ~DataExchange stops the worker: what keeps
\* them apart is that a client, if it does not die, releases a session only between
\* its calls.
CdmAliveWhileDecrypting ==
  \A s \in Sessions \ MortalClients : worker[s] = "decrypting" => s \in cdm

\* Two shared buffers that exist at the same time have different names.  This is
\* what "this needs to be done in a thread safe way. Leave it up to the parent to
\* lock handing out new entries before we clear." asks of the destructor.
LocatorsDiffer ==
  \A s, t \in Sessions : s # t /\ buffer[s] = buffer[t] => buffer[s] = NoSlot

\* The last Release of a session ends: the destructor gets the lock, and the
\* worker it waits for leaves RequestConsume or the CDM and stops.
DestructionCompletes ==
  \A s \in Sessions : phase[s] = "dying" ~> phase[s] = "none"

\* Seen through the locators they hold, sessions behave as the abstract pool.
Pool == INSTANCE LocatorPool WITH Holders <- Sessions, held <- [s \in Sessions |-> Holding(s)]
PoolSpec == Pool!Spec

=============================================================================

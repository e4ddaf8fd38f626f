---------------------------- MODULE DecryptSetup ----------------------------
(***************************************************************************)
(* How a session's shared buffer comes to be.  Every decrypt call of        *)
(* OpenCDMSession (client/open_cdm_impl.h) that finds no exchange asks the   *)
(* server for one (plugin/FrameworkRPC.cpp, CreateSessionBuffer); threads    *)
(* that share the session may ask at the same time, and the one whose        *)
(* request made the buffer opens it for all, while the others wait for the   *)
(* pointer to appear.  Other sessions of the server take and give back       *)
(* locators meanwhile, and a reply may get lost between the processes.       *)
(***************************************************************************)
EXTENDS BufferAdministrator

CONSTANT Threads   \* threads of a client that decrypt with the session

VARIABLES
  others,    \* locators that other sessions hold
  phase,     \* how far the session is in its life, see Phases
  buffer,    \* server: locator of the session's DataExchange, NoSlot without one
  exchange,  \* client: locator of _decryptSession, NoSlot while it is null
  pc,        \* where each thread is, see Stages
  reply,     \* the locator a thread's request was answered with
  lost       \* the reply that the buffer was made did not arrive

vars == <<occupation, others, phase, buffer, exchange, pc, reply, lost>>

Phases == {"none",      \* no session
           "live",
           "released"}  \* destructor: the server's session is gone, the exchange not

Stages == {"idle",
           "asking",     \* it saw no exchange
           "created",    \* result 0: the buffer was made for it
           "exists",     \* result 1: it had been made before
           "refused",    \* any other result
           "using"}      \* it decrypts with the exchange

poolVars == <<occupation, others>>

Init ==
  /\ InitOccupation
  /\ others = {}
  /\ phase = "none"
  /\ buffer = NoSlot
  /\ exchange = NoSlot
  /\ pc = [t \in Threads |-> "idle"]
  /\ reply = [t \in Threads |-> NoSlot]
  /\ lost = FALSE

-----------------------------------------------------------------------------
(* Other sessions of the server *)

OtherTakes(n) ==
  /\ AquireBuffer(n)
  /\ others' = others \cup {n}
  /\ UNCHANGED <<phase, buffer, exchange, pc, reply, lost>>

OtherGivesBack(n) ==
  /\ n \in others
  /\ ReleaseBuffer(n)
  /\ others' = others \ {n}
  /\ UNCHANGED <<phase, buffer, exchange, pc, reply, lost>>

-----------------------------------------------------------------------------
(* A decrypt call *)

\* The pointer is looked at; without an exchange, the server is asked for one.
Decrypt(t) ==
  /\ phase = "live"
  /\ pc[t] = "idle"
  /\ pc' = [pc EXCEPT ![t] = IF exchange = NoSlot THEN "asking" ELSE "using"]
  /\ UNCHANGED <<poolVars, phase, buffer, exchange, reply, lost>>

\* Mutant: a buffer that exists is not noticed.
BufferCreated_Again(t) ==
  /\ pc[t] = "asking"
  /\ \E n \in 0 .. NumSlots :
       /\ AquireBuffer(n)
       /\ buffer' = n
       /\ reply' = [reply EXCEPT ![t] = n]
  /\ pc' = [pc EXCEPT ![t] = "created"]
  /\ UNCHANGED <<others, phase, exchange, lost>>

\* CreateSessionBuffer, in the server under the session's lock: a locator is taken
\* and the buffer of that name is opened (OCDM_SUCCESS).
BufferCreated(t) ==
  /\ pc[t] = "asking"
  /\ buffer = NoSlot
  /\ \E n \in 0 .. NumSlots :
       /\ AquireBuffer(n)
       /\ buffer' = n
       /\ reply' = [reply EXCEPT ![t] = n]
  /\ pc' = [pc EXCEPT ![t] = "created"]
  /\ UNCHANGED <<others, phase, exchange, lost>>

\* Mutant: the one who asks is told that it made the buffer.
BufferExists_Success(t) ==
  /\ pc[t] = "asking"
  /\ buffer # NoSlot
  /\ pc' = [pc EXCEPT ![t] = "created"]
  /\ reply' = [reply EXCEPT ![t] = buffer]
  /\ UNCHANGED <<poolVars, phase, buffer, exchange, lost>>

\* Or it has one already (OCDM_S_FALSE).
BufferExists(t) ==
  /\ pc[t] = "asking"
  /\ buffer # NoSlot
  /\ pc' = [pc EXCEPT ![t] = "exists"]
  /\ reply' = [reply EXCEPT ![t] = buffer]
  /\ UNCHANGED <<poolVars, phase, buffer, exchange, lost>>

\* Or the pool is exhausted (OCDM_INVALID_DECRYPT_BUFFER) and the name is cleared.
BufferRefused(t) ==
  /\ pc[t] = "asking"
  /\ buffer = NoSlot
  /\ AquireBufferFails
  /\ pc' = [pc EXCEPT ![t] = "refused"]
  /\ reply' = [reply EXCEPT ![t] = NoSlot]
  /\ UNCHANGED <<others, phase, buffer, exchange, lost>>

\* The buffer is made, and the call between the processes ends with an error: what
\* the client gets is neither 0 nor 1.
ReplyLost(t) ==
  /\ pc[t] = "created"
  /\ pc' = [pc EXCEPT ![t] = "refused"]
  /\ reply' = [reply EXCEPT ![t] = NoSlot]
  /\ lost' = TRUE
  /\ UNCHANGED <<poolVars, phase, buffer, exchange>>

\* Mutant: the exchange stays with the thread that opened it.
OpenExchange_ForItself(t) ==
  /\ pc[t] = "created"
  /\ pc' = [pc EXCEPT ![t] = "using"]
  /\ UNCHANGED <<poolVars, phase, buffer, exchange, reply, lost>>

\* Result 0: new DataExchange(bufferid), stored where all threads look.
OpenExchange(t) ==
  /\ pc[t] = "created"
  /\ exchange' = reply[t]
  /\ pc' = [pc EXCEPT ![t] = "using"]
  /\ UNCHANGED <<poolVars, phase, buffer, reply, lost>>

\* Result 1: it polls until the pointer is there.
SeeExchange(t) ==
  /\ pc[t] = "exists"
  /\ exchange # NoSlot
  /\ pc' = [pc EXCEPT ![t] = "using"]
  /\ UNCHANGED <<poolVars, phase, buffer, exchange, reply, lost>>

\* Any other: the pointer is read once more, and without an exchange the call fails.
Refused(t) ==
  /\ pc[t] = "refused"
  /\ pc' = [pc EXCEPT ![t] = IF exchange = NoSlot THEN "idle" ELSE "using"]
  /\ UNCHANGED <<poolVars, phase, buffer, exchange, reply, lost>>

\* DecryptExchange has what happens here.
Decrypted(t) ==
  /\ pc[t] = "using"
  /\ pc' = [pc EXCEPT ![t] = "idle"]
  /\ reply' = [reply EXCEPT ![t] = NoSlot]
  /\ UNCHANGED <<poolVars, phase, buffer, exchange, lost>>

-----------------------------------------------------------------------------
(* The life of the session *)

CreateSession ==
  /\ phase = "none"
  /\ phase' = "live"
  /\ UNCHANGED <<poolVars, buffer, exchange, pc, reply, lost>>

\* ~OpenCDMSession, when no thread uses the session any more: first the server's
\* session goes, with its buffer and locator,
ReleaseSession ==
  /\ phase = "live"
  /\ \A t \in Threads : pc[t] = "idle"
  /\ phase' = "released"
  /\ buffer' = NoSlot
  /\ IF buffer = NoSlot THEN UNCHANGED occupation ELSE ReleaseBuffer(buffer)
  /\ UNCHANGED <<others, exchange, pc, reply, lost>>

\* Mutant: the pointer is left for the next session in the same memory.
DeleteExchange_Dangles ==
  /\ phase = "released"
  /\ phase' = "none"
  /\ lost' = FALSE
  /\ UNCHANGED <<poolVars, buffer, exchange, pc, reply>>

\* then the exchange.
DeleteExchange ==
  /\ phase = "released"
  /\ phase' = "none"
  /\ exchange' = NoSlot
  /\ lost' = FALSE
  /\ UNCHANGED <<poolVars, buffer, pc, reply>>

-----------------------------------------------------------------------------
\* CreateSessionBuffer answers.
Answered(t) == BufferCreated(t) \/ BufferExists(t) \/ BufferRefused(t)

CallStep(t) ==
  Answered(t) \/ OpenExchange(t) \/ SeeExchange(t) \/ Refused(t) \/ Decrypted(t)

Next ==
  \/ \E n \in 0 .. NumSlots : OtherTakes(n) \/ OtherGivesBack(n)
  \/ \E t \in Threads : Decrypt(t) \/ CallStep(t) \/ ReplyLost(t)
  \/ CreateSession \/ ReleaseSession \/ DeleteExchange

Spec == Init /\ [][Next]_vars

(* A thread inside a call goes on, and the server answers what it is asked. *)
FairSpec == Spec /\ \A t \in Threads : WF_vars(CallStep(t))

-----------------------------------------------------------------------------
(* Properties *)

TypeOK ==
  /\ occupation \in SUBSET Slots
  /\ others \in SUBSET occupation
  /\ phase \in Phases
  /\ buffer \in Slots \cup {NoSlot}
  /\ exchange \in Slots \cup {NoSlot}
  /\ pc \in [Threads -> Stages]
  /\ reply \in [Threads -> Slots \cup {NoSlot}]
  /\ lost \in BOOLEAN

\* Of all threads that find no exchange at the same time, one opens it, and finds
\* none when it does: ASSERT(_decryptSession == nullptr) before the assignment.
OneOpens ==
  \A t \in Threads :
    pc[t] = "created" =>
      /\ exchange = NoSlot
      /\ \A u \in Threads \ {t} : pc[u] # "created"

\* What the client's threads fill is the buffer that the server's worker serves, and
\* no other session's, whichever thread opened it and whatever locators were taken
\* and given back since.
ExchangeIsServers ==
  phase = "live" /\ exchange # NoSlot =>
    /\ buffer = exchange
    /\ buffer \in occupation \ others

\* A decrypt call that had to wait for the exchange comes back, unless the reply
\* that announced the buffer was lost: then nobody will open it and all who ask wait
\* for ever.
CallsComeBack ==
  \A t \in Threads : pc[t] = "asking" ~> pc[t] = "idle" \/ lost

=============================================================================

-------------------------- MODULE SessionRegistry --------------------------
(***************************************************************************)
(* The sessions a client process knows (OpenCDMAccessor::_sessionKeys,      *)
(* client/open_cdm.cpp and open_cdm_impl.h): OpenCDMSession objects enter   *)
(* it when they are constructed and leave it when they are destructed, and  *)
(* opencdm_get_session looks one up by key: WaitForKey finds a session id   *)
(* under _adminLock, and Session(id) then finds the object and adds a       *)
(* reference without that lock.                                            *)
(*                                                                         *)
(* _interested is left out: only KeyUpdate reads it, which nobody calls.    *)
(***************************************************************************)
EXTENDS Naturals, FiniteSets

CONSTANTS
  Objects,     \* identities of OpenCDMSession objects, reused after delete
  Ids,         \* session ids a CDM gives out, distinct among its sessions
  NoId,        \* the empty id, shared by all sessions of com.apple.fps
  Callers,     \* threads inside opencdm_get_session
  None         \* no object

ASSUME RegistryAssumption ==
  /\ NoId \notin Ids
  /\ None \notin Objects
  /\ IsFiniteSet(Callers)

VARIABLES
  serialized,  \* the client never overlaps get_session and destruct_session
  phase,       \* how far each object is in its life, see Phases
  id,          \* its _sessionId
  usable,      \* objects that hold a key with status Usable
  owned,       \* objects whose creator has not destructed them yet
  refs,        \* _refCount
  keys,        \* _sessionKeys: the object of each id, or None
  pc,          \* where each caller is in opencdm_get_session
  found,       \* the id WaitForKey found
  result       \* the object Session found, held until it is destructed

vars == <<serialized, phase, id, usable, owned, refs, keys, pc, found, result>>

\* What a step of a caller, of an object, leaves alone: serialized is for ever.
objectVars == <<serialized, phase, id, usable, owned, refs, keys>>
callerVars == <<serialized, pc, found, result>>

AllIds == Ids \cup {NoId}

Phases == {"none",     \* no object
           "created",  \* the server answered CreateSession with a session
           "built",    \* constructed, the private data not yet
           "live",     \* handed to the client
           "dying",    \* the last reference is gone, the destructor entered
           "unlisted"} \* RemoveSession done, the server's session being released

Stages == {"idle", "scan", "waiting", "found", "read", "holds", "gaveUp"}

\* The object's memory is its own; and: it is whole, no destructor has begun.
Exists(o) == phase[o] # "none"
Alive(o) == phase[o] \in {"built", "live"}

Init ==
  /\ serialized \in BOOLEAN
  /\ phase = [o \in Objects |-> "none"]
  /\ id = [o \in Objects |-> NoId]
  /\ usable = {}
  /\ owned = {}
  /\ refs = [o \in Objects |-> 0]
  /\ keys = [i \in AllIds |-> None]
  /\ pc = [c \in Callers |-> "idle"]
  /\ found = [c \in Callers |-> NoId]
  /\ result = [c \in Callers |-> None]

-----------------------------------------------------------------------------
(* OpenCDMSession::CreateSession *)

\* The constructor gets a session from the server: its id is one that no other
\* session of the CDM has, or empty.
Create(o, i) ==
  /\ phase[o] = "none"
  /\ \A c \in Callers : result[c] # o
  /\ i # NoId => \A p \in Objects : Exists(p) => id[p] # i
  /\ phase' = [phase EXCEPT ![o] = "created"]
  /\ id' = [id EXCEPT ![o] = i]
  /\ refs' = [refs EXCEPT ![o] = 1]
  /\ UNCHANGED <<usable, owned, keys, callerVars>>

\* The server gives no session: the object is made all the same, its id is empty
\* and AddSession is not called.
CreateFails(o) ==
  /\ phase[o] = "none"
  /\ \A c \in Callers : result[c] # o
  /\ phase' = [phase EXCEPT ![o] = "built"]
  /\ id' = [id EXCEPT ![o] = NoId]
  /\ refs' = [refs EXCEPT ![o] = 1]
  /\ UNCHANGED <<usable, owned, keys, callerVars>>

\* Under _adminLock; an entry that exists is kept.
AddSession(o) ==
  /\ phase[o] = "created"
  /\ keys' = [keys EXCEPT ![id[o]] = IF @ = None THEN o ELSE @]
  /\ phase' = [phase EXCEPT ![o] = "built"]
  /\ UNCHANGED <<id, usable, owned, refs, callerVars>>

\* opencdm_construct_session_private, if there is one, is content.
Construct(o) ==
  /\ phase[o] = "built"
  /\ phase' = [phase EXCEPT ![o] = "live"]
  /\ owned' = owned \cup {o}
  /\ UNCHANGED <<id, usable, refs, keys, callerVars>>

\* The CDM reports a key of the session usable, or no longer so, until the
\* destructor revokes the callback.
KeyStatusChanges(o) ==
  /\ Exists(o)
  /\ \/ usable' = usable \cup {o}
     \/ usable' = usable \ {o}
  /\ UNCHANGED <<phase, id, owned, refs, keys, callerVars>>

-----------------------------------------------------------------------------
(* Release and ~OpenCDMSession *)

\* Nobody is inside opencdm_get_session or, seen from there, a destructor.
NoLookups == \A c \in Callers : pc[c] \in {"idle", "holds"}
NoDestructors == \A o \in Objects : phase[o] \notin {"dying", "unlisted"}

\* One reference less; the last one enters the destructor, others leave the object
\* in the phase given.
DropReference(o, otherwise) ==
  /\ refs' = [refs EXCEPT ![o] = @ - 1]
  /\ phase' = [phase EXCEPT ![o] = IF refs[o] = 1 THEN "dying" ELSE otherwise]
  /\ UNCHANGED <<id, usable, keys>>

\* opencdm_construct_session_private fails: the creator gets nothing.
ConstructFails(o) ==
  /\ phase[o] = "built"
  /\ serialized => NoLookups
  /\ DropReference(o, "live")
  /\ UNCHANGED <<owned, callerVars>>

\* Mutant: the object is deleted whoever else refers to it.
Destruct_Deletes(o) ==
  /\ o \in owned
  /\ serialized => NoLookups
  /\ owned' = owned \ {o}
  /\ phase' = [phase EXCEPT ![o] = "dying"]
  /\ refs' = [refs EXCEPT ![o] = @ - 1]
  /\ UNCHANGED <<id, usable, keys, callerVars>>

\* The creator calls opencdm_destruct_session.
Destruct(o) ==
  /\ o \in owned
  /\ serialized => NoLookups
  /\ owned' = owned \ {o}
  /\ DropReference(o, phase[o])
  /\ UNCHANGED callerVars

\* Mutant: the entry stays until the server's session is released.
RemoveSession_Late(o) ==
  /\ phase[o] = "dying"
  /\ phase' = [phase EXCEPT ![o] = "unlisted"]
  /\ UNCHANGED <<id, usable, owned, refs, keys, callerVars>>

\* RemoveSession(_sessionId), under _adminLock: whatever object the entry holds.
RemoveSession(o) ==
  /\ phase[o] = "dying"
  /\ keys' = [keys EXCEPT ![id[o]] = None]
  /\ phase' = [phase EXCEPT ![o] = "unlisted"]
  /\ UNCHANGED <<id, usable, owned, refs, callerVars>>

\* Revoke, the release of the server's session and buffer, and the delete.
Delete(o) ==
  /\ phase[o] = "unlisted"
  /\ phase' = [phase EXCEPT ![o] = "none"]
  /\ id' = [id EXCEPT ![o] = NoId]
  /\ usable' = usable \ {o}
  /\ refs' = [refs EXCEPT ![o] = 0]
  /\ UNCHANGED <<owned, keys, callerVars>>

-----------------------------------------------------------------------------
(* opencdm_get_session *)

GetSession(c) ==
  /\ pc[c] = "idle"
  /\ serialized => NoDestructors
  /\ pc' = [pc EXCEPT ![c] = "scan"]
  /\ UNCHANGED <<objectVars, found, result>>

\* Entries WaitForKey stops at.
Matches == {i \in AllIds : keys[i] \in usable}

\* Under _adminLock, the first match in the order of the ids.
ScanFinds(c) ==
  /\ pc[c] = "scan"
  /\ \E i \in Matches : found' = [found EXCEPT ![c] = i]
  /\ pc' = [pc EXCEPT ![c] = "found"]
  /\ UNCHANGED <<objectVars, result>>

ScanMisses(c) ==
  /\ pc[c] = "scan"
  /\ Matches = {}
  /\ pc' = [pc EXCEPT ![c] = "waiting"]
  /\ UNCHANGED <<objectVars, found, result>>

\* _signal.Lock returns: nobody sets the event, so the time asked for is over.
\* That time is cut to whole milliseconds, so the deadline may be yet to come.
TimeLeft(c) ==
  /\ pc[c] = "waiting"
  /\ pc' = [pc EXCEPT ![c] = "scan"]
  /\ UNCHANGED <<objectVars, found, result>>

\* Mutant: the loop is not left.
TimeOut_Ignored(c) ==
  /\ pc[c] = "waiting"
  /\ pc' = [pc EXCEPT ![c] = "scan"]
  /\ UNCHANGED <<objectVars, found, result>>

\* Or it has passed: the loop ends without another look.
TimeOut(c) ==
  /\ pc[c] = "waiting"
  /\ pc' = [pc EXCEPT ![c] = "gaveUp"]
  /\ UNCHANGED <<objectVars, found, result>>

\* Session(id): the entry is looked up without the lock.
Lookup(c) ==
  /\ pc[c] = "found"
  /\ result' = [result EXCEPT ![c] = keys[found[c]]]
  /\ pc' = [pc EXCEPT ![c] = IF keys[found[c]] = None THEN "gaveUp" ELSE "read"]
  /\ UNCHANGED <<objectVars, found>>

\* Mutant: the caller gets the object without a reference of its own.
AddRef_Forgotten(c) ==
  /\ pc[c] = "read"
  /\ pc' = [pc EXCEPT ![c] = "holds"]
  /\ UNCHANGED <<objectVars, found, result>>

\* The reference is added to whatever the object is by now: one that has been
\* deleted stays so.
AddRef(c) ==
  /\ pc[c] = "read"
  /\ refs' = [refs EXCEPT ![result[c]] = IF Exists(result[c]) THEN @ + 1 ELSE @]
  /\ pc' = [pc EXCEPT ![c] = "holds"]
  /\ UNCHANGED <<serialized, phase, id, usable, owned, keys, found, result>>

\* The caller destructs what it got.
Finish(c) ==
  /\ pc[c] = "holds"
  /\ Alive(result[c])
  /\ serialized => NoLookups
  /\ DropReference(result[c], phase[result[c]])
  /\ pc' = [pc EXCEPT ![c] = "idle"]
  /\ found' = [found EXCEPT ![c] = NoId]
  /\ result' = [result EXCEPT ![c] = None]
  /\ UNCHANGED <<serialized, owned>>

\* A destructor has run, or runs, on what it got: what a second one would do is
\* undefined, so apart from the count the object is left alone.
FinishDead(c) ==
  /\ pc[c] = "holds"
  /\ ~Alive(result[c])
  /\ pc' = [pc EXCEPT ![c] = "idle"]
  /\ found' = [found EXCEPT ![c] = NoId]
  /\ result' = [result EXCEPT ![c] = None]
  /\ refs' = [refs EXCEPT ![result[c]] = IF Exists(result[c]) THEN @ - 1 ELSE @]
  /\ UNCHANGED <<serialized, phase, id, usable, owned, keys>>

\* NULL is returned.
FinishNull(c) ==
  /\ pc[c] = "gaveUp"
  /\ pc' = [pc EXCEPT ![c] = "idle"]
  /\ found' = [found EXCEPT ![c] = NoId]
  /\ UNCHANGED <<objectVars, result>>

-----------------------------------------------------------------------------
Destruction(o) == RemoveSession(o) \/ Delete(o)

ObjectStep(o) ==
  \/ \E i \in AllIds : Create(o, i)
  \/ CreateFails(o) \/ AddSession(o) \/ Construct(o) \/ ConstructFails(o)
  \/ KeyStatusChanges(o) \/ Destruct(o) \/ Destruction(o)

Looking(c) == ScanFinds(c) \/ ScanMisses(c) \/ Lookup(c) \/ AddRef(c)

CallerStep(c) ==
  \/ GetSession(c) \/ Looking(c) \/ TimeLeft(c) \/ TimeOut(c)
  \/ Finish(c) \/ FinishDead(c) \/ FinishNull(c)

Next == (\E o \in Objects : ObjectStep(o)) \/ (\E c \in Callers : CallerStep(c))

Spec == Init /\ [][Next]_vars

(* A caller inside get_session goes on, and its deadline passes. *)
Fairness == \A c \in Callers : WF_vars(Looking(c)) /\ SF_vars(TimeOut(c))

FairSpec == Spec /\ Fairness

-----------------------------------------------------------------------------
(* Properties *)

TypeOK ==
  /\ serialized \in BOOLEAN
  /\ phase \in [Objects -> Phases]
  /\ id \in [Objects -> AllIds]
  /\ usable \in SUBSET Objects
  /\ owned \in SUBSET Objects
  /\ refs \in [Objects -> Nat]
  /\ keys \in [AllIds -> Objects \cup {None}]
  /\ pc \in [Callers -> Stages]
  /\ found \in [Callers -> AllIds]
  /\ result \in [Callers -> Objects \cup {None}]

\* What a scan under _adminLock touches exists, is filed under its own id, and has
\* been registered itself: no entry outlives its object, although RemoveSession
\* erases by id, failed creations share the empty id and references may be
\* added behind the lock's back.
EntriesAreWhole ==
  \A i \in AllIds :
    keys[i] # None =>
      /\ phase[keys[i]] \in {"built", "live", "dying"}
      /\ id[keys[i]] = i

\* A session with an id of its own can be found from AddSession until its
\* destructor: nothing done to other sessions hides it.
DistinctIdsAreListed ==
  \A o \in Objects :
    phase[o] \in {"built", "live", "dying"} /\ id[o] # NoId => keys[id[o]] = o

\* The map and the sessions agree, in both directions.
RegistryIsRight == EntriesAreWhole /\ DistinctIdsAreListed

\* Callers that hold a reference to o and will give it back.
Referrers(o) == {c \in Callers : pc[c] = "holds" /\ result[c] = o}

\* A reference count is the number of those who will give a reference back, the
\* creator included, whatever lookups and destructions overlap: it is never too
\* low, so the destructor comes after all who were counted, nor too high.
ReferencesCounted ==
  \A o \in Objects :
    Exists(o) =>
      refs[o] = Cardinality(Referrers(o))
                + (IF o \in owned \/ phase[o] \in {"created", "built"} THEN 1 ELSE 0)

\* What opencdm_get_session returns is an OpenCDMSession, not what is left of one.
ReturnedIsAlive ==
  \A c \in Callers : pc[c] \in {"read", "holds"} => Alive(result[c])

\* It is, for a client that keeps lookups and destructions apart.
SerializedReturnsAlive == serialized => ReturnedIsAlive

\* "Maximum allowed time to block": opencdm_get_session returns.
GetSessionReturns ==
  \A c \in Callers : pc[c] = "scan" ~> pc[c] \in {"holds", "gaveUp"}

=============================================================================

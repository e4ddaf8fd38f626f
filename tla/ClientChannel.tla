--------------------------- MODULE ClientChannel ---------------------------
(***************************************************************************)
(* How a client process reaches the server (OpenCDMAccessor,                *)
(* client/open_cdm_impl.h): it opens a channel when the accessor is         *)
(* constructed, keeps a proxy of the server's accessor in _remote, and      *)
(* looks at the channel again in Reconnect, which only some calls come      *)
(* through.  The server may end and be started again at any point of that.  *)
(* What a call returns is in CdmCalls.                                      *)
(*                                                                         *)
(* Reconnect has no lock, so the client's threads have to take turns in the *)
(* accessor: the model has one of them.  A session is called through a      *)
(* proxy of its own, for which Reconnect does nothing.                      *)
(*                                                                         *)
(* A server is known by the number of its start; 0 is none, and a proxy has *)
(* the number of the server it belongs to.                                  *)
(***************************************************************************)
EXTENDS CdmCalls, Integers

CONSTANTS
  Systems,       \* key systems, by the names the client uses
  Offered,       \* the interfaces of each that has a CDM: a function on a subset
  Objects,       \* OpenCDMSession objects
  MaxStarts      \* bound: times the server is started

ASSUME ChannelAssumption ==
  /\ Systems # {} /\ Objects # {}
  /\ DOMAIN Offered \subseteq Systems
  /\ MaxStarts \in Nat

Servers == 1..MaxStarts
Absent == -1     \* of an object: there is none; 0: it has no session

VARIABLES
  started,       \* how often the server was started
  serving,       \* the server that runs, or 0
  ready,         \* it has initialized its factories
  client,        \* _client: none, or a channel that is closed or open
  peer,          \* the server the channel was opened to
  remote,        \* _remote
  refs,          \* the references the client holds on each server's accessor
  sessions,      \* of each object: the server its session is of, and its key system
  pc,            \* how far the call is, see Stages
  call, system, object,  \* what is called, of which key system or session
  target,        \* the proxy the call goes through
  by,            \* the server that carried it out
  answer,        \* what the accessor or the session answered
  result,        \* what the C function returned
  steady,        \* the server ran, and no channel to an earlier one seemed open, since it began
  disposed       \* opencdm_dispose was called

serverVars == <<started, serving, ready>>
channelVars == <<client, peer, remote, refs>>
callVars == <<call, system, object>>
vars == <<serverVars, channelVars, sessions, pc, callVars, target, by, answer, result,
          steady, disposed>>

Stages == {"idle", "connecting", "releasing", "opening", "reached",  \* the way there
           "sent", "served", "answered", "done"}

NoCall == "Instance"   \* the constructor of the accessor

\* The accessor is being constructed, which reconnects.
Init ==
  /\ started \in {0, 1} \cap 0..MaxStarts
  /\ serving = started
  /\ ready = FALSE
  /\ client = "none" /\ peer = 0 /\ remote = 0
  /\ refs = [s \in Servers |-> 0]
  /\ sessions = [o \in Objects |-> [server |-> Absent, system |-> CHOOSE k \in Systems : TRUE]]
  /\ pc = "connecting"
  /\ call = NoCall
  /\ system \in {CHOOSE k \in Systems : TRUE}
  /\ object \in {CHOOSE o \in Objects : TRUE}
  /\ target = 0 /\ by = 0
  /\ answer = "" /\ result = ""
  /\ steady = FALSE
  /\ disposed = FALSE

-----------------------------------------------------------------------------
(* The server, and the channel's notice of its end *)

Start ==
  /\ serving = 0 /\ started < MaxStarts
  /\ started' = started + 1
  /\ serving' = started + 1
  /\ ready' = FALSE
  /\ UNCHANGED <<channelVars, sessions, pc, callVars, target, by, answer, result, steady, disposed>>

\* InitializeAsync has filled the maps of key systems.
Initialize ==
  /\ serving # 0 /\ ~ready
  /\ ready' = TRUE
  /\ UNCHANGED <<started, serving, channelVars, sessions, pc, callVars, target, by, answer,
                 result, steady, disposed>>

\* The plug-in is deactivated, or the process crashes.
End ==
  /\ serving # 0
  /\ serving' = 0
  /\ ready' = FALSE
  /\ steady' = FALSE
  /\ UNCHANGED <<started, channelVars, sessions, pc, callVars, target, by, answer, result, disposed>>

\* The resource monitor closes a channel whose other end is gone.
Notice ==
  /\ client = "open" /\ peer # serving
  /\ client' = "closed"
  /\ UNCHANGED <<serverVars, peer, remote, refs, sessions, pc, callVars, target, by, answer,
                 result, steady, disposed>>

-----------------------------------------------------------------------------
(* The call *)

InCall == pc \notin {"idle", "done"}
Resting == ~InCall /\ ~disposed

\* Mutant: a call reconnects only when there is no remote, whichever call it is.
Reconnects_IfNone(k) == k \in Asking \cup Reviving /\ remote = 0

\* The calls that go through Reconnect.
Reconnects(k) == k \in Asking \/ (k \in Reviving /\ remote = 0)

Begin(k, s, o) ==
  /\ Resting
  /\ k \in SessionCalls => sessions[o].server # Absent /\ s = sessions[o].system
  /\ k \in SessionExts => sessions[o].server # 0 /\ Interface(k) \in Offered[s]
  /\ k = "CreateSession" => sessions[o].server = Absent
  /\ call' = k /\ system' = s /\ object' = o
  /\ pc' = IF Reconnects(k) THEN "connecting" ELSE "reached"
  /\ target' = 0 /\ by' = 0
  /\ answer' = "" /\ result' = ""
  /\ steady' = (serving # 0 /\ (client = "open" => peer = serving))
  /\ UNCHANGED <<serverVars, channelVars, sessions, disposed>>

\* Reconnect: a client is made if there is none, and asked whether it is open.
Connect ==
  /\ pc = "connecting"
  /\ client' = IF client = "none" THEN "closed" ELSE client
  /\ pc' = IF client = "open" THEN "reached" ELSE "releasing"
  /\ UNCHANGED <<serverVars, peer, remote, refs, sessions, callVars, target, by, answer, result,
                 steady, disposed>>

\* _remote is released and, until the next step, still points to what it was.
ReleaseRemote ==
  /\ pc = "releasing"
  /\ refs' = IF remote = 0 THEN refs ELSE [refs EXCEPT ![remote] = @ - 1]
  /\ pc' = "opening"
  /\ UNCHANGED <<serverVars, client, peer, remote, sessions, callVars, target, by, answer, result,
                 steady, disposed>>

Open ==
  /\ pc = "opening" /\ serving # 0
  /\ client' = "open" /\ peer' = serving
  /\ remote' = serving
  /\ refs' = [refs EXCEPT ![serving] = @ + 1]
  /\ pc' = "reached"
  /\ UNCHANGED <<serverVars, sessions, callVars, target, by, answer, result, steady, disposed>>

\* Mutant: a failed Open leaves _remote as it was.
OpenFails_KeepsRemote ==
  /\ pc = "opening" /\ serving = 0
  /\ client' = "none"
  /\ pc' = "reached"
  /\ UNCHANGED <<serverVars, peer, remote, refs, sessions, callVars, target, by, answer, result,
                 steady, disposed>>

\* Open gives null: the client is released.
OpenFails ==
  /\ pc = "opening" /\ serving = 0
  /\ client' = "none"
  /\ remote' = 0
  /\ pc' = "reached"
  /\ UNCHANGED <<serverVars, peer, refs, sessions, callVars, target, by, answer, result, steady,
                 disposed>>

Constructed ==
  /\ pc = "reached" /\ call = NoCall
  /\ pc' = "idle"
  /\ UNCHANGED <<serverVars, channelVars, sessions, callVars, target, by, answer, result, steady,
                 disposed>>

\* The proxy of the call: the session's own, or the accessor's.
Proxy == IF call \in SessionCalls THEN sessions[object].server ELSE remote

Send ==
  /\ pc = "reached" /\ call # NoCall /\ Proxy # 0
  /\ target' = Proxy
  /\ pc' = "sent"
  /\ UNCHANGED <<serverVars, channelVars, sessions, callVars, by, answer, result, steady, disposed>>

\* There is no proxy: the client answers for itself.
AnswerAlone ==
  /\ pc = "reached" /\ call # NoCall /\ Proxy = 0
  /\ answer' = Unreached(call)
  /\ pc' = "answered"
  /\ UNCHANGED <<serverVars, channelVars, sessions, callVars, target, by, result, steady, disposed>>

\* What the server answers; a session exists only of a key system that is there.
ServerAnswers ==
  IF call \in AccessorCalls /\ ~(ready /\ system \in DOMAIN Offered) THEN {NoSystem(call)}
  ELSE IF Interface(call) \notin Offered[system] THEN {NoInterface(call)}
  ELSE CdmAnswers(call)

Serve ==
  /\ pc = "sent" /\ target = serving
  /\ answer' \in ServerAnswers
  /\ by' = serving
  /\ pc' = "served"
  /\ UNCHANGED <<serverVars, channelVars, sessions, callVars, target, result, steady, disposed>>

Reply ==
  /\ pc = "served"
  /\ pc' = "answered"
  /\ UNCHANGED <<serverVars, channelVars, sessions, callVars, target, by, answer, result, steady,
                 disposed>>

\* The server ended before it had the call, or after and before its reply was read.
Lose ==
  /\ pc \in {"sent", "served"} /\ target # serving
  /\ answer' = "lost"
  /\ pc' = "answered"
  /\ UNCHANGED <<serverVars, channelVars, sessions, callVars, target, by, result, steady, disposed>>

Return ==
  /\ pc = "answered"
  /\ result' = CResult(call, answer)
  /\ sessions' =
       IF call # "CreateSession" THEN sessions
       ELSE [sessions EXCEPT ![object] =
              [server |-> IF answer = "NONE" THEN target ELSE 0, system |-> system]]
  /\ pc' = "done"
  /\ UNCHANGED <<serverVars, channelVars, callVars, target, by, answer, steady, disposed>>

\* opencdm_destruct_session, the last reference: the proxy is released.
Destruct(o) ==
  /\ Resting /\ sessions[o].server # Absent
  /\ sessions' = [sessions EXCEPT ![o].server = Absent]
  /\ pc' = "idle"
  /\ UNCHANGED <<serverVars, channelVars, callVars, target, by, answer, result, steady, disposed>>

\* opencdm_dispose, the accessor's destructor; the client has no session left.
Dispose ==
  /\ Resting
  /\ \A o \in Objects : sessions[o].server = Absent
  /\ refs' = IF remote = 0 THEN refs ELSE [refs EXCEPT ![remote] = @ - 1]
  /\ client' = "none" /\ remote' = 0
  /\ pc' = "idle"
  /\ disposed' = TRUE
  /\ UNCHANGED <<serverVars, peer, sessions, callVars, target, by, answer, result, steady>>

-----------------------------------------------------------------------------

ServerStep == Start \/ Initialize \/ End

CallStep == Connect \/ ReleaseRemote \/ Open \/ OpenFails \/ Constructed \/ Send \/ AnswerAlone
            \/ Serve \/ Reply \/ Lose \/ Return

ClientStep ==
  \/ \E k \in Calls, s \in Systems, o \in Objects : Begin(k, s, o)
  \/ \E o \in Objects : Destruct(o)
  \/ Dispose

Next == ServerStep \/ Notice \/ CallStep \/ ClientStep

\* A thread in a call runs on, a server that runs answers or is found to be gone,
\* and initializes itself on a worker of its pool.
Fairness == WF_vars(CallStep) /\ WF_vars(Notice) /\ WF_vars(Initialize)

Spec == Init /\ [][Next]_vars /\ Fairness

-----------------------------------------------------------------------------
(* Properties *)

TypeOK ==
  /\ started \in 0..MaxStarts /\ serving \in {0, started} /\ ready \in BOOLEAN
  /\ client \in {"none", "closed", "open"} /\ peer \in 0..MaxStarts
  /\ remote \in 0..MaxStarts
  /\ refs \in [Servers -> {0, 1}]
  /\ sessions \in [Objects -> [server : Absent..MaxStarts, system : Systems]]
  /\ pc \in Stages /\ call \in Calls \cup {NoCall} /\ system \in Systems /\ object \in Objects
  /\ target \in 0..MaxStarts /\ by \in 0..MaxStarts
  /\ steady \in BOOLEAN /\ disposed \in BOOLEAN

\* The references the client should hold: one on what _remote points to, none while
\* Reconnect, between its Release and its Open, has it point to what it released.
Held(s) == IF remote = s /\ pc # "opening" THEN 1 ELSE 0

\* Whatever the server does meanwhile, no proxy is released twice and none is left.
RemoteIsHeld == \A s \in Servers : refs[s] = Held(s)

\* A call is on its way only through a proxy that the client holds.
SentWhileHeld ==
  pc = "sent" /\ call \in AccessorCalls => remote = target /\ refs[target] = 1

\* What is held is what is used: every reference counted once and given back once,
\* and no call through a proxy that was given back.
ProxiesAreHeld == RemoteIsHeld /\ SentWhileHeld

\* The calls whose result cannot tell that nothing was done, see CResult.
Silent == {"GetVersionExt", "GetLdlSessionLimit", "GetDrmSystemTime", "ResetSecureStops",
           "IsSecureStopEnabled", "CreateSession"} \cup Unjudged

\* Of every other call, ERROR_NONE says that a server that has the key system and
\* the interface carried it out, the one the call was sent to.
FailureIsTold ==
  pc = "done" /\ call \notin Silent /\ result = "NONE" =>
    /\ by = target /\ by # 0
    /\ Interface(call) \in Offered[system]

\* IsTypeSupported reaches the server that runs, if it runs all the time and the
\* client has noticed that an earlier one is gone.
AskingReaches ==
  pc = "done" /\ call \in Asking /\ steady => by = serving /\ answer # "lost"

\* A client that goes on asking IsTypeSupported comes to hold the server that stays.
Recovers ==
  \A s \in Servers :
    <>[](serving = s) /\ []<>(InCall /\ call \in Asking) => <>[](remote = s /\ client = "open")
=============================================================================

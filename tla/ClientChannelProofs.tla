-------------------------- MODULE ClientChannelProofs --------------------------
(***************************************************************************)
(* The client's way to the server, for any key systems, CDMs, sessions and  *)
(* restarts of the server.  The strengthening says who may have carried out *)
(* the call that is under way, and what may have come back of it.           *)
(***************************************************************************)
EXTENDS ClientChannel, TLAPS

\* An open channel leads to the server that _remote is of.
ChannelIsRemotes == client = "open" => remote = peer /\ remote # 0

\* A call on a session has a session object, and nothing happens after disposal.
CallIsSound ==
  /\ InCall /\ call \in SessionCalls => sessions[object].server # Absent
  /\ call = NoCall => pc \in {"connecting", "releasing", "opening", "reached", "idle"}
  /\ disposed => pc = "idle" /\ client = "none" /\ remote = 0

\* What came back of a call: nothing, the client's own answer, or one that the server
\* it was sent to could give.
Heard ==
  pc \in {"served", "answered", "done"} =>
    /\ call \in Calls
    /\ \/ answer = "lost"
       \/ target = 0 /\ answer = Unreached(call)
       \/ /\ by = target /\ by # 0
          /\ \/ answer \in {NoSystem(call), NoInterface(call)}
             \/ Interface(call) \in Offered[system] /\ answer \in CdmAnswers(call)

\* A call has a target from when it was sent on, if it was.
Unsent ==
  /\ pc \in {"connecting", "releasing", "opening", "reached"} => target = 0
  /\ pc \in {"sent", "served"} => target # 0
  /\ pc \in {"sent", "served", "answered"} => call # NoCall

Told == pc = "done" => result = CResult(call, answer)

\* While the server runs, and IsTypeSupported is on its way, every stage of the call
\* is with that server.
Steadily ==
  /\ steady => serving # 0 /\ (client = "open" => peer = serving)
  /\ steady /\ call \in Asking =>
       /\ pc = "reached" => remote = serving
       /\ pc = "sent" => target = serving
       /\ pc \in {"served", "answered", "done"} => by = serving /\ answer \in {"true", "false"}
       /\ pc = "served" => target = serving

IInv == TypeOK /\ RemoteIsHeld /\ ChannelIsRemotes /\ CallIsSound /\ SentWhileHeld /\ Unsent
        /\ Heard /\ Told /\ Steadily

-----------------------------------------------------------------------------
(* Types *)

\* A call is on the accessor or on a session, and IsTypeSupported is on the accessor.
LEMMA CallKinds ==
  /\ Calls = AccessorCalls \cup SessionCalls
  /\ \A k \in AccessorCalls : k \notin SessionCalls
  /\ Asking \subseteq AccessorCalls
  /\ NoCall \notin Calls
<1> USE DEF AccessorCalls, SessionCalls, Asking, Reviving, Extended, Simple, SecureStops, Stores,
            Numbers, Judged, Unjudged, SessionExts, Calls, NoCall
<1>1. Calls = AccessorCalls \cup SessionCalls /\ Asking \subseteq AccessorCalls
  OBVIOUS
<1>2. \A k \in AccessorCalls : k \notin SessionCalls
  OBVIOUS
<1>3. NoCall \notin Calls
  OBVIOUS
<1> QED BY <1>1, <1>2, <1>3

\* Every variable keeps its type.
LEMMA TypeStep ==
  ASSUME TypeOK, RemoteIsHeld, CallIsSound, [Next]_vars PROVE TypeOK'
<1> USE ChannelAssumption, CallKinds
    DEF TypeOK, Stages, Servers, Absent, serverVars, channelVars, callVars
<1>1. CASE Start \/ Initialize \/ End \/ Notice
  <2>1. started' \in 0..MaxStarts /\ serving' \in {0, started'}
    BY <1>1 DEF Start, Initialize, End, Notice
  <2>2. ready' \in BOOLEAN /\ steady' \in BOOLEAN
    BY <1>1 DEF Start, Initialize, End, Notice
  <2> QED BY <1>1, <2>1, <2>2 DEF Start, Initialize, End, Notice
<1>2. ASSUME NEW k \in Calls, NEW s \in Systems, NEW o \in Objects, Begin(k, s, o) PROVE TypeOK'
  <2>1. steady' \in BOOLEAN
    BY <1>2 DEF Begin
  <2>2. /\ call' = k /\ system' = s /\ object' = o /\ target' = 0 /\ by' = 0
        /\ pc' \in {"connecting", "reached"}
        /\ UNCHANGED <<serverVars, channelVars, sessions, disposed>>
    BY <1>2 DEF Begin
  <2> QED BY <2>1, <2>2
<1>3. CASE Connect \/ OpenFails \/ Constructed
  BY <1>3 DEF Connect, OpenFails, Constructed
<1>4. CASE ReleaseRemote
  <2>1. remote # 0 => remote \in Servers /\ refs[remote] = 1
    BY <1>4 DEF ReleaseRemote, RemoteIsHeld, Held
  <2> QED BY <1>4, <2>1 DEF ReleaseRemote
<1>5. CASE Open
  <2>1. serving \in Servers /\ refs[serving] = 0
    BY <1>5 DEF Open, RemoteIsHeld, Held
  <2> QED BY <1>5, <2>1 DEF Open
<1>6. CASE Send
  <2>1. Proxy \in 0..MaxStarts
    BY <1>6 DEF Send, Proxy, CallIsSound, InCall
  <2> QED BY <1>6, <2>1 DEF Send
<1>7. CASE AnswerAlone \/ Serve \/ Reply \/ Lose
  BY <1>7 DEF AnswerAlone, Serve, Reply, Lose
<1>8. CASE Return
  BY <1>8 DEF Return
<1>9. ASSUME NEW o \in Objects, Destruct(o) PROVE TypeOK'
  <2>1. Absent \in Absent..MaxStarts
    OBVIOUS
  <2>2. sessions' \in [Objects -> [server : Absent..MaxStarts, system : Systems]]
    BY <1>9, <2>1 DEF Destruct
  <2> QED BY <1>9, <2>2 DEF Destruct
<1>10. CASE Dispose
  <2>1. remote # 0 => remote \in Servers /\ refs[remote] = 1
    BY <1>10 DEF Dispose, Resting, InCall, RemoteIsHeld, Held
  <2> QED BY <1>10, <2>1 DEF Dispose
<1>11. CASE UNCHANGED vars
  BY <1>11 DEF vars
<1> QED BY <1>1, <1>2, <1>3, <1>4, <1>5, <1>6, <1>7, <1>8, <1>9, <1>10, <1>11
        DEF Next, ServerStep, CallStep, ClientStep

-----------------------------------------------------------------------------
(* References *)

\* Nobody but Reconnect and Dispose touches the references.
LEMMA HeldStep ==
  ASSUME TypeOK, RemoteIsHeld, [Next]_vars PROVE RemoteIsHeld'
<1> USE ChannelAssumption DEF TypeOK, Stages, Servers, RemoteIsHeld, Held
<1>1. CASE ReleaseRemote
  BY <1>1 DEF ReleaseRemote
<1>2. CASE Open
  BY <1>2 DEF Open
<1>3. CASE OpenFails
  BY <1>3 DEF OpenFails
<1>4. CASE Dispose
  BY <1>4 DEF Dispose, Resting, InCall
<1>5. ASSUME refs' = refs, remote' = remote, pc # "opening", pc' # "opening" PROVE RemoteIsHeld'
  BY <1>5
<1>6. CASE Start \/ Initialize \/ End \/ Notice \/ UNCHANGED vars
  BY <1>6 DEF Start, Initialize, End, Notice, channelVars, vars
<1>7. ASSUME NEW k \in Calls, NEW s \in Systems, NEW o \in Objects, Begin(k, s, o)
      PROVE RemoteIsHeld'
  BY <1>5, <1>7 DEF Begin, Resting, InCall, channelVars
<1>8. CASE Connect \/ Constructed \/ Send \/ AnswerAlone \/ Serve \/ Reply \/ Lose \/ Return
  BY <1>5, <1>8 DEF Connect, Constructed, Send, AnswerAlone, Serve, Reply, Lose, Return, channelVars
<1>9. ASSUME NEW o \in Objects, Destruct(o) PROVE RemoteIsHeld'
  BY <1>5, <1>9 DEF Destruct, Resting, InCall, channelVars
<1> QED BY <1>1, <1>2, <1>3, <1>4, <1>6, <1>7, <1>8, <1>9 DEF Next, ServerStep, CallStep, ClientStep

\* A channel is opened together with the remote, and closed before it is released.
LEMMA ChannelStep ==
  ASSUME IInv, [Next]_vars PROVE (ChannelIsRemotes /\ CallIsSound /\ SentWhileHeld)'
<1> USE ChannelAssumption, CallKinds DEF IInv, TypeOK, Stages
<1>1. RemoteIsHeld' /\ TypeOK'
  BY HeldStep, TypeStep
<1>2. ChannelIsRemotes'
  BY DEF ChannelIsRemotes, CallIsSound, Next, ServerStep, CallStep, ClientStep, Start, Initialize,
       End, Notice, Begin, Connect, ReleaseRemote, Open, OpenFails, Constructed, Send, AnswerAlone,
       Serve, Reply, Lose, Return, Destruct, Dispose, channelVars, vars
<1>3. CallIsSound'
  <2> USE DEF CallIsSound, InCall, Resting
  <2>1. CASE Start \/ Initialize \/ End \/ Notice \/ UNCHANGED vars
    BY <2>1 DEF Start, Initialize, End, Notice, channelVars, callVars, vars
  <2>2. ASSUME NEW k \in Calls, NEW s \in Systems, NEW o \in Objects, Begin(k, s, o)
        PROVE  CallIsSound'
    BY <2>2 DEF Begin, channelVars
  <2>3. CASE Connect \/ ReleaseRemote \/ Open \/ OpenFails \/ Constructed \/ Send
             \/ AnswerAlone \/ Serve \/ Reply \/ Lose \/ Return
    BY <2>3 DEF Connect, ReleaseRemote, Open, OpenFails, Constructed, Send, AnswerAlone, Serve,
         Reply, Lose, Return, channelVars, callVars
  <2>4. ASSUME NEW o \in Objects, Destruct(o) PROVE CallIsSound'
    BY <2>4 DEF Destruct, channelVars, callVars
  <2>5. CASE Dispose
    BY <2>5 DEF Dispose, channelVars, callVars
  <2> QED BY <2>1, <2>2, <2>3, <2>4, <2>5 DEF Next, ServerStep, CallStep, ClientStep
<1>4. SentWhileHeld'
  <2>1. CASE Send
    <3>1. call \in AccessorCalls => target' = remote /\ target' \in Servers
      BY <2>1 DEF Send, Proxy, Servers
    <3> QED BY <1>1, <2>1, <3>1 DEF Send, SentWhileHeld, RemoteIsHeld, Held, channelVars, callVars
  <2>2. CASE pc' # "sent"
    BY <2>2 DEF SentWhileHeld
  <2>3. CASE ~Send /\ pc' = "sent"
    <3>1. pc = "sent" /\ UNCHANGED <<remote, target, call, refs>>
      BY <2>3 DEF Next, ServerStep, CallStep, ClientStep, Start, Initialize, End, Notice, Begin,
           Connect, ReleaseRemote, Open, OpenFails, Constructed, AnswerAlone, Serve, Reply, Lose,
           Return, Destruct, Dispose, channelVars, callVars, vars
    <3> QED BY <3>1 DEF SentWhileHeld
  <2> QED BY <2>1, <2>2, <2>3
<1> QED BY <1>2, <1>3, <1>4

-----------------------------------------------------------------------------
(* Answers *)

\* What a server answers to IsTypeSupported is not an error.
LEMMA AskingAnswers ==
  ASSUME NEW k \in Asking
  PROVE  NoSystem(k) = "false" /\ CdmAnswers(k) = {"true", "false"} /\ Interface(k) = "IMediaKeys"
         /\ NoInterface(k) = "false"
<1>1. k = "IsTypeSupported"
  BY DEF Asking
<1>2. k \notin Extended /\ k \notin SessionExts
  BY <1>1 DEF Extended, SecureStops, Stores, Numbers, SessionExts
<1>3. NoSystem(k) = "false"
  BY <1>1 DEF NoSystem
<1>4. CdmAnswers(k) = {"true", "false"}
  BY <1>1 DEF CdmAnswers, Numbers, Unjudged
<1>5. Interface(k) = "IMediaKeys"
  BY <1>1, <1>2 DEF Interface
<1>6. NoInterface(k) = "false"
  BY <1>1, <1>3 DEF NoInterface
<1> QED BY <1>3, <1>4, <1>5, <1>6

\* An answer is the server's, the client's own, or none, until the next call begins.
LEMMA HeardStep ==
  ASSUME IInv, [Next]_vars PROVE Heard' /\ Told'
<1> USE ChannelAssumption, CallKinds DEF IInv, TypeOK, Stages
<1>1. CASE Start \/ Initialize \/ End \/ Notice \/ UNCHANGED vars
  BY <1>1 DEF Start, Initialize, End, Notice, channelVars, callVars, vars, Heard, Told
<1>2. ASSUME pc' \notin {"served", "answered", "done"} PROVE Heard' /\ Told'
  BY <1>2 DEF Heard, Told
<1>3. ASSUME NEW k \in Calls, NEW s \in Systems, NEW o \in Objects, Begin(k, s, o)
      PROVE  Heard' /\ Told'
  BY <1>2, <1>3 DEF Begin
<1>4. CASE Connect \/ ReleaseRemote \/ Open \/ OpenFails \/ Constructed \/ Send
  BY <1>2, <1>4 DEF Connect, ReleaseRemote, Open, OpenFails, Constructed, Send
<1>5. CASE AnswerAlone
  <2>1. target = 0 /\ call \in Calls
    BY <1>5 DEF AnswerAlone, Unsent
  <2> QED BY <1>5, <2>1 DEF AnswerAlone, Heard, Told, callVars
<1>6. CASE Serve
  <2>1. call \in Calls /\ target # 0
    BY <1>6 DEF Serve, CallIsSound, Unsent
  <2>2. \/ answer' \in {NoSystem(call), NoInterface(call)}
        \/ Interface(call) \in Offered[system] /\ answer' \in CdmAnswers(call)
    BY <1>6 DEF Serve, ServerAnswers
  <2> QED BY <1>6, <2>1, <2>2 DEF Serve, Heard, Told, callVars
<1>7. CASE Reply
  BY <1>7 DEF Reply, Heard, Told, callVars
<1>8. CASE Lose
  <2>1. call \in Calls
    BY <1>8 DEF Lose, CallIsSound, Heard
  <2> QED BY <1>8, <2>1 DEF Lose, Heard, Told, callVars
<1>9. CASE Return
  BY <1>9 DEF Return, Heard, Told, callVars
<1>10. ASSUME NEW o \in Objects, Destruct(o) PROVE Heard' /\ Told'
  BY <1>2, <1>10 DEF Destruct
<1>11. CASE Dispose
  BY <1>2, <1>11 DEF Dispose
<1> QED BY <1>1, <1>3, <1>4, <1>5, <1>6, <1>7, <1>8, <1>9, <1>10, <1>11
        DEF Next, ServerStep, CallStep, ClientStep

\* A call that has not been sent has no target; one that was sent has.
LEMMA UnsentStep ==
  ASSUME IInv, [Next]_vars PROVE Unsent'
<1> USE ChannelAssumption, CallKinds DEF IInv, TypeOK, Stages, Unsent
<1>1. CASE Start \/ Initialize \/ End \/ Notice \/ UNCHANGED vars
  BY <1>1 DEF Start, Initialize, End, Notice, channelVars, callVars, vars
<1>2. ASSUME NEW k \in Calls, NEW s \in Systems, NEW o \in Objects, Begin(k, s, o) PROVE Unsent'
  BY <1>2 DEF Begin
<1>3. CASE Connect \/ ReleaseRemote \/ Open \/ OpenFails \/ Constructed \/ Send
           \/ AnswerAlone \/ Serve \/ Reply \/ Lose \/ Return
  BY <1>3 DEF Connect, ReleaseRemote, Open, OpenFails, Constructed, Send, AnswerAlone, Serve, Reply,
       Lose, Return, channelVars, callVars
<1>4. ASSUME NEW o \in Objects, Destruct(o) PROVE Unsent'
  BY <1>4 DEF Destruct
<1>5. CASE Dispose
  BY <1>5 DEF Dispose
<1> QED BY <1>1, <1>2, <1>3, <1>4, <1>5 DEF Next, ServerStep, CallStep, ClientStep

\* A steady server is at the other end of each stage of IsTypeSupported.
LEMMA SteadyStep ==
  ASSUME IInv, [Next]_vars PROVE Steadily'
<1> USE ChannelAssumption, CallKinds DEF IInv, TypeOK, Stages, Steadily
<1>1. CASE Start \/ Initialize \/ End \/ Notice \/ UNCHANGED vars
  <2>1. UNCHANGED <<remote, pc, call, target, by, answer, peer>>
    BY <1>1 DEF Start, Initialize, End, Notice, channelVars, callVars, vars
  <2>2. CASE steady
    BY <1>1, <2>1, <2>2 DEF Start, Initialize, End, Notice, serverVars, channelVars, vars
  <2>3. CASE ~steady
    BY <1>1, <2>1, <2>3 DEF Start, Initialize, End, Notice, vars
  <2> QED BY <2>2, <2>3
<1>2. ASSUME NEW k \in Calls, NEW s \in Systems, NEW o \in Objects, Begin(k, s, o) PROVE Steadily'
  BY <1>2 DEF Begin, Reconnects, channelVars, serverVars
<1>3. CASE Connect
  BY <1>3 DEF Connect, ChannelIsRemotes, callVars, serverVars
<1>4. CASE Open
  BY <1>4 DEF Open, callVars, serverVars
<1>5. CASE ReleaseRemote \/ OpenFails \/ Constructed
  BY <1>5 DEF ReleaseRemote, OpenFails, Constructed, callVars, channelVars, serverVars
<1>6. CASE Send \/ AnswerAlone
  BY <1>6 DEF Send, AnswerAlone, Proxy, callVars, channelVars, serverVars
<1>7. CASE Serve
  <2>1. call \in Asking => answer' \in {"true", "false"}
    BY <1>7, AskingAnswers DEF Serve, ServerAnswers
  <2> QED BY <1>7, <2>1 DEF Serve, callVars, channelVars, serverVars
<1>8. CASE Reply \/ Lose
  BY <1>8 DEF Reply, Lose, callVars, channelVars, serverVars
<1>9. CASE Return
  BY <1>9 DEF Return, callVars, channelVars, serverVars
<1>10. ASSUME NEW o \in Objects, Destruct(o) PROVE Steadily'
  BY <1>10 DEF Destruct, callVars, channelVars, serverVars
<1>11. CASE Dispose
  BY <1>11 DEF Dispose, callVars, channelVars, serverVars
<1> QED BY <1>1, <1>2, <1>3, <1>4, <1>5, <1>6, <1>7, <1>8, <1>9, <1>10, <1>11
        DEF Next, ServerStep, CallStep, ClientStep

\* What stands for nothing done is never ERROR_NONE.
LEMMA NothingIsNotNone ==
  ASSUME NEW k
  PROVE  Unreached(k) # "NONE" /\ NoSystem(k) # "NONE" /\ NoInterface(k) # "NONE"
<1>1. Unreached(k) # "NONE"
  BY DEF Unreached
<1>2. NoSystem(k) # "NONE"
  BY DEF NoSystem
<1>3. NoInterface(k) # "NONE"
  BY <1>2 DEF NoInterface
<1> QED BY <1>1, <1>2, <1>3

\* Of a call that is not Silent the C function passes the answer on, or turns all but
\* "true" into an error.
LEMMA ResultsFollowAnswers ==
  ASSUME NEW k, k \notin Silent, NEW a
  PROVE  CResult(k, a) = "NONE" => a = IF k \in Asking THEN "true" ELSE "NONE"
<1>1. CASE k \in Asking
  BY <1>1 DEF CResult, Asking, Unjudged
<1>2. CASE k \notin Asking
  <2>1. /\ k # "IsTypeSupported" /\ k # "IsSecureStopEnabled" /\ k # "ResetSecureStops"
        /\ k \notin {"GetVersionExt", "GetLdlSessionLimit", "GetDrmSystemTime", "CreateSession"}
        /\ k \notin Unjudged
    BY <1>2 DEF Asking, Silent
  <2> QED BY <1>2, <2>1 DEF CResult
<1> QED BY <1>1, <1>2

-----------------------------------------------------------------------------

\* The strengthening is an invariant.
THEOREM IInvHolds == Spec => []IInv
<1>1. Init => IInv
  <2> SUFFICES ASSUME Init PROVE IInv
    OBVIOUS
  <2> USE ChannelAssumption, CallKinds
  <2>1. (CHOOSE k \in Systems : TRUE) \in Systems /\ (CHOOSE o \in Objects : TRUE) \in Objects
    OBVIOUS
  <2>2. sessions \in [Objects -> [server : Absent..MaxStarts, system : Systems]]
    <3> DEFINE none == [server |-> Absent, system |-> CHOOSE k \in Systems : TRUE]
    <3>1. Absent \in Absent..MaxStarts
      BY DEF Absent
    <3>2. none \in [server : Absent..MaxStarts, system : Systems]
      BY <2>1, <3>1
    <3>3. sessions = [o \in Objects |-> none]
      BY DEF Init
    <3> HIDE DEF none
    <3> QED BY <3>2, <3>3
  <2>3. started \in 0..MaxStarts /\ serving \in {0, started}
    BY DEF Init
  <2>4. refs \in [Servers -> {0, 1}]
    BY DEF Init
  <2>5. system \in Systems /\ object \in Objects
    BY <2>1 DEF Init
  <2>6. TypeOK
    <3>1. ready \in BOOLEAN /\ steady \in BOOLEAN /\ disposed \in BOOLEAN
      BY DEF Init
    <3>2. /\ client = "none" /\ peer = 0 /\ remote = 0 /\ pc = "connecting" /\ call = NoCall
          /\ target = 0 /\ by = 0
      BY DEF Init
    <3>3. 0 \in 0..MaxStarts
      OBVIOUS
    <3> QED BY <2>2, <2>3, <2>4, <2>5, <3>1, <3>2, <3>3 DEF TypeOK, Stages
  <2>7. RemoteIsHeld
    <3>1. remote = 0 /\ refs = [s \in Servers |-> 0]
      BY DEF Init
    <3>2. \A s \in Servers : refs[s] = 0 /\ s # 0
      BY <3>1 DEF Servers
    <3> QED BY <3>1, <3>2 DEF RemoteIsHeld, Held
  <2>8. ChannelIsRemotes /\ CallIsSound /\ SentWhileHeld /\ Unsent /\ Heard /\ Told /\ Steadily
    BY DEF Init, ChannelIsRemotes, CallIsSound, SentWhileHeld, Unsent, Heard, Told, Steadily
  <2> QED BY <2>6, <2>7, <2>8 DEF IInv
<1>2. IInv /\ [Next]_vars => IInv'
  BY TypeStep, HeldStep, ChannelStep, UnsentStep, HeardStep, SteadyStep DEF IInv
<1> QED BY <1>1, <1>2, PTL DEF Spec

\* Every variable keeps its type; no reference is counted twice.
THEOREM TypeCorrect == Spec => []TypeOK
<1>1. IInv => TypeOK
  BY DEF IInv
<1> QED BY <1>1, IInvHolds, PTL

\* Reconnect and the destructor of OpenCDMAccessor release what was acquired, once.
THEOREM RemotesAreHeld == Spec => []RemoteIsHeld
<1>1. IInv => RemoteIsHeld
  BY DEF IInv
<1> QED BY <1>1, IInvHolds, PTL

\* No call goes through a proxy that was released.
THEOREM CallsGoThroughHeldProxies == Spec => []SentWhileHeld
<1>1. IInv => SentWhileHeld
  BY DEF IInv
<1> QED BY <1>1, IInvHolds, PTL

\* The two together: what the run checks.
THEOREM HeldIsUsed == Spec => []ProxiesAreHeld
<1>1. RemoteIsHeld /\ SentWhileHeld => ProxiesAreHeld
  BY DEF ProxiesAreHeld
<1> QED BY <1>1, RemotesAreHeld, CallsGoThroughHeldProxies, PTL

\* opencdm_is_type_supported reaches a server that runs all the time.
THEOREM AskingReachesTheServer == Spec => []AskingReaches
<1>1. IInv => AskingReaches
  BY DEF IInv, Steadily, AskingReaches
<1> QED BY <1>1, IInvHolds, PTL

\* Except for the calls in Silent, ERROR_NONE is only returned for what a server that
\* has the interface was asked and answered.
THEOREM FailuresAreTold == Spec => []FailureIsTold
<1>1. IInv => FailureIsTold
  <2> SUFFICES ASSUME IInv, pc = "done", call \notin Silent, result = "NONE"
               PROVE  by = target /\ by # 0 /\ Interface(call) \in Offered[system]
    BY DEF FailureIsTold
  <2>1. CResult(call, answer) = "NONE" /\ call \in Calls
    BY DEF IInv, Told, Heard
  <2>2. CASE call \in Asking
    <3>1. answer = "true"
      BY <2>1, <2>2, ResultsFollowAnswers
    <3>2. Unreached(call) = "false"
      BY <2>2 DEF Asking, Unreached, Reviving, Numbers, Judged, Unjudged
    <3> QED BY <2>2, <3>1, <3>2, AskingAnswers DEF IInv, Heard
  <2>3. CASE call \notin Asking
    <3>1. answer = "NONE"
      BY <2>1, <2>3, ResultsFollowAnswers
    <3> QED BY <3>1, NothingIsNotNone DEF IInv, Heard
  <2> QED BY <2>2, <2>3
<1> QED BY <1>1, IInvHolds, PTL

=============================================================================

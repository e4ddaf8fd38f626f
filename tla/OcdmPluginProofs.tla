--------------------------- MODULE OcdmPluginProofs ---------------------------
(***************************************************************************)
(* What holds of the plug-in and its server for any CDMs, designators,      *)
(* configurations, clients and number of crashes.  The strengthening has    *)
(* two halves, as the system has: ServerInv says what the members of        *)
(* OCDMImplementation say of each other at each point of InitializeAsync    *)
(* and Deinitialize, HostInv what those of OCDM do; they meet in the life   *)
(* of the process.                                                         *)
(***************************************************************************)
EXTENDS OcdmPlugin, SequenceTheorems, TLAPS

\* The job has ended when Deinitialize goes on, and nothing is announced or open
\* before the job has come to it.
Phases ==
  /\ life \in {"absent", "created"} => worker = "none"
  /\ Stopped => worker = "done"
  /\ life # "absent" /\ decryption => worker = "done"
  /\ listening => worker \in {"announcing", "done"}
                  /\ life \in {"started", "stopping", "deinitializing"}
  /\ worker = "initializing" =>
       entry \in DOMAIN configuration /\ factories[configuration[entry].name] # None

\* A designator leads to a factory that is loaded and initialized, or just about to be.
Mapping ==
  /\ life # "stopped" => \A n \in Names : factories[n] # None => factories[n] \in libraries
  /\ \A d \in Designators : systemToFactory[d] # None =>
       /\ life # "stopped" => systemToFactory[d] \in libraries
       /\ \/ initialized[systemToFactory[d]] > 0
          \/ worker = "initializing"
             /\ systemToFactory[d] = factories[configuration[entry].name]

\* Of what a designator leads to, Deinitialize was called exactly if the designator
\* was visited.
Visits ==
  /\ life \in {"closed", "stopped"} => unvisited = {}
  /\ \A d \in unvisited : systemToFactory[d] # None
  /\ Stopped => \A d \in Designators \ unvisited :
                  systemToFactory[d] # None => deinitialized[systemToFactory[d]] = 1
  /\ \A f \in Factories : /\ deinitialized[f] \in {0, 1}
                          /\ deinitialized[f] > 0 => initialized[f] > 0

\* Who has a session has a channel, and a CDM that is loaded and initialized.
Channels ==
  /\ connected # {} => listening
  /\ \A c \in Clients : session[c] # None =>
       /\ c \in connected
       /\ session[c] \in libraries
       /\ initialized[session[c]] > 0

ServerInv == Phases /\ Mapping /\ Visits /\ Channels

\* What each member of OCDM says of where Initialize and Deinitialize are.
HostInv ==
  /\ process = 0 <=> life = "absent"
  /\ process # 0 => opencdmi \/ host = "launched"
  /\ opencdmi => host \in {"starting", "checking", "activated", "unregistering", "stopping",
                           "waiting"}
  /\ host \in {"starting", "checking", "activated", "stopping", "waiting"} => opencdmi
  /\ jsonrpc => opencdmi
  /\ service <=> host \notin {"deactivated", "clearing"}
  /\ registered => host \in {"rooting", "launched", "starting", "checking", "activated",
                             "unregistering"}
  /\ notifier = "reporting" => registered
  /\ memory => host \in {"activated", "unregistering"}
  /\ connectionId # 0 => host \notin {"deactivated", "rooting"}
  /\ decryption => host \notin {"deactivated", "rooting", "releasing", "clearing"}

\* A query was told nothing that is not, or no longer, so.
Answers == AnswersStayTrue

IInv == TypeOK /\ ServerInv /\ HostInv /\ Answers

-----------------------------------------------------------------------------
(* Types *)

\* A configuration's entry has its three members.
LEMMA EntryType ==
  ASSUME TypeOK, NEW i \in DOMAIN configuration
  PROVE  /\ configuration[i].name \in Names
         /\ configuration[i].designators \subseteq Designators
         /\ configuration[i].isSet \in BOOLEAN
<1>1. configuration \in Seq(Entry)
  BY ConfigurationsAssumption DEF TypeOK, ServerTypeOK
<1>2. configuration[i] \in Entry
  BY <1>1
<1> QED BY <1>2 DEF Entry

\* map::insert keeps what is there and gives the rest to one factory.
LEMMA InsertKeeps ==
  ASSUME NEW map \in [Designators -> Factories \cup {None}], NEW ds \in SUBSET Designators,
         NEW f \in Factories
  PROVE  /\ Insert(map, ds, f) \in [Designators -> Factories \cup {None}]
         /\ \A d \in Designators : \/ Insert(map, ds, f)[d] = map[d]
                                   \/ map[d] = None /\ Insert(map, ds, f)[d] = f
BY DEF Insert

\* The members of a process that has ended are of their types.
LEMMA BlankTypes ==
  ASSUME TypeOK, ProcessEnds, decryption' \in BOOLEAN PROVE ServerTypeOK'
<1>1. /\ Blank.worker = "none" /\ Blank.toLoad = Factories /\ Blank.entry = 1
      /\ Blank.factories = [n \in Names |-> None]
      /\ Blank.map = [d \in Designators |-> None]
      /\ Blank.count = [f \in Factories |-> 0]
      /\ Blank.session = [c \in Clients |-> None]
  BY DEF Blank
<1>2. <<>> \in Seq(Names)
  BY EmptySeq
<1>3. /\ life' = "absent" /\ configuration' = configuration
      /\ worker' = "none" /\ toLoad' = Factories /\ entry' = 1
      /\ factories' = [n \in Names |-> None] /\ libraries' = {} /\ keySystems' = <<>>
      /\ systemToFactory' = [d \in Designators |-> None]
      /\ initialized' = [f \in Factories |-> 0] /\ deinitialized' = [f \in Factories |-> 0]
      /\ unvisited' = {} /\ listening' = FALSE
      /\ connected' = {} /\ session' = [c \in Clients |-> None]
  BY <1>1 DEF ProcessEnds
<1>4. /\ factories' \in [Names -> Factories \cup {None}]
      /\ systemToFactory' \in [Designators -> Factories \cup {None}]
      /\ session' \in [Clients -> Factories \cup {None}]
  BY <1>3
<1>5. initialized' \in [Factories -> Nat] /\ deinitialized' \in [Factories -> Nat]
  BY <1>3
<1>6. keySystems' \in Seq(Names)
  BY <1>2, <1>3
<1>7. configuration' \in Configurations
  BY <1>3 DEF TypeOK, ServerTypeOK
<1>8. /\ life' \in Lives /\ worker' \in Workers /\ entry' \in Nat \ {0}
      /\ toLoad' \subseteq Factories /\ libraries' \subseteq Factories
      /\ unvisited' \subseteq Designators /\ connected' \subseteq Clients
  BY <1>3 DEF Lives, Workers
<1>9. listening' \in BOOLEAN
  BY <1>3
<1> QED BY <1>4, <1>5, <1>6, <1>7, <1>8, <1>9 DEF ServerTypeOK

\* Every step of the server's job, of Deinitialize and of the clients keeps the types.
LEMMA ServerTypes ==
  ASSUME TypeOK, Phases, Visits, ServerStep PROVE ServerTypeOK'
<1> USE NamesAssumption, NoneAssumption
    DEF TypeOK, ServerTypeOK, Lives, Workers, WorkerKeeps, TeardownKeeps, ClientKeeps, workerVars,
        clientVars
<1>1. CASE JobStarts \/ AllLoaded \/ OpenChannel \/ Announce
  <2>1. entry' \in Nat \ {0} /\ keySystems' = keySystems
    BY <1>1 DEF JobStarts, AllLoaded, OpenChannel, Announce
  <2> QED BY <1>1, <2>1 DEF JobStarts, AllLoaded, OpenChannel, Announce
<1>2. ASSUME NEW f \in Factories, LoadLibrary(f) PROVE ServerTypeOK'
  <2>1. SystemName[f] \in Names
    OBVIOUS
  <2>2. keySystems' \in Seq(Names)
    BY <1>2, <2>1 DEF LoadLibrary
  <2>3. factories' \in [Names -> Factories \cup {None}]
    BY <1>2, <2>1 DEF LoadLibrary
  <2> QED BY <1>2, <2>2, <2>3 DEF LoadLibrary
<1>3. ASSUME NEW f \in Factories, LoadFails(f) PROVE ServerTypeOK'
  BY <1>3 DEF LoadFails
<1>4. CASE MapDesignators
  <2> DEFINE e == configuration[entry]
             f == factories[e.name]
  <2>1. entry \in DOMAIN configuration
    BY <1>4, ConfigurationsAssumption DEF MapDesignators
  <2>2. e.name \in Names /\ e.designators \subseteq Designators
    BY <2>1, EntryType
  <2>3. CASE e.isSet /\ f # None
    <3>1. f \in Factories
      BY <2>2, <2>3
    <3>2. systemToFactory' = Insert(systemToFactory, e.designators, f)
      BY <1>4, <2>3 DEF MapDesignators
    <3>3. systemToFactory' \in [Designators -> Factories \cup {None}]
      BY <2>2, <3>1, <3>2, InsertKeeps
    <3> QED BY <1>4, <2>3, <3>3 DEF MapDesignators
  <2>4. CASE ~(e.isSet /\ f # None)
    BY <1>4, <2>4 DEF MapDesignators
  <2> QED BY <2>3, <2>4
<1>5. CASE InitializeFactory
  <2>1. factories[configuration[entry].name] \in Factories
    BY <1>5, EntryType DEF InitializeFactory, Phases
  <2> QED BY <1>5, <2>1 DEF InitializeFactory
<1>6. CASE StopWorker \/ CloseChannel \/ ReleaseLibraries
  BY <1>6 DEF StopWorker, CloseChannel, ReleaseLibraries
<1>7. ASSUME NEW d \in Designators, DeinitializeFactory(d) PROVE ServerTypeOK'
  <2>1. systemToFactory[d] \in Factories
    BY <1>7 DEF DeinitializeFactory, Visits
  <2> QED BY <1>7, <2>1 DEF DeinitializeFactory
<1>8. ASSUME NEW c \in Clients,
             Connect(c) \/ ReleaseSession(c) \/ Disconnect(c)
               \/ \E d \in Designators : CreateSession(c, d)
      PROVE  ServerTypeOK'
  BY <1>8 DEF Connect, ReleaseSession, Disconnect, CreateSession
<1> QED
  BY <1>1, <1>2, <1>3, <1>4, <1>5, <1>6, <1>7, <1>8
     DEF ServerStep, InitializeAsync, Teardown, ClientStep

\* Every variable keeps its type.
LEMMA TypeStep ==
  ASSUME TypeOK, Phases, Visits, [Next]_vars PROVE TypeOK'
<1> USE IdsAssumption, MaxJobsAssumption
<1> DEFINE HostTypes ==
             /\ host' \in Steps
             /\ service' \in BOOLEAN /\ opencdmi' \in BOOLEAN /\ memory' \in BOOLEAN
             /\ connectionId' \in ConnectionIds \cup {0}
             /\ registered' \in BOOLEAN /\ jsonrpc' \in BOOLEAN
             /\ process' \in ConnectionIds \cup {0}
             /\ closed' \subseteq ConnectionIds
             /\ notifier' \in {"idle", "reporting"}
             /\ jobs' \in 0..MaxJobs
             /\ left' \in Seq(Names)
             /\ reported' \subseteq Names \X Designators
<1>1. CASE ServerRuns
  <2>1. ServerTypeOK'
    BY <1>1, ServerTypes DEF ServerRuns
  <2>2. HostTypes
    BY <1>1 DEF ServerRuns, TypeOK, hostVars, reportVars, queryVars
  <2> QED BY <2>1, <2>2 DEF TypeOK
<1>2. CASE Crash \/ ReleaseServer
  <2>1. ServerTypeOK'
    BY <1>2, BlankTypes DEF Crash, ReleaseServer, TypeOK, ServerTypeOK
  <2>2. left' \in Seq(Names)
    BY <1>2, EmptySeq DEF Crash, ReleaseServer
  <2>3. HostTypes
    BY <1>2, <2>2 DEF Crash, ReleaseServer, TypeOK, Steps, hostVars, reportVars
  <2> QED BY <2>1, <2>3 DEF TypeOK
<1>3. CASE Launch
  <2>1. ServerTypeOK'
    BY <1>3 DEF Launch, Construct, TypeOK, ServerTypeOK, Lives, serverVars, workerVars, clientVars
  <2>2. left' \in Seq(Names)
    BY <1>3, EmptySeq DEF Launch
  <2>3. HostTypes
    BY <1>3, <2>2 DEF Launch, TypeOK, Steps, reportVars
  <2> QED BY <2>1, <2>3 DEF TypeOK
<1>4. CASE StartServer \/ DeinitializeServer
  <2>1. ServerTypeOK'
    BY <1>4 DEF StartServer, DeinitializeServer, Initialize, Deinitialize, TeardownKeeps, TypeOK,
                ServerTypeOK, Lives, Workers, serverVars, workerVars, clientVars
  <2>2. HostTypes
    BY <1>4 DEF StartServer, DeinitializeServer, TypeOK, Steps, hostVars, reportVars, queryVars
  <2> QED BY <2>1, <2>2 DEF TypeOK
<1>5. CASE \/ Activate \/ LaunchFails \/ RootReturns \/ CheckConnection \/ Deactivate
           \/ UnregisterSink \/ ReleaseService \/ ClearConnection
  <2>1. ServerTypeOK'
    BY <1>5 DEF Activate, LaunchFails, RootReturns, CheckConnection, Deactivate, UnregisterSink,
                ReleaseService, ClearConnection, HostKeeps, TypeOK, ServerTypeOK, serverVars,
                workerVars, clientVars
  <2>2. HostTypes
    BY <1>5 DEF Activate, LaunchFails, RootReturns, CheckConnection, Deactivate, UnregisterSink,
                ReleaseService, ClearConnection, HostKeeps, TypeOK, Steps, hostVars, reportVars,
                queryVars
  <2> QED BY <2>1, <2>2 DEF TypeOK
<1>6. ASSUME \/ RunJob \/ ClearSubsystem \/ SubmitJob \/ \E id \in ConnectionIds : Deactivated(id)
             \/ UNCHANGED vars
      PROVE  TypeOK'
  <2>1. ServerTypeOK'
    BY <1>6 DEF RunJob, ClearSubsystem, SubmitJob, Deactivated, vars, TypeOK, ServerTypeOK,
                serverVars, workerVars, clientVars
  <2>2. jobs' \in 0..MaxJobs /\ closed' \subseteq ConnectionIds
    <3>1. jobs \in Nat /\ jobs \in 0..MaxJobs /\ MaxJobs \in Nat
      BY DEF TypeOK
    <3>2. jobs' \in {jobs, jobs - 1, jobs + 1} /\ (jobs' = jobs - 1 => jobs > 0)
          /\ (jobs' = jobs + 1 => jobs < MaxJobs)
      BY <1>6, <3>1 DEF RunJob, ClearSubsystem, SubmitJob, Deactivated, reportVars, vars
    <3>3. closed' \subseteq closed
      BY <1>6 DEF RunJob, ClearSubsystem, SubmitJob, Deactivated, reportVars, vars
    <3> QED BY <3>1, <3>2, <3>3 DEF TypeOK
  <2>3. left' = left /\ reported' = reported
    BY <1>6 DEF RunJob, ClearSubsystem, SubmitJob, Deactivated, queryVars, vars
  <2>4. HostTypes
    BY <1>6, <2>2, <2>3 DEF RunJob, ClearSubsystem, SubmitJob, Deactivated, TypeOK, Steps,
                            hostVars, reportVars, vars
  <2> QED BY <2>1, <2>4 DEF TypeOK
<1>7. CASE Ask \/ AskDesignators
  <2>1. ServerTypeOK'
    BY <1>7 DEF Ask, AskDesignators, QueryKeeps, TypeOK, ServerTypeOK, serverVars, workerVars,
                clientVars
  <2>2. left' \in Seq(Names) /\ reported' \subseteq Names \X Designators
    <3>1. CASE Ask
      BY <3>1 DEF Ask, Systems, TypeOK, ServerTypeOK
    <3>2. CASE AskDesignators
      <4>1. Head(left) \in Names /\ Tail(left) \in Seq(Names)
        BY <3>2 DEF AskDesignators, TypeOK
      <4> QED BY <3>2, <4>1 DEF AskDesignators, DesignatorsOf, TypeOK
    <3> QED BY <1>7, <3>1, <3>2
  <2>3. HostTypes
    BY <1>7, <2>2 DEF Ask, AskDesignators, QueryKeeps, TypeOK, hostVars, reportVars
  <2> QED BY <2>1, <2>3 DEF TypeOK
<1> QED BY <1>1, <1>2, <1>3, <1>4, <1>5, <1>6, <1>7 DEF Next, HostStep

-----------------------------------------------------------------------------
(* The server *)

\* A step of the job changes what the job is at and adds to the maps and counts.
LEMMA JobStep ==
  ASSUME TypeOK, ServerInv, InitializeAsync PROVE ServerInv'
<1> USE NamesAssumption, NoneAssumption DEF TypeOK, ServerTypeOK, ServerInv, Stopped, WorkerKeeps,
        clientVars
<1>1. CASE JobStarts \/ AllLoaded \/ OpenChannel \/ Announce
  <2>1. /\ UNCHANGED <<life, configuration, deinitialized, unvisited, connected, session,
                       factories, entry, libraries, systemToFactory, initialized>>
        /\ worker # "initializing" /\ worker' # "initializing" /\ worker # "none" /\ worker # "done"
    BY <1>1 DEF JobStarts, AllLoaded, OpenChannel, Announce
  <2>2. Phases'
    BY <1>1, <2>1 DEF JobStarts, AllLoaded, OpenChannel, Announce, Phases, Lives
  <2>3. Mapping'
    BY <2>1 DEF Mapping
  <2>4. Visits'
    BY <2>1 DEF Visits
  <2>5. Channels'
    BY <1>1, <2>1 DEF Channels, Phases, JobStarts, AllLoaded, OpenChannel, Announce
  <2> QED BY <2>2, <2>3, <2>4, <2>5
<1>2. ASSUME NEW f \in Factories, LoadLibrary(f) PROVE ServerInv'
  <2>1. /\ UNCHANGED <<life, configuration, deinitialized, unvisited, connected, session,
                       entry, worker, systemToFactory, initialized, listening, decryption>>
        /\ worker = "loading" /\ libraries' = libraries \cup {f}
        /\ \A n \in Names : factories'[n] = factories[n] \/ factories'[n] = f
    BY <1>2 DEF LoadLibrary
  <2>2. Phases'
    BY <2>1 DEF Phases
  <2>3. Mapping'
    BY <2>1 DEF Mapping, Phases
  <2>4. Visits'
    BY <2>1 DEF Visits
  <2>5. Channels'
    BY <2>1 DEF Channels
  <2> QED BY <2>2, <2>3, <2>4, <2>5
<1>3. ASSUME NEW f \in Factories, LoadFails(f) PROVE ServerInv'
  BY <1>3 DEF LoadFails, Phases, Mapping, Visits, Channels
<1>4. CASE MapDesignators
  <2> DEFINE e == configuration[entry]
             f == factories[e.name]
  <2>1. entry \in DOMAIN configuration /\ e.name \in Names /\ e.designators \subseteq Designators
    BY <1>4, EntryType, ConfigurationsAssumption DEF MapDesignators
  <2>2. /\ UNCHANGED <<life, configuration, deinitialized, unvisited, connected, session,
                       factories, libraries, initialized, listening, decryption>>
        /\ worker = "configuring"
    BY <1>4 DEF MapDesignators
  <2>3. CASE e.isSet /\ f # None
    <3>1. f \in Factories /\ f \in libraries /\ ~Stopped
      BY <2>1, <2>2, <2>3 DEF Mapping, Phases
    <3>2. /\ worker' = "initializing" /\ entry' = entry
          /\ systemToFactory' = Insert(systemToFactory, e.designators, f)
      BY <1>4, <2>3 DEF MapDesignators
    <3>3. \A d \in Designators : \/ systemToFactory'[d] = systemToFactory[d]
                                 \/ systemToFactory[d] = None /\ systemToFactory'[d] = f
      BY <3>2 DEF Insert
    <3>4. Phases'
      BY <2>1, <2>2, <2>3, <3>2 DEF Phases
    <3>5. Mapping'
      BY <2>2, <3>1, <3>2, <3>3 DEF Mapping
    <3>6. Visits'
      BY <2>2, <3>1, <3>3 DEF Visits
    <3>7. Channels'
      BY <2>2 DEF Channels
    <3> QED BY <3>4, <3>5, <3>6, <3>7
  <2>4. CASE ~(e.isSet /\ f # None)
    BY <1>4, <2>2, <2>4 DEF MapDesignators, Phases, Mapping, Visits, Channels
  <2> QED BY <2>3, <2>4
<1>5. CASE InitializeFactory
  <2> DEFINE f == factories[configuration[entry].name]
  <2>1. f \in Factories
    BY <1>5, EntryType DEF InitializeFactory, Phases
  <2>2. /\ UNCHANGED <<life, configuration, deinitialized, unvisited, connected, session,
                       factories, libraries, systemToFactory, listening, decryption>>
        /\ worker = "initializing" /\ worker' = "configuring"
        /\ initialized'[f] > 0
        /\ \A g \in Factories : initialized[g] > 0 => initialized'[g] > 0
    BY <1>5, <2>1 DEF InitializeFactory
  <2>3. Phases'
    BY <2>2 DEF Phases
  <2>4. Mapping'
    BY <2>2 DEF Mapping
  <2>5. Visits'
    BY <2>2 DEF Visits
  <2>6. Channels'
    BY <2>2 DEF Channels
  <2> QED BY <2>3, <2>4, <2>5, <2>6
<1> QED BY <1>1, <1>2, <1>3, <1>4, <1>5 DEF InitializeAsync

\* Deinitialize goes on when the job has ended, and visits the designators.
LEMMA TeardownStep ==
  ASSUME TypeOK, ServerInv, Teardown \/ Deinitialize PROVE ServerInv'
<1> USE NoneAssumption DEF TypeOK, ServerTypeOK, ServerInv, Stopped, TeardownKeeps, clientVars
<1>1. CASE Deinitialize
  BY <1>1 DEF Deinitialize, Phases, Mapping, Visits, Channels
<1>2. CASE StopWorker
  <2>1. Phases'
    BY <1>2 DEF StopWorker, Phases
  <2>2. Mapping' /\ Channels'
    BY <1>2 DEF StopWorker, Mapping, Channels
  <2>3. Visits'
    BY <1>2 DEF StopWorker, Visits
  <2> QED BY <2>1, <2>2, <2>3
<1>3. ASSUME NEW d \in Designators, DeinitializeFactory(d) PROVE ServerInv'
  <2>1. Phases' /\ Mapping' /\ Channels'
    BY <1>3 DEF DeinitializeFactory, Phases, Mapping, Channels
  <2> DEFINE f == systemToFactory[d]
  <2>2. f \in Factories /\ initialized[f] > 0
    BY <1>3 DEF DeinitializeFactory, Visits, Mapping, Phases
  <2>3. /\ UNCHANGED <<life, systemToFactory, initialized>>
        /\ unvisited' = unvisited \ {d} /\ life = "deinitializing"
        /\ deinitialized'[f] = 1
        /\ \A g \in Factories : g # f => deinitialized'[g] = deinitialized[g]
    BY <1>3, <2>2 DEF DeinitializeFactory, Visits
  <2>4. Visits'
    BY <2>2, <2>3 DEF Visits
  <2> QED BY <2>1, <2>4
<1>4. CASE CloseChannel
  BY <1>4 DEF CloseChannel, Phases, Mapping, Visits, Channels
<1>5. CASE ReleaseLibraries
  BY <1>5 DEF ReleaseLibraries, Phases, Mapping, Visits, Channels
<1> QED BY <1>1, <1>2, <1>3, <1>4, <1>5 DEF Teardown

\* Clients come and go while the channel is open.
LEMMA ClientsStep ==
  ASSUME TypeOK, ServerInv, ClientStep PROVE ServerInv'
<1> USE NoneAssumption DEF TypeOK, ServerTypeOK, ServerInv, Stopped, ClientKeeps, workerVars
<1>1. PICK c \in Clients : \/ Connect(c) \/ ReleaseSession(c) \/ Disconnect(c)
                           \/ \E d \in Designators : CreateSession(c, d)
  BY DEF ClientStep
<1>2. UNCHANGED <<life, worker, configuration, factories, entry, libraries, systemToFactory,
                  initialized, deinitialized, unvisited, listening, decryption>>
  BY <1>1 DEF Connect, ReleaseSession, Disconnect, CreateSession
<1>3. Phases' /\ Mapping' /\ Visits'
  BY <1>2 DEF Phases, Mapping, Visits
<1>4. Channels'
  <2>1. CASE Connect(c) \/ ReleaseSession(c) \/ Disconnect(c)
    BY <1>2, <2>1 DEF Connect, ReleaseSession, Disconnect, Channels
  <2>2. ASSUME NEW d \in Designators, CreateSession(c, d) PROVE Channels'
    <3>1. listening /\ worker \in {"announcing", "done"} /\ life # "stopped"
      BY <2>2 DEF CreateSession, Channels, Phases
    <3>2. systemToFactory[d] \in libraries /\ initialized[systemToFactory[d]] > 0
      BY <2>2, <3>1 DEF CreateSession, Mapping
    <3> QED BY <1>2, <2>2, <3>2 DEF CreateSession, Channels
  <2> QED BY <1>1, <2>1, <2>2
<1> QED BY <1>3, <1>4

\* A process that has ended, or has just made its object, has nothing.
LEMMA BlankStep ==
  ASSUME ProcessEnds PROVE ServerInv'
<1>1. /\ Blank.worker = "none"
      /\ Blank.factories = [n \in Names |-> None]
      /\ Blank.map = [d \in Designators |-> None]
      /\ Blank.count = [f \in Factories |-> 0]
      /\ Blank.session = [c \in Clients |-> None]
  BY DEF Blank
<1>2. /\ life' = "absent" /\ worker' = "none"
      /\ factories' = [n \in Names |-> None]
      /\ systemToFactory' = [d \in Designators |-> None]
      /\ deinitialized' = [f \in Factories |-> 0]
      /\ unvisited' = {} /\ listening' = FALSE
      /\ connected' = {} /\ session' = [c \in Clients |-> None]
  BY <1>1 DEF ProcessEnds
<1> QED BY <1>2 DEF ServerInv, Phases, Mapping, Visits, Channels, Stopped

\* The server's half of the strengthening survives every step of the system.
LEMMA ServerStepKeeps ==
  ASSUME IInv, [Next]_vars PROVE ServerInv'
<1> USE DEF IInv
<1>1. CASE ServerRuns
  BY <1>1, JobStep, TeardownStep, ClientsStep DEF ServerRuns, ServerStep
<1>2. CASE Crash \/ ReleaseServer
  BY <1>2, BlankStep DEF Crash, ReleaseServer
<1>3. CASE Launch
  <2>1. ~decryption
    BY <1>3 DEF Launch, HostInv
  <2> QED BY <1>3, <2>1 DEF Launch, Construct, ServerInv, Phases, Mapping, Visits, Channels, Stopped,
                             workerVars, clientVars
<1>4. CASE StartServer
  <2>1. CASE Initialize /\ UNCHANGED decryption
    BY <2>1 DEF Initialize, ServerInv, Phases, Mapping, Visits, Channels, Stopped, clientVars
  <2>2. CASE UNCHANGED <<serverVars, decryption>>
    BY <2>2 DEF ServerInv, Phases, Mapping, Visits, Channels, Stopped, serverVars, workerVars,
                clientVars
  <2> QED BY <1>4, <2>1, <2>2 DEF StartServer
<1>5. CASE DeinitializeServer
  <2>1. CASE Deinitialize
    BY <2>1, TeardownStep
  <2>2. CASE UNCHANGED <<serverVars, decryption>>
    BY <2>2 DEF ServerInv, Phases, Mapping, Visits, Channels, Stopped, serverVars, workerVars,
                clientVars
  <2> QED BY <1>5, <2>1, <2>2 DEF DeinitializeServer
<1>6. ASSUME UNCHANGED serverVars, decryption' => decryption PROVE ServerInv'
  BY <1>6 DEF ServerInv, Phases, Mapping, Visits, Channels, Stopped, serverVars, workerVars,
              clientVars
<1>7. CASE \/ Activate \/ LaunchFails \/ RootReturns \/ CheckConnection \/ Deactivate \/ RunJob
           \/ UnregisterSink \/ ClearSubsystem \/ ReleaseService \/ ClearConnection \/ SubmitJob
           \/ (\E id \in ConnectionIds : Deactivated(id)) \/ Ask \/ AskDesignators
           \/ UNCHANGED vars
  BY <1>6, <1>7 DEF Activate, LaunchFails, RootReturns, CheckConnection, Deactivate, RunJob,
       UnregisterSink, ClearSubsystem, ReleaseService, ClearConnection, SubmitJob, Deactivated, Ask,
       AskDesignators, HostKeeps, QueryKeeps, vars
<1> QED BY <1>1, <1>2, <1>3, <1>4, <1>5, <1>7 DEF Next, HostStep

-----------------------------------------------------------------------------
(* The plug-in *)

\* The plug-in's half of the strengthening survives every step of the system.
LEMMA HostStepKeeps ==
  ASSUME TypeOK, Phases, HostInv, [Next]_vars PROVE HostInv'
<1> USE IdsAssumption DEF TypeOK, ServerTypeOK, HostInv
<1>1. CASE ServerRuns
  <2>1. /\ UNCHANGED <<host, service, opencdmi, memory, connectionId, registered, jsonrpc, process,
                       notifier>>
        /\ process # 0 /\ life # "absent"
    BY <1>1 DEF ServerRuns, hostVars, reportVars
  <2>2. life' # "absent"
    BY <1>1, <2>1 DEF ServerRuns, ServerStep, InitializeAsync, Teardown, ClientStep, WorkerKeeps,
         ClientKeeps, JobStarts, AllLoaded, MapDesignators, InitializeFactory, OpenChannel,
         Announce, LoadLibrary, LoadFails, StopWorker, CloseChannel, ReleaseLibraries,
         DeinitializeFactory, Connect, CreateSession, ReleaseSession, Disconnect
  <2> QED BY <2>1, <2>2
<1>2. CASE Crash \/ ReleaseServer
  BY <1>2 DEF Crash, ReleaseServer, ProcessEnds, hostVars, reportVars
<1>3. CASE Launch
  BY <1>3 DEF Launch, Construct, reportVars
<1>4. CASE StartServer \/ DeinitializeServer
  BY <1>4 DEF StartServer, DeinitializeServer, Initialize, Deinitialize, serverVars, hostVars,
              reportVars, TeardownKeeps
<1>5. CASE Activate \/ LaunchFails \/ RootReturns \/ CheckConnection \/ Deactivate
  BY <1>5 DEF Activate, LaunchFails, RootReturns, CheckConnection, Deactivate, HostKeeps, hostVars,
              serverVars, reportVars
<1>6. CASE UnregisterSink \/ ReleaseService \/ ClearConnection \/ ClearSubsystem \/ RunJob
  BY <1>6 DEF UnregisterSink, ReleaseService, ClearConnection, ClearSubsystem, RunJob, HostKeeps,
              hostVars, serverVars, reportVars
<1>7. CASE SubmitJob \/ (\E id \in ConnectionIds : Deactivated(id)) \/ Ask \/ AskDesignators
           \/ UNCHANGED vars
  BY <1>7 DEF SubmitJob, Deactivated, Ask, AskDesignators, QueryKeeps, hostVars, serverVars,
              reportVars, vars
<1> QED BY <1>1, <1>2, <1>3, <1>4, <1>5, <1>6, <1>7 DEF Next, HostStep

\* While the server lives, a designator that leads to a factory goes on leading to it.
LEMMA MapGrows ==
  ASSUME IInv, [Next]_vars, life' # "absent", life # "absent", NEW d \in Designators,
         systemToFactory[d] # None
  PROVE  systemToFactory'[d] = systemToFactory[d]
<1> USE DEF IInv, ServerInv
<1>1. CASE ServerRuns
  <2>1. CASE MapDesignators
    BY <2>1 DEF MapDesignators, Insert
  <2>2. CASE ~MapDesignators
    BY <1>1, <2>2 DEF ServerRuns, ServerStep, InitializeAsync, Teardown, ClientStep, JobStarts,
         AllLoaded, InitializeFactory, OpenChannel, Announce, LoadLibrary, LoadFails, StopWorker,
         CloseChannel, ReleaseLibraries, DeinitializeFactory, Connect, CreateSession,
         ReleaseSession, Disconnect, TeardownKeeps, ClientKeeps, workerVars
  <2> QED BY <2>1, <2>2
<1>2. CASE Launch
  BY <1>2 DEF Launch, Construct
<1>3. CASE StartServer \/ DeinitializeServer
  BY <1>3 DEF StartServer, DeinitializeServer, Initialize, Deinitialize, TeardownKeeps, serverVars,
              workerVars
<1>4. CASE Crash \/ ReleaseServer
  BY <1>4 DEF Crash, ReleaseServer, ProcessEnds
<1>5. ASSUME UNCHANGED serverVars PROVE systemToFactory'[d] = systemToFactory[d]
  BY <1>5 DEF serverVars, workerVars
<1>6. CASE \/ Activate \/ LaunchFails \/ RootReturns \/ CheckConnection \/ Deactivate \/ RunJob
           \/ UnregisterSink \/ ClearSubsystem \/ ReleaseService \/ ClearConnection \/ SubmitJob
           \/ (\E id \in ConnectionIds : Deactivated(id)) \/ Ask \/ AskDesignators
           \/ UNCHANGED vars
  BY <1>5, <1>6 DEF Activate, LaunchFails, RootReturns, CheckConnection, Deactivate, RunJob,
       UnregisterSink, ClearSubsystem, ReleaseService, ClearConnection, SubmitJob, Deactivated, Ask,
       AskDesignators, HostKeeps, QueryKeeps, vars
<1> QED BY <1>1, <1>2, <1>3, <1>4, <1>6 DEF Next, HostStep

\* What a query is told is so, and stays so.
LEMMA AnswersStep ==
  ASSUME IInv, [Next]_vars PROVE AnswersStayTrue'
<1> USE DEF IInv, Answers, AnswersStayTrue, DesignatorsOf
<1> SUFFICES ASSUME life' # "absent", NEW r \in reported'
             PROVE  r[2] \in DesignatorsOf(r[1])'
  OBVIOUS
<1>1. CASE Launch
  BY <1>1 DEF Launch
<1>2. CASE AskDesignators
  <2>1. UNCHANGED <<life, systemToFactory>> /\ life # "absent"
    BY <1>2 DEF AskDesignators, QueryKeeps, serverVars, workerVars
  <2>2. CASE r \in reported
    BY <2>1, <2>2
  <2>3. CASE r \in {Head(left)} \X DesignatorsOf(Head(left))
    BY <2>1, <2>3
  <2> QED BY <1>2, <2>2, <2>3 DEF AskDesignators
<1>3. CASE ~Launch /\ ~AskDesignators
  <2>1. reported' = reported
    BY <1>3 DEF Next, HostStep, ServerRuns, Crash, ReleaseServer, StartServer, DeinitializeServer,
         Activate, LaunchFails, RootReturns, CheckConnection, Deactivate, RunJob, UnregisterSink,
         ClearSubsystem, ReleaseService, ClearConnection, SubmitJob, Deactivated, Ask, HostKeeps,
         queryVars, vars
  <2>2. life # "absent"
    <3>1. CASE life = "absent"
      <4>1. process = 0
        BY <3>1 DEF HostInv
      <4>2. ~ServerRuns
        BY <4>1 DEF ServerRuns
      <4> QED BY <1>3, <3>1, <4>1, <4>2 DEF Next, HostStep, Crash, ReleaseServer, StartServer,
            DeinitializeServer, Activate, LaunchFails, RootReturns, CheckConnection, Deactivate,
            RunJob, UnregisterSink, ClearSubsystem, ReleaseService, ClearConnection, SubmitJob,
            Deactivated, Ask, HostKeeps, QueryKeeps, serverVars, vars, ProcessEnds
    <3> QED BY <3>1
  <2>3. r \in Names \X Designators /\ r[2] \in DesignatorsOf(r[1])
    BY <2>1, <2>2 DEF TypeOK
  <2>4. systemToFactory'[r[2]] = systemToFactory[r[2]]
    BY <2>2, <2>3, MapGrows
  <2> QED BY <2>3, <2>4
<1> QED BY <1>1, <1>2, <1>3

-----------------------------------------------------------------------------

\* The strengthening is an invariant.
THEOREM IInvHolds == Spec => []IInv
<1>1. Init => IInv
  <2> SUFFICES ASSUME Init PROVE IInv
    OBVIOUS
  <2>1. /\ life = "absent" /\ worker = "none" /\ toLoad = Factories /\ entry = 1
        /\ factories = [n \in Names |-> None] /\ libraries = {} /\ keySystems = <<>>
        /\ systemToFactory = [d \in Designators |-> None]
        /\ initialized = [f \in Factories |-> 0] /\ deinitialized = [f \in Factories |-> 0]
        /\ unvisited = {} /\ listening = FALSE /\ decryption = FALSE
        /\ connected = {} /\ session = [c \in Clients |-> None]
    BY DEF Init, ServerInit, Blank
  <2>2. ServerTypeOK
    <3>1. configuration \in Configurations /\ keySystems \in Seq(Names)
      BY <2>1, EmptySeq DEF Init, ServerInit
    <3>2. /\ factories \in [Names -> Factories \cup {None}]
          /\ systemToFactory \in [Designators -> Factories \cup {None}]
          /\ session \in [Clients -> Factories \cup {None}]
      BY <2>1
    <3>3. initialized \in [Factories -> Nat] /\ deinitialized \in [Factories -> Nat]
      BY <2>1
    <3>4. listening \in BOOLEAN /\ decryption \in BOOLEAN
      BY <2>1
    <3>5. /\ life \in Lives /\ worker \in Workers /\ entry \in Nat \ {0}
          /\ toLoad \subseteq Factories /\ libraries \subseteq Factories
          /\ unvisited \subseteq Designators /\ connected \subseteq Clients
      BY <2>1 DEF Lives, Workers
    <3> QED BY <3>1, <3>2, <3>3, <3>4, <3>5 DEF ServerTypeOK
  <2>3. TypeOK
    <3>1. left \in Seq(Names) /\ reported \subseteq Names \X Designators
      BY EmptySeq DEF Init
    <3>2. jobs \in 0..MaxJobs
      BY MaxJobsAssumption DEF Init
    <3> QED BY <2>2, <3>1, <3>2, IdsAssumption DEF Init, TypeOK, Steps
  <2>4. ServerInv
    BY <2>1 DEF ServerInv, Phases, Mapping, Visits, Channels, Stopped
  <2>5. HostInv /\ Answers
    BY <2>1 DEF Init, HostInv, Answers, AnswersStayTrue
  <2> QED BY <2>3, <2>4, <2>5 DEF IInv
<1>2. IInv /\ [Next]_vars => IInv'
  BY TypeStep, ServerStepKeeps, HostStepKeeps, AnswersStep DEF IInv, ServerInv, Answers
<1> QED BY <1>1, <1>2, PTL DEF Spec

\* Every variable of the plug-in and its server keeps its type.
THEOREM TypeCorrect == Spec => []TypeOK
<1>1. IInv => TypeOK
  BY DEF IInv
<1> QED BY <1>1, IInvHolds, PTL

\* Whoever is served by the accessor is served by a CDM whose Initialize was called,
\* and whose library is not closed meanwhile.
THEOREM SessionsAreServed == Spec => []SessionsAreBacked
<1>1. IInv => SessionsAreBacked
  BY DEF IInv, ServerInv, Channels, SessionsAreBacked
<1> QED BY <1>1, IInvHolds, PTL

\* OCDMImplementation::Deinitialize calls each factory in the map once, and no other.
THEOREM FactoriesAreTornDownOnce == Spec => []TornDownOnce
<1>1. IInv => TornDownOnce
  BY NoneAssumption DEF IInv, ServerInv, Visits, TornDownOnce, Stopped
<1> QED BY <1>1, IInvHolds, PTL

\* The ASSERT ahead of the announcement of DECRYPTION holds, after any crash too.
THEOREM AnnouncedOnce == Spec => []NotYetAnnounced
<1>1. IInv => NotYetAnnounced
  BY DEF IInv, ServerInv, Phases, NotYetAnnounced
<1> QED BY <1>1, IInvHolds, PTL

\* The ASSERT of OCDM::Deactivated holds, whichever thread is faster.
THEOREM ReportsComeInService == Spec => []ReportedInService
<1>1. IInv => ReportedInService
  BY DEF IInv, HostInv, ReportedInService, TypeOK
<1> QED BY <1>1, IInvHolds, PTL

\* Both assertions, of two processes, hold.
THEOREM NoAssertionFires == Spec => []AssertionsHold
<1>1. ReportedInService /\ NotYetAnnounced => AssertionsHold
  BY DEF AssertionsHold
<1> QED BY <1>1, ReportsComeInService, AnnouncedOnce, PTL

\* The ASSERTs of OCDM::Initialize hold however the plug-in came down.
THEOREM EveryDescentIsClean == Spec => []DownIsClean
<1>1. IInv => DownIsClean
  BY DEF IInv, HostInv, DownIsClean, TypeOK
<1> QED BY <1>1, IInvHolds, PTL

\* drms gives no answer of a living server that it has to take back.
THEOREM AnswersAreKept == Spec => []AnswersStayTrue
<1>1. IInv => AnswersStayTrue
  BY DEF IInv, Answers
<1> QED BY <1>1, IInvHolds, PTL

\* After AsyncInitThread::Stop the job changes nothing any more.
THEOREM StoppedIsQuiet == Spec => QuietAfterStop
<1> DEFINE Quiet == Stopped /\ life' # "absent" => /\ systemToFactory' = systemToFactory
                                                   /\ listening' => listening
                                                   /\ decryption' => decryption
<1>1. IInv /\ [Next]_vars => [Quiet]_<<serverVars, decryption>>
  <2> SUFFICES ASSUME IInv, [Next]_vars, Stopped, life' # "absent"
               PROVE  /\ systemToFactory' = systemToFactory
                      /\ listening' => listening
                      /\ decryption' => decryption
    OBVIOUS
  <2>1. worker = "done" /\ life # "absent"
    BY DEF IInv, ServerInv, Phases, Stopped
  <2>2. CASE ServerRuns
    BY <2>1, <2>2 DEF ServerRuns, ServerStep, InitializeAsync, Teardown, ClientStep, JobStarts,
         AllLoaded, MapDesignators, InitializeFactory, OpenChannel, Announce, LoadLibrary,
         LoadFails, StopWorker, CloseChannel, ReleaseLibraries, DeinitializeFactory, Connect,
         CreateSession, ReleaseSession, Disconnect, TeardownKeeps, ClientKeeps, workerVars
  <2>3. CASE \/ Crash \/ HostStep \/ Activate \/ Deactivate \/ RunJob \/ SubmitJob
             \/ (\E id \in ConnectionIds : Deactivated(id)) \/ Ask \/ AskDesignators
             \/ UNCHANGED vars
    BY <2>1, <2>3 DEF Stopped, HostStep, Crash, ReleaseServer, ProcessEnds, Launch, Construct,
         StartServer, Initialize, DeinitializeServer, Deinitialize, TeardownKeeps, Activate,
         LaunchFails, RootReturns, CheckConnection, Deactivate, RunJob, UnregisterSink,
         ClearSubsystem, ReleaseService, ClearConnection, SubmitJob, Deactivated, Ask,
         AskDesignators, HostKeeps, QueryKeeps, serverVars, workerVars, vars
  <2> QED BY <2>2, <2>3 DEF Next
<1> QED BY <1>1, IInvHolds, PTL DEF Spec, QuietAfterStop

-----------------------------------------------------------------------------
(* Initialize and Deinitialize of the factories, counted *)

\* Under a regular configuration an entry finds its designator free and its factory
\* not yet initialized.
Counting ==
  /\ \A n \in Names : factories[n] # None => SystemName[factories[n]] = n
  /\ \A d \in Designators : systemToFactory[d] # None =>
       \E i \in DOMAIN configuration :
         /\ i < entry \/ (i = entry /\ worker = "initializing")
         /\ d \in configuration[i].designators
  /\ worker = "initializing" =>
       /\ configuration[entry].isSet
       /\ \E d \in Designators : systemToFactory[d] = factories[configuration[entry].name]
  /\ \A f \in Factories : initialized[f] > 0 =>
       /\ initialized[f] = 1
       /\ \E i \in DOMAIN configuration : i < entry /\ configuration[i].name = SystemName[f]
       /\ \E d \in Designators : systemToFactory[d] = f

\* The job goes on counting right, if no factory is named twice and each has a
\* designator of its own.
LEMMA CountJob ==
  ASSUME TypeOK, Phases, Counting, Regular(configuration), InitializeAsync PROVE Counting'
<1> USE NamesAssumption, NoneAssumption DEF TypeOK, ServerTypeOK, WorkerKeeps, Counting
<1>1. CASE JobStarts \/ AllLoaded \/ OpenChannel \/ Announce
  <2>1. /\ UNCHANGED <<factories, systemToFactory, configuration, initialized, entry>>
        /\ worker # "initializing" /\ worker' # "initializing"
    BY <1>1 DEF JobStarts, AllLoaded, OpenChannel, Announce
  <2> QED BY <2>1
<1>2. ASSUME NEW f \in Factories, LoadLibrary(f) PROVE Counting'
  <2>1. /\ UNCHANGED <<configuration, entry, worker, systemToFactory, initialized>>
        /\ worker = "loading"
        /\ \A n \in Names : \/ factories'[n] = factories[n]
                            \/ n = SystemName[f] /\ factories'[n] = f
    BY <1>2 DEF LoadLibrary
  <2> QED BY <2>1
<1>3. ASSUME NEW f \in Factories, LoadFails(f) PROVE Counting'
  BY <1>3 DEF LoadFails
<1>4. CASE MapDesignators
  <2> DEFINE e == configuration[entry]
             f == factories[e.name]
  <2>1. /\ entry \in DOMAIN configuration /\ DOMAIN configuration \subseteq Nat
        /\ e.name \in Names /\ e.designators \subseteq Designators
    BY <1>4, EntryType, ConfigurationsAssumption DEF MapDesignators
  <2>2. UNCHANGED <<configuration, factories, initialized>> /\ worker = "configuring"
    BY <1>4 DEF MapDesignators
  <2>3. CASE e.isSet /\ f # None
    <3>1. /\ worker' = "initializing" /\ entry' = entry
          /\ systemToFactory' = Insert(systemToFactory, e.designators, f)
      BY <1>4, <2>3 DEF MapDesignators
    <3>2. \A d \in Designators : \/ systemToFactory'[d] = systemToFactory[d]
                                 \/ /\ systemToFactory[d] = None /\ systemToFactory'[d] = f
                                    /\ d \in e.designators
      BY <3>1 DEF Insert
    <3>3. PICK d \in e.designators : \A j \in DOMAIN configuration :
                                       j # entry => d \notin configuration[j].designators
      BY <2>1, <2>3 DEF Regular
    <3>4. systemToFactory[d] = None
      <4> SUFFICES ASSUME systemToFactory[d] # None PROVE FALSE
        OBVIOUS
      <4>1. PICK i \in DOMAIN configuration : i < entry /\ d \in configuration[i].designators
        BY <2>1, <2>2
      <4> QED BY <2>1, <3>3, <4>1
    <3>5. systemToFactory'[d] = f
      BY <2>1, <3>1, <3>3, <3>4 DEF Insert
    <3>6. \A g \in Factories : (\E b \in Designators : systemToFactory[b] = g)
                                 => \E b \in Designators : systemToFactory'[b] = g
      BY <3>2
    <3>7. \A b \in Designators : systemToFactory'[b] # None =>
            \E i \in DOMAIN configuration :
              (i < entry \/ i = entry) /\ b \in configuration[i].designators
      BY <2>1, <2>2, <3>2
    <3> QED BY <2>1, <2>2, <2>3, <3>1, <3>5, <3>6, <3>7
  <2>4. CASE ~(e.isSet /\ f # None)
    <3>1. worker' = "configuring" /\ entry' = entry + 1 /\ systemToFactory' = systemToFactory
      BY <1>4, <2>2, <2>4 DEF MapDesignators
    <3>2. \A i \in DOMAIN configuration : i < entry => i < entry + 1
      BY <2>1
    <3>3. \A d \in Designators : systemToFactory[d] # None =>
            \E i \in DOMAIN configuration : i < entry + 1 /\ d \in configuration[i].designators
      BY <2>2, <3>2
    <3>4. \A g \in Factories : initialized[g] > 0 =>
            /\ initialized[g] = 1
            /\ \E i \in DOMAIN configuration : i < entry + 1
                                               /\ configuration[i].name = SystemName[g]
            /\ \E d \in Designators : systemToFactory[d] = g
      BY <3>2
    <3> QED BY <2>2, <3>1, <3>3, <3>4
  <2> QED BY <2>3, <2>4
<1>5. CASE InitializeFactory
  <2> DEFINE e == configuration[entry]
             f == factories[e.name]
  <2>1. /\ entry \in DOMAIN configuration /\ DOMAIN configuration \subseteq Nat
        /\ e.name \in Names /\ f \in Factories /\ SystemName[f] = e.name /\ e.isSet
    BY <1>5, EntryType, ConfigurationsAssumption DEF InitializeFactory, Phases
  <2>2. initialized[f] = 0
    <3> SUFFICES ASSUME initialized[f] > 0 PROVE FALSE
      BY <2>1
    <3>1. PICK i \in DOMAIN configuration : i < entry /\ configuration[i].name = SystemName[f]
      BY <2>1
    <3>2. i # entry
      BY <2>1, <3>1
    <3>3. \A j \in DOMAIN configuration : j # entry => configuration[j].name # e.name
      BY <2>1 DEF Regular
    <3> QED BY <2>1, <3>1, <3>2, <3>3
  <2>3. /\ UNCHANGED <<configuration, factories, systemToFactory>>
        /\ worker = "initializing" /\ worker' = "configuring" /\ entry' = entry + 1
        /\ initialized'[f] = 1
        /\ \A g \in Factories : g # f => initialized'[g] = initialized[g]
    BY <1>5, <2>1, <2>2 DEF InitializeFactory
  <2>4. \A i \in DOMAIN configuration : i < entry \/ i = entry <=> i < entry + 1
    BY <2>1
  <2>5. \A d \in Designators : systemToFactory[d] # None =>
          \E i \in DOMAIN configuration : i < entry + 1 /\ d \in configuration[i].designators
    BY <2>3, <2>4
  <2>6. ASSUME NEW g \in Factories, initialized'[g] > 0
        PROVE  /\ initialized'[g] = 1
               /\ \E i \in DOMAIN configuration : i < entry + 1
                                                  /\ configuration[i].name = SystemName[g]
               /\ \E d \in Designators : systemToFactory[d] = g
    <3>1. CASE g = f
      BY <2>1, <2>3, <2>4, <3>1
    <3>2. CASE g # f
      <4>1. initialized[g] > 0 /\ initialized'[g] = initialized[g]
        BY <2>3, <2>6, <3>2
      <4> QED BY <2>4, <4>1
    <3> QED BY <3>1, <3>2
  <2> QED BY <2>3, <2>5, <2>6
<1> QED BY <1>1, <1>2, <1>3, <1>4, <1>5 DEF InitializeAsync

\* Every step of the system counts right.
LEMMA CountStep ==
  ASSUME IInv, Regular(configuration) => Counting, [Next]_vars
  PROVE  Regular(configuration)' => Counting'
<1> USE DEF IInv, ServerInv
<1>1. CASE ServerRuns /\ InitializeAsync
  <2>1. configuration' = configuration
    BY <1>1 DEF InitializeAsync, JobStarts, AllLoaded, MapDesignators, InitializeFactory,
         OpenChannel, Announce, LoadLibrary, LoadFails, WorkerKeeps
  <2> QED BY <1>1, <2>1, CountJob DEF Regular
<1>2. ASSUME \/ UNCHANGED <<factories, systemToFactory, configuration, initialized, entry, worker>>
             \/ /\ UNCHANGED <<factories, systemToFactory, configuration, initialized, entry>>
                /\ worker # "initializing" /\ worker' # "initializing"
      PROVE  Regular(configuration)' => Counting'
  BY <1>2 DEF Counting, Regular
<1>3. CASE ServerRuns /\ ~InitializeAsync
  BY <1>2, <1>3 DEF ServerRuns, ServerStep, Teardown, ClientStep, StopWorker, CloseChannel,
       ReleaseLibraries, DeinitializeFactory, Connect, CreateSession, ReleaseSession, Disconnect,
       TeardownKeeps, ClientKeeps, workerVars
<1>4. CASE Launch \/ StartServer \/ DeinitializeServer
  BY <1>2, <1>4 DEF Launch, Construct, StartServer, Initialize, DeinitializeServer, Deinitialize,
       TeardownKeeps, serverVars, workerVars, Phases
<1>5. CASE Crash \/ ReleaseServer
  <2>1. ProcessEnds
    BY <1>5 DEF Crash, ReleaseServer
  <2>2. /\ worker' = "none"
        /\ factories' = [n \in Names |-> None]
        /\ systemToFactory' = [d \in Designators |-> None]
        /\ initialized' = [f \in Factories |-> 0]
    BY <2>1 DEF ProcessEnds, Blank
  <2> QED BY <2>2 DEF Counting
<1>6. CASE \/ Activate \/ LaunchFails \/ RootReturns \/ CheckConnection \/ Deactivate \/ RunJob
           \/ UnregisterSink \/ ClearSubsystem \/ ReleaseService \/ ClearConnection \/ SubmitJob
           \/ (\E id \in ConnectionIds : Deactivated(id)) \/ Ask \/ AskDesignators
           \/ UNCHANGED vars
  BY <1>2, <1>6 DEF Activate, LaunchFails, RootReturns, CheckConnection, Deactivate, RunJob,
       UnregisterSink, ClearSubsystem, ReleaseService, ClearConnection, SubmitJob, Deactivated, Ask,
       AskDesignators, HostKeeps, QueryKeeps, serverVars, workerVars, vars
<1> QED BY <1>1, <1>3, <1>4, <1>5, <1>6 DEF Next, HostStep

\* Every call of ISystemFactory::Initialize has its Deinitialize, for a configuration
\* that names each key system once and with a designator of its own.
THEOREM FactoryCallsAreMatched == Spec => []CallsAreMatched
<1> DEFINE Counted == Regular(configuration) => Counting
<1>1. Init => Counted
  BY DEF Init, ServerInit, Blank, Counting
<1>2. IInv /\ Counted /\ [Next]_vars => Counted'
  BY CountStep
<1>3. IInv /\ Counted => CallsAreMatched
  <2> SUFFICES ASSUME IInv, Counting, life \in {"closed", "stopped"}
               PROVE  deinitialized = initialized
    BY DEF CallsAreMatched
  <2> USE NoneAssumption DEF IInv, TypeOK, ServerTypeOK
  <2>1. ASSUME NEW f \in Factories PROVE deinitialized[f] = initialized[f]
    <3>1. deinitialized[f] \in {0, 1} /\ (deinitialized[f] > 0 => initialized[f] > 0)
          /\ initialized[f] \in Nat
      BY DEF ServerInv, Visits
    <3>2. CASE initialized[f] > 0
      <4>1. PICK d \in Designators : systemToFactory[d] = f
        BY <3>2 DEF Counting
      <4>2. deinitialized[f] = 1
        BY <4>1 DEF ServerInv, Visits, Stopped
      <4> QED BY <3>2, <4>2 DEF Counting
    <3> QED BY <3>1, <3>2
  <2> QED BY <2>1
<1> QED BY <1>1, <1>2, <1>3, IInvHolds, PTL DEF Spec

\* What the run checks of the two calls, for every configuration.
THEOREM FactoryCallsAreRight == Spec => []FactoryCallsAgree
<1>1. TornDownOnce /\ CallsAreMatched => FactoryCallsAgree
  BY DEF FactoryCallsAgree
<1> QED BY <1>1, FactoriesAreTornDownOnce, FactoryCallsAreMatched, PTL

=============================================================================

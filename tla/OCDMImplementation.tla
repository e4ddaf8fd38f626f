--------------------------- MODULE OCDMImplementation ---------------------------
(***************************************************************************)
(* The object that the OCDM server's process hosts.  Initialize starts a   *)
(* job on the worker pool, and returns; the job loads the CDMs, reads the  *)
(* configuration, opens the channel to the clients and announces the       *)
(* DECRYPTION subsystem to the host.  Deinitialize stops the job and takes *)
(* everything down again, one step after the other, while clients are      *)
(* still connected.                                                        *)
(*                                                                         *)
(* A designator ("com.widevine.alpha") is what clients ask for, a name     *)
(* ("Widevine") what a CDM's factory calls itself; the configuration says  *)
(* which designators belong to which name.                                 *)
(***************************************************************************)
EXTENDS Naturals, Sequences, FiniteSets

CONSTANTS
    Factories,       \* the CDMs on disk: a library and its factory each
    Names,           \* names of key systems
    SystemName,      \* what ISystemFactory::KeySystem returns for each
    Designators,
    Configurations,  \* the configurations to consider: sequences of Entry
    Clients,         \* processes that connect to the server
    None             \* the null pointer

Entry == [name: Names, isSet: BOOLEAN, designators: SUBSET Designators]

ASSUME NamesAssumption == SystemName \in [Factories -> Names]
ASSUME NoneAssumption == None \notin Factories
ASSUME ConfigurationsAssumption == Configurations \subseteq Seq(Entry)

VARIABLES
    life,             \* of the object; from "stopping" on, where Deinitialize is
    worker,           \* where InitializeAsync is
    configuration,    \* the shell's ConfigLine
    toLoad,           \* the rest of the directory
    factories,        \* InitializeAsync's map from names to factories
    entry,            \* the entry of the configuration it is at
    libraries,        \* _systemLibraries
    keySystems,       \* _keySystems
    systemToFactory,  \* _systemToFactory
    initialized,      \* how often a factory's Initialize was called
    deinitialized,    \* how often its Deinitialize was
    unvisited,        \* designators Deinitialize has not come to
    listening,        \* _service and _entryPoint are there
    decryption,       \* the host's subsystem DECRYPTION is active
    connected,        \* clients that have a channel
    session           \* the CDM a client has a session with

workerVars == <<worker, toLoad, factories, entry, libraries, keySystems,
                systemToFactory, initialized>>
clientVars == <<connected, session>>
serverVars == <<life, workerVars, configuration, deinitialized, unvisited,
                listening, clientVars>>

Lives == {"absent", "created", "started", "stopping", "deinitializing",
          "closed", "stopped"}
Workers == {"none", "queued", "loading", "configuring", "initializing",
            "announcing", "done"}

ServerTypeOK ==
    /\ life \in Lives
    /\ worker \in Workers
    /\ configuration \in Configurations
    /\ toLoad \subseteq Factories
    /\ factories \in [Names -> Factories \cup {None}]
    /\ entry \in Nat \ {0}
    /\ libraries \subseteq Factories
    /\ keySystems \in Seq(Names)
    /\ systemToFactory \in [Designators -> Factories \cup {None}]
    /\ initialized \in [Factories -> Nat]
    /\ deinitialized \in [Factories -> Nat]
    /\ unvisited \subseteq Designators
    /\ listening \in BOOLEAN
    /\ decryption \in BOOLEAN
    /\ connected \subseteq Clients
    /\ session \in [Clients -> Factories \cup {None}]

\* The members of a process that has no server object, and of the object as it is
\* constructed.
Blank == [worker |-> "none", toLoad |-> Factories, entry |-> 1,
          factories |-> [n \in Names |-> None],
          map |-> [d \in Designators |-> None],
          count |-> [f \in Factories |-> 0],
          session |-> [c \in Clients |-> None]]

ServerInit ==
    /\ life = "absent" /\ configuration \in Configurations
    /\ worker = Blank.worker /\ toLoad = Blank.toLoad /\ entry = Blank.entry
    /\ factories = Blank.factories /\ libraries = {} /\ keySystems = <<>>
    /\ systemToFactory = Blank.map
    /\ initialized = Blank.count /\ deinitialized = Blank.count /\ unvisited = {}
    /\ listening = FALSE /\ decryption = FALSE
    /\ connected = {} /\ session = Blank.session

\* The process has ended: it was terminated, or it crashed.
ProcessEnds ==
    /\ life' = "absent" /\ UNCHANGED configuration
    /\ worker' = Blank.worker /\ toLoad' = Blank.toLoad /\ entry' = Blank.entry
    /\ factories' = Blank.factories /\ libraries' = {} /\ keySystems' = <<>>
    /\ systemToFactory' = Blank.map
    /\ initialized' = Blank.count /\ deinitialized' = Blank.count /\ unvisited' = {}
    /\ listening' = FALSE
    /\ connected' = {} /\ session' = Blank.session

Construct ==
    /\ life = "absent" /\ life' = "created"
    /\ UNCHANGED <<workerVars, configuration, deinitialized, unvisited,
                   listening, clientVars>>

\* Initialize keeps the shell and submits the job.
Initialize ==
    /\ life = "created" /\ life' = "started"
    /\ worker' = "queued"
    /\ UNCHANGED <<toLoad, factories, entry, libraries, keySystems,
                   systemToFactory, initialized, configuration, deinitialized,
                   unvisited, listening, clientVars>>

---------------------------------------------------------------------------
(* InitializeAsync *)

WorkerKeeps == UNCHANGED <<life, configuration, deinitialized, unvisited, clientVars>>

JobStarts ==
    /\ worker = "queued" /\ worker' = "loading"
    /\ UNCHANGED <<toLoad, factories, entry, libraries, keySystems,
                   systemToFactory, initialized, listening, decryption>>
    /\ WorkerKeeps

\* The next library, in the order in which the directory lists them.  Of two
\* factories of one name the map keeps the first.
LoadLibrary(f) ==
    LET name == SystemName[f]
    IN  /\ worker = "loading" /\ f \in toLoad
        /\ toLoad' = toLoad \ {f}
        /\ keySystems' = Append(keySystems, name)
        /\ factories' = [factories EXCEPT ![name] = IF @ = None THEN f ELSE @]
        /\ libraries' = libraries \cup {f}
        /\ UNCHANGED <<worker, entry, systemToFactory, initialized, listening, decryption>>
        /\ WorkerKeeps

\* It cannot be opened, or is not a CDM.
LoadFails(f) ==
    /\ worker = "loading" /\ f \in toLoad
    /\ toLoad' = toLoad \ {f}
    /\ UNCHANGED <<worker, factories, entry, libraries, keySystems,
                   systemToFactory, initialized, listening, decryption>>
    /\ WorkerKeeps

AllLoaded ==
    /\ worker = "loading" /\ toLoad = {}
    /\ worker' = "configuring"
    /\ UNCHANGED <<toLoad, factories, entry, libraries, keySystems,
                   systemToFactory, initialized, listening, decryption>>
    /\ WorkerKeeps

\* Mutant: a designator goes to the last entry that claims it.
Insert_Overwrites(map, ds, f) == [d \in Designators |-> IF d \in ds THEN f ELSE map[d]]

\* map::insert: a designator that is there already keeps its factory.
Insert(map, ds, f) ==
    [d \in Designators |-> IF d \in ds /\ map[d] = None THEN f ELSE map[d]]

\* Mutant: an entry without a factory is not passed over.
MapDesignators_Stays ==
    /\ worker = "configuring" /\ entry <= Len(configuration)
    /\ LET e == configuration[entry]
           f == factories[e.name]
       IN  /\ e.isSet /\ f # None
           /\ systemToFactory' = Insert(systemToFactory, e.designators, f)
    /\ worker' = "initializing"
    /\ UNCHANGED <<toLoad, factories, entry, libraries, keySystems, initialized,
                   listening, decryption>>
    /\ WorkerKeeps

\* One entry of the configuration, up to the call of the factory's Initialize.
MapDesignators ==
    /\ worker = "configuring" /\ entry <= Len(configuration)
    /\ LET e == configuration[entry]
           f == factories[e.name]
       IN  IF e.isSet /\ f # None
           THEN /\ systemToFactory' = Insert(systemToFactory, e.designators, f)
                /\ worker' = "initializing" /\ UNCHANGED entry
           ELSE /\ entry' = entry + 1
                /\ UNCHANGED <<systemToFactory, worker>>
    /\ UNCHANGED <<toLoad, factories, libraries, keySystems, initialized,
                   listening, decryption>>
    /\ WorkerKeeps

\* Mutant: the call is inside the loop over the designators.
InitializeFactory_PerDesignator ==
    /\ worker = "initializing"
    /\ initialized' = [initialized EXCEPT ![factories[configuration[entry].name]] =
                          @ + Cardinality(configuration[entry].designators)]
    /\ entry' = entry + 1 /\ worker' = "configuring"
    /\ UNCHANGED <<toLoad, factories, libraries, keySystems, systemToFactory,
                   listening, decryption>>
    /\ WorkerKeeps

InitializeFactory ==
    /\ worker = "initializing"
    /\ initialized' = [initialized EXCEPT ![factories[configuration[entry].name]] = @ + 1]
    /\ entry' = entry + 1 /\ worker' = "configuring"
    /\ UNCHANGED <<toLoad, factories, libraries, keySystems, systemToFactory,
                   listening, decryption>>
    /\ WorkerKeeps

\* The end of the configuration: accessor, engine and channel are made, and
\* deleted again when the connector cannot be listened on.
OpenChannel ==
    /\ worker = "configuring" /\ entry > Len(configuration)
    /\ \/ listening' = TRUE /\ worker' = "announcing"
       \/ listening' = FALSE /\ worker' = "done"
    /\ UNCHANGED <<toLoad, factories, entry, libraries, keySystems,
                   systemToFactory, initialized, decryption>>
    /\ WorkerKeeps

Announce ==
    /\ worker = "announcing" /\ worker' = "done"
    /\ decryption' = TRUE
    /\ UNCHANGED <<toLoad, factories, entry, libraries, keySystems,
                   systemToFactory, initialized, listening>>
    /\ WorkerKeeps

InitializeAsync ==
    \/ JobStarts \/ AllLoaded \/ MapDesignators \/ InitializeFactory
    \/ OpenChannel \/ Announce
    \/ \E f \in Factories : LoadLibrary(f) \/ LoadFails(f)

---------------------------------------------------------------------------
(* Deinitialize.  Each step is one that clients can get in between. *)

TeardownKeeps == UNCHANGED <<configuration, decryption, worker, toLoad, factories,
                             entry, keySystems, systemToFactory, initialized>>

Deinitialize ==
    /\ life = "started" /\ life' = "stopping"
    /\ UNCHANGED <<libraries, deinitialized, unvisited, listening, clientVars>>
    /\ TeardownKeeps

\* Mutant: a job that runs is not waited for.
StopWorker_NoWait ==
    /\ life = "stopping"
    /\ life' = "deinitializing"
    /\ unvisited' = {d \in Designators : systemToFactory[d] # None}
    /\ UNCHANGED <<libraries, deinitialized, listening, clientVars>>
    /\ TeardownKeeps

\* _thread.Stop(): a job that waits is taken from the queue, one that runs is
\* waited for.
StopWorker ==
    /\ life = "stopping" /\ worker \in {"queued", "done"}
    /\ life' = "deinitializing"
    /\ worker' = "done"
    /\ unvisited' = {d \in Designators : systemToFactory[d] # None}
    /\ UNCHANGED <<libraries, deinitialized, listening, clientVars, configuration,
                   decryption, toLoad, factories, entry, keySystems,
                   systemToFactory, initialized>>

\* One round of the loop over _systemToFactory, which may name a factory often.
DeinitializeFactory(d) ==
    LET f == systemToFactory[d]
    IN  /\ life = "deinitializing" /\ d \in unvisited
        /\ unvisited' = unvisited \ {d}
        /\ deinitialized' = IF deinitialized[f] = 0
                            THEN [deinitialized EXCEPT ![f] = 1] ELSE deinitialized
        /\ UNCHANGED <<life, libraries, listening, clientVars>>
        /\ TeardownKeeps

\* delete _service: the channels are closed and what the clients held through
\* them is released.
CloseChannel ==
    /\ life = "deinitializing" /\ unvisited = {}
    /\ life' = "closed"
    /\ listening' = FALSE
    /\ connected' = {} /\ session' = [c \in Clients |-> None]
    /\ UNCHANGED <<libraries, deinitialized, unvisited>>
    /\ TeardownKeeps

\* Mutant: the libraries go before the channel.
ReleaseLibraries_First ==
    /\ life \in {"deinitializing", "closed"} /\ unvisited = {}
    /\ life' = IF life = "closed" THEN "stopped" ELSE life
    /\ libraries' = {}
    /\ UNCHANGED <<deinitialized, unvisited, listening, clientVars>>
    /\ TeardownKeeps

\* The accessor, the engine and the libraries.
ReleaseLibraries ==
    /\ life = "closed" /\ life' = "stopped"
    /\ libraries' = {}
    /\ UNCHANGED <<deinitialized, unvisited, listening, clientVars>>
    /\ TeardownKeeps

Teardown == \/ StopWorker \/ CloseChannel \/ ReleaseLibraries
            \/ \E d \in Designators : DeinitializeFactory(d)

---------------------------------------------------------------------------
(* The clients *)

ClientKeeps == UNCHANGED <<life, workerVars, configuration, deinitialized,
                           unvisited, listening, decryption>>

Connect(c) ==
    /\ listening /\ c \notin connected
    /\ connected' = connected \cup {c} /\ UNCHANGED session
    /\ ClientKeeps

\* KeySystem finds the designator's factory, which makes the session.
CreateSession(c, d) ==
    /\ c \in connected /\ session[c] = None
    /\ systemToFactory[d] # None
    /\ session' = [session EXCEPT ![c] = systemToFactory[d]]
    /\ UNCHANGED connected /\ ClientKeeps

ReleaseSession(c) ==
    /\ session[c] # None
    /\ session' = [session EXCEPT ![c] = None]
    /\ UNCHANGED connected /\ ClientKeeps

\* A client closes its channel, or dies.
Disconnect(c) ==
    /\ c \in connected
    /\ connected' = connected \ {c}
    /\ session' = [session EXCEPT ![c] = None]
    /\ ClientKeeps

ClientStep == \E c \in Clients :
    \/ Connect(c) \/ ReleaseSession(c) \/ Disconnect(c)
    \/ \E d \in Designators : CreateSession(c, d)

ServerStep == InitializeAsync \/ Teardown \/ ClientStep

---------------------------------------------------------------------------
(* What Systems and Designators answer, at any time *)

Systems == keySystems

DesignatorsOf(name) ==
    {d \in Designators : systemToFactory[d] # None /\ SystemName[systemToFactory[d]] = name}

---------------------------------------------------------------------------
(* Properties *)

\* A client's session is with a CDM that has been initialized, as the channel opens
\* when the configuration has been gone through and not before, and whose code stays
\* loaded, as the libraries go when the channel has been closed.
SessionsAreBacked ==
    \A c \in Clients :
        session[c] # None => initialized[session[c]] > 0 /\ session[c] \in libraries

\* Deinitialize calls each factory that a designator leads to once, although the
\* map may lead to it by several designators, and calls no other.
TornDownOnce ==
    \A f \in Factories :
        /\ deinitialized[f] <= 1
        /\ deinitialized[f] > 0 => initialized[f] > 0
        /\ life \in {"closed", "stopped"} /\ (\E d \in Designators : systemToFactory[d] = f)
             => deinitialized[f] = 1

\* The configuration names each key system once, with a designator of its own.
Regular(config) ==
    \A i \in DOMAIN config : config[i].isSet =>
        /\ \E d \in config[i].designators :
              \A j \in DOMAIN config : j # i => d \notin config[j].designators
        /\ \A j \in DOMAIN config : j # i => config[j].name # config[i].name

\* Under such a configuration every Initialize of a factory is matched by one
\* Deinitialize, whenever the plug-in is stopped.
CallsAreMatched ==
    life \in {"closed", "stopped"} /\ Regular(configuration) => deinitialized = initialized

\* Initialize and Deinitialize of the factories, for any configuration and for one
\* without surprises.
FactoryCallsAgree == TornDownOnce /\ CallsAreMatched

\* From the end of _thread.Stop() on, nothing is added to the map that Deinitialize
\* goes through, no channel is opened and the subsystem is not announced.
Stopped == life \in {"deinitializing", "closed", "stopped"}

QuietAfterStop ==
    [][Stopped /\ life' # "absent"
         => /\ systemToFactory' = systemToFactory
            /\ listening' => listening
            /\ decryption' => decryption]_<<serverVars, decryption>>

\* The assertion before the announcement: DECRYPTION is not active yet.
NotYetAnnounced == worker = "announcing" => ~decryption
=============================================================================

------------------------------- MODULE OcdmPlugin -------------------------------
(***************************************************************************)
(* The plug-in in the host's process, and its server in another, which may *)
(* crash at any time.  The framework activates and deactivates the plug-in *)
(* on one thread at a time; it reports the end of a process, on a thread   *)
(* of its own, to whom has registered; queries come on further threads.    *)
(***************************************************************************)
EXTENDS OCDMImplementation

CONSTANTS
    ConnectionIds,   \* what the framework numbers its server processes with, from 1
    MaxJobs          \* bound: deactivations on the framework's queue

ASSUME IdsAssumption == ConnectionIds \subseteq Nat \ {0}
ASSUME MaxJobsAssumption == MaxJobs \in Nat \ {0}

VARIABLES
    host,           \* where Initialize or Deinitialize is
    service,        \* _service is set
    opencdmi,       \* _opencdmi is set
    memory,         \* _memory is set
    connectionId,   \* _connectionId, 0 for none
    registered,     \* the framework has our notification sink
    jsonrpc,        \* drms and keysystems are registered
    process,        \* the server process that lives, 0 for none
    closed,         \* processes whose end the framework has not reported
    notifier,       \* the thread that reports: "idle" or in Deactivated
    jobs,           \* deactivations on the queue
    left,           \* key systems a query has still to ask for
    reported        \* <<name, designator>>: what queries were told by this server

hostVars == <<service, opencdmi, memory, connectionId, registered, jsonrpc>>
reportVars == <<closed, notifier, jobs>>
queryVars == <<left, reported>>
vars == <<serverVars, decryption, host, hostVars, process, reportVars, queryVars>>

Steps == {"deactivated", "rooting", "launched", "starting", "checking", "activated",
          "unregistering", "stopping", "waiting", "subsystem", "releasing", "clearing"}

TypeOK ==
    /\ ServerTypeOK
    /\ host \in Steps
    /\ service \in BOOLEAN /\ opencdmi \in BOOLEAN /\ memory \in BOOLEAN
    /\ connectionId \in ConnectionIds \cup {0}
    /\ registered \in BOOLEAN /\ jsonrpc \in BOOLEAN
    /\ process \in ConnectionIds \cup {0}
    /\ closed \subseteq ConnectionIds
    /\ notifier \in {"idle", "reporting"}
    /\ jobs \in 0..MaxJobs
    /\ left \in Seq(Names)
    /\ reported \subseteq Names \X Designators

Init ==
    /\ ServerInit
    /\ host = "deactivated"
    /\ service = FALSE /\ opencdmi = FALSE /\ memory = FALSE
    /\ connectionId = 0 /\ registered = FALSE /\ jsonrpc = FALSE
    /\ process = 0 /\ closed = {} /\ notifier = "idle" /\ jobs = 0
    /\ left = <<>> /\ reported = {}

HostKeeps == UNCHANGED <<serverVars, decryption, process, reportVars, queryVars>>

---------------------------------------------------------------------------
(* OCDM::Initialize *)

\* Mutant: the sink is not registered yet when the process is started.
Activate_Unregistered ==
    /\ host = "deactivated" /\ host' = "rooting"
    /\ service' = TRUE
    /\ UNCHANGED <<opencdmi, memory, connectionId, registered, jsonrpc>>
    /\ HostKeeps

\* The sink is registered ahead of the process.
Activate ==
    /\ host = "deactivated" /\ host' = "rooting"
    /\ service' = TRUE /\ registered' = TRUE
    /\ UNCHANGED <<opencdmi, memory, connectionId, jsonrpc>>
    /\ HostKeeps

\* Root starts a process and has its object constructed ...
Launch ==
    /\ host = "rooting" /\ host' = "launched"
    /\ \E id \in ConnectionIds \ closed : process' = id /\ connectionId' = id
    /\ Construct
    /\ left' = <<>> /\ reported' = {}
    /\ UNCHANGED <<decryption, service, opencdmi, memory, registered, jsonrpc, reportVars>>

LaunchFails ==
    /\ host = "rooting" /\ host' = "unregistering"
    /\ UNCHANGED hostVars /\ HostKeeps

\* Mutant: an activation that fails is not undone.
RootReturns_NoCleanup ==
    /\ host = "launched"
    /\ opencdmi' = (process # 0)
    /\ host' = IF process # 0 THEN "starting" ELSE "deactivated"
    /\ UNCHANGED <<service, memory, connectionId, registered, jsonrpc>>
    /\ HostKeeps

\* ... and returns it, or null when the process has gone in the meantime.
RootReturns ==
    /\ host = "launched"
    /\ opencdmi' = (process # 0)
    /\ host' = IF process # 0 THEN "starting" ELSE "unregistering"
    /\ UNCHANGED <<service, memory, connectionId, registered, jsonrpc>>
    /\ HostKeeps

\* RegisterAll and the server's Initialize, which a dead server does not answer.
StartServer ==
    /\ host = "starting" /\ host' = "checking"
    /\ jsonrpc' = TRUE
    /\ IF process # 0 THEN Initialize ELSE UNCHANGED serverVars
    /\ UNCHANGED <<decryption, service, opencdmi, memory, connectionId, registered,
                   process, reportVars, queryVars>>

\* RemoteConnection knows a process until its end has been reported.
CheckConnection ==
    /\ host = "checking" /\ notifier = "idle"
    /\ memory' = (process # 0 \/ connectionId \in closed)
    /\ host' = IF memory' THEN "activated" ELSE "unregistering"
    /\ UNCHANGED <<service, opencdmi, connectionId, registered, jsonrpc>>
    /\ HostKeeps

---------------------------------------------------------------------------
(* OCDM::Deinitialize *)

Deactivate ==
    /\ host = "activated" /\ host' = "unregistering"
    /\ UNCHANGED hostVars /\ HostKeeps

\* A deactivation from the queue finds the plug-in active, or has nothing to do.
RunJob ==
    /\ jobs > 0 /\ host \in {"activated", "deactivated"}
    /\ jobs' = jobs - 1
    /\ host' = IF host = "activated" THEN "unregistering" ELSE host
    /\ UNCHANGED <<serverVars, decryption, hostVars, process, closed, notifier, queryVars>>

\* Mutant: the sink stays registered.
UnregisterSink_Stays ==
    /\ host = "unregistering" /\ notifier = "idle"
    /\ memory' = FALSE
    /\ host' = IF opencdmi THEN "stopping" ELSE "subsystem"
    /\ UNCHANGED <<service, opencdmi, connectionId, registered, jsonrpc>>
    /\ HostKeeps

\* Unregister waits for a report that is being made.
UnregisterSink ==
    /\ host = "unregistering" /\ notifier = "idle"
    /\ registered' = FALSE
    /\ memory' = FALSE
    /\ host' = IF opencdmi THEN "stopping" ELSE "subsystem"
    /\ UNCHANGED <<service, opencdmi, connectionId, jsonrpc>>
    /\ HostKeeps

DeinitializeServer ==
    /\ host = "stopping" /\ host' = "waiting"
    /\ IF process # 0 THEN Deinitialize ELSE UNCHANGED <<serverVars, decryption>>
    /\ UNCHANGED <<hostVars, process, reportVars, queryVars>>

\* The server's Deinitialize has returned, or there is no server any more: the
\* object is released, and the process terminated.
ReleaseServer ==
    /\ host = "waiting" /\ life \in {"stopped", "absent"}
    /\ host' = "subsystem"
    /\ jsonrpc' = FALSE /\ opencdmi' = FALSE
    /\ process' = 0 /\ ProcessEnds
    /\ left' = <<>> /\ UNCHANGED reported
    /\ UNCHANGED <<decryption, service, memory, connectionId, registered, reportVars>>

ClearSubsystem ==
    /\ host = "subsystem" /\ host' = "releasing"
    /\ decryption' = FALSE
    /\ UNCHANGED <<serverVars, hostVars, process, reportVars, queryVars>>

ReleaseService ==
    /\ host = "releasing" /\ host' = "clearing"
    /\ service' = FALSE
    /\ UNCHANGED <<opencdmi, memory, connectionId, registered, jsonrpc>>
    /\ HostKeeps

ClearConnection ==
    /\ host = "clearing" /\ host' = "deactivated"
    /\ connectionId' = 0
    /\ UNCHANGED <<service, opencdmi, memory, registered, jsonrpc>>
    /\ HostKeeps

---------------------------------------------------------------------------
(* The server process and the framework's reports of its end *)

Crash ==
    /\ process # 0
    /\ process' = 0 /\ closed' = closed \cup {process}
    /\ ProcessEnds
    /\ left' = <<>> /\ UNCHANGED reported
    /\ UNCHANGED <<decryption, host, hostVars, notifier, jobs>>

\* Deactivated is called for every process, if the sink is registered, and goes on
\* if it is the plug-in's own.
Deactivated(id) ==
    /\ id \in closed /\ notifier = "idle"
    /\ closed' = closed \ {id}
    /\ notifier' = IF registered /\ id = connectionId THEN "reporting" ELSE "idle"
    /\ UNCHANGED <<serverVars, decryption, host, hostVars, process, jobs, queryVars>>

\* With the service it asserts, it puts a deactivation on the queue.
SubmitJob ==
    /\ notifier = "reporting" /\ notifier' = "idle"
    /\ jobs' = IF jobs < MaxJobs THEN jobs + 1 ELSE jobs
    /\ UNCHANGED <<serverVars, decryption, host, hostVars, process, closed, queryVars>>

---------------------------------------------------------------------------
(* get_drms, and the same query over HTTP *)

QueryKeeps == UNCHANGED <<serverVars, decryption, host, hostVars, process, reportVars>>

Ask ==
    /\ jsonrpc /\ process # 0 /\ left = <<>>
    /\ left' = Systems /\ UNCHANGED reported
    /\ QueryKeeps

AskDesignators ==
    /\ jsonrpc /\ process # 0 /\ left # <<>>
    /\ reported' = reported \cup ({Head(left)} \X DesignatorsOf(Head(left)))
    /\ left' = Tail(left)
    /\ QueryKeeps

---------------------------------------------------------------------------

ServerRuns ==
    /\ process # 0 /\ ServerStep
    /\ UNCHANGED <<host, hostVars, process, reportVars, queryVars>>

HostStep == \/ Launch \/ LaunchFails \/ RootReturns \/ StartServer \/ CheckConnection
            \/ UnregisterSink \/ DeinitializeServer \/ ReleaseServer
            \/ ClearSubsystem \/ ReleaseService \/ ClearConnection

Next == \/ HostStep \/ Activate \/ Deactivate \/ RunJob
        \/ ServerRuns \/ Crash
        \/ SubmitJob \/ \E id \in ConnectionIds : Deactivated(id)
        \/ Ask \/ AskDesignators

\* The framework's thread, its reports and its queue run, and so does a living
\* server; a client or a user need do nothing.
Fairness ==
    /\ WF_vars(HostStep) /\ WF_vars(RunJob) /\ WF_vars(SubmitJob)
    /\ WF_vars(\E id \in ConnectionIds : Deactivated(id))
    /\ WF_vars(ServerRuns /\ InitializeAsync)
    /\ WF_vars(ServerRuns /\ Teardown)

Spec == Init /\ [][Next]_vars /\ Fairness

---------------------------------------------------------------------------
(* Properties *)

\* OCDM::Deactivated asserts that there is a service: the sink is withdrawn before
\* the service is given up, and withdrawing it waits for a report under way.
ReportedInService == notifier = "reporting" => service

\* The assertions on what another thread or process does meanwhile: the service of a
\* report, and DECRYPTION before the server announces it.
AssertionsHold == ReportedInService /\ NotYetAnnounced

\* A plug-in that is deactivated, or whose activation failed at any point, has
\* left nothing behind: what Initialize asserts when it is activated again, no
\* process, no announcement, no handlers.
DownIsClean ==
    host = "deactivated" =>
        /\ ~service /\ ~opencdmi /\ ~memory /\ connectionId = 0
        /\ ~registered /\ ~jsonrpc /\ ~decryption
        /\ process = 0 /\ life = "absent"

\* What drms once reported of this server stays true: a designator keeps the key
\* system it was first given.
AnswersStayTrue ==
    life # "absent" => \A r \in reported : r[2] \in DesignatorsOf(r[1])

\* A plug-in whose server dies is deactivated.
CrashIsNoticed == (host = "activated" /\ process = 0) ~> host # "activated"

\* A deactivation, and a failed activation, come to an end, whatever the job that
\* initializes the server and the clients are doing.
DeactivationCompletes == host = "unregistering" ~> host = "deactivated"
=============================================================================

---------------------------- MODULE KeyStatuses ----------------------------
(***************************************************************************)
(* What the two sides of a session know of its keys.  CreateSession parses   *)
(* the init data and makes a session with the list of its keys.  The CDM     *)
(* reports a change to the server's sink (plugin/FrameworkRPC.cpp), which    *)
(* updates the server's list and calls the client; the client               *)
(* (client/open_cdm_impl.h) updates its own list, which                     *)
(* opencdm_session_status reads, and tells the application.  Two other       *)
(* threads cross this path: CreateSession announces the keys of the init     *)
(* data as pending, after Run has already allowed the CDM to report, and     *)
(* the client's destructor revokes the callback.                            *)
(*                                                                         *)
(* A CDM reports one change at a time.  The client handles one call at a     *)
(* time: its engine has one thread.  Sessions of com.apple.fps, which never   *)
(* run, have no reports.                                                    *)
(***************************************************************************)
EXTENDS CencKeys

CONSTANTS
  InitData,  \* what sessions are created with: sequences of pieces
  Reported   \* statuses a CDM reports

\* A change the CDM reports: the server's list has it, the callback was looked at.
Reports == [key : Ids, status : Reported, at : {"updated", "calling"}]

ASSUME StatusAssumption ==
  /\ InitData \subseteq Seq(Pieces)
  /\ Pending \notin Reported
  /\ None \notin Reported \cup {Pending} \cup Reports \cup Objects \cup Messages

VARIABLES
  phase,      \* how far the session is in its life, see Phases
  initData,   \* what it was created with
  todo,       \* pieces of it that are not parsed yet
  keyIds,     \* the keys found in it
  announced,  \* how many of them the client was told of
  server,     \* _cencData: the server's list
  callback,   \* the sink's _callback is not null
  report,     \* the change the CDM is reporting: key, status and how far it is
  client,     \* _keyStatuses: the client's list
  told        \* what the application was told of a key in its last callback

vars == <<phase, initData, todo, keyIds, announced, server, callback, report, client, told>>

creation == <<initData, todo, keyIds>>

Phases == {"parsing",     \* CreateSession reads the init data
           "running",     \* constructed: Run has been called
           "announcing",  \* listed; the pending keys are being sent
           "live",        \* CreateSession has returned
           "revoked",     \* Revoke has been called
           "crashed"}     \* the server has called a null pointer

Init ==
  /\ phase = "parsing"
  /\ initData \in InitData /\ todo = initData
  /\ keyIds = <<>> /\ announced = 0
  /\ server = <<>>
  /\ callback = TRUE
  /\ report = None
  /\ client = <<>>
  /\ told = [k \in Ids |-> None]

Up == phase \notin {"parsing", "crashed"}

-----------------------------------------------------------------------------
(* CreateSession in the server, up to the constructor *)

SessionKeeps == UNCHANGED <<announced, callback, report, client, told>>

\* The next piece is taken apart ...
ParsePiece ==
  /\ phase = "parsing" /\ todo # <<>> /\ Head(todo).is # "key"
  /\ todo' = Parse(Head(todo)) \o Tail(todo)
  /\ UNCHANGED <<phase, initData, keyIds, server>> /\ SessionKeeps

\* ... until there are ids.
ParseKey ==
  /\ phase = "parsing" /\ todo # <<>> /\ Head(todo).is = "key"
  /\ keyIds' = IF Head(todo).id = None THEN keyIds ELSE AddKeyId(keyIds, Head(todo).id)
  /\ todo' = Tail(todo)
  /\ UNCHANGED <<phase, initData, server>> /\ SessionKeeps

\* The session is given a copy of the list, and runs.
Construct ==
  /\ phase = "parsing" /\ todo = <<>>
  /\ phase' = "running"
  /\ server' = keyIds
  /\ UNCHANGED creation /\ SessionKeeps

-----------------------------------------------------------------------------
(* The CDM's thread in the server *)

\* Sink::OnKeyStatusUpdate updates the server's list, and goes on with the id that
\* the list has.
Report(k, s) ==
  /\ Up
  /\ report = None
  /\ server' = UpdateKeyStatus(server, k, s)
  /\ report' = [key |-> server'[Find(server', k)].id, status |-> s, at |-> "updated"]
  /\ UNCHANGED <<phase, creation, announced, callback, client, told>>

\* It looks whether there is a callback.
CheckCallback ==
  /\ Up
  /\ report # None /\ report.at = "updated"
  /\ report' = IF callback THEN [report EXCEPT !.at = "calling"] ELSE None
  /\ UNCHANGED <<phase, creation, announced, server, callback, client, told>>

\* Mutant: the client adds the key again when it is listed already, behind the
\* entry that is found.
OnKeyStatusUpdate_Adds(k, s) == client' = Append(client, [id |-> k, status |-> s])

\* OpenCDMSession::OnKeyStatusUpdate: the client's list, and then the application,
\* which is not told of pending keys.
OnKeyStatusUpdate(k, s) == client' = UpdateKeyStatus(client, k, s)

\* Mutant: the application is called before the client's list is updated.
Tell_First(k, s) ==
  told' = IF s = Pending THEN told
          ELSE [j \in Ids |-> IF Equal(j, k) THEN StatusOf(client, k) ELSE told[j]]

\* key_update_callback, where the application asks opencdm_session_status for the
\* status of that key.
Tell(k, s) ==
  told' = IF s = Pending THEN told
          ELSE [j \in Ids |-> IF Equal(j, k) THEN StatusOf(client', k) ELSE told[j]]

Deliver ==
  /\ Up
  /\ report # None /\ report.at = "calling"
  /\ callback
  /\ OnKeyStatusUpdate(report.key, report.status)
  /\ Tell(report.key, report.status)
  /\ report' = None
  /\ UNCHANGED <<phase, creation, announced, server, callback>>

\* The callback was revoked after it was looked at: the pointer is null by now, or
\* the build has kept its old value and the call goes to nobody.
DeliverToNobody ==
  /\ Up
  /\ report # None /\ report.at = "calling"
  /\ ~callback
  /\ report' = None
  /\ phase' \in {phase, "crashed"}
  /\ UNCHANGED <<creation, announced, server, callback, client, told>>

\* Sink::OnKeyStatusesUpdated does not look.  With a callback it changes nothing
\* here.
KeyStatusesUpdated ==
  /\ Up
  /\ report = None
  /\ ~callback
  /\ phase' = "crashed"
  /\ UNCHANGED <<creation, announced, server, callback, report, client, told>>

-----------------------------------------------------------------------------
(* CreateSession in the server, after the constructor *)

\* The session is put into the list, under the accessor's lock.
Listed ==
  /\ phase = "running"
  /\ phase' = "announcing"
  /\ UNCHANGED <<creation, announced, server, callback, report, client, told>>

\* The client is told that the next key of the init data is pending.
Announce ==
  /\ phase = "announcing" /\ announced < Len(keyIds)
  /\ announced' = announced + 1
  /\ LET k == keyIds[announced'].id
     IN  OnKeyStatusUpdate(k, Pending) /\ Tell(k, Pending)
  /\ UNCHANGED <<phase, creation, server, callback, report>>

\* All keys are announced: CreateSession returns.
Created ==
  /\ phase = "announcing" /\ announced = Len(keyIds)
  /\ phase' = "live"
  /\ UNCHANGED <<creation, announced, server, callback, report, client, told>>

-----------------------------------------------------------------------------
\* ~OpenCDMSession revokes its sink, on another thread of the server.
Revoke ==
  /\ phase = "live"
  /\ phase' = "revoked"
  /\ callback' = FALSE
  /\ UNCHANGED <<creation, announced, server, report, client, told>>

-----------------------------------------------------------------------------
CdmStep == CheckCallback \/ Deliver \/ DeliverToNobody

Creation == ParsePiece \/ ParseKey \/ Construct \/ Listed \/ Announce \/ Created

Next ==
  \/ \E k \in Ids, s \in Reported : Report(k, s)
  \/ CdmStep \/ KeyStatusesUpdated \/ Creation \/ Revoke

Spec == Init /\ [][Next]_vars

(* Threads go on and calls to the client return. *)
FairSpec == Spec /\ WF_vars(CdmStep) /\ WF_vars(Creation)

-----------------------------------------------------------------------------
(* Properties *)

Entries == [id : Ids, status : Reported \cup {Pending}]

TypeOK ==
  /\ phase \in Phases
  /\ initData \in InitData /\ todo \in Seq(Pieces)
  /\ keyIds \in Seq(Entries) /\ server \in Seq(Entries) /\ client \in Seq(Entries)
  /\ announced \in 0..Len(keyIds)
  /\ callback \in BOOLEAN
  /\ report \in Reports \cup {None}
  /\ told \in [Ids -> Reported \cup {None}]

\* No key is in the list twice, in whichever byte order.
Distinct(list) == \A m, n \in DOMAIN list : Equal(list[m].id, list[n].id) => m = n

MentionedIn(data) == UNION {Mentioned(data[n]) : n \in DOMAIN data}
MistakableIn(data) == UNION {Mistakable(data[n]) : n \in DOMAIN data}

\* A session begins with every id that its init data mentions, in whichever of the
\* formats and however nested, and with no other; one that is mentioned again, or in
\* the other byte order, is not added again (CommonEncryptionData).  Init data that is
\* broken, or of another format, may lack ids then, and the only others that it may
\* have are those of fields whose number is taken for that of key ids.
KeysOfInitData ==
  phase # "parsing" =>
    /\ Distinct(keyIds)
    /\ \A n \in DOMAIN keyIds : keyIds[n].id \in MistakableIn(initData)
    /\ (\A n \in DOMAIN initData : Sound(initData[n])) =>
         /\ \A n \in DOMAIN keyIds : keyIds[n].id \in MentionedIn(initData)
         /\ \A id \in MentionedIn(initData) : Matches(keyIds, id) # {}

\* The client knows of a key what the server knows.
Agree(k) == StatusOf(client, k) = StatusOf(server, k)

\* A report of the key is on its way.
OnItsWay(k) == report # None /\ Equal(report.key, k)

Announced(k) == \E n \in 1..announced : Equal(keyIds[n].id, k)
ToBeAnnounced(k) == \E n \in (announced + 1)..Len(keyIds) : Equal(keyIds[n].id, k)

\* The client's list differs from the server's only while a report is on its way,
\* or in an announcement that is to come or came after a report: a status is never
\* lost, exchanged with that of another key, or replaced by an older report.
ClientKeepsUp ==
  callback =>
    \A k \in Ids :
      \/ OnItsWay(k)
      \/ Agree(k)
      \/ ToBeAnnounced(k) /\ StatusOf(client, k) = None /\ StatusOf(server, k) = Pending
      \/ Announced(k) /\ StatusOf(client, k) = Pending

\* What key_update_callback last told of a key is what the CDM last reported of it,
\* announcements or not, in whichever byte order either writes the id: an application
\* that keeps what it is told is right, and the server's list has that status too.
ToldTheLatest ==
  callback =>
    \A k \in Ids :
      \/ OnItsWay(k)
      \/ told[k] = StatusOf(server, k)
      \/ told[k] = None /\ StatusOf(server, k) = Pending

\* A change the CDM reports reaches the application unless the session is being
\* destructed.
ReportsArrive ==
  \A k \in Ids, s \in Reported :
    report = [key |-> k, status |-> s, at |-> "updated"] ~> (told[k] = s \/ ~callback)

\* "Called when status of a key changes. Use opencdm_session_status to find out new
\* key status" (open_cdm.h): when nothing is on its way, that status is the one the
\* CDM reported.
StatusIsCurrent ==
  phase = "live" /\ report = None => \A k \in Ids : Agree(k)

=============================================================================

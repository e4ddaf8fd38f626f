# OpenCDMi in TLA+

These modules model this repository: the OCDM plug-in and its server process
(`plugin/`), the client library libocdm (`client/`) and the GStreamer adapters
(`client/adapter/`). TLC checks each module on small instances; TLAPS proves its
safety properties for every value of the constants.

Paths below are relative to the repository's root.

1. [The system](#the-system)
2. [The modules](#the-modules)
3. [The runs](#the-runs)
4. [The proofs](#the-proofs)
5. [What the work found](#what-the-work-found)
6. [What is not modelled](#what-is-not-modelled)
7. [The plan](#the-plan)

## The system

The host activates the plug-in, which starts the OCDM server in a process of its
own; the server loads the CDMs, maps designators ("com.widevine.alpha") to them and
opens a channel. A media player links libocdm, which reaches the server over that
channel. It creates a session, for which the server parses the init data and makes a
CDM session; it is told by callbacks how the statuses of the session's keys change;
and it decrypts samples through a buffer in shared memory that a thread of the
server, one per session, serves. The adapters take GStreamer buffers apart for that.

| component | state | operations | meets | what makes it correct |
|---|---|---|---|---|
| BufferAdministrator (`plugin/FrameworkRPC.cpp`) | `_occupation`, 16 bits | `AquireBuffer`, `ReleaseBuffer` | all server sessions, under its own lock | a bit is set exactly while one session holds that locator |
| Server sessions: AccessorOCDM, SessionImplementation (same file) | `_sessionList`, `_adminLock`, `_mediaKeySession`, `_buffer`, reference count | `CreateSession`, `CreateSessionBuffer`, `Release`, `Remove` | each other over the list and its lock; the CDM; the worker | destruction ends, the list holds whole sessions, the CDM session outlives its calls |
| Decrypt exchange: both DataExchange classes (same file, `client/open_cdm_impl.h`) | shared buffer: administrative part, payload, two semaphores; `_systemLock` | `Decrypt`, `DecryptMulti`, `Decrypt_fps`; `Worker` | client threads and the server's workers | every call gets its own answer and returns |
| Lazy setup of the buffer (`client/open_cdm_impl.h`) | `_decryptSession` | `DecryptSession` | the threads that share a session; the server's pool | one thread opens it, the others find it |
| Client session registry: OpenCDMAccessor, OpenCDMSession (`client/open_cdm.cpp`, `open_cdm_impl.cpp`) | `_sessionKeys`, `_adminLock`, `_refCount` | `AddSession`, `RemoveSession`, `WaitForKey`, `Session`, `Release` | threads that create, look up and destruct | entries are whole, counts exact, lookups return live sessions |
| Key statuses: Sink, OpenCDMSession | `_cencData`, `_callback`, `_keyStatuses` | `OnKeyStatusUpdate`, `Revoke`, announcements in `CreateSession` | the CDM's thread, the creator's thread, the client's engine | the client's list and the application follow the CDM |
| CENC parser, Protobuf (`plugin/CENCParser.h`, `Protobuf.h`) | `_keyIds` | `Parse` and a parser per format; `AddKeyId`, `UpdateKeyStatus` | CreateSession, the sink | a session has the keys of its init data, each once, in whichever byte order |
| Retry (`client/adapter/rdk/open_cdm_decrypt.cpp`) | loop variables; the caller's buffers | `decryptWithOutputRestrictedRetry` | status callbacks | nothing is decrypted twice, paced, in time |
| Attempts, GStreamer adapter, caps parser (`client/adapter/`, `client/CapsParser.cpp`) | maps and the block of a call; what the secure path was told | five functions that decrypt one frame or several | the CDM, the secure video path, GStreamer's memory | exactly the encrypted bytes are decrypted, or the frame is as it was; all is unmapped |
| OCDMImplementation (`plugin/FrameworkRPC.cpp`) | libraries, `_keySystems`, `_systemToFactory`, the channel | `Initialize`, `InitializeAsync`, `Deinitialize`, `CreateSession`, queries | a worker of the pool, queries, clients | sessions are backed by initialized factories, each torn down once, in order |
| Plug-in lifecycle: OCDM (`plugin/OCDM.cpp`), JSON-RPC (`plugin/OCDMJsonRpc.cpp`) | `_service`, `_opencdmi`, `_memory`, `_connectionId` | `Initialize`, `Deinitialize`, `Deactivated`, `drms`, `keysystems` | the framework's threads; the server process, which may die | everything that was set up is torn down; a dead server is noticed |
| RPC accessor of the client (`client/open_cdm_impl.h`) | `_client`, `_remote` | `Instance`, `Reconnect`, `Register`, the disposal | a server that stops and restarts | proxies are held while they are used, a new server is found |
| Pass-through API (`client/open_cdm.cpp`, `open_cdm_ext.cpp`) | none | the C functions that forward | accessor, sessions | a call that did not reach the server is not a success |
| Helpers, module and build files, tests | | | | |

The hard behaviours are interleavings (sessions on the server, threads of a client
that share a session, callbacks, a deactivation against the job that initializes the
server), order (a locator returned before its buffer is deleted; announcements after
reports; factories torn down before the channel is closed), state that outlives a
call (the shared buffer's administrative part, an IV reversed in place, a proxy of a
server that has gone), waits without limit (both semaphores of the exchange, the
destructor's wait for the worker, the poll for the exchange), crashes (of the server
process at any point, of a client inside a call), and failure halfway (a CDM that
returns an error, a lost reply, metadata that cannot be mapped, one of several
frames). `PROJECT.json` lists each at its line, with the properties that would notice it going
wrong, and says where the code does go wrong and no property excludes it.

## The modules

Every action is one step of one thread: what the code does between two points at
which another thread can get in. Variables have the code's names where TLA+ allows.
A definition whose name ends in `_Something` and whose comment begins with "Mutant"
is a plausible bug; the definition it stands next to is the code.

```
OCDMImplementation   <-extends-  OcdmPlugin
CdmCalls             <-extends-  ClientChannel
CencKeys             <-extends-  KeyStatuses
BufferAdministrator  <-extends-  SessionBuffers  --implements-->  LocatorPool
        ^------------extends---  DecryptSetup
DecryptExchange                                  --implements-->  AtomicDecrypt
SubsampleMap         <-extends-  SampleDecrypt
SessionRegistry        OutputRetry
```

**OCDMImplementation.** The object in the server process. `Initialize` queues the job
`InitializeAsync`, whose steps are the places at which `Deinitialize` or a query can
get in: a library is loaded or fails to load, the entries of the configuration are
mapped (`MapDesignators`), each system is initialized, the channel is opened, the
subsystem announced. `Deinitialize` is taken apart in the code's order:
stop the worker and wait for it, deinitialize the factories by way of the designators,
close the channel, release the libraries. Clients connect, create a session by a
designator and leave at any time in between. `Regular` says which configurations
name every system once with at least one designator.

**OcdmPlugin** composes it with the plug-in in the host's process: `Activate` to
`CheckConnection` are `Initialize`, `UnregisterSink` to `ClearConnection` are
`Deinitialize` (also what `Initialize` does when it fails), `Deactivated` and
`SubmitJob` the notification of a lost connection. `Crash` ends the server process at
any time; the framework then fails the root call, or reports the end later on a
thread of its own, and the closed process takes its clients with it. A query asks for
the systems and then for the designators of each, and other steps come in between.

**CdmCalls** says what each C function makes of an answer, of an answer that does not
come, and of a proxy that is null, layer by layer. The functions are grouped by the
way they go, not listed one by one, since most differ in their parameters alone.

**ClientChannel.** The accessor opens a channel when it is constructed; `Reconnect`
is `Connect`, `ReleaseRemote`, `Open` or `OpenFails`, and only some calls come through
it (`Reconnects`). The server is started, initialized and ended; its end closes the
channel, which the client notices later (`Notice`). `refs` counts what the client
holds on each server's accessor. A call is sent, served, and answered or lost.

**BufferAdministrator.** `AquireBuffer` finds the first zero bit and sets it,
`ReleaseBuffer` clears a bit if it is set and accepts one number too many, as the
code does (`<=`). A locator is its bit's number. Each operation holds the
administrator's lock from begin to end, so each is one step.

**SessionBuffers.** The life of server sessions: `CreateSession` up to the
constructor; `Register`, where the lock is taken, the list extended and, with the
lock still held, the client called; `CreateSessionReturns`; `CreateSessionBuffer` in
two steps, as the pool's lock is given up between taking the locator and assigning
`_buffer`; the decrypt exchange as far as a destructor can tell (`ClientProduces`,
`WorkerWakes`, `WorkerConsumed`); and the destructor in the order of the code:
`Remove` under the accessor's lock (`Run(nullptr)`, `DestroyMediaKeySession`,
`ReleaseBuffer`, the erase), then `delete _buffer` (`Stop`, the fake `Produced`, the
infinite wait). `ClientDies` is what `ExternalAccess` does for a client process that
vanishes inside a call: its reference is dropped; which clients may do so is the
constant `MortalClients`. The object's identity is used again after the delete.

**LocatorPool** is what the administration promises: at most one locator per
session, no two alike, the lowest free one is granted. `SessionBuffers!PoolSpec`
maps `held` to the locator a session has taken and not yet given back.

**DecryptExchange.** Client threads and, per session, a worker. A call is a record
of its kind (`Decrypt`, `DecryptMulti`, and the content types of `Decrypt_fps`), its
parameters (IV, key id and subsamples in one value) and its stream properties, or
`None` for the null pointer. `Lock` takes `_systemLock`, `RequestProduce` the
producer semaphore (and the second time the answer), `Filled`/`Produce` write what
that kind of call writes and nothing else, `Collect` reads the answer, `Leave` takes
the samples back (`DecryptMulti` only) and unlocks. `Seen` is what the worker reads
to decide how to decrypt; `CannotDecrypt` the CDM without a batch interface;
`Answer` success or failure. `opencdm_session_decrypt`, which both adapters use for
single samples, always passes the null pointer (`client/open_cdm.cpp:705`). What the CDM decrypted is a record of whose sample it
is and with which parameters: that is all the properties ask of data.

**AtomicDecrypt** is what a call promises: asked, then served at one moment, then
answered with the own clear sample and 0, or the own sample unchanged and an error.
The stream properties belong to the session: a call that gives some puts them in
force when it is served, one that gives none is served with those in force
(`InForce`). `DecryptExchange!AtomicSpec` maps it; the moment is `Produce`, and what is
in force is what the administrative part holds.

**DecryptSetup.** All threads of one session find `_decryptSession` null, ask, and
are answered 0 (made), 1 (exists) or anything else; the server's handler is one step
because it holds the session's lock. `ReplyLost` is the answer that becomes an error
in the proxy after the server has done its work. Other sessions take and return bits
at any time. The three functions `Decrypt`, `DecryptMulti` and `Decrypt_fps` have the
same prologue, modelled once.

**SessionRegistry.** Objects are constructed (`Create` with an id or without,
`CreateFails`, `AddSession`, `Construct`, `ConstructFails`), referenced, released and
destructed (`Destruct`, `RemoveSession`, `Delete`), and callers run
`opencdm_get_session`: `GetSession`, the scan under the lock (`ScanFinds`,
`ScanMisses`), the wait (`TimeLeft`, `TimeOut`), and `Lookup` and `AddRef`, two steps
without the lock. `serialized`, chosen once, says whether the client keeps lookups
and destructions apart; the library does not ask it to. A second destructor on an
object that has gone is undefined; `FinishDead` changes only the count there.

**CencKeys.** The list of keys and the parsers. Init data is a tree of pieces, each
described by what its parser looks at: a box by its version, its ids and its payload,
a PlayReady object by its size and its records, XML by its KIDs in their two forms, a
Widevine message by its fields. `Parse` takes one piece apart into smaller ones; there
is no recursion, KeyStatuses goes on until only keys are left. `Mentioned` says, apart
from any parser, which ids a piece mentions, and `Sound` which pieces are as the
formats have them; neither uses the parser's `Index` or `FieldFails`. `Mistakable` adds
the ids in fields whose number agrees with that of key ids in its lowest 8 bits only,
which the parser takes for them. Ids have two byte orders, `Twin` of each other, which compare equal.

**KeyStatuses.** `ParsePiece`, `ParseKey` and `Construct` are `CreateSession` up to the
constructor, which calls `Run`; `Listed`, `Announce` and `Created` come after it.
`Report` is the sink's entry, up to the server's list; `CheckCallback` and `Deliver`
are apart because `Revoke` runs on another thread. `told` is what an application
learns that asks for the status in its callback.

**OutputRetry.** One call of `decryptWithOutputRestrictedRetry` with a clock that
sleeps and attempts advance, a status that changes at any time, and an attempt that
fails before or after it has reversed the IV in place, or succeeds (and then either
decrypts or skips a clear buffer). Its specification is called `RetrySpec`, and so on,
because AdapterProofs proves about it and about SampleDecrypt.

**SubsampleMap.** A map of clear and encrypted bytes: how `extend_subsample_map`
fits it to a frame, with sums that wrap at 32 bits, and how encrypted bytes are
gathered from a frame and scattered back. Bytes are positions, negative when decrypted.
The running offsets of the code's loops are `Ends` and `DataEnds`, sums over the
entries (recursive functions, which can be proved about).

**SampleDecrypt.** One call of one of the five functions that decrypt GStreamer
buffers. Each part of each frame is mapped in the order of the code (`MapPart`), or
cannot be; `Prepare` says per function which bytes go into the block and when to give
up; `Tell` is the secure path's question where the stream may be decrypted to;
`DecryptBlock` the CDM; `PutBack`, `HandClear`, `Unmap` what follows. `multi` takes
several frames and joins their bytes. Each return of each function has its own list of
what it unmaps: `OnceUnmaps` to `GstBufferUnmaps` where a part cannot be mapped,
`MisfitUnmaps` where the map is not the frame's, `OnceEnd` to `MultiEnd` at the end.
`Counted` is the length of a map in a `uint8_t`, which both `buffer` functions store
without a look (`client/open_cdm.h:149`).

The MC modules hold the definitions a `.cfg` cannot express; otherwise they only give
the instance a name.

## The runs

| run | what it checks | instance |
|---|---|---|
| PluginLifecycleMain | `SessionsAreBacked`, `FactoryCallsAgree`, `AssertionsHold`, `DownIsClean`, `AnswersStayTrue`, `QuietAfterStop`, `CrashIsNoticed`, `DeactivationCompletes` | 2 CDMs, 3 designators, 2 configurations, 1 client, 2 server processes known to the framework: 90 000 states |
| ClientChannelMain | `ProxiesAreHeld`, `FailureIsTold`, `AskingReaches`, `Recovers` | 2 key systems, 1 session object, 3 starts of the server: 160 000 states |
| SampleDecryptMain | `DecryptedExactly`, `AllOrNothing`, `MapsReleased`, `SvpKnows` | 22 kinds of frame, up to 2 in a call: 131 000 states |
| KeyStatusesMain | `KeysOfInitData`, `ClientKeepsUp`, `ToldTheLatest`, `ReportsArrive` | 13 kinds of init data, 2 keys in both byte orders, 2 statuses: 30 000 states |
| SessionBuffersMain | `SlotBookkeeping`, `ListedSessionsAreWhole`, `CdmAliveWhileDecrypting`, `PoolSpec`, `DestructionCompletes` | 3 sessions, 2 locators, one client may die: 30 000 states |
| DecryptExchangeMain | `TurnsExclude`, `OwnAnswer`, `SecureIsOwn`, `AtomicSpec` | 2 threads, a batch session and an FPS one, a call of each kind, with and without stream properties: 454 000 states |
| SessionRegistryMain | `RegistryIsRight`, `ReferencesCounted`, `SerializedReturnsAlive`, `GetSessionReturns` | 2 objects, 2 ids and the empty one, 2 callers, both kinds of client: 225 000 states |
| DecryptSetupMain | `OneOpens`, `ExchangeIsServers`, `CallsComeBack` | 3 threads, 2 locators |
| OutputRetrySafety | `DecryptedOnce`, `ResultMatchesBuffer`, `OverrunIsBounded`, `CallReturns` | timeout 9, interval 2, attempts of 0 to 3 |
| SessionBuffersLocator | `LocatorsDiffer`, violated | 2 sessions, 2 locators |
| OutputRetryIv | `NothingIsGarbled`, violated | timeout 6, interval 2 |
| KeyStatusesCurrent | `StatusIsCurrent`, violated | 1 key of the init data, 1 other |

What the passing runs show, in the order of the table: a server that is activated,
deactivated and killed at any moment makes sessions with initialized factories only,
calls each factory's `Initialize` and `Deinitialize` once and in order if the
configuration is regular, keeps what it once told a query, and leaves nothing behind.
A client never calls through a proxy it gave back, and finds a restarted server by
the calls that reconnect. Frames are decrypted exactly or left as they were, whatever
fails. A session begins with the keys its init data mentions, and client and
application follow the CDM. Locators are neither lost nor shared, the CDM session
outlives its calls, calls get their own answers, lookups of a careful client return
live sessions, one thread sets up the exchange, and a retry neither decrypts twice
nor overruns.

Every `TypeOK` (`RetryTypeOK` in OutputRetry) is proved and therefore in no run.
`NoStaleBatch`, `TeardownAssertsHold` and `AttemptsArePaced` are proved as well.

**Why these bounds are enough to be interesting.** PluginLifecycle: the first
configuration is regular; in the other, two systems claim one designator, one is
configured twice, once with an empty list, and one has no list. Two connection ids
let a late report of an old process meet a new one; `MaxJobs` bounds the
deactivations on the framework's queue, where two are one that is late and one that
is due. ClientChannel: one key system has the extended interfaces and lacks the
metrics, the other has no CDM; with three starts a client can lose a server it
reached by reconnecting; the client's threads take turns in the accessor, because
`Reconnect` has no lock. SampleDecrypt: a map may fit, need one or two entries of
padding (`MaxClear` 3 for 65535), be too large, or have a sum that wraps (`Word` 16
for 2^32); `MaxCount` 3 stands for the 255 of a `uint8_t`, and maps of 4 and 5 entries
for those it cuts off; every part of a frame is missing or unmappable in some frame,
so every list of what is unmapped is used. KeyStatuses: every format, nested and on its
own, sound and broken, and a message with a field 258. With three sessions and two
locators the pool is exhausted, and a bit is taken again while its former holder is
still being destructed. The exchange has two threads because `_systemLock` and the
semaphores are between two parties; a third meets nothing new, and the proofs hold
for any number. Two sessions of a client can share the empty id, and two callers can
hold one object. Three threads in DecryptSetup are the one that makes the buffer, one
that is told it exists and one that is refused. The retry's numbers make all orders
of deadline, pause and attempt occur: the timeout is not a multiple of the interval,
an attempt may take longer than the interval, or no time at all.
`MaxAttempt` bounds the clock; the code has no such limit, since it is the CDM's, so
`OverrunIsBounded` is relative to it. No other bound is added to a model.

**Deadlock** is checked except in OutputRetry, where a call that is over does
nothing, in KeyStatuses, where a server that has called a null pointer is at its end,
and in ClientChannel, where a client may dispose of its accessor and stop.

**Fairness.** Threads in the middle of an operation go on (weak fairness of their
steps). A mutex is not withheld for ever from a thread that finds it free again and
again (strong fairness of `Lock` in DecryptExchange, `Register` and `EnterRemove` in
SessionBuffers): the code's locks are not fair, but the schedulers of the platforms
do not starve a thread for ever. The CDM returns from `Decrypt`. A deadline passes
(strong fairness of `TimeOut`, as the waits before it may end early). The framework's
threads run: what is on its queue is taken from it, the end of a process is reported,
and a closed channel is noticed. A server process that lives goes on with its job and
its teardown, and a started server initializes. Clients, users and CDMs owe nothing:
they need not create, use, release, ask, deactivate or report, and a server need not
crash or be started again.

## The proofs

The theorems hold for any sets of threads, sessions, objects, keys, CDMs,
configurations, init data and calls, finite or not; only the callers in
SessionRegistry must be finitely many, as references are counted. They rest on the
modules' named ASSUMEs and nothing else: that `None` and its like are no members of
the sets, that the subsets named are subsets, that configurations and init data are
sequences, that the other byte order of the other byte order is the first, and that
slots, times and connection ids are natural numbers, the number of slots and the
interval positive. A frame may have any size and any map of natural numbers, also
one that does not fit; the limits the code's integer types set (`MaxClear`, `Word`,
`MaxCount`) are any positive numbers.

| module | inductive invariant, and why it is needed | theorems |
|---|---|---|
| OcdmPluginProofs | `IInv`: types, then what the server's phases, its mapping of designators, the visits of its teardown and its channel say of each other (`ServerInv`), what the host's place in its sequence says of process and fields (`HostInv`), and that answers given are still in the mapping (`Answers`); for `FactoryCallsAgree` also `Counting`, how many calls each factory has had at each place of the job and of the teardown | TypeCorrect, SessionsAreServed, FactoryCallsAreRight, NoAssertionFires, EveryDescentIsClean, AnswersAreKept, StoppedIsQuiet |
| ClientChannelProofs | `IInv`: the channel belongs to the server `_remote` points to, a call in flight holds the proxy it goes through, and what it has heard so far is what the server it reached can have said | TypeCorrect, HeldIsUsed, FailuresAreTold, AskingReachesTheServer |
| KeyStatusesProofs | `IInv`: what parsing has found together with what it has left is what the init data mentions; no list has a key twice, so the entry that is found is the one that is meant; a report under way still carries what the server's list has | TypeCorrect, KeysAreFound, ClientFollowsServer, ApplicationIsToldTheLatest |
| SessionBuffersProofs | `IInv`: bookkeeping does not survive a step without knowing, for every phase of a session, whether it is listed, holds the lock, has a CDM session or a buffer (`Lifecycle`) | TypeCorrect, BookkeepingHolds, TeardownSafe, ListSound, CallProtectsSession, ImplementsPool |
| DecryptExchangeProofs | `IInv`: the turn of a buffer is in exactly one place, and `_systemLock` is held by who is between its two ends; `Content` says what is in the buffer while somebody has yet to read it | TypeCorrect, TurnsAlwaysExclude, NoBatchIsStale, AnswersAreOwn, SecureMemoryIsOwn, ImplementsAtomicDecrypt |
| DecryptSetupProofs | `IInv`: the server's buffer, the reply under way and the client's pointer name the same locator | TypeCorrect, OneThreadOpens, ExchangeIsTheServersBuffer |
| SessionRegistryProofs | `IInv`: who is gone has no references and no id; only the empty id is shared | TypeCorrect, RegistryHolds, CountsAreExact, LookupsReturnLiveSessions |
| AdapterProofs, SampleDecrypt | `IInv`: what is planned for a frame decrypts what is meant (`Planned`); where the call is, which frames are planned and mapped (`Placed`, `Mapping`), handed over (`Handed`) and what SVP was told (`Knows`); the block is what was collected until it is decrypted, and then what the CDM makes of it (`Data`) | TypeCorrect, IInvHolds, ExactlyDecrypted, NothingOrAll, AllReleased, SvpIsTold |
| AdapterProofs, OutputRetry | `RetryIInv`: how much of the clock the attempts have paid for, at each place of the loop | RetryTypeCorrect, NothingIsDecryptedTwice, ResultsMatch, AttemptsKeepTheirPace, OverrunsAreBounded |

`KeysAreFound` needs no induction over data: every parser is shown to keep what a
piece mentions (`PieceIsParsed`, one lemma per format), and the invariant carries
that over any number of pieces and any nesting. A session of unsound init data may
miss keys; those it has that are not mentioned are from fields whose number is
mistaken for that of key ids.

`ExactlyDecrypted` does need induction over data, as maps and calls have any length.
It is by a lemma about sets of natural numbers (`Induction`, from the well-foundedness
of <), in place of the library's theorems about predicates. From it follow the lemmas
that carry the proof:

- where the bytes of joined sequences are (`FlattenIndex`), and what sums are
  (`SumsAre`, `SumsOfConcat`);
- `DecryptJoined`: a CDM that is given frames in one block and their maps in a row
  decrypts each frame with its own map, provided each map has as many bytes as its
  frame. That is why `DecryptedExactly` asks for usable maps: one sum that wraps
  shifts everything behind it;
- `GatherScatter`: bytes that were collected, decrypted and put back are decrypted
  where they were, and no others are changed;
- `ExtendIs`, `FittedIs`: padding makes a map as long as its frame and encrypts nothing
  more, whatever the largest clear count is;
- one lemma per function, `OncePlanIsSound` to `MultiPlanIsSound`: what it plans for
  a frame decrypts what is meant, if the map is usable. Usable also means that the
  count of its entries fits the `uint8_t` in which `buffer` and `gstBuffer` store it.

`AllReleased` rests on the order in which each function maps (`Mapping`): what is mapped
when a part is refused is what the list of that return names, and what is mapped at
the end is what the function's last list names. One name left out of one list breaks
the proof, as it does the run.

`AnswersAreOwn` and `ImplementsAtomicDecrypt` hold for any calls, those without stream
properties included: `AnswersAreOwn` then says that nothing but the properties is
another's, and the refinement which ones they are.
`CannotDecrypt` for a multi-sample call on a session without batch interface is
within the proofs, and not reached in DecryptExchangeMain, whose ordinary session has
that interface.

Only model-checked: all liveness (`DestructionCompletes`, `GetSessionReturns`,
`CallReturns`, `ReportsArrive`, `CallsComeBack`, `CrashIsNoticed`,
`DeactivationCompletes`, `Recovers`) and the fairness of `AtomicSpec`, as the prover
does not reason about fairness. The safety part of `AtomicSpec`, `AtomicSafeSpec`, is
proved, and so is every invariant of a passing run.

## What the work found

Three are runs that TLC finds violated.

1. *Locators are shared for a moment* (SessionBuffersLocator,
   `plugin/FrameworkRPC.cpp:695`). The destructor returns the locator before it
   deletes the buffer of that name, so a new session may open a second buffer under
   the same name; the comment above it asks for the contrary.
2. *A retry uses a reversed IV* (OutputRetryIv,
   `client/adapter/rdk/open_cdm_adapter.cpp:405`). The IV is reversed in place and
   never back: the second attempt reverses it again.
3. *A usable key stays pending* (KeyStatusesCurrent,
   `plugin/FrameworkRPC.cpp:1243`). The announcement of pending keys may arrive after
   the CDM's report, and nothing corrects it. The application was told the right
   status in its callback, as `ToldTheLatest` shows. This relies on a CDM that may
   report as soon as `Run` was called, which is what `Run` is for.

The rest are observations made while modelling, without a run: no text of the
repository says otherwise, or the models state them as exceptions.

Decryption and sessions:

- Stream properties are written to the shared buffer only if the pointer is not null
  (`client/open_cdm_impl.h:678`): a call without them is decrypted with those an
  earlier one on the session gave. `opencdm_session_decrypt` never gives any.
- A lookup may return a session in its destructor (`client/open_cdm.cpp:855`): the
  reference is added without the lock.
- An assertion may fire (`client/open_cdm_impl.h:1154`): between a refusal and the
  assertion another thread may have opened the exchange. Release builds go on.
- A lost reply to `CreateSessionBuffer` makes every later decrypt of that session
  poll for ever (`client/open_cdm_impl.h:1149`).
- Nobody calls `KeyUpdate` or sets its event, so `WaitForKey`
  (`client/open_cdm.cpp:849`) sleeps until its deadline and gives up without another
  look. Sessions that share the empty id erase each other's entry (`:887`), so that one
  that lives may no longer be listed.
- A client that dies inside a call drops its reference while the worker may be inside
  the CDM: `Remove` then destroys the CDM session under it
  (`plugin/FrameworkRPC.cpp:1451`).

Plug-in and server:

- Clients may create sessions on factories that are deinitialized already, since the
  channel is closed after the factories (`plugin/FrameworkRPC.cpp:1754`).
- A system that is configured without designators is initialized and never
  deinitialized, one that is configured twice is initialized twice (`:1697`).
- A deactivation job for a dead server may run after the plug-in was activated again
  (`plugin/OCDM.cpp:301`).
- While the server initializes, `IsTypeSupported` says no to everything
  (`client/open_cdm_impl.h:143`), and who asks once keeps that answer.
- `get_keysystems` (`plugin/OCDMJsonRpc.cpp:92`) documents ERROR_BAD_REQUEST, an
  unknown name gives ERROR_NONE; a blacklist of one kind only has no effect
  (`plugin/FrameworkRPC.cpp:1823`); the default constructor of `Config::Systems`
  (`:1502`) does not register the blacklist's keys.
- `GetKeyStoreHash` in the server calls `GetSecureStoreHash` (`:1390`).

Client:

- The functions in `ClientChannel!Silent` return success although no server was
  reached, where `client/open_cdm.h:183` says "Zero always means success".
  `GetDrmSystemTime` may return a result code as a time.
- `Reconnect` takes no lock, and its `ASSERT(_remote)` does not hold while no server
  is there.

Adapters:

- A buffer without protection metadata leaves the function with its data mapped
  (`client/adapter/rdk/open_cdm_adapter.cpp:641`,
  `client/adapter/gstreamer/open_cdm_adapter.cpp:362`).
- Both single-buffer functions store the count of subsamples in 8 bits (`:551`, and
  `client/adapter/gstreamer/open_cdm_adapter.cpp:330`), where the one for several
  buffers refuses more than 255: 256 entries count as none, and the sample is decrypted
  as a whole.
- A kind of memory that the secure path refused is not told again
  (`client/open_cdm_impl.h:1038`); `_no_secure_memory` (`client/CapsParser.h:64`) is
  not initialized.
- The path for several frames ignores `initWithLast15` and knows
  "application/x-cbcs", the other does not.

Keys:

- The comment in `ParseXMLBox` speaks of adding an id in both byte orders; it is
  added once, and the comparison covers both.
- KIDs in attribute form ahead of one in text form are missed, and a KID without a
  closing tag ends the search (`SoundXml` excludes both).
- A Widevine field is looked up by the lowest 8 bits of its number
  (`plugin/Protobuf.h:418`): 258 is read as 2, and what it holds becomes a key id of the
  session (`Mistakable`). A field of length 0 makes an empty id.
- The JSON decoder hands a length on from one id to the next.

## What is not modelled

- The framework (Thunder): RPC, proxies, semaphores, threads and shared memory are
  taken to do what this code uses them for. An infinite wait does not fail. To
  unregister a notification waits for a report under way; closing a channel drops
  what its clients held; a query to a server that goes is dropped.
- The CDMs: they answer or fail, and call back from `Run` on.
- Data races on unprotected containers (`_keyStatuses`, `_keySystems` while a query
  reads it, and `_sessionKeys` in `Session(id)`): a scan and a change are each one step.
- The blacklist, a filter of regular expressions over metadata; the files the server
  reads.
- `_interested`, which only the unused `KeyUpdate` reads.
- The system filter (`BelongsTo`) of `opencdm_get_system_session`: it narrows what a
  scan finds, and removes nothing from its races.
- `DecryptMulti` without samples, which the worker takes for a single sample.
- FPS calls on ordinary sessions and the reverse; null CDMs in `Remove`.
- `OnKeyMessage`, `OnError`, and the parameters of the calls that are passed through.
- A shared buffer that the server could not open (`IsValid`).
- In the adapters: `buffer` with a null subsample pointer and a count, a map beyond
  the frame in `once` and `gstOnce`, which would read there; a failed allocation is
  modelled where the code tests for it, in `multi`.
- In the parsers: Base64 and hexadecimal, lengths and counts that wrap or lie, ids of
  other lengths in JSON; `IsSupported` and `HasKeyId`, which nobody calls.
- Helpers, module and build files, and the tests.

`PROJECT.json` has every component with its status.

## The plan

Built, in this order: BufferAdministrator and SessionBuffers with LocatorPool;
DecryptExchange with AtomicDecrypt; SessionRegistry; OutputRetry; KeyStatuses;
DecryptSetup; OCDMImplementation and OcdmPlugin; CdmCalls and ClientChannel;
SubsampleMap and SampleDecrypt; CencKeys under KeyStatuses. Each is followed by its
proofs.

Worth having next:

1. **Sessions**: SessionBuffers and SessionRegistry composed, a client object over a
   server object, to state that a destructed client session leaves nothing behind in
   the server, also when the client dies.
2. **OutputRetry over SampleDecrypt**: the retry around the attempt as it is modelled
   now, instead of its outline, so that what a failed attempt leaves behind is the
   next one's input.
3. **The blacklist** of OCDMImplementation, with an abstract match.

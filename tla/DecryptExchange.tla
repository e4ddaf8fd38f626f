-------------------------- MODULE DecryptExchange --------------------------
(***************************************************************************)
(* How a sample is decrypted: a client thread (DataExchange::Decrypt,       *)
(* DecryptMulti and Decrypt_fps of client/open_cdm_impl.h) and the worker   *)
(* thread of the session's buffer in the server (DataExchange::Worker of    *)
(* plugin/FrameworkRPC.cpp) take turns on one shared buffer per session.    *)
(* The turns are two semaphores of the buffer, "may produce" and "may       *)
(* consume"; all client threads of a process also share _systemLock.        *)
(*                                                                         *)
(* The buffer has an administrative part (IV, key, samples, media           *)
(* properties, FPS ids, status), which outlives the call that wrote it, and *)
(* a payload.  Data is abstract: a payload says whose sample it is and, when *)
(* decrypted, which parameters the CDM was given for it.                    *)
(***************************************************************************)
EXTENDS Naturals

CONSTANTS
  Threads,       \* client threads of one process
  Sessions,      \* DRM sessions, each with its own buffer and worker
  FpsSessions,   \* those of the key system com.apple.fps
  BatchSessions, \* those whose CDM session implements IMediaKeySessionBatch
  Calls,         \* the decrypt calls threads may make
  None           \* a null pointer, an empty field, nobody

(* A call is a record: its kind, the caller's IV, key and subsamples in one
   value, and the stream properties, None for a null pointer.  An FPS call's
   kind is its content type: audio, video for secure memory, or another. *)
Kinds == {"single", "multi", "audio", "svp", "other"}

ASSUME ExchangeAssumption ==
  /\ FpsSessions \subseteq Sessions
  /\ BatchSessions \subseteq Sessions \ FpsSessions
  /\ None \notin Threads
  /\ \A c \in Calls : /\ c \in [kind : Kinds, params : {c.params}, props : {c.props}]
                      /\ c.params # None

VARIABLES
  systemLock,  \* holder of the process-wide _systemLock
  pc,          \* where each thread is in its call
  call,        \* the call a thread is making
  target,      \* the session it is made on
  answer,      \* what the call returned: status and, where copied back, data
  mayProduce,  \* the producer semaphore of each buffer
  mayConsume,  \* the consumer semaphore
  admin,       \* the administrative part of each buffer
  payload,     \* the sample data in each buffer
  worker,      \* the server's thread of each buffer
  secure       \* what the CDM last put in each session's secure video memory

vars == <<systemLock, pc, call, target, answer, mayProduce, mayConsume, admin,
          payload, worker, secure>>

clientVars == <<systemLock, pc, call, target, answer>>

IsFps(c) == c.kind \in {"audio", "svp", "other"}

\* FPS calls are made on FPS sessions and the others on the rest.
Fits(c, s) == IsFps(c) <=> s \in FpsSessions

Encrypted(t) == [of |-> t, with |-> None]
Clear(t, seen) == [of |-> t, with |-> seen]

Init ==
  /\ systemLock = None
  /\ pc = [t \in Threads |-> "idle"]
  /\ call = [t \in Threads |-> None]
  /\ target = [t \in Threads |-> None]
  /\ answer = [t \in Threads |-> None]
  /\ mayProduce = [s \in Sessions |-> TRUE]
  /\ mayConsume = [s \in Sessions |-> FALSE]
  /\ admin = [s \in Sessions |-> [iv |-> None, key |-> None, samples |-> None,
                                  props |-> None, fps |-> None, status |-> 0]]
  /\ payload = [s \in Sessions |-> None]
  /\ worker = [s \in Sessions |-> "waiting"]
  /\ secure = [s \in Sessions |-> None]

-----------------------------------------------------------------------------
(* The client *)

Start(t, c, s) ==
  /\ pc[t] = "idle"
  /\ Fits(c, s)
  /\ call' = [call EXCEPT ![t] = c]
  /\ target' = [target EXCEPT ![t] = s]
  /\ pc' = [pc EXCEPT ![t] = "entering"]
  /\ UNCHANGED <<systemLock, answer, mayProduce, mayConsume, admin, payload, worker, secure>>

\* _systemLock.Lock()
Lock(t) ==
  /\ pc[t] = "entering"
  /\ systemLock = None
  /\ systemLock' = t
  /\ pc' = [pc EXCEPT ![t] = "locked"]
  /\ UNCHANGED <<call, target, answer, mayProduce, mayConsume, admin, payload, worker, secure>>

\* Mutant: a call that waits too long takes its sample back and sends it again.
RequestProduce_Resends(t) ==
  \/ /\ pc[t] \in {"locked", "sent"}
     /\ mayProduce[target[t]]
     /\ mayProduce' = [mayProduce EXCEPT ![target[t]] = FALSE]
     /\ pc' = [pc EXCEPT ![t] = IF @ = "locked" THEN "granted" ELSE "ready"]
     /\ UNCHANGED <<systemLock, call, target, answer, mayConsume, admin, payload, worker, secure>>
  \/ /\ pc[t] = "sent"
     /\ mayConsume[target[t]]
     /\ mayConsume' = [mayConsume EXCEPT ![target[t]] = FALSE]
     /\ pc' = [pc EXCEPT ![t] = "granted"]
     /\ UNCHANGED <<systemLock, call, target, answer, mayProduce, admin, payload, worker, secure>>

\* RequestProduce(infinite), the first time for the buffer and the second time
\* for the answer: it returns when the producer semaphore can be taken.
RequestProduce(t) ==
  /\ pc[t] \in {"locked", "sent"}
  /\ mayProduce[target[t]]
  /\ mayProduce' = [mayProduce EXCEPT ![target[t]] = FALSE]
  /\ pc' = [pc EXCEPT ![t] = IF @ = "locked" THEN "granted" ELSE "ready"]
  /\ UNCHANGED <<systemLock, call, target, answer, mayConsume, admin, payload, worker, secure>>

\* The fields a call writes; it leaves the others as the last call left them.
\* Null stream properties are not written.
Filled(a, c) ==
  CASE c.kind = "single" ->
         [a EXCEPT !.iv = c.params, !.key = c.params,
                   !.props = IF c.props = None THEN @ ELSE c.props]
    [] c.kind = "multi" ->
         [a EXCEPT !.key = c.params, !.samples = c.params,
                   !.props = IF c.props = None THEN @ ELSE c.props]
    [] OTHER -> [a EXCEPT !.fps = [ids |-> c.params, content |-> c.kind]]

\* The parameters and the sample are written and the server is woken.
Produce(t) ==
  /\ pc[t] = "granted"
  /\ LET s == target[t] IN
       /\ admin' = [admin EXCEPT ![s] = Filled(@, call[t])]
       /\ payload' = [payload EXCEPT ![s] = Encrypted(t)]
       /\ mayConsume' = [mayConsume EXCEPT ![s] = TRUE]
  /\ pc' = [pc EXCEPT ![t] = "sent"]
  /\ UNCHANGED <<systemLock, call, target, answer, mayProduce, worker, secure>>

\* The payload is read back (of an FPS call only audio), the status too, and
\* Consumed() makes the buffer producible again.
Collect(t) ==
  /\ pc[t] = "ready"
  /\ LET s == target[t] IN
       /\ answer' = [answer EXCEPT ![t] =
            [status |-> admin[s].status,
             data |-> IF call[t].kind \in {"svp", "other"} THEN Encrypted(t)
                      ELSE payload[s]]]
       /\ mayProduce' = [mayProduce EXCEPT ![s] = TRUE]
  /\ pc' = [pc EXCEPT ![t] = "tidy"]
  /\ UNCHANGED <<systemLock, call, target, mayConsume, admin, payload, worker, secure>>

\* Mutant: the number of samples is not reset.
Leave_KeepsSamples(t) ==
  /\ pc[t] = "tidy"
  /\ systemLock' = None
  /\ pc' = [pc EXCEPT ![t] = "done"]
  /\ UNCHANGED <<call, target, answer, mayProduce, mayConsume, admin, payload, worker, secure>>

\* DecryptMulti resets the number of samples; _systemLock.Unlock().
Leave(t) ==
  /\ pc[t] = "tidy"
  /\ admin' = IF call[t].kind = "multi"
              THEN [admin EXCEPT ![target[t]].samples = None] ELSE admin
  /\ systemLock' = None
  /\ pc' = [pc EXCEPT ![t] = "done"]
  /\ UNCHANGED <<call, target, answer, mayProduce, mayConsume, payload, worker, secure>>

\* The caller has its answer.
Return(t) ==
  /\ pc[t] = "done"
  /\ pc' = [pc EXCEPT ![t] = "idle"]
  /\ call' = [call EXCEPT ![t] = None]
  /\ target' = [target EXCEPT ![t] = None]
  /\ answer' = [answer EXCEPT ![t] = None]
  /\ UNCHANGED <<systemLock, mayProduce, mayConsume, admin, payload, worker, secure>>

-----------------------------------------------------------------------------
(* The server *)

\* Mutant: the worker calls Consumed() before it uses the buffer.
RequestConsume_ConsumedFirst(s) ==
  /\ worker[s] = "waiting"
  /\ mayConsume[s]
  /\ mayConsume' = [mayConsume EXCEPT ![s] = FALSE]
  /\ mayProduce' = [mayProduce EXCEPT ![s] = TRUE]
  /\ worker' = [worker EXCEPT ![s] = "decrypting"]
  /\ UNCHANGED <<clientVars, admin, payload, secure>>

\* RequestConsume(infinite) returns in the worker.
RequestConsume(s) ==
  /\ worker[s] = "waiting"
  /\ mayConsume[s]
  /\ mayConsume' = [mayConsume EXCEPT ![s] = FALSE]
  /\ worker' = [worker EXCEPT ![s] = "decrypting"]
  /\ UNCHANGED <<clientVars, mayProduce, admin, payload, secure>>

\* What the worker hands to the CDM, read from the administrative part: the
\* FPS ids, or all samples if any are announced, or the single sample.
Seen(s) ==
  LET a == admin[s] IN
  IF s \in FpsSessions THEN a.fps
  ELSE IF a.samples # None THEN [samples |-> a.samples, props |-> a.props]
  ELSE [iv |-> a.iv, key |-> a.key, props |-> a.props]

\* DecryptMulti is not available in every CDM; FPS audio needs a scratch buffer.
CannotDecrypt(s) == s \notin FpsSessions /\ admin[s].samples # None /\ s \notin BatchSessions

\* Mutant: secure video is decrypted in the shared buffer, like audio.
Answer_NoSecureMemory(s, status) ==
  /\ worker[s] = "decrypting"
  /\ CannotDecrypt(s) => status # 0
  /\ payload' = IF status = 0 THEN [payload EXCEPT ![s] = Clear(payload[s].of, Seen(s))] ELSE payload
  /\ admin' = [admin EXCEPT ![s].status = status]
  /\ mayProduce' = [mayProduce EXCEPT ![s] = TRUE]
  /\ worker' = [worker EXCEPT ![s] = "waiting"]
  /\ UNCHANGED <<clientVars, mayConsume, secure>>

\* The CDM was called, or not: on success the clear data replaces the payload
\* (FPS: only of audio; video goes to secure memory and anything else nowhere),
\* on failure it stays.  Then Status(cr) and Consumed().
Answer(s, status) ==
  /\ worker[s] = "decrypting"
  /\ CannotDecrypt(s) => status # 0
  /\ LET clear == Clear(payload[s].of, Seen(s))
         kept == s \in FpsSessions /\ admin[s].fps.content # "audio"
     IN /\ payload' = IF status = 0 /\ ~kept THEN [payload EXCEPT ![s] = clear] ELSE payload
        /\ secure' = IF status = 0 /\ kept /\ admin[s].fps.content = "svp"
                     THEN [secure EXCEPT ![s] = clear] ELSE secure
  /\ admin' = [admin EXCEPT ![s].status = status]
  /\ mayProduce' = [mayProduce EXCEPT ![s] = TRUE]
  /\ worker' = [worker EXCEPT ![s] = "waiting"]
  /\ UNCHANGED <<clientVars, mayConsume>>

-----------------------------------------------------------------------------
ClientStep(t) == Lock(t) \/ RequestProduce(t) \/ Produce(t) \/ Collect(t) \/ Leave(t) \/ Return(t)

WorkerStep(s) == RequestConsume(s) \/ \E status \in {0, 1} : Answer(s, status)

Next ==
  \/ \E t \in Threads : \/ \E c \in Calls, s \in Sessions : Start(t, c, s)
                        \/ ClientStep(t)
  \/ \E s \in Sessions : WorkerStep(s)

Spec == Init /\ [][Next]_vars

(* Threads that can run do; a thread that keeps finding _systemLock free is
   not denied it for ever; the CDM returns from Decrypt. *)
Fairness ==
  /\ \A t \in Threads : SF_vars(Lock(t)) /\ WF_vars(ClientStep(t))
  /\ \A s \in Sessions : WF_vars(WorkerStep(s))

FairSpec == Spec /\ Fairness
-----------------------------------------------------------------------------
(* Properties *)

\* The stream properties in force on a session after a call, p being those before:
\* a null pointer leaves them, and FPS has none.
InForce(c, p) == IF IsFps(c) \/ c.props = None THEN p ELSE c.props

\* The parameters the caller means the CDM to use for a call, with the properties
\* p in force.
Wanted(c, p) ==
  CASE c.kind = "single" -> [iv |-> c.params, key |-> c.params, props |-> p]
    [] c.kind = "multi" -> [samples |-> c.params, props |-> p]
    [] OTHER -> [ids |-> c.params, content |-> c.kind]

\* What a successful call leaves in the caller's sample: FPS video stays behind.
Result(t, c, p) ==
  IF c.kind \in {"svp", "other"} THEN Encrypted(t) ELSE Clear(t, Wanted(c, p))

Stages == {"idle", "entering", "locked", "granted", "sent", "ready", "tidy", "done"}

Params == {c.params : c \in Calls}
Props == {c.props : c \in Calls}

\* The administrative part of a buffer.
AdminTypes ==
  [iv : Params \cup {None}, key : Params \cup {None}, samples : Params \cup {None},
   props : Props \cup {None},
   fps : [ids : Params, content : {"audio", "svp", "other"}] \cup {None},
   status : {0, 1}]

TypeOK ==
  /\ systemLock \in Threads \cup {None}
  /\ pc \in [Threads -> Stages]
  /\ call \in [Threads -> Calls \cup {None}]
  /\ target \in [Threads -> Sessions \cup {None}]
  /\ \A t \in Threads : pc[t] # "idle" => call[t] \in Calls /\ target[t] \in Sessions
  /\ mayProduce \in [Sessions -> BOOLEAN]
  /\ mayConsume \in [Sessions -> BOOLEAN]
  /\ worker \in [Sessions -> {"waiting", "decrypting"}]
  /\ admin \in [Sessions -> AdminTypes]

\* Threads that have a buffer between taking its producer semaphore and giving it
\* up, either to the worker (Produced) or for good (Consumed).
ClientsIn(s) == {t \in Threads : target[t] = s /\ pc[t] \in {"granted", "ready"}}

\* The turns exclude each other: no buffer is written or read by two client
\* threads, or by a client thread and the worker, at the same time, and no
\* semaphore is up while somebody is inside.  The code relies on "the Audio and
\* the Video streams are fed from the same process, so they will use the same
\* critial section" and on the order of the two semaphores.
TurnsExclude ==
  \A s \in Sessions :
    LET inside == ClientsIn(s) \cup (IF worker[s] = "decrypting" THEN {None} ELSE {})
    IN /\ \A x, y \in inside : x = y
       /\ inside # {} => ~mayProduce[s] /\ ~mayConsume[s]
       /\ ~(mayProduce[s] /\ mayConsume[s])

\* A call that returns 0 got its own sample decrypted with its own parameters, one
\* that fails gets its sample back unchanged: nothing of another thread's call or
\* of an earlier call on the session shows through.  Only a call with a null
\* pointer for its stream properties is decrypted with somebody else's; which, is
\* said by AtomicSpec.
OwnAnswer ==
  \A t \in Threads :
    pc[t] \in {"tidy", "done"} =>
      \E p \in Props \cup {None} :
        /\ p = InForce(call[t], p)
        /\ answer[t].data = IF answer[t].status = 0 THEN Result(t, call[t], p)
                            ELSE Encrypted(t)

\* A video sample of an FPS call that returns 0 is in secure memory, decrypted with
\* that call's ids, when the thread is about to leave: nobody overtook it.
SecureIsOwn ==
  \A t \in Threads :
    pc[t] = "tidy" /\ call[t].kind = "svp" /\ answer[t].status = 0 =>
      secure[target[t]] = Clear(t, Wanted(call[t], None))

\* Once _systemLock is free no buffer announces a number of samples: a single
\* sample is never taken for a batch because a DecryptMulti came before it.
NoStaleBatch ==
  systemLock = None => \A s \in Sessions : admin[s].samples = None

\* Seen by the callers, decryption is atomic, at the moment its parameters are
\* written: a call without stream properties is served with those the last call on
\* its session gave.  And every call returns, whatever other threads do.
Atomic == INSTANCE AtomicDecrypt WITH
  stage <- [t \in Threads |-> CASE pc[t] = "idle" -> "idle"
                                [] pc[t] \in {"entering", "locked", "granted"} -> "asked"
                                [] pc[t] \in {"sent", "ready"} -> "served"
                                [] OTHER -> "answered"],
  asked <- call, on <- target, reply <- answer,
  told <- [t \in Threads |-> IF pc[t] \in {"sent", "ready"} THEN admin[target[t]].props ELSE None],
  streams <- [s \in Sessions |-> admin[s].props],
  Unchanged <- Encrypted
AtomicSpec == Atomic!Spec
AtomicSafeSpec == Atomic!SafeSpec

=============================================================================

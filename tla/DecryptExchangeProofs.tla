----------------------- MODULE DecryptExchangeProofs -----------------------
(* Theorems of DecryptExchange for every set of threads, sessions and calls. *)
EXTENDS DecryptExchange, TLAPS

(***************************************************************************)
(* The inductive invariant.  LockHeld: a thread past Lock and not yet done  *)
(* holds _systemLock.  Tokens: the turn of a buffer is in one place.        *)
(* Batch: samples are announced only during a DecryptMulti.  Content: what  *)
(* is in the buffer while the worker or the client has to read it.          *)
(***************************************************************************)
Holds == {"locked", "granted", "sent", "ready", "tidy"}

\* t is between the two ends of its exchange over the buffer of s.
Engaged(t, s) == target[t] = s /\ pc[t] \in {"granted", "sent", "ready"}

LockHeld == \A t \in Threads : pc[t] \in Holds <=> systemLock = t

CallsFit == \A t \in Threads : pc[t] # "idle" => Fits(call[t], target[t])

Tokens ==
  \A s \in Sessions :
    /\ (\A t \in Threads : ~Engaged(t, s)) =>
         mayProduce[s] /\ ~mayConsume[s] /\ worker[s] = "waiting"
    /\ \A t \in Threads :
         /\ target[t] = s /\ pc[t] \in {"granted", "ready"} =>
              ~mayProduce[s] /\ ~mayConsume[s] /\ worker[s] = "waiting"
         /\ target[t] = s /\ pc[t] = "sent" =>
              \/ mayProduce[s] /\ ~mayConsume[s] /\ worker[s] = "waiting"
              \/ ~mayProduce[s] /\ mayConsume[s] /\ worker[s] = "waiting"
              \/ ~mayProduce[s] /\ ~mayConsume[s] /\ worker[s] = "decrypting"

Batch ==
  \A s \in Sessions :
    admin[s].samples # None =>
      \E t \in Threads : /\ target[t] = s /\ call[t].kind = "multi"
                         /\ pc[t] \in {"sent", "ready", "tidy"}

\* The worker has answered the exchange t is engaged in.
Answered(t) == pc[t] = "ready" \/ (pc[t] = "sent" /\ mayProduce[target[t]])

Content ==
  \A t \in Threads : pc[t] \in {"sent", "ready"} =>
    LET s == target[t]
        p == admin[s].props
    IN
    /\ p = InForce(call[t], p)
    /\ Seen(s) = Wanted(call[t], p)
    /\ ~Answered(t) => payload[s] = Encrypted(t)
    /\ Answered(t) =>
         /\ call[t].kind \notin {"svp", "other"} =>
              payload[s] = IF admin[s].status = 0 THEN Result(t, call[t], p) ELSE Encrypted(t)
         /\ call[t].kind = "svp" /\ admin[s].status = 0 =>
              secure[s] = Clear(t, Wanted(call[t], None))

\* payload, secure and answer have their domains.
Arrays ==
  /\ payload = [s \in Sessions |-> payload[s]]
  /\ secure = [s \in Sessions |-> secure[s]]
  /\ answer = [t \in Threads |-> answer[t]]

IInv == TypeOK /\ LockHeld /\ CallsFit /\ Tokens /\ Batch

-----------------------------------------------------------------------------
(* What the client writes to the administrative part. *)

\* A record of the administrative part is determined by its six fields.
LEMMA AdminIs ==
  ASSUME NEW a \in AdminTypes
  PROVE  a = [iv |-> a.iv, key |-> a.key, samples |-> a.samples,
              props |-> a.props, fps |-> a.fps, status |-> a.status]
BY DEF AdminTypes

\* Every call has a known kind, parameters, and properties or a null pointer.
LEMMA CallKinds ==
  ASSUME NEW c \in Calls
  PROVE  c.kind \in Kinds /\ c.params \in Params /\ c.props \in Props /\ c.params # None
BY ExchangeAssumption DEF Params, Props

\* Filling the administrative part keeps its type and the server's last status,
\* announces samples only for a batch, puts the call's stream properties in force
\* and leaves the FPS ids of an FPS call.
LEMMA FilledIs ==
  ASSUME NEW a \in AdminTypes, NEW c \in Calls
  PROVE  /\ Filled(a, c) \in AdminTypes
         /\ Filled(a, c).status = a.status
         /\ Filled(a, c).samples = IF c.kind = "multi" THEN c.params ELSE a.samples
         /\ Filled(a, c).props = InForce(c, a.props)
         /\ IsFps(c) => Filled(a, c).fps = [ids |-> c.params, content |-> c.kind]
<1>1. CASE c.kind = "single"
  <2>1. Filled(a, c) = [iv |-> c.params, key |-> c.params, samples |-> a.samples,
                        props |-> IF c.props = None THEN a.props ELSE c.props,
                        fps |-> a.fps, status |-> a.status]
    <3>1. Filled(a, c) = [a EXCEPT !.iv = c.params, !.key = c.params,
                            !.props = IF c.props = None THEN @ ELSE c.props]
      BY <1>1 DEF Filled
    <3>2. QED
      BY <3>1, AdminIs
  <2>2. QED
    BY <1>1, <2>1, CallKinds DEF AdminTypes, IsFps, InForce
<1>2. CASE c.kind = "multi"
  <2>1. Filled(a, c) = [iv |-> a.iv, key |-> c.params, samples |-> c.params,
                        props |-> IF c.props = None THEN a.props ELSE c.props,
                        fps |-> a.fps, status |-> a.status]
    <3>1. Filled(a, c) = [a EXCEPT !.key = c.params, !.samples = c.params,
                            !.props = IF c.props = None THEN @ ELSE c.props]
      BY <1>2 DEF Filled
    <3>2. QED
      BY <3>1, AdminIs
  <2>2. QED
    BY <1>2, <2>1, CallKinds DEF AdminTypes, IsFps, InForce
<1>3. CASE c.kind \in {"audio", "svp", "other"}
  <2>1. Filled(a, c) = [iv |-> a.iv, key |-> a.key, samples |-> a.samples, props |-> a.props,
                        fps |-> [ids |-> c.params, content |-> c.kind], status |-> a.status]
    <3>1. Filled(a, c) = [a EXCEPT !.fps = [ids |-> c.params, content |-> c.kind]]
      BY <1>3 DEF Filled
    <3>2. QED
      BY <3>1, AdminIs
  <2>2. [ids |-> c.params, content |-> c.kind] \in
          [ids : Params, content : {"audio", "svp", "other"}]
    BY <1>3, CallKinds
  <2>3. QED
    BY <1>3, <2>1, <2>2, CallKinds DEF AdminTypes, IsFps, InForce
<1>4. QED
  BY <1>1, <1>2, <1>3, CallKinds DEF Kinds

\* What Produce writes of the batch length and the stream properties.
LEMMA ProduceFills ==
  ASSUME TypeOK, NEW t \in Threads, Produce(t)
  PROVE  LET s == target[t] IN
         /\ call[t] \in Calls /\ s \in Sessions
         /\ admin'[s].samples = IF call[t].kind = "multi" THEN call[t].params ELSE admin[s].samples
         /\ admin'[s].props = InForce(call[t], admin[s].props)
<1> DEFINE s == target[t]
           c == call[t]
           a == admin[s]
<1>1. c \in Calls /\ s \in Sessions /\ a \in AdminTypes
  BY DEF Produce, TypeOK
<1>2. admin'[s] = Filled(a, c)
  BY <1>1 DEF Produce, TypeOK
<1> HIDE DEF s, c, a
<1>3. /\ Filled(a, c).samples = IF c.kind = "multi" THEN c.params ELSE a.samples
      /\ Filled(a, c).props = InForce(c, a.props)
  BY <1>1, FilledIs
<1>4. QED
  BY <1>1, <1>2, <1>3 DEF s, c, a

\* Resetting the samples, or writing the status, keeps the type.
LEMMA FieldSet ==
  ASSUME NEW a \in AdminTypes, NEW r \in {0, 1}
  PROVE  /\ [a EXCEPT !.samples = None] \in AdminTypes
         /\ [a EXCEPT !.status = r] \in AdminTypes
BY DEF AdminTypes

-----------------------------------------------------------------------------
\* No step of client or worker leaves the types.
LEMMA TypeStep ==
  ASSUME TypeOK, [Next]_vars
  PROVE  TypeOK'
<1> USE DEF TypeOK, Stages, clientVars
<1>1. ASSUME NEW t \in Threads, NEW c \in Calls, NEW s \in Sessions, Start(t, c, s)
      PROVE TypeOK'
  BY <1>1 DEF Start
<1>2. ASSUME NEW t \in Threads, Lock(t) PROVE TypeOK'
  BY <1>2 DEF Lock
<1>3. ASSUME NEW t \in Threads, RequestProduce(t) PROVE TypeOK'
  BY <1>3 DEF RequestProduce
<1>4. ASSUME NEW t \in Threads, Produce(t) PROVE TypeOK'
  BY <1>4, FilledIs DEF Produce
<1>5. ASSUME NEW t \in Threads, Collect(t) PROVE TypeOK'
  BY <1>5 DEF Collect
<1>6. ASSUME NEW t \in Threads, Leave(t) PROVE TypeOK'
  BY <1>6, FieldSet DEF Leave
<1>7. ASSUME NEW t \in Threads, Return(t) PROVE TypeOK'
  BY <1>7 DEF Return
<1>8. ASSUME NEW s \in Sessions, RequestConsume(s) PROVE TypeOK'
  BY <1>8 DEF RequestConsume
<1>9. ASSUME NEW s \in Sessions, NEW r \in {0, 1}, Answer(s, r) PROVE TypeOK'
  BY <1>9, FieldSet DEF Answer
<1>10. CASE UNCHANGED vars
  BY <1>10 DEF vars
<1>11. QED
  BY <1>1, <1>2, <1>3, <1>4, <1>5, <1>6, <1>7, <1>8, <1>9, <1>10
  DEF Next, ClientStep, WorkerStep

\* Every variable keeps its type, in particular the fields of the shared buffer.
THEOREM TypeCorrect == Spec => []TypeOK
<1>1. Init => TypeOK
  BY DEF Init, TypeOK, Stages, AdminTypes
<1>2. TypeOK /\ [Next]_vars => TypeOK'
  BY TypeStep
<1>3. QED
  BY <1>1, <1>2, PTL DEF Spec

-----------------------------------------------------------------------------
(* The inductive invariant, part by part. *)

\* _systemLock belongs to the one thread that is between Lock and Leave.
LEMMA LockStep ==
  ASSUME TypeOK, LockHeld, [Next]_vars
  PROVE  LockHeld'
<1> USE DEF TypeOK, LockHeld, Holds, Stages, clientVars
<1>1. ASSUME NEW t \in Threads, NEW c \in Calls, NEW s \in Sessions, Start(t, c, s)
      PROVE LockHeld'
  BY <1>1 DEF Start
<1>2. ASSUME NEW t \in Threads, Lock(t)
      PROVE LockHeld'
  BY <1>2, ExchangeAssumption DEF Lock
<1>3. ASSUME NEW t \in Threads, RequestProduce(t)
      PROVE LockHeld'
  BY <1>3 DEF RequestProduce
<1>4. ASSUME NEW t \in Threads, Produce(t)
      PROVE LockHeld'
  BY <1>4 DEF Produce
<1>5. ASSUME NEW t \in Threads, Collect(t)
      PROVE LockHeld'
  BY <1>5 DEF Collect
<1>6. ASSUME NEW t \in Threads, Leave(t)
      PROVE LockHeld'
  BY <1>6, ExchangeAssumption DEF Leave
<1>7. ASSUME NEW t \in Threads, Return(t)
      PROVE LockHeld'
  BY <1>7 DEF Return
<1>8. ASSUME NEW s \in Sessions, RequestConsume(s)
      PROVE LockHeld'
  BY <1>8 DEF RequestConsume
<1>9. ASSUME NEW s \in Sessions, NEW r \in {0, 1}, Answer(s, r)
      PROVE LockHeld'
  BY <1>9 DEF Answer
<1>10. CASE UNCHANGED vars
  BY <1>10 DEF vars
<1>11. QED
  BY <1>1, <1>2, <1>3, <1>4, <1>5, <1>6, <1>7, <1>8, <1>9, <1>10
  DEF Next, ClientStep, WorkerStep

\* A call stays on the kind of session it was made for.
LEMMA FitStep ==
  ASSUME TypeOK, CallsFit, [Next]_vars
  PROVE  CallsFit'
<1> USE DEF TypeOK, CallsFit, Fits, IsFps, Stages, clientVars
<1>1. ASSUME NEW t \in Threads, NEW c \in Calls, NEW s \in Sessions, Start(t, c, s)
      PROVE CallsFit'
  BY <1>1 DEF Start
<1>2. ASSUME NEW t \in Threads, Lock(t)
      PROVE CallsFit'
  BY <1>2 DEF Lock
<1>3. ASSUME NEW t \in Threads, RequestProduce(t)
      PROVE CallsFit'
  BY <1>3 DEF RequestProduce
<1>4. ASSUME NEW t \in Threads, Produce(t)
      PROVE CallsFit'
  BY <1>4 DEF Produce
<1>5. ASSUME NEW t \in Threads, Collect(t)
      PROVE CallsFit'
  BY <1>5 DEF Collect
<1>6. ASSUME NEW t \in Threads, Leave(t)
      PROVE CallsFit'
  BY <1>6 DEF Leave
<1>7. ASSUME NEW t \in Threads, Return(t)
      PROVE CallsFit'
  BY <1>7 DEF Return
<1>8. ASSUME NEW s \in Sessions, RequestConsume(s)
      PROVE CallsFit'
  BY <1>8 DEF RequestConsume
<1>9. ASSUME NEW s \in Sessions, NEW r \in {0, 1}, Answer(s, r)
      PROVE CallsFit'
  BY <1>9 DEF Answer
<1>10. CASE UNCHANGED vars
  BY <1>10 DEF vars
<1>11. QED
  BY <1>1, <1>2, <1>3, <1>4, <1>5, <1>6, <1>7, <1>8, <1>9, <1>10
  DEF Next, ClientStep, WorkerStep

\* Nobody gives a buffer's turn away twice, nobody takes it without its semaphore.
LEMMA TokensStep ==
  ASSUME TypeOK, LockHeld, Tokens, [Next]_vars
  PROVE  Tokens'
<1> USE DEF TypeOK, LockHeld, Holds, Tokens, Engaged, Stages, clientVars
<1>1. ASSUME NEW t \in Threads, NEW c \in Calls, NEW s \in Sessions, Start(t, c, s)
      PROVE Tokens'
  BY <1>1 DEF Start
<1>2. ASSUME NEW t \in Threads, Lock(t)
      PROVE Tokens'
  BY <1>2 DEF Lock
<1>3. ASSUME NEW t \in Threads, RequestProduce(t)
      PROVE Tokens'
  BY <1>3 DEF RequestProduce
<1>4. ASSUME NEW t \in Threads, Produce(t)
      PROVE Tokens'
  BY <1>4 DEF Produce
<1>5. ASSUME NEW t \in Threads, Collect(t)
      PROVE Tokens'
  BY <1>5 DEF Collect
<1>6. ASSUME NEW t \in Threads, Leave(t)
      PROVE Tokens'
  BY <1>6 DEF Leave
<1>7. ASSUME NEW t \in Threads, Return(t)
      PROVE Tokens'
  BY <1>7 DEF Return
<1>8. ASSUME NEW s \in Sessions, RequestConsume(s)
      PROVE Tokens'
  BY <1>8 DEF RequestConsume
<1>9. ASSUME NEW s \in Sessions, NEW r \in {0, 1}, Answer(s, r)
      PROVE Tokens'
  BY <1>9 DEF Answer
<1>10. CASE UNCHANGED vars
  BY <1>10 DEF vars
<1>11. QED
  BY <1>1, <1>2, <1>3, <1>4, <1>5, <1>6, <1>7, <1>8, <1>9, <1>10
  DEF Next, ClientStep, WorkerStep

\* Only a DecryptMulti announces samples, and it resets them before it leaves.
LEMMA BatchStep ==
  ASSUME TypeOK, Batch, [Next]_vars
  PROVE  Batch'
<1> USE DEF TypeOK, Batch, Stages, clientVars
<1>1. ASSUME NEW t \in Threads, NEW c \in Calls, NEW s \in Sessions, Start(t, c, s)
      PROVE Batch'
  BY <1>1 DEF Start
<1>2. ASSUME NEW t \in Threads, Lock(t)
      PROVE Batch'
  BY <1>2 DEF Lock
<1>3. ASSUME NEW t \in Threads, RequestProduce(t)
      PROVE Batch'
  BY <1>3 DEF RequestProduce
<1>4. ASSUME NEW t \in Threads, Produce(t)
      PROVE Batch'
  <2>1. /\ call[t] \in Calls /\ target[t] \in Sessions
        /\ admin'[target[t]].samples = IF call[t].kind = "multi" THEN call[t].params
                                       ELSE admin[target[t]].samples
    BY <1>4, ProduceFills
  <2>2. QED
    BY <1>4, <2>1 DEF Produce
<1>5. ASSUME NEW t \in Threads, Collect(t)
      PROVE Batch'
  BY <1>5 DEF Collect
<1>6. ASSUME NEW t \in Threads, Leave(t)
      PROVE Batch'
  BY <1>6 DEF Leave
<1>7. ASSUME NEW t \in Threads, Return(t)
      PROVE Batch'
  BY <1>7 DEF Return
<1>8. ASSUME NEW s \in Sessions, RequestConsume(s)
      PROVE Batch'
  BY <1>8 DEF RequestConsume
<1>9. ASSUME NEW s \in Sessions, NEW r \in {0, 1}, Answer(s, r)
      PROVE Batch'
  BY <1>9 DEF Answer
<1>10. CASE UNCHANGED vars
  BY <1>10 DEF vars
<1>11. QED
  BY <1>1, <1>2, <1>3, <1>4, <1>5, <1>6, <1>7, <1>8, <1>9, <1>10
  DEF Next, ClientStep, WorkerStep

\* What the CDM is told is what the caller wants, once the call has written it,
\* with the stream properties that are then in force.
LEMMA SeenIsWanted ==
  ASSUME TypeOK, LockHeld, CallsFit, Batch, NEW t \in Threads, Produce(t)
  PROVE  LET p == admin'[target[t]].props
         IN  Seen(target[t])' = Wanted(call[t], p) /\ p = InForce(call[t], p)
<1> DEFINE s == target[t]
           c == call[t]
           a == admin[s]
           f == Filled(a, c)
<1>1. c \in Calls /\ s \in Sessions /\ a \in AdminTypes
  BY DEF Produce, TypeOK
<1>2. admin'[s] = f /\ target' = target
  BY <1>1 DEF Produce, TypeOK
<1>3. a.samples = None
  <2>1. ASSUME NEW u \in Threads, pc[u] \in {"sent", "ready", "tidy"} PROVE FALSE
    BY <2>1 DEF Produce, LockHeld, Holds
  <2>2. QED
    BY <1>1, <2>1 DEF Batch
<1>4. (s \in FpsSessions) <=> IsFps(c)
  BY <1>1 DEF CallsFit, Fits, Produce
<1>5. Seen(s)' = IF s \in FpsSessions THEN f.fps
                 ELSE IF f.samples # None THEN [samples |-> f.samples, props |-> f.props]
                 ELSE [iv |-> f.iv, key |-> f.key, props |-> f.props]
  BY <1>2 DEF Seen
<1>6. /\ f.samples = IF c.kind = "multi" THEN c.params ELSE a.samples
      /\ f.props = InForce(c, a.props)
      /\ IsFps(c) => f.fps = [ids |-> c.params, content |-> c.kind]
  BY <1>1, FilledIs
<1>7. c.kind = "single" => f.iv = c.params /\ f.key = c.params
  BY <1>1 DEF Filled, AdminTypes
<1> HIDE DEF s, c, a, f
<1>8. Seen(s)' = Wanted(c, f.props)
  <2>1. CASE c.kind = "single"
    BY <1>3, <1>4, <1>5, <1>6, <1>7, <2>1 DEF IsFps, Wanted
  <2>2. CASE c.kind = "multi"
    BY <1>1, <1>4, <1>5, <1>6, <2>2, CallKinds DEF IsFps, Wanted
  <2>3. CASE IsFps(c)
    BY <1>4, <1>5, <1>6, <2>3 DEF IsFps, Wanted
  <2>4. QED
    BY <1>1, <2>1, <2>2, <2>3, CallKinds DEF Kinds, IsFps
<1>9. f.props = InForce(c, f.props)
  BY <1>6 DEF InForce
<1>10. QED
  BY <1>2, <1>8, <1>9 DEF s, c

\* The thread whose exchange the worker is serving, and what it serves it with.
LEMMA WorkerServes ==
  ASSUME TypeOK, LockHeld, CallsFit, Tokens, Content,
         NEW s \in Sessions, worker[s] = "decrypting"
  PROVE  \E t \in Threads :
           /\ target[t] = s /\ pc[t] = "sent" /\ ~Answered(t)
           /\ systemLock = t
           /\ call[t] \in Calls /\ Fits(call[t], s)
           /\ payload[s] = Encrypted(t)
           /\ Seen(s) = Wanted(call[t], admin[s].props)
           /\ admin[s].props = InForce(call[t], admin[s].props)
<1>1. PICK t \in Threads : Engaged(t, s)
  BY DEF Tokens
<1>2. target[t] = s /\ pc[t] = "sent" /\ ~mayProduce[s]
  BY <1>1 DEF Tokens, Engaged
<1>3. QED
  BY <1>2 DEF Content, Answered, TypeOK, CallsFit, LockHeld, Holds

\* From Produce to Collect the buffer holds the caller's sample and parameters, and
\* after Answer what the CDM made of them.
LEMMA ContentStep ==
  ASSUME TypeOK, Arrays, LockHeld, CallsFit, Tokens, Batch, Content, [Next]_vars
  PROVE  Content'
<1>1. ASSUME NEW t \in Threads, NEW c \in Calls, NEW s \in Sessions, Start(t, c, s)
      PROVE Content'
  BY <1>1 DEF Start, TypeOK, Content, Answered, Seen
<1>2. ASSUME NEW t \in Threads, Lock(t)
      PROVE Content'
  BY <1>2 DEF Lock, TypeOK, Content, Answered, Seen
<1>3. ASSUME NEW t \in Threads, RequestProduce(t)
      PROVE Content'
  BY <1>3 DEF RequestProduce, TypeOK, Content, Answered, Seen, LockHeld, Holds
<1>4. ASSUME NEW t \in Threads, Produce(t)
      PROVE Content'
  <2>1. \A u \in Threads : pc'[u] \in {"sent", "ready"} => u = t
    BY <1>4 DEF Produce, TypeOK, LockHeld, Holds
  <2>2. target[t] \in Sessions /\ ~mayProduce'[target[t]] /\ pc'[t] = "sent"
    BY <1>4 DEF Produce, TypeOK, Tokens
  <2>3. payload'[target[t]] = Encrypted(t) /\ target' = target /\ call' = call
    BY <1>4, <2>2 DEF Arrays, Produce, TypeOK
  <2>4. /\ Seen(target[t])' = Wanted(call[t], admin'[target[t]].props)
        /\ admin'[target[t]].props = InForce(call[t], admin'[target[t]].props)
    BY <1>4, SeenIsWanted
  <2>5. QED
    BY <2>1, <2>2, <2>3, <2>4 DEF Content, Answered
<1>5. ASSUME NEW t \in Threads, Collect(t)
      PROVE Content'
  <2>1. \A u \in Threads : pc'[u] \notin {"sent", "ready"}
    BY <1>5 DEF Collect, TypeOK, LockHeld, Holds
  <2>2. QED
    BY <2>1 DEF Content
<1>6. ASSUME NEW t \in Threads, Leave(t)
      PROVE Content'
  <2>1. \A u \in Threads : pc'[u] \notin {"sent", "ready"}
    BY <1>6 DEF Leave, TypeOK, LockHeld, Holds
  <2>2. QED
    BY <2>1 DEF Content
<1>7. ASSUME NEW t \in Threads, Return(t)
      PROVE Content'
  BY <1>7 DEF Return, TypeOK, Content, Answered, Seen
<1>8. ASSUME NEW s \in Sessions, RequestConsume(s)
      PROVE Content'
  BY <1>8 DEF RequestConsume, clientVars, TypeOK, Content, Answered, Seen
<1>9. ASSUME NEW s \in Sessions, NEW r \in {0, 1}, Answer(s, r)
      PROVE Content'
  <2>1. worker[s] = "decrypting"
    BY <1>9 DEF Answer
  <2>2. PICK t \in Threads :
           /\ target[t] = s /\ pc[t] = "sent" /\ ~Answered(t)
           /\ systemLock = t
           /\ call[t] \in Calls /\ Fits(call[t], s)
           /\ payload[s] = Encrypted(t)
           /\ Seen(s) = Wanted(call[t], admin[s].props)
           /\ admin[s].props = InForce(call[t], admin[s].props)
    BY <2>1, WorkerServes
  <2>3. \A u \in Threads : pc'[u] \in {"sent", "ready"} => u = t
    BY <1>9, <2>2 DEF Answer, clientVars, LockHeld, Holds
  <2>4. /\ pc' = pc /\ call' = call /\ target' = target
        /\ Answered(t)'
        /\ admin'[s] = [admin[s] EXCEPT !.status = r]
    BY <1>9, <2>2 DEF Answer, clientVars, TypeOK, Answered
  <2>5. /\ admin'[s].status = r /\ admin'[s].props = admin[s].props
        /\ Seen(s)' = Seen(s)
    BY <2>2, <2>4 DEF Seen, TypeOK, AdminTypes
  <2>6. CASE s \in FpsSessions
    <3>1. /\ IsFps(call[t])
          /\ admin[s].fps = [ids |-> call[t].params, content |-> call[t].kind]
          /\ Wanted(call[t], admin[s].props) = Wanted(call[t], None)
      BY <2>2, <2>6 DEF Fits, Seen, Wanted, IsFps
    <3>2. call[t].kind # "svp" /\ call[t].kind # "other" =>
            payload'[s] = IF r = 0 THEN Clear(t, Wanted(call[t], admin[s].props)) ELSE Encrypted(t)
      BY <1>9, <2>2, <2>6, <3>1 DEF Arrays, Answer, TypeOK, Encrypted, IsFps
    <3>3. call[t].kind = "svp" /\ r = 0 => secure'[s] = Clear(t, Wanted(call[t], None))
      BY <1>9, <2>2, <2>6, <3>1 DEF Arrays, Answer, Encrypted
    <3>4. QED
      BY <2>2, <2>3, <2>4, <2>5, <3>2, <3>3 DEF Content, Result
  <2>7. CASE s \notin FpsSessions
    <3>1. ~IsFps(call[t])
      BY <2>2, <2>7 DEF Fits
    <3>2. payload'[s] = IF r = 0 THEN Clear(t, Wanted(call[t], admin[s].props)) ELSE Encrypted(t)
      BY <1>9, <2>2, <2>7 DEF Arrays, Answer, TypeOK, Encrypted
    <3>3. QED
      BY <2>2, <2>3, <2>4, <2>5, <3>1, <3>2 DEF Content, Result, IsFps
  <2>8. QED
    BY <2>6, <2>7
<1>10. CASE UNCHANGED vars
  BY <1>10 DEF vars, Content, Answered, Seen
<1>11. QED
  BY <1>1, <1>2, <1>3, <1>4, <1>5, <1>6, <1>7, <1>8, <1>9, <1>10
  DEF Next, ClientStep, WorkerStep

-----------------------------------------------------------------------------
(* What follows from the invariant. *)

\* The strengthening is inductive; the theorems below draw on its parts.
THEOREM IInvHolds == Spec => []IInv
<1>1. Init => IInv
  BY ExchangeAssumption DEF Init, IInv, TypeOK, Stages, AdminTypes, LockHeld, Holds, CallsFit, Tokens,
     Engaged, Batch
<1>2. IInv /\ [Next]_vars => IInv'
  BY TypeStep, LockStep, FitStep, TokensStep, BatchStep DEF IInv
<1>3. QED
  BY <1>1, <1>2, PTL DEF Spec

\* A buffer is never in two hands, client's or worker's, and its semaphores are
\* down while it is in one (TurnsExclude), whatever threads and sessions there are.
THEOREM TurnsAlwaysExclude == Spec => []TurnsExclude
<1>1. IInv => TurnsExclude
  <2> SUFFICES ASSUME IInv, NEW s \in Sessions
               PROVE  LET inside == ClientsIn(s) \cup (IF worker[s] = "decrypting" THEN {None} ELSE {})
                      IN /\ \A x, y \in inside : x = y
                         /\ inside # {} => ~mayProduce[s] /\ ~mayConsume[s]
                         /\ ~(mayProduce[s] /\ mayConsume[s])
    BY DEF TurnsExclude
  <2>1. \A x, y \in ClientsIn(s) : x = y
    BY DEF IInv, LockHeld, Holds, ClientsIn
  <2>2. ClientsIn(s) # {} => /\ worker[s] = "waiting"
                             /\ ~mayProduce[s] /\ ~mayConsume[s]
    BY DEF IInv, Tokens, ClientsIn
  <2>3. worker[s] = "decrypting" => ~mayProduce[s] /\ ~mayConsume[s]
    BY DEF IInv, Tokens, Engaged
  <2>4. ~(mayProduce[s] /\ mayConsume[s])
    BY DEF IInv, Tokens, Engaged
  <2>5. QED
    BY <2>1, <2>2, <2>3, <2>4
<1>2. QED
  BY <1>1, IInvHolds, PTL

\* No batch length outlives its DecryptMulti (NoStaleBatch).
THEOREM NoBatchIsStale == Spec => []NoStaleBatch
<1>1. IInv => NoStaleBatch
  BY ExchangeAssumption DEF IInv, NoStaleBatch, Batch, LockHeld, Holds
<1>2. QED
  BY <1>1, IInvHolds, PTL

-----------------------------------------------------------------------------
(* Callers get the answer to their own call. *)

\* Collect takes over what Content says of the buffer; nothing touches it afterwards.
LEMMA OwnStep ==
  ASSUME IInv, Arrays, Content, OwnAnswer, SecureIsOwn, [Next]_vars
  PROVE  OwnAnswer' /\ SecureIsOwn'
<1> USE DEF IInv, TypeOK, OwnAnswer, SecureIsOwn
<1>1. ASSUME NEW t \in Threads, NEW c \in Calls, NEW s \in Sessions, Start(t, c, s)
      PROVE OwnAnswer' /\ SecureIsOwn'
  BY <1>1 DEF Start
<1>2. ASSUME NEW t \in Threads, Lock(t)
      PROVE OwnAnswer' /\ SecureIsOwn'
  BY <1>2 DEF Lock
<1>3. ASSUME NEW t \in Threads, RequestProduce(t)
      PROVE OwnAnswer' /\ SecureIsOwn'
  BY <1>3 DEF RequestProduce
<1>4. ASSUME NEW t \in Threads, Produce(t)
      PROVE OwnAnswer' /\ SecureIsOwn'
  BY <1>4 DEF Produce
<1>5. ASSUME NEW t \in Threads, Collect(t)
      PROVE OwnAnswer' /\ SecureIsOwn'
  <2> DEFINE s == target[t]
  <2> DEFINE p == admin[s].props
  <2>1. /\ p = InForce(call[t], p) /\ p \in Props \cup {None}
        /\ call[t].kind \notin {"svp", "other"} =>
             payload[s] = IF admin[s].status = 0 THEN Result(t, call[t], p) ELSE Encrypted(t)
        /\ call[t].kind = "svp" /\ admin[s].status = 0 =>
             secure[s] = Clear(t, Wanted(call[t], None))
    BY <1>5 DEF Collect, Content, Answered, AdminTypes
  <2>2. answer'[t] = [status |-> admin[s].status,
                      data |-> IF call[t].kind \in {"svp", "other"} THEN Encrypted(t)
                               ELSE payload[s]]
    BY <1>5 DEF Collect, Arrays
  <2>3. answer'[t].data = IF answer'[t].status = 0 THEN Result(t, call[t], p) ELSE Encrypted(t)
    BY <2>1, <2>2 DEF Result
  <2>4. \A u \in Threads : u # t => answer'[u] = answer[u] /\ pc'[u] = pc[u]
    BY <1>5 DEF Collect, Arrays
  <2>5. call' = call /\ target' = target /\ secure' = secure
    BY <1>5 DEF Collect
  <2>6. QED
    BY <2>1, <2>2, <2>3, <2>4, <2>5
<1>6. ASSUME NEW t \in Threads, Leave(t)
      PROVE OwnAnswer' /\ SecureIsOwn'
  BY <1>6 DEF Leave
<1>7. ASSUME NEW t \in Threads, Return(t)
      PROVE OwnAnswer' /\ SecureIsOwn'
  BY <1>7 DEF Return, Arrays
<1>8. ASSUME NEW s \in Sessions, RequestConsume(s)
      PROVE OwnAnswer' /\ SecureIsOwn'
  BY <1>8 DEF RequestConsume, clientVars
<1>9. ASSUME NEW s \in Sessions, NEW r \in {0, 1}, Answer(s, r)
      PROVE OwnAnswer' /\ SecureIsOwn'
  <2>1. worker[s] = "decrypting"
    BY <1>9 DEF Answer
  <2>2. PICK t \in Threads : pc[t] = "sent" /\ systemLock = t
    BY <2>1, WorkerServes
  <2>3. \A u \in Threads : pc[u] # "tidy"
    BY <2>2 DEF LockHeld, Holds
  <2>4. pc' = pc /\ call' = call /\ answer' = answer
    BY <1>9 DEF Answer, clientVars
  <2>5. QED
    BY <2>3, <2>4
<1>10. CASE UNCHANGED vars
  BY <1>10 DEF vars
<1>11. QED
  BY <1>1, <1>2, <1>3, <1>4, <1>5, <1>6, <1>7, <1>8, <1>9, <1>10
  DEF Next, ClientStep, WorkerStep

\* The untyped variables stay functions on their domains.
LEMMA ArraysStep == Arrays /\ TypeOK /\ [Next]_vars => Arrays'
BY DEF Arrays, TypeOK, Next, ClientStep, WorkerStep, vars, clientVars, Start, Lock, RequestProduce,
   Produce, Collect, Leave, Return, RequestConsume, Answer

\* The strengthening with what the buffer holds, and what follows from it for the
\* callers, is inductive.
THEOREM ExchangeInvariant ==
  Spec => [](IInv /\ Arrays /\ Content /\ OwnAnswer /\ SecureIsOwn)
<1>1. Init => IInv /\ Arrays /\ Content /\ OwnAnswer /\ SecureIsOwn
  BY ExchangeAssumption DEF Init, IInv, TypeOK, Stages, AdminTypes, LockHeld, Holds, CallsFit, Tokens,
     Engaged, Batch, Arrays, Content, OwnAnswer, SecureIsOwn
<1>2. /\ IInv /\ Arrays /\ Content /\ OwnAnswer /\ SecureIsOwn
      /\ [Next]_vars
      => (IInv /\ Arrays /\ Content /\ OwnAnswer /\ SecureIsOwn)'
  <2> SUFFICES ASSUME IInv, Arrays, Content, OwnAnswer, SecureIsOwn, [Next]_vars
               PROVE  (IInv /\ Arrays /\ Content /\ OwnAnswer /\ SecureIsOwn)'
    OBVIOUS
  <2>1. IInv'
    BY TypeStep, LockStep, FitStep, TokensStep, BatchStep DEF IInv
  <2>2. Arrays'
    BY ArraysStep DEF IInv
  <2>3. Content'
    BY ContentStep DEF IInv
  <2>4. QED
    BY <2>1, <2>2, <2>3, OwnStep
<1>3. QED
  BY <1>1, <1>2, PTL DEF Spec

\* A call is answered with its own sample, decrypted with its own parameters, or
\* with its sample unchanged (OwnAnswer).
THEOREM AnswersAreOwn == Spec => []OwnAnswer
BY ExchangeInvariant, PTL

\* Secure video memory holds the sample of the call that is about to leave
\* (SecureIsOwn).
THEOREM SecureMemoryIsOwn == Spec => []SecureIsOwn
BY ExchangeInvariant, PTL

-----------------------------------------------------------------------------
(* Refinement. *)

\* Every step of the exchange is a step of the atomic decryption, or invisible to
\* the callers: the call takes effect when its parameters are written, with the
\* stream properties that are then in force on its session, given or not.
THEOREM ImplementsAtomicDecrypt == Spec => AtomicSafeSpec
<1> DEFINE Inv == IInv /\ Arrays /\ Content /\ OwnAnswer /\ SecureIsOwn
<1>1. Init => Atomic!Init
  BY DEF Init, Atomic!Init
<1>2. Inv /\ [Next]_vars => [Atomic!Next]_(Atomic!vars)
  <2> SUFFICES ASSUME Inv, [Next]_vars
               PROVE  [Atomic!Next]_(Atomic!vars)
    OBVIOUS
  <2> DEFINE stage == [t \in Threads |->
                        CASE pc[t] = "idle" -> "idle"
                          [] pc[t] \in {"entering", "locked", "granted"} -> "asked"
                          [] pc[t] \in {"sent", "ready"} -> "served"
                          [] OTHER -> "answered"]
             told == [t \in Threads |->
                       IF pc[t] \in {"sent", "ready"} THEN admin[target[t]].props ELSE None]
             streams == [s \in Sessions |-> admin[s].props]
  <2> USE DEF IInv, TypeOK, Stages
  <2>1. ASSUME NEW t \in Threads, NEW c \in Calls, NEW s \in Sessions, Start(t, c, s)
        PROVE Atomic!Ask(t, c, s)
    <3>1. stage[t] = "idle" /\ stage' = [stage EXCEPT ![t] = "asked"]
      BY <2>1 DEF Start
    <3>2. told' = told /\ streams' = streams
      BY <2>1 DEF Start
    <3>3. QED
      BY <2>1, <3>1, <3>2 DEF Start, Atomic!Ask
  <2>2. ASSUME NEW t \in Threads, Lock(t) PROVE UNCHANGED Atomic!vars
    BY <2>2 DEF Lock, Atomic!vars
  <2>3. ASSUME NEW t \in Threads, RequestProduce(t) PROVE UNCHANGED Atomic!vars
    BY <2>3 DEF RequestProduce, Atomic!vars
  <2>4. ASSUME NEW t \in Threads, Produce(t) PROVE Atomic!Serve(t)
    <3> DEFINE p == InForce(call[t], streams[target[t]])
    <3>1. /\ target[t] \in Sessions
          /\ admin'[target[t]].props = InForce(call[t], admin[target[t]].props)
      BY <2>4, ProduceFills
    <3>2. stage[t] = "asked" /\ stage' = [stage EXCEPT ![t] = "served"]
      BY <2>4 DEF Produce
    <3>3. admin'[target[t]].props = p
      BY <3>1
    <3>4. \A s \in Sessions : s # target[t] => admin'[s] = admin[s]
      BY <2>4 DEF Produce
    <3>5. streams' = [streams EXCEPT ![target[t]] = p]
      BY <3>1, <3>3, <3>4
    <3>6. \A u \in Threads : u # t => pc[u] \notin {"sent", "ready"}
      BY <2>4 DEF Produce, LockHeld, Holds
    <3>7. target' = target /\ pc' = [pc EXCEPT ![t] = "sent"]
      BY <2>4 DEF Produce
    <3>8. told' = [told EXCEPT ![t] = p]
      BY <3>3, <3>6, <3>7
    <3>9. call' = call /\ answer' = answer
      BY <2>4 DEF Produce
    <3>10. QED
      BY <3>2, <3>5, <3>7, <3>8, <3>9 DEF Atomic!Serve
  <2>5. ASSUME NEW t \in Threads, Collect(t) PROVE Atomic!Reply(t)
    <3> DEFINE p == admin[target[t]].props
    <3>1. stage[t] = "served" /\ stage' = [stage EXCEPT ![t] = "answered"]
      BY <2>5 DEF Collect
    <3>2. answer'[t] = [status |-> admin[target[t]].status,
                        data |-> IF call[t].kind \in {"svp", "other"} THEN Encrypted(t)
                                 ELSE payload[target[t]]]
      BY <2>5 DEF Collect, Arrays
    <3>3. answer' = [answer EXCEPT ![t] = answer'[t]]
      BY <2>5 DEF Collect, Arrays
    <3>4. admin[target[t]].status \in {0, 1}
      BY <2>5 DEF Collect, AdminTypes
    <3>5. call[t].kind \notin {"svp", "other"} =>
            payload[target[t]] = IF admin[target[t]].status = 0 THEN Result(t, call[t], p)
                                 ELSE Encrypted(t)
      BY <2>5 DEF Collect, Content, Answered
    <3>6. \/ answer' = [answer EXCEPT ![t] = [status |-> 0, data |-> Result(t, call[t], p)]]
          \/ answer' = [answer EXCEPT ![t] = [status |-> 1, data |-> Encrypted(t)]]
      BY <3>2, <3>3, <3>4, <3>5 DEF Result
    <3>7. told[t] = p /\ told' = [told EXCEPT ![t] = None] /\ streams' = streams
      BY <2>5 DEF Collect
    <3>8. call' = call /\ target' = target
      BY <2>5 DEF Collect
    <3>9. QED
      BY <3>1, <3>6, <3>7, <3>8 DEF Atomic!Reply
  <2>6. ASSUME NEW t \in Threads, Leave(t) PROVE UNCHANGED Atomic!vars
    <3>1. stage' = stage /\ call' = call /\ target' = target /\ answer' = answer
      BY <2>6 DEF Leave
    <3>2. \A s \in Sessions : admin'[s].props = admin[s].props
      BY <2>6 DEF Leave, AdminTypes
    <3>3. streams' = streams
      BY <3>2
    <3>4. told' = told
      BY <2>6, <3>2 DEF Leave
    <3>5. QED
      BY <3>1, <3>3, <3>4 DEF Atomic!vars
  <2>7. ASSUME NEW t \in Threads, Return(t) PROVE Atomic!Finish(t)
    <3>1. stage[t] = "answered" /\ stage' = [stage EXCEPT ![t] = "idle"]
      BY <2>7 DEF Return
    <3>2. told' = told /\ streams' = streams
      BY <2>7 DEF Return
    <3>3. QED
      BY <2>7, <3>1, <3>2 DEF Return, Atomic!Finish
  <2>8. ASSUME NEW s \in Sessions, RequestConsume(s) PROVE UNCHANGED Atomic!vars
    BY <2>8 DEF RequestConsume, clientVars, Atomic!vars
  <2>9. ASSUME NEW s \in Sessions, NEW r \in {0, 1}, Answer(s, r) PROVE UNCHANGED Atomic!vars
    <3>1. call' = call /\ target' = target /\ answer' = answer /\ pc' = pc
      BY <2>9 DEF Answer, clientVars
    <3>2. \A z \in Sessions : admin'[z].props = admin[z].props
      BY <2>9 DEF Answer, AdminTypes
    <3>3. streams' = streams
      BY <3>2
    <3>4. told' = told
      BY <3>1, <3>2
    <3>5. QED
      BY <3>1, <3>3, <3>4 DEF Atomic!vars
  <2>10. CASE UNCHANGED vars
    BY <2>10 DEF vars, Atomic!vars
  <2>11. QED
    BY <2>1, <2>2, <2>3, <2>4, <2>5, <2>6, <2>7, <2>8, <2>9, <2>10
    DEF Next, ClientStep, WorkerStep, Atomic!Next
<1>3. QED
  BY <1>1, <1>2, ExchangeInvariant, PTL DEF Spec, AtomicSafeSpec, Atomic!SafeSpec

=============================================================================

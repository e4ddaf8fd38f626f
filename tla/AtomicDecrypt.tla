--------------------------- MODULE AtomicDecrypt ---------------------------
(***************************************************************************)
(* What a decrypt call promises the application: however many threads call  *)
(* at once and on whatever sessions, each call behaves as if the CDM had    *)
(* been invoked for it alone, at one moment, with the parameters the caller *)
(* gave, and returns either the clear sample with status 0 or the sample    *)
(* unchanged with an error.  The stream properties belong to the session: a *)
(* call that gives some puts them in force, one that gives none is served   *)
(* with those in force at that moment.                                     *)
(***************************************************************************)
CONSTANTS
  Threads, Sessions, Calls, None,
  InForce(_, _),  \* call, properties: those in force after it
  Unchanged(_),   \* thread: its sample as it was passed in
  Result(_, _, _) \* thread, call, properties: what a successful call leaves

VARIABLES
  stage,   \* "idle", "asked", "served" or "answered" for each thread
  asked,   \* the call a thread has made
  on,      \* the session it made it on
  told,    \* the stream properties the CDM was told when it served the call
  reply,   \* the answer it got
  streams  \* the stream properties in force on each session

vars == <<stage, asked, on, told, reply, streams>>

Init ==
  /\ stage = [t \in Threads |-> "idle"]
  /\ asked = [t \in Threads |-> None]
  /\ on = [t \in Threads |-> None]
  /\ told = [t \in Threads |-> None]
  /\ reply = [t \in Threads |-> None]
  /\ streams = [s \in Sessions |-> None]

Ask(t, c, s) ==
  /\ stage[t] = "idle"
  /\ stage' = [stage EXCEPT ![t] = "asked"]
  /\ asked' = [asked EXCEPT ![t] = c]
  /\ on' = [on EXCEPT ![t] = s]
  /\ UNCHANGED <<told, reply, streams>>

\* The moment at which the call takes effect.
Serve(t) ==
  /\ stage[t] = "asked"
  /\ stage' = [stage EXCEPT ![t] = "served"]
  /\ LET p == InForce(asked[t], streams[on[t]])
     IN /\ streams' = [streams EXCEPT ![on[t]] = p]
        /\ told' = [told EXCEPT ![t] = p]
  /\ UNCHANGED <<asked, on, reply>>

Reply(t) ==
  /\ stage[t] = "served"
  /\ stage' = [stage EXCEPT ![t] = "answered"]
  /\ \/ reply' = [reply EXCEPT ![t] = [status |-> 0, data |-> Result(t, asked[t], told[t])]]
     \/ reply' = [reply EXCEPT ![t] = [status |-> 1, data |-> Unchanged(t)]]
  /\ told' = [told EXCEPT ![t] = None]
  /\ UNCHANGED <<asked, on, streams>>

Finish(t) ==
  /\ stage[t] = "answered"
  /\ stage' = [stage EXCEPT ![t] = "idle"]
  /\ asked' = [asked EXCEPT ![t] = None]
  /\ on' = [on EXCEPT ![t] = None]
  /\ reply' = [reply EXCEPT ![t] = None]
  /\ UNCHANGED <<told, streams>>

Next == \E t \in Threads : \/ \E c \in Calls, s \in Sessions : Ask(t, c, s)
                           \/ Serve(t) \/ Reply(t) \/ Finish(t)

\* A call that was made is served and answered.
Spec == Init /\ [][Next]_vars /\ \A t \in Threads : WF_vars(Serve(t)) /\ WF_vars(Reply(t))

SafeSpec == Init /\ [][Next]_vars

=============================================================================

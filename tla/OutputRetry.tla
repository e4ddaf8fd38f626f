---------------------------- MODULE OutputRetry ----------------------------
(***************************************************************************)
(* Decrypting a GStreamer buffer (client/adapter/rdk): one call makes       *)
(* attempts until one succeeds, the key's status says that waiting is of no *)
(* use, or time is over (decryptWithOutputRestrictedRetry).  The status is  *)
(* changed by the CDM's callbacks at any time, between the reads and during *)
(* an attempt too.                                                         *)
(*                                                                         *)
(* Statuses are modelled by what the loop asks of them: "usable" (Usable,   *)
(* OutputDownscaled, StatusPending), "restricted" (OutputRestricted and     *)
(* OutputRestrictedHDCP22) and "other".  Time passes in sleeps and attempts. *)
(***************************************************************************)
EXTENDS Naturals

CONSTANTS
  Timeout,     \* kOutputRestrictedRetryTimeout
  Interval,    \* kOutputRestrictedRetryInterval
  MaxAttempt   \* no attempt takes longer: bounds the clock

ASSUME RetryAssumption ==
  /\ Timeout \in Nat /\ Interval \in Nat \ {0} /\ MaxAttempt \in Nat

Statuses == {"usable", "restricted", "other"}

VARIABLES
  place,     \* where the call is
  status,    \* the client's status of the call's key
  time,      \* since the call began
  attempts,  \* calls of decryptOnce so far
  last,      \* lastResult
  last15,    \* the protection meta asks for a reversed IV (initWithLast15)
  iv,        \* the bytes of the IV buffer, as the caller gave them or reversed
  sample     \* what the GStreamer buffer holds

retryVars == <<place, status, time, attempts, last, last15, iv, sample>>

RetryInit ==
  /\ place = "idle"
  /\ status \in Statuses
  /\ time = 0
  /\ attempts = 0
  /\ last = "FAIL"
  /\ last15 \in BOOLEAN
  /\ iv = "given"
  /\ sample = "encrypted"

\* OnKeyStatusUpdate, in a thread of its own.
StatusChanges ==
  /\ \E s \in Statuses \ {status} : status' = s
  /\ UNCHANGED <<place, time, attempts, last, last15, iv, sample>>

\* A call with a key id enters the loop, one without makes a single attempt.
Begin ==
  /\ place = "idle"
  /\ place' \in {"test", "once"}
  /\ UNCHANGED <<status, time, attempts, last, last15, iv, sample>>

\* Mutant: nothing has failed before the first attempt.
TimedOut_NoError ==
  /\ place = "test"
  /\ time >= Timeout
  /\ place' = "done"
  /\ last' = IF attempts = 0 THEN "NONE" ELSE last
  /\ UNCHANGED <<status, time, attempts, last15, iv, sample>>

\* The deadline has passed: the last result is returned.
TimedOut ==
  /\ place = "test"
  /\ time >= Timeout
  /\ place' = "done"
  /\ UNCHANGED <<status, time, attempts, last, last15, iv, sample>>

\* Mutant: the loop waits for the status to change without looking at the clock.
BeforeAttempt_Waits ==
  /\ place = "test"
  /\ time < Timeout
  /\ status # "restricted"
  /\ place' = CASE status = "usable" -> "attempt" [] status = "other" -> "done"
  /\ last' = IF status = "other" THEN "FAIL" ELSE last
  /\ UNCHANGED <<status, time, attempts, last15, iv, sample>>

\* The status before the attempt: restricted, wait; not usable, give up.
BeforeAttempt ==
  /\ place = "test"
  /\ time < Timeout
  /\ place' = CASE status = "restricted" -> "sleep"
             [] status = "usable" -> "attempt"
             [] status = "other" -> "done"
  /\ last' = IF status = "other" THEN "FAIL" ELSE last
  /\ UNCHANGED <<status, time, attempts, last15, iv, sample>>

Opposite(bytes) == IF bytes = "given" THEN "reversed" ELSE "given"

\* opencdm_gstreamer_session_decrypt_buffer_once reverses the IV, where it is.
IvUsed == IF last15 THEN Opposite(iv) ELSE iv

\* The IV the caller means the CDM to use.
IvWanted == IF last15 THEN "reversed" ELSE "given"

Attempting == place \in {"attempt", "once"}

AfterAttempt == place' = IF place = "once" THEN "done" ELSE "judge"

\* decryptOnce fails before it comes to the IV: a buffer cannot be mapped.
AttemptFailsEarly(d) ==
  /\ Attempting
  /\ AfterAttempt
  /\ time' = time + d
  /\ attempts' = attempts + 1
  /\ last' = "ERR"
  /\ UNCHANGED <<status, last15, iv, sample>>

\* Or after it: meta data is missing or wrong, or the CDM refuses.  It decrypts in
\* a block of its own, so the buffer still holds the encrypted data.
AttemptFails(d) ==
  /\ Attempting
  /\ AfterAttempt
  /\ time' = time + d
  /\ attempts' = attempts + 1
  /\ last' = "ERR"
  /\ iv' = IvUsed
  /\ UNCHANGED <<status, last15, sample>>

\* The buffer gets the result: clear if the IV was the right one.  When secure
\* memory has been revoked or nothing is encrypted, the CDM is not called and the
\* call succeeds all the same.
AttemptSucceeds(d) ==
  /\ Attempting
  /\ AfterAttempt
  /\ time' = time + d
  /\ attempts' = attempts + 1
  /\ last' = "NONE"
  /\ iv' = IvUsed
  /\ \/ sample' = "skipped"
     \/ sample' = IF IvUsed = IvWanted THEN "clear" ELSE "garbled"
  /\ UNCHANGED <<status, last15>>

\* Mutant: only the status decides whether another attempt is made.
Judge_ByStatus ==
  /\ place = "judge"
  /\ place' = IF status = "restricted" THEN "sleep" ELSE "done"
  /\ UNCHANGED <<status, time, attempts, last, last15, iv, sample>>

\* Success is returned; so is an error if the key is not restricted now.
Judge ==
  /\ place = "judge"
  /\ place' = IF last # "NONE" /\ status = "restricted" THEN "sleep" ELSE "done"
  /\ UNCHANGED <<status, time, attempts, last, last15, iv, sample>>

\* Mutant: each pause counts from its own beginning.
Sleep_Restarts ==
  /\ place = "sleep"
  /\ place' = "test"
  /\ time' = time + (attempts + 1) * Interval
  /\ UNCHANGED <<status, attempts, last, last15, iv, sample>>

\* sleep_for(kOutputRestrictedRetryInterval), then the loop's condition.
Sleep ==
  /\ place = "sleep"
  /\ place' = "test"
  /\ time' = time + Interval
  /\ UNCHANGED <<status, attempts, last, last15, iv, sample>>

Attempt == \E d \in 0 .. MaxAttempt : AttemptFailsEarly(d) \/ AttemptFails(d) \/ AttemptSucceeds(d)

CallStep == TimedOut \/ BeforeAttempt \/ Attempt \/ Judge \/ Sleep

RetryNext == StatusChanges \/ Begin \/ CallStep

RetrySpec == RetryInit /\ [][RetryNext]_retryVars

(* The calling thread runs, and the CDM answers. *)
RetryFairSpec == RetrySpec /\ WF_retryVars(CallStep)

-----------------------------------------------------------------------------
(* Properties *)

\* The call makes a bounded number of attempts, one per millisecond at the worst;
\* the other parts say which value each variable may have.
RetryTypeOK ==
  /\ place \in {"idle", "test", "once", "attempt", "judge", "sleep", "done"}
  /\ status \in Statuses
  /\ time \in Nat
  /\ attempts \in 0 .. Timeout + 1
  /\ last \in {"FAIL", "ERR", "NONE"}
  /\ last15 \in BOOLEAN
  /\ iv \in {"given", "reversed"}
  /\ sample \in {"encrypted", "clear", "garbled", "skipped"}

\* An attempt is made only on a buffer that is still encrypted: whatever the key's
\* status does meanwhile, what has been decrypted is not decrypted again.
DecryptedOnce == Attempting => sample = "encrypted"

\* The call returns success exactly if the buffer was handled, also when time was
\* over before the first attempt or after several.
ResultMatchesBuffer == place = "done" => (last = "NONE" <=> sample # "encrypted")

\* The CDM is not flooded: between two attempts of a call lies at least the
\* interval.
AttemptsArePaced == attempts > 0 => (attempts - 1) * Interval <= time

\* The call overruns its deadline by no more than an attempt and a pause that
\* began before it; a call without a key id takes one attempt.
OverrunIsBounded == time <= Timeout + MaxAttempt + Interval

\* The call returns, even if the key stays restricted for ever.
CallReturns == place # "idle" ~> place = "done"

\* Every attempt uses the IV in the buffer's meta data, as initWithLast15 wants it:
\* what a successful call leaves is the clear sample.
NothingIsGarbled == sample # "garbled"

=============================================================================

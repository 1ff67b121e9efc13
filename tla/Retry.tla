--------------------------------- MODULE Retry ---------------------------------
(***************************************************************************)
(* Retry (internal/clients/azuredevops/retry.go) around one request that   *)
(* creates something in Azure DevOps: the request, its response or both    *)
(* may be lost, the service may be throttling or failing, and the context  *)
(* may end at any moment.  The loop itself is wait.ExponentialBackoff-     *)
(* WithContext of k8s.io/apimachinery.                                     *)
(***************************************************************************)
EXTENDS Integers

CONSTANTS
  Steps,         \* attempts the backoff schedule allows (DefaultBackoff: 4)
  ClientErrors,  \* status codes of refusals: 4xx other than 429
  ServerErrors   \* status codes of failures: 5xx

VARIABLES
  at,         \* where the loop is: "check", "call", "judge", "wait" or "done"
  left,       \* steps left in the backoff
  calls,      \* how often the request was sent
  lastErr,    \* what the latest request came back with
  cancelled,  \* the context has ended
  made,       \* things created
  lost,       \* history: how many of them the caller was told nothing of
  unique      \* the service refuses to create the same thing twice; never changes

retryVars == <<at, left, calls, lastErr, cancelled, made, lost, unique>>

\* Status codes; an error without a response has none and counts as 0.
NoError == 200
NoResponse == 0
TooManyRequests == 429

ASSUME RetryAssumption ==
  /\ Steps \in Nat
  /\ ClientErrors \subseteq (400 .. 499) \ {TooManyRequests}
  /\ ServerErrors \subseteq 500 .. 599

Codes == {NoError, NoResponse, TooManyRequests} \cup ClientErrors \cup ServerErrors

IsRetryable(err) ==
  err # NoError /\ (err = NoResponse \/ err = TooManyRequests \/ err >= 500)

MayCreate == unique => made = 0

-----------------------------------------------------------------------------

\* Before each attempt the context is looked at; lastErr stays what it was.
Check ==
  /\ at = "check"
  /\ at' = IF left = 0 \/ cancelled THEN "done" ELSE "call"
  /\ UNCHANGED <<left, calls, lastErr, cancelled, made, lost, unique>>

\* One call of fn.  A request whose response is lost may have been carried out.
Call ==
  /\ at = "call"
  /\ calls' = calls + 1
  /\ \/ /\ MayCreate
        /\ lastErr' = NoError /\ made' = made + 1 /\ lost' = lost
     \/ /\ lastErr' \in {NoResponse} \cup ServerErrors
        /\ \/ made' = made /\ lost' = lost
           \/ MayCreate /\ made' = made + 1 /\ lost' = lost + 1
     \/ /\ lastErr' \in {TooManyRequests} \cup ClientErrors
        /\ made' = made /\ lost' = lost
  /\ at' = "judge"
  /\ UNCHANGED <<left, cancelled, unique>>

\* Seeded fault: a throttled request is not sent again.
Judge_Throttled ==
  /\ at = "judge"
  /\ IF ~IsRetryable(lastErr) \/ lastErr = TooManyRequests \/ left = 1
       THEN at' = "done" /\ UNCHANGED left
       ELSE at' = "wait" /\ left' = left - 1
  /\ UNCHANGED <<calls, lastErr, cancelled, made, lost, unique>>

\* Seeded fault: any error is reason to try again.
Judge_AnyError ==
  /\ at = "judge"
  /\ IF lastErr = NoError \/ left = 1
       THEN at' = "done" /\ UNCHANGED left
       ELSE at' = "wait" /\ left' = left - 1
  /\ UNCHANGED <<calls, lastErr, cancelled, made, lost, unique>>

\* Seeded fault: only an error that will not go away ends the loop.
Judge_Again ==
  /\ at = "judge"
  /\ IF (lastErr # NoError /\ ~IsRetryable(lastErr)) \/ left = 1
       THEN at' = "done" /\ UNCHANGED left
       ELSE at' = "wait" /\ left' = left - 1
  /\ UNCHANGED <<calls, lastErr, cancelled, made, lost, unique>>

\* A success or an error that will not go away ends the loop, as does the last
\* step of the schedule.
Judge ==
  /\ at = "judge"
  /\ IF ~IsRetryable(lastErr) \/ left = 1
       THEN at' = "done" /\ UNCHANGED left
       ELSE at' = "wait" /\ left' = left - 1
  /\ UNCHANGED <<calls, lastErr, cancelled, made, lost, unique>>

\* The wait ends when its time is over or the context is.
Wait ==
  /\ at = "wait"
  /\ at' = "check" \/ (cancelled /\ at' = "done")
  /\ UNCHANGED <<left, calls, lastErr, cancelled, made, lost, unique>>

Cancel ==
  /\ ~cancelled
  /\ cancelled' = TRUE
  /\ UNCHANGED <<at, left, calls, lastErr, made, lost, unique>>

RetryInit ==
  /\ at = "check" /\ left = Steps /\ calls = 0 /\ made = 0 /\ lost = 0
  /\ lastErr = NoError
  /\ cancelled \in BOOLEAN /\ unique \in BOOLEAN

RetryNext == Check \/ Call \/ Judge \/ Wait \/ Cancel

RetrySpec == RetryInit /\ [][RetryNext]_retryVars

-----------------------------------------------------------------------------
(* Properties *)

RetryTypeOK ==
  /\ at \in {"check", "call", "judge", "wait", "done"}
  /\ left \in Nat /\ calls \in Nat /\ made \in Nat /\ lost \in Nat
  /\ lastErr \in Codes
  /\ cancelled \in BOOLEAN /\ unique \in BOOLEAN

\* The schedule's steps bound the requests, however the context's end and the
\* answers fall (DefaultBackoff: "up to 4 attempts total").
CallsBounded == calls <= Steps

\* What is handed back is the service's answer to a request, and one the caller must
\* live with: a success, an error that another attempt would not change, or the last
\* of all attempts.  This is asked only of a context that did not end.  When it ends
\* between attempts the last answer is handed back, retryable or not; when it has
\* ended before the first, nothing is sent and nil is handed back (retry.go:33), which
\* the comment at retry.go:23 has no word for and callers take for a success.
Settled ==
  at = "done" => \/ cancelled
                 \/ calls > 0 /\ ~IsRetryable(lastErr)
                 \/ calls = Steps

\* No request follows a success or a refusal: what was answered is final.
OnlyRetryableAgain == [][calls' # calls => calls = 0 \/ IsRetryable(lastErr)]_retryVars

\* Where a response is lost, Retry cannot tell whether the request was carried out,
\* and may make the thing again (retry.go:34).  It makes no more doubles than that:
\* beside the things the caller was told nothing of there is at most the one whose
\* creation is reported.
RepeatsOnlyLost == made <= lost + (IF lastErr = NoError /\ calls > 0 THEN 1 ELSE 0)

(***************************************************************************)
(* Why CallsBounded and Settled hold: calls and steps left add up to Steps *)
(* while the loop runs, and only an error worth it is waited for.          *)
(***************************************************************************)
Accounted ==
  /\ at \in {"check", "call"} => calls + left = Steps
  /\ at = "wait" => calls + left = Steps /\ IsRetryable(lastErr)
  /\ at = "judge" => calls + left = Steps + 1
  /\ at \in {"call", "judge", "wait"} => left > 0
  /\ at \in {"judge", "wait"} => calls > 0
  /\ at = "check" /\ calls > 0 => IsRetryable(lastErr) /\ left > 0
  /\ calls = 0 => lastErr = NoError
  /\ at = "call" /\ calls > 0 => IsRetryable(lastErr)

RetryInv == RetryTypeOK /\ Accounted /\ CallsBounded /\ Settled /\ RepeatsOnlyLost
=============================================================================

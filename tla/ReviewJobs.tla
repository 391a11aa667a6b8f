----------------------------- MODULE ReviewJobs -----------------------------
(***************************************************************************)
(* What the review queue promises for each submitted job, without queue,   *)
(* workers or breaker: a job is refused, or accepted and then reviewed one *)
(* attempt at a time, at most MaxRetries + 1 times, until it is settled    *)
(* once and for all.  ReviewQueue implements this module.                  *)
(***************************************************************************)
EXTENDS Naturals

CONSTANTS Jobs, MaxRetries

VARIABLES
    status,    \* "absent", "refused", "waiting", "reviewing", "succeeded",
               \* "failed" or "dropped"
    attempts   \* how often its review was started

jobVars == <<status, attempts>>

Init ==
    /\ status = [j \in Jobs |-> "absent"]
    /\ attempts = [j \in Jobs |-> 0]

Move(j, from, to) ==
    /\ status[j] = from
    /\ status' = [status EXCEPT ![j] = to]

Accept(j) == Move(j, "absent", "waiting") /\ UNCHANGED attempts
Refuse(j) == Move(j, "absent", "refused") /\ UNCHANGED attempts

Attempt(j) ==
    /\ Move(j, "waiting", "reviewing")
    /\ attempts[j] <= MaxRetries
    /\ attempts' = [attempts EXCEPT ![j] = @ + 1]

\* A failed attempt may be retried as long as retries are left.
TryAgain(j) ==
    /\ Move(j, "reviewing", "waiting")
    /\ attempts[j] <= MaxRetries
    /\ UNCHANGED attempts

Finish(j) ==
    /\ Move(j, "reviewing", "succeeded") \/ Move(j, "reviewing", "failed")
    /\ UNCHANGED attempts

\* Without an attempt a waiting job may fail (the circuit breaker opened
\* between the worker's two looks at it) or be dropped by Stop.
FailUntried(j) == Move(j, "waiting", "failed") /\ UNCHANGED attempts
Drop(j)        == Move(j, "waiting", "dropped") /\ UNCHANGED attempts

Next == \E j \in Jobs :
    \/ Accept(j) \/ Refuse(j)
    \/ Attempt(j) \/ TryAgain(j) \/ Finish(j)
    \/ FailUntried(j) \/ Drop(j)

Spec == Init /\ [][Next]_jobVars
=============================================================================

---------------------------- MODULE RateLimiter -----------------------------
(***************************************************************************)
(* The token bucket of internal/infrastructure/ratelimit/ratelimit.go.     *)
(* Every operation holds rl.mu and is one step.  Time passes in ticks;     *)
(* Wait and Execute are repeated calls of Allow.                           *)
(*                                                                         *)
(* refill adds whole requests only and sets lastRefill to the present, so  *)
(* that the fraction that has accrued is lost.  The code computes it with  *)
(* floats; ticks stand for durations that float64 represents.              *)
(***************************************************************************)
EXTENDS Integers

CONSTANTS
    Rate,      \* requests per interval, the capacity
    Interval,  \* the interval in ticks
    MaxTime    \* bound on the ticks

\* initializeRateLimiter replaces a rate that is not positive.
ASSUME RateLimiterAssumption ==
    /\ Rate \in Nat \ {0} /\ Interval \in Nat \ {0}
    /\ MaxTime \in Nat

VARIABLES
    capacity, lastRefill, now,
    (* history *)
    since,      \* the beginning of the window of time that is looked at
    admitted,   \* the requests admitted in it
    lastAdmit   \* the time of the last request admitted

bucketVars == <<capacity, lastRefill>>
windowVars  == <<since, admitted, lastAdmit>>
limiterVars == <<bucketVars, now, windowVars>>

LimiterTypeOK ==
    /\ capacity \in 0..Rate
    /\ now \in 0..MaxTime
    /\ lastRefill \in 0..now /\ since \in 0..now /\ lastAdmit \in 0..now
    /\ admitted \in Nat

LimiterInit ==
    /\ capacity = Rate /\ lastRefill = 0 /\ now = 0
    /\ since = 0 /\ admitted = 0 /\ lastAdmit = 0
-----------------------------------------------------------------------------
CapacityToAdd == ((now - lastRefill) * Rate) \div Interval

\* Mutant: the bucket may overflow.
RefilledUncapped == capacity + CapacityToAdd

\* The capacity after refill.
Refilled ==
    IF capacity + CapacityToAdd > Rate THEN Rate ELSE capacity + CapacityToAdd

\* Mutants: lastRefill stays; it moves although nothing was added.
RefillTimeStays == lastRefill
RefillTimeMoves == now

\* lastRefill after refill.
RefillTime == IF CapacityToAdd > 0 THEN now ELSE lastRefill

Grant ==
    /\ Refilled > 0
    /\ capacity' = Refilled - 1 /\ lastRefill' = RefillTime
    /\ admitted' = admitted + 1 /\ lastAdmit' = now
    /\ UNCHANGED <<now, since>>

Refuse ==
    /\ Refilled = 0
    /\ capacity' = 0 /\ lastRefill' = RefillTime
    /\ UNCHANGED <<now, windowVars>>

GetAvailableCapacity ==
    /\ capacity' = Refilled /\ lastRefill' = RefillTime
    /\ UNCHANGED <<now, windowVars>>

\* The window starts anew: a reset grants a full bucket.
ResetBucket ==
    /\ capacity' = Rate /\ lastRefill' = now
    /\ since' = now /\ admitted' = 0
    /\ UNCHANGED <<now, lastAdmit>>

Tick == now < MaxTime /\ now' = now + 1 /\ UNCHANGED <<bucketVars, windowVars>>

\* Any moment may be the beginning of the window.
OpenWindow == since' = now /\ admitted' = 0 /\ UNCHANGED <<bucketVars, now, lastAdmit>>

Allow == Grant \/ Refuse

LimiterNext ==
    \/ Allow
    \/ GetAvailableCapacity
    \/ ResetBucket
    \/ Tick
    \/ OpenWindow

LimiterSpec == LimiterInit /\ [][LimiterNext]_limiterVars
-----------------------------------------------------------------------------
(* Properties *)

\* In a window of any beginning and length at most a full bucket, one
\* request for a fraction that had accrued before, and the rate times the
\* length are admitted (docs/architecture-explained.md, "allows short bursts
\* but enforces the long-term rate").
AdmitsAtRate ==
    admitted * Interval <= (Rate + 1) * Interval + Rate * (now - since)

\* The variables keep their types, so that the bucket never overflows, and a
\* window of time admits no more than the rate allows.
LimiterSound == LimiterTypeOK /\ AdmitsAtRate

\* Nobody starves: a request is refused only within the time of one request
\* after another one was admitted, although fractions are lost.
RefusesOnlyAfterAdmission ==
    Refilled = 0 => (now - lastAdmit) * Rate < Interval
=============================================================================

--------------------------- MODULE CircuitBreaker ---------------------------
(***************************************************************************)
(* The circuit breaker of internal/adapters/circuitbreaker/breaker.go.     *)
(*                                                                         *)
(* A caller runs a function through Execute: the breaker's lock is held    *)
(* while the call is admitted or refused and again while its result is     *)
(* recorded, and is free while the function runs, so that calls of several *)
(* callers overlap.  Time appears as one bit: cooled says that more than   *)
(* resetTimeout has passed since lastFailureTime.                          *)
(***************************************************************************)
EXTENDS Naturals, FiniteSets

CONSTANTS Callers,          \* who calls Execute (the queue's workers)
          FailureThreshold  \* failures that open the breaker

ASSUME CircuitBreakerAssumption ==
    /\ IsFiniteSet(Callers)
    /\ FailureThreshold \in Nat \ {0}   \* NewBreaker turns 0 into 3

VARIABLES
    state,         \* "closed", "open" or "halfOpen"
    failureCount,
    cooled,        \* time.Since(lastFailureTime) > resetTimeout
    inFlight       \* the callers whose function is running

breakerVars == <<state, failureCount, cooled, inFlight>>

CircuitState == {"closed", "open", "halfOpen"}

TypeOK ==
    /\ state \in CircuitState
    /\ failureCount \in Nat
    /\ cooled \in BOOLEAN
    /\ inFlight \subseteq Callers

\* lastFailureTime is the zero time, longer ago than any timeout.
Init ==
    /\ state = "closed"
    /\ failureCount = 0
    /\ cooled = TRUE
    /\ inFlight = {}
-----------------------------------------------------------------------------
IsOpen == state = "open"

TrialDue == IsOpen /\ cooled

\* Mutants: an open breaker admits every call; it admits none.
AdmitThoughOpen(c) ==
    /\ c \notin inFlight
    /\ state' = IF TrialDue THEN "halfOpen" ELSE state
    /\ failureCount' = IF TrialDue THEN 0 ELSE failureCount
    /\ inFlight' = inFlight \union {c}
    /\ UNCHANGED cooled
AdmitNeverOpen(c) ==
    /\ c \notin inFlight /\ ~IsOpen
    /\ inFlight' = inFlight \union {c}
    /\ UNCHANGED <<state, failureCount, cooled>>

\* The first critical section of Execute when it lets the call through.
Admit(c) ==
    /\ c \notin inFlight
    /\ IsOpen => cooled
    /\ state' = IF TrialDue THEN "halfOpen" ELSE state
    /\ failureCount' = IF TrialDue THEN 0 ELSE failureCount
    /\ inFlight' = inFlight \union {c}
    /\ UNCHANGED cooled

\* ... and when it answers ErrCircuitOpen.
Reject(c) ==
    /\ c \notin inFlight
    /\ IsOpen /\ ~cooled
    /\ UNCHANGED breakerVars

Returns(c) ==
    /\ c \in inFlight
    /\ inFlight' = inFlight \ {c}

RecordFailure ==
    /\ failureCount' = failureCount + 1
    /\ cooled' = FALSE
    /\ state' = IF failureCount + 1 >= FailureThreshold THEN "open" ELSE state

\* Mutants: a success takes one failure back; it closes an open breaker.
RecordSuccessDecrements ==
    /\ state' = IF state = "halfOpen" THEN "closed" ELSE state
    /\ failureCount' = failureCount - 1
    /\ UNCHANGED cooled
RecordSuccessCloses ==
    /\ state' = "closed"
    /\ failureCount' = 0
    /\ UNCHANGED cooled

RecordSuccess ==
    /\ state' = IF state = "halfOpen" THEN "closed" ELSE state
    /\ failureCount' = 0
    /\ UNCHANGED cooled

\* The second critical section of Execute.
Succeed(c) == Returns(c) /\ RecordSuccess
Fail(c)    == Returns(c) /\ RecordFailure

\* The function panicked, or the context was cancelled after the call was
\* admitted: Execute is left without recording a result.
Abandon(c) ==
    /\ Returns(c)
    /\ UNCHANGED <<state, failureCount, cooled>>

\* Mutant: the count survives the reset.
ResetKeepsCount ==
    /\ state' = "closed"
    /\ UNCHANGED <<failureCount, cooled, inFlight>>

\* The manual reset of the port; nothing in the application calls it.
Reset ==
    /\ state' = "closed"
    /\ failureCount' = 0
    /\ UNCHANGED <<cooled, inFlight>>

ResetTimeoutElapses ==
    /\ ~cooled
    /\ cooled' = TRUE
    /\ UNCHANGED <<state, failureCount, inFlight>>

Next ==
    \/ \E c \in Callers :
          Admit(c) \/ Reject(c) \/ Succeed(c) \/ Fail(c) \/ Abandon(c)
    \/ Reset
    \/ ResetTimeoutElapses

Spec == Init /\ [][Next]_breakerVars

\* Time passes, a function that was started returns, and some caller keeps
\* calling Execute.
Fairness ==
    /\ WF_breakerVars(ResetTimeoutElapses)
    /\ WF_breakerVars(\E c \in Callers : Admit(c))
    /\ \A c \in Callers : WF_breakerVars(Succeed(c) \/ Fail(c) \/ Abandon(c))

FairSpec == Spec /\ Fairness
-----------------------------------------------------------------------------
\* A breaker that lets calls through has seen fewer failures than the
\* threshold: no order of overlapping results, manual resets and half-open
\* episodes leaves a closed breaker with a full failure count.
BelowThreshold == ~IsOpen => failureCount < FailureThreshold

\* Calls that were running when the breaker opened go on counting failures,
\* but each of them only once: an open breaker's count plus the calls still
\* running never exceeds the threshold by as much as the number of callers.
OpenOverrunBounded ==
    IsOpen => failureCount + Cardinality(inFlight)
                < FailureThreshold + Cardinality(Callers)

\* The breaker's state is sound: typed, open at the threshold, and past it by
\* no more than the calls that were already running account for.
Sound == TypeOK /\ BelowThreshold /\ OpenOverrunBounded

\* A breaker that opened closes only by way of a half-open episode (Execute
\* never moves it from open to closed) unless somebody resets it by hand.
ClosesThroughHalfOpen == [][~Reset /\ IsOpen => state' # "closed"]_breakerVars

\* docs/architecture-explained.md:194, "Automatically closes after reset
\* timeout", as far as the breaker itself can promise it: while callers keep
\* calling Execute, an open breaker is tried again.  Late failures of calls
\* that were running when it opened may postpone the trial, not prevent it.
OpenIsTried == IsOpen ~> ~IsOpen
=============================================================================

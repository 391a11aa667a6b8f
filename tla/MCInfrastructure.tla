-------------------------- MODULE MCInfrastructure --------------------------
(* Small instances of four components that share no state, for TLC: the     *)
(* rate limiter and the filters of the webhook endpoint, the circuit breaker *)
(* and the metrics store.  Every execution is one of one of them, and the    *)
(* others stay as they are in one of their initial states.                   *)
EXTENDS BreakerMetrics, RateLimiter, MCWebhookIntake, MetricsStore

VARIABLE part   \* the component that takes the steps

infrastructureVars == <<part, metricsVars, limiterVars, intakeVars, storeVars>>

\* One configuration of the components that take no steps.
IntakeFixed ==
    /\ events = {"comment_added"} /\ disabled = {}
    /\ secret /\ restricted /\ keyword /\ byName
StoreFixed == kind = "file"

MCInit ==
    /\ part \in {"breaker", "limiter", "intake", "store"}
    /\ MetricsInit /\ LimiterInit /\ IntakeInit /\ StoreInit
    /\ part # "intake" => IntakeFixed
    /\ part # "store" => StoreFixed

Breaker ==
    /\ part = "breaker" /\ MetricsNext
    /\ UNCHANGED <<part, limiterVars, intakeVars, storeVars>>
Limiter ==
    /\ part = "limiter" /\ LimiterNext
    /\ UNCHANGED <<part, metricsVars, intakeVars, storeVars>>
Intake ==
    /\ part = "intake" /\ IntakeNext
    /\ UNCHANGED <<part, metricsVars, limiterVars, storeVars>>
Store ==
    /\ part = "store" /\ StoreNext
    /\ UNCHANGED <<part, metricsVars, limiterVars, intakeVars>>

MCNext == Breaker \/ Limiter \/ Intake \/ Store

\* The fairness is the breaker's; the others have safety properties only.
MCSpec == MCInit /\ [][MCNext]_infrastructureVars /\ Fairness
=============================================================================

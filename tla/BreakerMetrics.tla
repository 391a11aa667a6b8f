--------------------------- MODULE BreakerMetrics ---------------------------
(***************************************************************************)
(* The circuit breaker together with the onStateChange callback that       *)
(* internal/app/application.go gives it.  Every change of state starts a   *)
(* goroutine of its own, which first adds one to the counter of that       *)
(* transition and then sets the state gauge; nothing orders the goroutines *)
(* of successive changes.                                                  *)
(***************************************************************************)
EXTENDS CircuitBreaker, Sequences

CONSTANT MaxChanges   \* bound on the state changes whose callbacks are followed

ASSUME BreakerMetricsAssumption == MaxChanges \in Nat

VARIABLES
    callbacks,     \* one record per change of state, in order of the changes
    transitions,   \* circuit_breaker_transitions_total{from, to}
    gauge          \* circuit_breaker_state

metricsVars == <<breakerVars, callbacks, transitions, gauge>>

Edges == CircuitState \X CircuitState

MetricsInit ==
    /\ Init
    /\ callbacks = <<>>
    /\ transitions = [e \in Edges |-> 0]
    /\ gauge = "unset"
-----------------------------------------------------------------------------
\* transitionTo: only a real change of state calls back.  The breaker goes on
\* after MaxChanges changes; their callbacks are no longer followed.
TransitionTo(old, new) ==
    callbacks' = IF old = new \/ Len(callbacks) = MaxChanges
                 THEN callbacks
                 ELSE Append(callbacks,
                             [from |-> old, to |-> new, at |-> "started"])

BreakerStep ==
    /\ Next
    /\ TransitionTo(state, state')
    /\ UNCHANGED <<transitions, gauge>>

\* Mutant: the labels are swapped.
IncrementSwapped(i) ==
    /\ callbacks[i].at = "started"
    /\ callbacks' = [callbacks EXCEPT ![i].at = "counted"]
    /\ transitions' =
          [transitions EXCEPT ![<<callbacks[i].to, callbacks[i].from>>] = @ + 1]
    /\ UNCHANGED <<breakerVars, gauge>>

IncrementTransition(i) ==
    /\ callbacks[i].at = "started"
    /\ callbacks' = [callbacks EXCEPT ![i].at = "counted"]
    /\ transitions' =
          [transitions EXCEPT ![<<callbacks[i].from, callbacks[i].to>>] = @ + 1]
    /\ UNCHANGED <<breakerVars, gauge>>

RecordState(i) ==
    /\ callbacks[i].at = "counted"
    /\ callbacks' = [callbacks EXCEPT ![i].at = "done"]
    /\ gauge' = callbacks[i].to
    /\ UNCHANGED <<breakerVars, transitions>>

Callback(i) == IncrementTransition(i) \/ RecordState(i)

MetricsNext ==
    \/ BreakerStep
    \/ \E i \in DOMAIN callbacks : Callback(i)

MetricsSpec == MetricsInit /\ [][MetricsNext]_metricsVars
-----------------------------------------------------------------------------
\* Every change was followed, and its callback has run.
Quiet ==
    /\ Len(callbacks) < MaxChanges
    /\ \A i \in DOMAIN callbacks : callbacks[i].at = "done"

Into(s)  == transitions[<<"closed", s>>] + transitions[<<"open", s>>]
              + transitions[<<"halfOpen", s>>]
OutOf(s) == transitions[<<s, "closed">>] + transitions[<<s, "open">>]
              + transitions[<<s, "halfOpen">>]

\* docs/metrics.md:294, "Total number of circuit breaker state transitions":
\* whatever the order in which the callbacks ran, once they have the counters
\* form a path from closed to the breaker's present state (as many ways into
\* a state as out of it, but for the two ends).
CountersFormPath ==
    Quiet => \A s \in CircuitState :
                Into(s) + (IF s = "closed" THEN 1 ELSE 0)
                    = OutOf(s) + (IF s = state THEN 1 ELSE 0)
=============================================================================

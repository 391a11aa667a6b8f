------------------------ MODULE CircuitBreakerProofs ------------------------
(***************************************************************************)
(* Theorems about CircuitBreaker and BreakerMetrics, for every finite set  *)
(* of callers, every positive threshold and every number of changes.       *)
(***************************************************************************)
EXTENDS BreakerMetrics, FiniteSetTheorems, SequenceTheorems, TLAPS

\* Type correctness, on which the other proofs rest.
THEOREM BreakerTypeCorrect == Spec => []TypeOK
<1>1. Init => TypeOK
  BY DEF Init, TypeOK, CircuitState
<1>2. TypeOK /\ [Next]_breakerVars => TypeOK'
  <2>. SUFFICES ASSUME TypeOK, [Next]_breakerVars PROVE TypeOK'
    OBVIOUS
  <2>. USE DEF TypeOK, CircuitState
  <2>1. ASSUME NEW c \in Callers, Admit(c) PROVE TypeOK'
    <3>1. state' \in CircuitState /\ failureCount' \in Nat
      BY <2>1 DEF Admit
    <3>2. cooled' \in BOOLEAN /\ inFlight' \subseteq Callers
      BY <2>1 DEF Admit
    <3>. QED  BY <3>1, <3>2
  <2>2. ASSUME NEW c \in Callers, Succeed(c) PROVE TypeOK'
    BY <2>2 DEF Succeed, Returns, RecordSuccess
  <2>3. ASSUME NEW c \in Callers, Fail(c) PROVE TypeOK'
    <3>1. state' \in CircuitState /\ failureCount' \in Nat
      BY <2>3 DEF Fail, RecordFailure
    <3>2. cooled' \in BOOLEAN /\ inFlight' \subseteq Callers
      BY <2>3 DEF Fail, Returns, RecordFailure
    <3>. QED  BY <3>1, <3>2
  <2>4. ASSUME NEW c \in Callers, Reject(c) \/ Abandon(c) PROVE TypeOK'
    BY <2>4 DEF Reject, Abandon, Returns, breakerVars
  <2>5. CASE Reset \/ UNCHANGED breakerVars
    BY <2>5 DEF Reset, breakerVars
  <2>6. CASE ResetTimeoutElapses
    BY <2>6, Zenon DEF ResetTimeoutElapses
  <2>. QED  BY <2>1, <2>2, <2>3, <2>4, <2>5, <2>6 DEF Next
<1>. QED  BY <1>1, <1>2, PTL DEF Spec

\* Execute and Reset of breaker.go leave no full failure count behind in a
\* breaker that lets calls through.
THEOREM BreakerBelowThreshold == Spec => []BelowThreshold
<1>1. Init => BelowThreshold
  BY CircuitBreakerAssumption DEF Init, BelowThreshold, IsOpen
<1>2. TypeOK /\ BelowThreshold /\ [Next]_breakerVars => BelowThreshold'
  <2>. SUFFICES ASSUME TypeOK, BelowThreshold, [Next]_breakerVars
                PROVE  BelowThreshold'
    OBVIOUS
  <2>. USE CircuitBreakerAssumption DEF TypeOK, BelowThreshold, IsOpen
  <2>1. ASSUME NEW c \in Callers, Admit(c) PROVE BelowThreshold'
    BY <2>1 DEF Admit, TrialDue
  <2>2. ASSUME NEW c \in Callers, Fail(c) PROVE BelowThreshold'
    BY <2>2 DEF Fail, RecordFailure
  <2>3. ASSUME NEW c \in Callers, Succeed(c) PROVE BelowThreshold'
    BY <2>3 DEF Succeed, RecordSuccess
  <2>4. CASE Reset
    BY <2>4 DEF Reset
  <2>5. ASSUME NEW c \in Callers, Reject(c) \/ Abandon(c)
        PROVE  BelowThreshold'
    BY <2>5 DEF Reject, Abandon, breakerVars
  <2>6. CASE ResetTimeoutElapses \/ UNCHANGED breakerVars
    BY <2>6 DEF ResetTimeoutElapses, breakerVars
  <2>. QED  BY <2>1, <2>2, <2>3, <2>4, <2>5, <2>6 DEF Next
<1>. QED  BY <1>1, <1>2, BreakerTypeCorrect, PTL DEF Spec
-----------------------------------------------------------------------------
\* A set of callers is finite, gains one with Admit, and loses one with a
\* return.
LEMMA InFlightCardinality ==
    ASSUME NEW S \in SUBSET Callers
    PROVE  /\ Cardinality(S) \in Nat
           /\ Cardinality(S) <= Cardinality(Callers)
           /\ Cardinality(Callers) \in Nat
           /\ \A c \in S : Cardinality(S \ {c}) = Cardinality(S) - 1
<1>1. IsFiniteSet(Callers) /\ IsFiniteSet(S)
  BY CircuitBreakerAssumption, FS_Subset
<1>2. Cardinality(S) \in Nat /\ Cardinality(Callers) \in Nat
  BY <1>1, FS_CardinalityType
<1>3. Cardinality(S) <= Cardinality(Callers)
  BY <1>1, FS_Subset
<1>4. \A c \in S : Cardinality(S \ {c}) = Cardinality(S) - 1
  BY <1>1, FS_RemoveElement
<1>. QED  BY <1>2, <1>3, <1>4

\* Calls that were running when the breaker opened each count one more
\* failure at the most (recordFailure counts in every state).
THEOREM BreakerOverrunBounded == Spec => []OpenOverrunBounded
<1>1. Init => OpenOverrunBounded
  BY DEF Init, OpenOverrunBounded, IsOpen
<1>2. TypeOK /\ BelowThreshold /\ OpenOverrunBounded /\ [Next]_breakerVars
        => OpenOverrunBounded'
  <2>. SUFFICES ASSUME TypeOK, BelowThreshold, OpenOverrunBounded,
                       [Next]_breakerVars
                PROVE  OpenOverrunBounded'
    OBVIOUS
  <2>. USE DEF OpenOverrunBounded, IsOpen
  <2>0. /\ failureCount \in Nat /\ FailureThreshold \in Nat \ {0}
        /\ Cardinality(inFlight) \in Nat /\ Cardinality(Callers) \in Nat
        /\ Cardinality(inFlight) <= Cardinality(Callers)
    BY InFlightCardinality, CircuitBreakerAssumption DEF TypeOK
  <2>1. ASSUME NEW c \in Callers, Returns(c)
        PROVE  Cardinality(inFlight') = Cardinality(inFlight) - 1
    BY <2>1, InFlightCardinality DEF Returns, TypeOK
  <2>2. ASSUME NEW c \in Callers, Admit(c) PROVE state' # "open"
    BY <2>2 DEF Admit, TrialDue
  <2>3. ASSUME NEW c \in Callers, Fail(c) PROVE OpenOverrunBounded'
    <3>1. CASE state = "open"
      BY <2>0, <2>1, <2>3, <3>1 DEF Fail, RecordFailure
    <3>2. CASE state # "open"
      BY <2>0, <2>1, <2>3, <3>2 DEF Fail, RecordFailure, BelowThreshold
    <3>. QED  BY <3>1, <3>2
  <2>4. ASSUME NEW c \in Callers, Succeed(c) PROVE OpenOverrunBounded'
    BY <2>0, <2>1, <2>4 DEF Succeed, RecordSuccess
  <2>5. ASSUME NEW c \in Callers, Abandon(c) PROVE OpenOverrunBounded'
    BY <2>0, <2>1, <2>5 DEF Abandon
  <2>6. CASE Reset
    BY <2>6 DEF Reset
  <2>7. CASE ResetTimeoutElapses \/ UNCHANGED breakerVars
    BY <2>7 DEF ResetTimeoutElapses, breakerVars
  <2>8. ASSUME NEW c \in Callers, Reject(c) PROVE OpenOverrunBounded'
    BY <2>8 DEF Reject, breakerVars
  <2>. QED  BY <2>2, <2>3, <2>4, <2>5, <2>6, <2>7, <2>8 DEF Next
<1>. QED  BY <1>1, <1>2, BreakerTypeCorrect, BreakerBelowThreshold, PTL DEF Spec
-----------------------------------------------------------------------------
\* Execute takes an open breaker to half-open, never straight to closed.
THEOREM BreakerClosesThroughHalfOpen == Spec => ClosesThroughHalfOpen
<1>1. [Next]_breakerVars => [~Reset /\ IsOpen => state' # "closed"]_breakerVars
  BY DEF Next, breakerVars, Admit, Reject, Succeed, Fail, Abandon, Returns,
         RecordFailure, RecordSuccess, ResetTimeoutElapses, TrialDue, IsOpen
<1>. QED  BY <1>1, PTL DEF Spec, ClosesThroughHalfOpen

\* What the runs check of the breaker's states, for every set of callers and
\* every threshold.
THEOREM BreakerSound == Spec => []Sound
BY BreakerTypeCorrect, BreakerBelowThreshold, BreakerOverrunBounded, PTL DEF Sound
-----------------------------------------------------------------------------
(* The callbacks *)

\* The breaker that calls back is the breaker: callbacks never act on it.
THEOREM CallbacksLeaveBreakerAlone == MetricsSpec => Spec
<1>1. MetricsInit => Init
  BY DEF MetricsInit
<1>2. [MetricsNext]_metricsVars => [Next]_breakerVars
  BY DEF MetricsNext, metricsVars, BreakerStep, Callback, IncrementTransition,
         RecordState
<1>. QED  BY <1>1, <1>2, PTL DEF MetricsSpec, Spec

Change == [from : CircuitState, to : CircuitState,
           at : {"started", "counted", "done"}]

MetricsTypeOK ==
    /\ state \in CircuitState
    /\ callbacks \in Seq(Change)
    /\ transitions \in [Edges -> Nat]

\* The changes into and out of a state that are not counted yet.
Due(i) == callbacks[i].at = "started"
DueInto(s)  == {i \in DOMAIN callbacks : Due(i) /\ callbacks[i].to = s}
DueOutOf(s) == {i \in DOMAIN callbacks : Due(i) /\ callbacks[i].from = s}

One(b) == IF b THEN 1 ELSE 0

\* What is counted and what is due form a path together.
Balanced ==
    Len(callbacks) < MaxChanges =>
        \A s \in CircuitState :
            Into(s) + Cardinality(DueInto(s)) + One(s = "closed")
                = OutOf(s) + Cardinality(DueOutOf(s)) + One(s = state)

MetricsInv == MetricsTypeOK /\ Balanced

\* The sums are numbers.
LEMMA SumsAreNumbers ==
    ASSUME MetricsTypeOK, NEW s \in CircuitState
    PROVE  /\ Into(s) \in Nat /\ OutOf(s) \in Nat
           /\ IsFiniteSet(DueInto(s)) /\ IsFiniteSet(DueOutOf(s))
           /\ Cardinality(DueInto(s)) \in Nat /\ Cardinality(DueOutOf(s)) \in Nat
<1>1. \A f, t \in CircuitState : transitions[<<f, t>>] \in Nat
  BY DEF MetricsTypeOK, Edges
<1>2. Into(s) \in Nat /\ OutOf(s) \in Nat
  BY <1>1 DEF Into, OutOf, CircuitState
<1>3. DOMAIN callbacks = 1..Len(callbacks) /\ Len(callbacks) \in Nat
  BY LenProperties DEF MetricsTypeOK
<1>4. IsFiniteSet(DueInto(s)) /\ IsFiniteSet(DueOutOf(s))
  <2>1. IsFiniteSet(DOMAIN callbacks)
    BY <1>3, FS_Interval
  <2>2. DueInto(s) \subseteq DOMAIN callbacks /\ DueOutOf(s) \subseteq DOMAIN callbacks
    BY DEF DueInto, DueOutOf
  <2>. QED  BY <2>1, <2>2, FS_Subset
<1>. QED  BY <1>2, <1>4, FS_CardinalityType

\* A change of state becomes due: one more way into the new state, one more
\* out of the old one.
LEMMA ChangeBecomesDue ==
    ASSUME MetricsTypeOK, BreakerStep, state' \in CircuitState,
           callbacks' = Append(callbacks,
                               [from |-> state, to |-> state', at |-> "started"]),
           NEW s \in CircuitState
    PROVE  /\ Cardinality(DueInto(s)') = Cardinality(DueInto(s)) + One(s = state')
           /\ Cardinality(DueOutOf(s)') = Cardinality(DueOutOf(s)) + One(s = state)
<1> DEFINE c == [from |-> state, to |-> state', at |-> "started"]
           n == Len(callbacks) + 1
<1>1. /\ c \in Change /\ c.at = "started" /\ c.from = state /\ c.to = state'
  BY DEF Change, MetricsTypeOK
<1>2. /\ DOMAIN callbacks = 1..Len(callbacks) /\ Len(callbacks) \in Nat
      /\ DOMAIN callbacks' = (DOMAIN callbacks) \union {n} /\ n \notin DOMAIN callbacks
      /\ callbacks'[n] = c
      /\ \A i \in DOMAIN callbacks : callbacks'[i] = callbacks[i]
  <2>1. callbacks \in Seq(Change) /\ callbacks' = Append(callbacks, c)
    BY DEF MetricsTypeOK
  <2>. HIDE DEF c
  <2>. QED  BY <1>1, <2>1, AppendProperties, LenProperties
<1>. HIDE DEF c, n
<1>3. DueInto(s)' = IF s = state' THEN DueInto(s) \union {n} ELSE DueInto(s)
  BY <1>1, <1>2 DEF DueInto, Due
<1>4. DueOutOf(s)' = IF s = state THEN DueOutOf(s) \union {n} ELSE DueOutOf(s)
  BY <1>1, <1>2 DEF DueOutOf, Due
<1>5. n \notin DueInto(s) /\ n \notin DueOutOf(s)
  BY <1>2 DEF DueInto, DueOutOf
<1>6. Cardinality(DueInto(s)') = Cardinality(DueInto(s)) + One(s = state')
  <2>1. CASE s = state'
    BY <1>3, <1>5, <2>1, SumsAreNumbers, FS_AddElement DEF One
  <2>2. CASE s # state'
    BY <1>3, <2>2, SumsAreNumbers DEF One
  <2>. QED  BY <2>1, <2>2
<1>7. Cardinality(DueOutOf(s)') = Cardinality(DueOutOf(s)) + One(s = state)
  <2>1. CASE s = state
    BY <1>4, <1>5, <2>1, SumsAreNumbers, FS_AddElement DEF One
  <2>2. CASE s # state
    BY <1>4, <2>2, SumsAreNumbers DEF One
  <2>. QED  BY <2>1, <2>2
<1>. QED  BY <1>6, <1>7

\* It is counted: no longer due, and one edge more.
LEMMA DueIsCounted ==
    ASSUME MetricsTypeOK, NEW i \in DOMAIN callbacks, IncrementTransition(i),
           NEW s \in CircuitState
    PROVE  /\ Into(s)' + Cardinality(DueInto(s)')
                = Into(s) + Cardinality(DueInto(s))
           /\ OutOf(s)' + Cardinality(DueOutOf(s)')
                = OutOf(s) + Cardinality(DueOutOf(s))
<1> DEFINE f == callbacks[i].from
           t == callbacks[i].to
<1>1. callbacks[i] \in Change /\ f \in CircuitState /\ t \in CircuitState
  <2>1. callbacks[i] \in Change
    BY ElementOfSeq, LenProperties DEF MetricsTypeOK
  <2>. QED  BY <2>1 DEF Change
<1>2. /\ DOMAIN callbacks' = DOMAIN callbacks
      /\ \A k \in DOMAIN callbacks : k # i => callbacks'[k] = callbacks[k]
      /\ callbacks'[i] = [callbacks[i] EXCEPT !.at = "counted"]
  BY DEF IncrementTransition, MetricsTypeOK
<1>3. Due(i) /\ ~(callbacks'[i].at = "started")
  BY <1>1, <1>2 DEF Due, IncrementTransition, Change
<1>4. \A a, b \in CircuitState :
          transitions'[<<a, b>>]
             = transitions[<<a, b>>] + One(a = f /\ b = t)
  <2>1. transitions' = [transitions EXCEPT ![<<f, t>>] = @ + 1]
    BY DEF IncrementTransition
  <2>2. transitions \in [Edges -> Nat]
    BY DEF MetricsTypeOK
  <2>. HIDE DEF f, t
  <2>3. \A e \in Edges :
           transitions'[e] = transitions[e] + One(e = <<f, t>>)
    BY <1>1, <2>1, <2>2 DEF One, Edges
  <2>. QED  BY <1>1, <2>3 DEF One, Edges
<1>5. \A a, b \in CircuitState : transitions[<<a, b>>] \in Nat
  BY DEF MetricsTypeOK, Edges
<1>. HIDE DEF f, t
<1>6. Into(s)' = Into(s) + One(s = t)
  BY <1>1, <1>4, <1>5 DEF Into, One, CircuitState
<1>7. OutOf(s)' = OutOf(s) + One(s = f)
  BY <1>1, <1>4, <1>5 DEF OutOf, One, CircuitState
<1>8. DueInto(s)' = DueInto(s) \ {i} /\ (i \in DueInto(s) <=> s = t)
  BY <1>2, <1>3 DEF DueInto, Due, t
<1>9. DueOutOf(s)' = DueOutOf(s) \ {i} /\ (i \in DueOutOf(s) <=> s = f)
  BY <1>2, <1>3 DEF DueOutOf, Due, f
<1>10. Cardinality(DueInto(s)') = Cardinality(DueInto(s)) - One(s = t)
  <2>1. CASE s = t
    BY <1>8, <2>1, SumsAreNumbers, FS_RemoveElement DEF One
  <2>2. CASE s # t
    <3>1. DueInto(s)' = DueInto(s)
      BY <1>8, <2>2
    <3>. QED  BY <2>2, <3>1, SumsAreNumbers DEF One
  <2>. QED  BY <2>1, <2>2
<1>11. Cardinality(DueOutOf(s)') = Cardinality(DueOutOf(s)) - One(s = f)
  <2>1. CASE s = f
    BY <1>9, <2>1, SumsAreNumbers, FS_RemoveElement DEF One
  <2>2. CASE s # f
    <3>1. DueOutOf(s)' = DueOutOf(s)
      BY <1>9, <2>2
    <3>. QED  BY <2>2, <3>1, SumsAreNumbers DEF One
  <2>. QED  BY <2>1, <2>2
<1>. QED  BY <1>6, <1>7, <1>10, <1>11, SumsAreNumbers DEF One

\* Counting what is due, and a goroutine's second statement, keep the balance.
LEMMA CallbackStep ==
    ASSUME MetricsInv, NEW i \in DOMAIN callbacks, Callback(i)
    PROVE  MetricsInv'
<1>1. MetricsTypeOK /\ state' = state
  BY DEF MetricsInv, Callback, IncrementTransition, RecordState, breakerVars
<1>2. i \in 1..Len(callbacks) /\ callbacks \in Seq(Change) /\ callbacks[i] \in Change
  BY ElementOfSeq, LenProperties DEF MetricsInv, MetricsTypeOK
<1>3. ASSUME NEW label \in {"counted", "done"},
             callbacks' = [callbacks EXCEPT ![i].at = label]
      PROVE  /\ callbacks' \in Seq(Change) /\ Len(callbacks') = Len(callbacks)
             /\ DOMAIN callbacks' = DOMAIN callbacks
             /\ \A k \in DOMAIN callbacks : k # i => callbacks'[k] = callbacks[k]
             /\ callbacks'[i] = [callbacks[i] EXCEPT !.at = label]
  <2>1. [callbacks[i] EXCEPT !.at = label] \in Change
    BY <1>2 DEF Change
  <2>. QED  BY <1>2, <1>3, <2>1, ExceptSeq, LenProperties
<1>4. CASE IncrementTransition(i)
  <2>1. transitions' \in [Edges -> Nat]
    <3>1. <<callbacks[i].from, callbacks[i].to>> \in Edges
      BY <1>2 DEF Change, Edges
    <3>2. /\ transitions' = [transitions EXCEPT
                ![<<callbacks[i].from, callbacks[i].to>>] = @ + 1]
          /\ transitions \in [Edges -> Nat]
      BY <1>1, <1>4 DEF IncrementTransition, MetricsTypeOK
    <3>. QED  BY <3>1, <3>2
  <2>2. MetricsTypeOK'
    BY <1>1, <1>3, <1>4, <2>1 DEF IncrementTransition, MetricsTypeOK
  <2>3. Balanced'
    <3> SUFFICES ASSUME Len(callbacks) < MaxChanges, NEW s \in CircuitState
                 PROVE  Into(s)' + Cardinality(DueInto(s)') + One(s = "closed")
                          = OutOf(s)' + Cardinality(DueOutOf(s)') + One(s = state)
      BY <1>1, <1>3, <1>4 DEF IncrementTransition, Balanced
    <3>1. Into(s) + Cardinality(DueInto(s)) + One(s = "closed")
            = OutOf(s) + Cardinality(DueOutOf(s)) + One(s = state)
      BY DEF MetricsInv, Balanced
    <3>. QED  BY <1>1, <1>4, <3>1, DueIsCounted
  <2>. QED  BY <2>2, <2>3 DEF MetricsInv
<1>5. CASE RecordState(i)
  <2>1. MetricsTypeOK'
    BY <1>1, <1>3, <1>5 DEF RecordState, MetricsTypeOK
  <2>2. \A k \in DOMAIN callbacks :
           /\ Due(k)' <=> Due(k)
           /\ Due(k) => callbacks'[k] = callbacks[k]
    BY <1>2, <1>3, <1>5 DEF RecordState, Due, Change
  <2>3. \A s \in CircuitState :
           DueInto(s)' = DueInto(s) /\ DueOutOf(s)' = DueOutOf(s)
    BY <1>3, <1>5, <2>2 DEF RecordState, DueInto, DueOutOf
  <2>4. \A s \in CircuitState : Into(s)' = Into(s) /\ OutOf(s)' = OutOf(s)
    BY <1>5 DEF RecordState, Into, OutOf
  <2>5. Balanced'
    BY <1>1, <1>3, <1>5, <2>3, <2>4 DEF RecordState, Balanced, MetricsInv
  <2>. QED  BY <2>1, <2>5 DEF MetricsInv
<1>. QED  BY <1>4, <1>5 DEF Callback

\* A change of state adds to what is due; past MaxChanges nothing is claimed.
LEMMA BreakerMoves ==
    ASSUME MetricsInv, BreakerStep, state' \in CircuitState
    PROVE  MetricsInv'
<1> DEFINE c == [from |-> state, to |-> state', at |-> "started"]
<1>1. MetricsTypeOK /\ transitions' = transitions
  BY DEF MetricsInv, BreakerStep
<1>2. \A s \in CircuitState : Into(s)' = Into(s) /\ OutOf(s)' = OutOf(s)
  BY <1>1 DEF Into, OutOf
<1>3. Len(callbacks) \in Nat
  BY <1>1, LenProperties DEF MetricsTypeOK
<1>4. CASE callbacks' = callbacks /\ state' = state
  BY <1>1, <1>2, <1>4 DEF MetricsInv, MetricsTypeOK, Balanced, DueInto, DueOutOf, Due
<1>5. CASE callbacks' = callbacks /\ Len(callbacks) = MaxChanges
  BY <1>1, <1>3, <1>5, BreakerMetricsAssumption
     DEF MetricsInv, MetricsTypeOK, Balanced
<1>6. CASE callbacks' = Append(callbacks, c)
  <2>1. c \in Change
    BY <1>1 DEF Change, MetricsTypeOK
  <2>2. callbacks' \in Seq(Change) /\ Len(callbacks') = Len(callbacks) + 1
    <3>1. callbacks \in Seq(Change)
      BY <1>1 DEF MetricsTypeOK
    <3>. HIDE DEF c
    <3>. QED  BY <1>6, <2>1, <3>1, AppendProperties
  <2>3. MetricsTypeOK'
    BY <1>1, <2>2 DEF MetricsTypeOK
  <2>4. Balanced'
    <3> SUFFICES ASSUME Len(callbacks) < MaxChanges, NEW s \in CircuitState
                 PROVE  Into(s)' + Cardinality(DueInto(s)') + One(s = "closed")
                          = OutOf(s)' + Cardinality(DueOutOf(s)') + One(s = state')
      BY <1>3, <2>2, BreakerMetricsAssumption DEF Balanced
    <3>1. Into(s) + Cardinality(DueInto(s)) + One(s = "closed")
            = OutOf(s) + Cardinality(DueOutOf(s)) + One(s = state)
      BY DEF MetricsInv, Balanced
    <3>2. /\ Cardinality(DueInto(s)') = Cardinality(DueInto(s)) + One(s = state')
          /\ Cardinality(DueOutOf(s)') = Cardinality(DueOutOf(s)) + One(s = state)
      BY <1>1, <1>6, ChangeBecomesDue
    <3>3. One(s = "closed") \in Nat /\ One(s = state) \in Nat /\ One(s = state') \in Nat
      BY DEF One
    <3>4. Into(s)' = Into(s) /\ OutOf(s)' = OutOf(s)
      BY <1>2
    <3>. QED  BY <1>1, <3>1, <3>2, <3>3, <3>4, SumsAreNumbers
  <2>. QED  BY <2>3, <2>4 DEF MetricsInv
<1>. QED  BY <1>4, <1>5, <1>6 DEF BreakerStep, TransitionTo

\* The invariant of the callbacks (transitionTo and the callback of New).
THEOREM MetricsInvariant == MetricsSpec => []MetricsInv
<1>1. MetricsInit => MetricsInv
  <2> SUFFICES ASSUME MetricsInit PROVE MetricsInv
    OBVIOUS
  <2>1. state = "closed" /\ callbacks = <<>> /\ transitions = [e \in Edges |-> 0]
    BY DEF MetricsInit, Init
  <2>2. MetricsTypeOK
    BY <2>1 DEF MetricsTypeOK, CircuitState
  <2>3. \A s \in CircuitState :
           /\ DueInto(s) = {} /\ DueOutOf(s) = {}
           /\ Into(s) = 0 /\ OutOf(s) = 0
    BY <2>1 DEF DueInto, DueOutOf, Into, OutOf, CircuitState, Edges
  <2>. QED  BY <2>1, <2>2, <2>3, FS_EmptySet DEF MetricsInv, Balanced, One
<1>2. MetricsInv /\ TypeOK' /\ [MetricsNext]_metricsVars => MetricsInv'
  <2> SUFFICES ASSUME MetricsInv, TypeOK', [MetricsNext]_metricsVars
               PROVE  MetricsInv'
    OBVIOUS
  <2>1. CASE BreakerStep
    BY <2>1, BreakerMoves DEF TypeOK
  <2>2. CASE \E i \in DOMAIN callbacks : Callback(i)
    BY <2>2, CallbackStep
  <2>3. CASE UNCHANGED metricsVars
    <3>1. state' = state /\ callbacks' = callbacks /\ transitions' = transitions
      BY <2>3 DEF metricsVars, breakerVars
    <3>2. \A s \in CircuitState :
             /\ DueInto(s)' = DueInto(s) /\ DueOutOf(s)' = DueOutOf(s)
             /\ Into(s)' = Into(s) /\ OutOf(s)' = OutOf(s)
      BY <3>1 DEF DueInto, DueOutOf, Due, Into, OutOf
    <3>. QED  BY <3>1, <3>2 DEF MetricsInv, MetricsTypeOK, Balanced
  <2>. QED  BY <2>1, <2>2, <2>3 DEF MetricsNext
<1>. QED  BY <1>1, <1>2, CallbacksLeaveBreakerAlone, BreakerTypeCorrect, PTL
          DEF MetricsSpec

\* Once the callbacks have run, in whatever order, the transition counters
\* form a path from closed to the breaker's state (docs/metrics.md:294).
THEOREM BreakerCountersFormPath == MetricsSpec => []CountersFormPath
<1>1. MetricsInv => CountersFormPath
  <2> SUFFICES ASSUME MetricsInv, Quiet, NEW s \in CircuitState
               PROVE  Into(s) + (IF s = "closed" THEN 1 ELSE 0)
                        = OutOf(s) + (IF s = state THEN 1 ELSE 0)
    BY DEF CountersFormPath
  <2>1. DueInto(s) = {} /\ DueOutOf(s) = {}
    BY DEF Quiet, DueInto, DueOutOf, Due
  <2>2. Cardinality(DueInto(s)) = 0 /\ Cardinality(DueOutOf(s)) = 0
    BY <2>1, FS_EmptySet
  <2>. QED  BY <2>2, SumsAreNumbers DEF MetricsInv, Balanced, Quiet, One
<1>. QED  BY <1>1, MetricsInvariant, PTL
==============================================================================

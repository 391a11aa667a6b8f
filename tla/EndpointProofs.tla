--------------------------- MODULE EndpointProofs ---------------------------
(***************************************************************************)
(* Proofs about the webhook endpoint: the rate limiter at its door, for    *)
(* every rate and interval, and the handler behind it, for any number of   *)
(* concurrent requests, any queue and every configuration.                 *)
(*                                                                         *)
(* The limiter: the requests admitted in the window and those still in the *)
(* bucket are bounded together (WindowBound); a bucket last refilled       *)
(* before the window has grown by less than one request in between, as     *)
(* soon as somebody has asked (OldRefill).                                 *)
(*                                                                         *)
(* The handler: a request that was counted has passed the checks           *)
(* (Filtered), one that was given to the queue is of an allowed project    *)
(* (Authorised), and every step moves one request (StepKeepsInv), into or  *)
(* past the set that a label of the counter counts (CountsUp, CountsStay). *)
(***************************************************************************)
EXTENDS RateLimiter, WebhookIntake, TLAPS, FiniteSetTheorems

(* The rate limiter *)

Gap(t) == IF t > since THEN t - since ELSE 0

WindowBound(c, t) == (admitted + c) * Interval <= (Rate + 1) * Interval + Rate * Gap(t)

OldRefill(c, t) ==
    t < since /\ admitted > 0 =>
        admitted + c <= Rate /\ (since - t) * Rate < Interval

EmptyAfterAdmission == capacity = 0 => lastRefill <= lastAdmit

BucketInv ==
    /\ LimiterTypeOK
    /\ WindowBound(capacity, lastRefill)
    /\ OldRefill(capacity, lastRefill)
    /\ EmptyAfterAdmission
-----------------------------------------------------------------------------
\* The integer division of ticks into requests.
LEMMA DivBounds ==
    ASSUME NEW x \in Nat, NEW d \in Nat \ {0}
    PROVE  /\ x \div d \in Nat
           /\ (x \div d) * d <= x
           /\ x < (x \div d) * d + d
  BY Z3

\* What refill computes from well-typed variables.
LEMMA RefillFacts ==
    ASSUME LimiterTypeOK
    PROVE  /\ CapacityToAdd \in Nat
           /\ CapacityToAdd * Interval <= (now - lastRefill) * Rate
           /\ (now - lastRefill) * Rate < CapacityToAdd * Interval + Interval
           /\ Refilled \in 0..Rate
           /\ RefillTime \in lastRefill..now
           /\ Refilled = 0 => CapacityToAdd = 0 /\ capacity = 0
  <1>1. /\ Rate \in Nat \ {0} /\ Interval \in Nat \ {0} /\ MaxTime \in Nat
        /\ capacity \in 0..Rate /\ now \in Nat /\ lastRefill \in 0..now
    BY RateLimiterAssumption DEF LimiterTypeOK
  <1>2. (now - lastRefill) * Rate \in Nat
    BY <1>1
  <1>3. /\ CapacityToAdd \in Nat
        /\ CapacityToAdd * Interval <= (now - lastRefill) * Rate
        /\ (now - lastRefill) * Rate < CapacityToAdd * Interval + Interval
    BY <1>1, <1>2, DivBounds DEF CapacityToAdd
  <1> QED  BY <1>1, <1>3 DEF Refilled, RefillTime

\* Refilling keeps the bounds on the window.
LEMMA RefillKeepsBounds ==
    ASSUME BucketInv
    PROVE  /\ WindowBound(Refilled, RefillTime)
           /\ OldRefill(Refilled, RefillTime)
           /\ RefillTime < since => (since - RefillTime) * Rate < Interval
  <1>1. /\ Rate \in Nat \ {0} /\ Interval \in Nat \ {0} /\ capacity \in 0..Rate
        /\ now \in Nat /\ lastRefill \in 0..now /\ since \in 0..now
        /\ admitted \in Nat
    BY RateLimiterAssumption DEF BucketInv, LimiterTypeOK
  <1>2. /\ CapacityToAdd \in Nat
        /\ CapacityToAdd * Interval <= (now - lastRefill) * Rate
        /\ (now - lastRefill) * Rate < CapacityToAdd * Interval + Interval
        /\ Refilled \in 0..Rate
    BY RefillFacts DEF BucketInv
  <1>3. WindowBound(capacity, lastRefill) /\ OldRefill(capacity, lastRefill)
    BY DEF BucketInv
  <1>4. CASE CapacityToAdd = 0
    <2>1. Refilled = capacity /\ RefillTime = lastRefill
      BY <1>1, <1>4 DEF Refilled, RefillTime
    <2>2. (now - lastRefill) * Rate < Interval
      BY <1>1, <1>2, <1>4
    <2>3. (since - lastRefill) * Rate <= (now - lastRefill) * Rate
      BY <1>1
    <2> QED  BY <2>1, <2>2, <2>3, <1>1, <1>3
  <1>5. CASE CapacityToAdd > 0
    <2>1. RefillTime = now /\ ~(RefillTime < since) /\ Gap(RefillTime) = now - since
      BY <1>1, <1>5 DEF RefillTime, Gap
    <2>2. Refilled <= capacity + CapacityToAdd
      BY <1>1, <1>2 DEF Refilled
    <2>3. (admitted + Refilled) * Interval <= (Rate + 1) * Interval + Rate * (now - since)
      <3>1. CASE lastRefill >= since
        <4>1. (admitted + capacity) * Interval
                <= (Rate + 1) * Interval + Rate * (lastRefill - since)
          BY <3>1, <1>1, <1>3 DEF WindowBound, Gap
        <4>2. (admitted + Refilled) * Interval
                <= (admitted + capacity) * Interval + CapacityToAdd * Interval
          BY <2>2, <1>1, <1>2
        <4>3. Rate * (now - since) = Rate * (lastRefill - since) + (now - lastRefill) * Rate
          BY <1>1
        <4> QED  BY <4>1, <4>2, <4>3, <1>1, <1>2
      <3>2. CASE lastRefill < since /\ admitted > 0
        <4>1. admitted + capacity <= Rate /\ (since - lastRefill) * Rate < Interval
          BY <3>2, <1>3 DEF OldRefill
        <4>2. (admitted + Refilled) * Interval <= Rate * Interval + CapacityToAdd * Interval
          BY <4>1, <2>2, <1>1, <1>2
        <4>3. (now - lastRefill) * Rate = Rate * (now - since) + (since - lastRefill) * Rate
          BY <1>1
        <4> QED  BY <4>1, <4>2, <4>3, <1>1, <1>2
      <3>3. CASE admitted = 0
        <4>1. (admitted + Refilled) * Interval <= Rate * Interval
          BY <3>3, <1>1, <1>2
        <4>2. Rate * (now - since) >= 0
          BY <1>1
        <4> QED  BY <4>1, <4>2, <1>1, <1>2
      <3> QED  BY <3>1, <3>2, <3>3, <1>1
    <2> QED  BY <2>1, <2>3 DEF WindowBound, OldRefill
  <1> QED  BY <1>2, <1>4, <1>5
-----------------------------------------------------------------------------
LEMMA BucketInit == LimiterInit => BucketInv
  <1> SUFFICES ASSUME LimiterInit PROVE BucketInv
    OBVIOUS
  <1>1. LimiterTypeOK
    BY RateLimiterAssumption DEF LimiterInit, LimiterTypeOK
  <1>2. WindowBound(capacity, lastRefill)
    BY RateLimiterAssumption DEF LimiterInit, WindowBound, Gap
  <1> QED  BY <1>1, <1>2, RateLimiterAssumption DEF LimiterInit, BucketInv, OldRefill, EmptyAfterAdmission

LEMMA BucketNext == BucketInv /\ [LimiterNext]_limiterVars => BucketInv'
  <1> SUFFICES ASSUME BucketInv, [LimiterNext]_limiterVars PROVE BucketInv'
    OBVIOUS
  <1>1. /\ Rate \in Nat \ {0} /\ Interval \in Nat \ {0} /\ MaxTime \in Nat
        /\ capacity \in 0..Rate /\ now \in 0..MaxTime /\ lastRefill \in 0..now
        /\ since \in 0..now /\ lastAdmit \in 0..now /\ admitted \in Nat
    BY RateLimiterAssumption DEF BucketInv, LimiterTypeOK
  <1>2. /\ Refilled \in 0..Rate /\ RefillTime \in lastRefill..now
        /\ Refilled = 0 => CapacityToAdd = 0 /\ capacity = 0
    BY RefillFacts DEF BucketInv
  <1>3. /\ WindowBound(Refilled, RefillTime) /\ OldRefill(Refilled, RefillTime)
        /\ RefillTime < since => (since - RefillTime) * Rate < Interval
    BY RefillKeepsBounds
  <1>4. /\ WindowBound(capacity, lastRefill) /\ OldRefill(capacity, lastRefill)
        /\ EmptyAfterAdmission
    BY DEF BucketInv
  <1>5. CASE Grant
    <2>1. LimiterTypeOK'
      BY <1>1, <1>2, <1>5 DEF Grant, LimiterTypeOK
    <2>2. WindowBound(capacity, lastRefill)'
      BY <1>1, <1>2, <1>3, <1>5 DEF Grant, WindowBound, Gap
    <2>3. OldRefill(capacity, lastRefill)'
      <3> SUFFICES ASSUME RefillTime < since
                   PROVE  /\ (admitted + 1) + (Refilled - 1) <= Rate
                          /\ (since - RefillTime) * Rate < Interval
        BY <1>5 DEF Grant, OldRefill
      <3> QED  BY <1>1, <1>2, <1>3 DEF OldRefill
    <2>4. EmptyAfterAdmission'
      BY <1>1, <1>2, <1>5 DEF Grant, EmptyAfterAdmission
    <2> QED  BY <2>1, <2>2, <2>3, <2>4 DEF BucketInv
  <1>6. CASE Refuse \/ GetAvailableCapacity
    <2>1. /\ capacity' = Refilled /\ lastRefill' = RefillTime
          /\ UNCHANGED <<now, since, admitted, lastAdmit>>
      BY <1>6 DEF Refuse, GetAvailableCapacity, windowVars
    <2>2. LimiterTypeOK'
      BY <1>1, <1>2, <2>1 DEF LimiterTypeOK
    <2>3. WindowBound(capacity, lastRefill)'
      BY <1>3, <2>1 DEF WindowBound, Gap
    <2>4. OldRefill(capacity, lastRefill)'
      BY <1>3, <2>1 DEF OldRefill
    <2>5. EmptyAfterAdmission'
      <3>1. Refilled = 0 => RefillTime = lastRefill /\ capacity = 0
        BY <1>2 DEF RefillTime
      <3> QED  BY <3>1, <2>1, <1>4 DEF EmptyAfterAdmission
    <2> QED  BY <2>2, <2>3, <2>4, <2>5 DEF BucketInv
  <1>7. CASE ResetBucket
    <2>1. /\ capacity' = Rate /\ lastRefill' = now /\ since' = now
          /\ admitted' = 0 /\ now' = now /\ lastAdmit' = lastAdmit
      BY <1>7 DEF ResetBucket
    <2>2. LimiterTypeOK'
      BY <1>1, <2>1 DEF LimiterTypeOK
    <2>3. WindowBound(capacity, lastRefill)'
      BY <1>1, <2>1 DEF WindowBound, Gap
    <2> QED  BY <1>1, <2>1, <2>2, <2>3 DEF BucketInv, OldRefill, EmptyAfterAdmission
  <1>8. CASE Tick
    <2>1. /\ now < MaxTime /\ now' = now + 1
          /\ UNCHANGED <<capacity, lastRefill, since, admitted, lastAdmit>>
      BY <1>8 DEF Tick, bucketVars, windowVars
    <2>2. LimiterTypeOK'
      BY <1>1, <2>1 DEF LimiterTypeOK
    <2> QED  BY <1>4, <2>1, <2>2 DEF BucketInv, WindowBound, Gap, OldRefill, EmptyAfterAdmission
  <1>9. CASE OpenWindow
    <2>1. /\ since' = now /\ admitted' = 0
          /\ UNCHANGED <<capacity, lastRefill, now, lastAdmit>>
      BY <1>9 DEF OpenWindow, bucketVars
    <2>2. LimiterTypeOK'
      BY <1>1, <2>1 DEF LimiterTypeOK
    <2>3. WindowBound(capacity, lastRefill)'
      <3>1. Gap(lastRefill)' = 0
        BY <1>1, <2>1 DEF Gap
      <3>2. (0 + capacity) * Interval <= (Rate + 1) * Interval
        BY <1>1
      <3> QED  BY <1>1, <2>1, <3>1, <3>2 DEF WindowBound
    <2> QED  BY <1>4, <2>1, <2>2, <2>3 DEF BucketInv, OldRefill, EmptyAfterAdmission
  <1>10. CASE UNCHANGED limiterVars
    BY <1>10, <1>4 DEF limiterVars, bucketVars, windowVars, BucketInv, LimiterTypeOK, WindowBound, Gap,
                       OldRefill, EmptyAfterAdmission
  <1> QED  BY <1>5, <1>6, <1>7, <1>8, <1>9, <1>10 DEF LimiterNext, Allow

\* The inductive invariant of the limiter.
THEOREM LimiterInv == LimiterSpec => []BucketInv
  BY BucketInit, BucketNext, PTL DEF LimiterSpec

\* The limiter's variables keep their types: the bucket holds at most Rate
\* requests and never less than none.
THEOREM LimiterTypeCorrect == LimiterSpec => []LimiterTypeOK
  <1>1. BucketInv => LimiterTypeOK
    BY DEF BucketInv
  <1> QED  BY <1>1, LimiterInv, PTL

\* In every window of time the requests admitted are bounded by a full
\* bucket, one more request and the rate, for every rate and interval.
THEOREM LimiterAdmitsAtRate == LimiterSpec => []AdmitsAtRate
  <1>1. BucketInv => AdmitsAtRate
    <2> SUFFICES ASSUME BucketInv PROVE AdmitsAtRate
      OBVIOUS
    <2>1. /\ Rate \in Nat \ {0} /\ Interval \in Nat \ {0} /\ capacity \in 0..Rate
          /\ now \in Nat /\ lastRefill \in 0..now /\ since \in 0..now
          /\ admitted \in Nat /\ WindowBound(capacity, lastRefill)
      BY RateLimiterAssumption DEF BucketInv, LimiterTypeOK
    <2>2. Rate * Gap(lastRefill) <= Rate * (now - since)
      BY <2>1 DEF Gap
    <2>3. admitted * Interval <= (admitted + capacity) * Interval
      BY <2>1
    <2>4. Gap(lastRefill) \in Nat
      BY <2>1 DEF Gap
    <2> QED  BY <2>1, <2>2, <2>3, <2>4 DEF WindowBound, AdmitsAtRate
  <1> QED  BY <1>1, LimiterInv, PTL

\* Both together: the bucket keeps its bounds and the window its rate.
THEOREM LimiterSoundness == LimiterSpec => []LimiterSound
  <1> QED  BY LimiterTypeCorrect, LimiterAdmitsAtRate, PTL DEF LimiterSound

\* A request is refused only within the time of one request after another
\* one was admitted.
THEOREM LimiterRefusesOnlyAfterAdmission == LimiterSpec => []RefusesOnlyAfterAdmission
  <1>1. BucketInv => RefusesOnlyAfterAdmission
    <2> SUFFICES ASSUME BucketInv, Refilled = 0
                 PROVE  (now - lastAdmit) * Rate < Interval
      BY DEF RefusesOnlyAfterAdmission
    <2>1. /\ Rate \in Nat \ {0} /\ Interval \in Nat \ {0} /\ now \in Nat
          /\ lastRefill \in 0..now /\ lastAdmit \in 0..now
      BY RateLimiterAssumption DEF BucketInv, LimiterTypeOK
    <2>2. CapacityToAdd = 0 /\ capacity = 0 /\ (now - lastRefill) * Rate < Interval
      BY <2>1, RefillFacts DEF BucketInv
    <2>3. lastRefill <= lastAdmit
      BY <2>2 DEF BucketInv, EmptyAfterAdmission
    <2>4. (now - lastAdmit) * Rate <= (now - lastRefill) * Rate
      BY <2>1, <2>3
    <2> QED  BY <2>1, <2>2, <2>4
  <1> QED  BY <1>1, LimiterInv, PTL
-----------------------------------------------------------------------------
(* The handler *)

\* What the checks before the counter leave of the requests.
Passes(r) ==
    /\ secret => r.signed
    /\ r.type \in events

Answered == \A i \in Ids : pc[i] = "done" <=> response[i] # 0
Filtered == \A i \in Counted : Passes(request[i])
Authorised ==
    \A i \in Ids : pc[i] = "enqueue" \/ response[i] = 202 => IsProjectAllowed(request[i])
JobsAccepted == \A i \in jobs : response[i] = 202
TriggersKept == \A t \in events : t \in disabled => events = {"comment_added"}

IntakeInv ==
    /\ IntakeTypeOK
    /\ Answered
    /\ Filtered
    /\ Authorised
    /\ JobsAccepted
    /\ TriggersKept
    /\ ReceivedAddsUp
-----------------------------------------------------------------------------
\* FirstHit is the number of a check, or 0 if none of them hits.
LEMMA FirstHitFacts ==
    ASSUME NEW r
    PROVE  /\ FirstHit(r) \in 0..7
           /\ FirstHit(r) = 0 => \A k \in 1..7 : ~Checks(r)[k][1]
  <1> DEFINE I == {k \in 1..7 : Checks(r)[k][1]}
  <1>1. Len(Checks(r)) = 7
    BY DEF Checks
  <1>2. FirstHit(r) = IF I # {} THEN Min(I) ELSE 0
    BY <1>1 DEF FirstHit, SelectInSeq
  <1>3. ASSUME I # {} PROVE Min(I) \in 1..7
    <2> HIDE DEF I
    <2>1. I \subseteq 1..7
      BY DEF I
    <2>2. PICK n \in 1..7 : n \in I /\ \A m \in 1..7 : m < n => m \notin I
      <3>1. PICK k \in 1..7 : k \in I
        BY <2>1, <1>3
      <3>2. k = 1 \/ k = 2 \/ k = 3 \/ k = 4 \/ k = 5 \/ k = 6 \/ k = 7
        BY <3>1
      <3> QED  BY <3>1, <3>2
    <2>3. n \in I /\ \A y \in I : n <= y
      BY <2>1, <2>2
    <2> QED  BY <2>1, <2>3 DEF Min
  <1> QED  BY <1>2, <1>3

\* A request that no check turns down passes them all.
LEMMA NoHitPasses ==
    ASSUME NEW r, FirstHit(r) = 0, secret \in BOOLEAN
    PROVE  Passes(r)
  <1>1. \A k \in 1..7 : ~Checks(r)[k][1]
    BY FirstHitFacts
  <1>2. ~Checks(r)[3][1] /\ ~Checks(r)[5][1]
    BY <1>1
  <1> QED  BY <1>2 DEF Checks, Passes

\* Turning down answers with one of three statuses, none of them counted.
LEMMA HitStatus ==
    ASSUME NEW r, FirstHit(r) # 0
    PROVE  Checks(r)[FirstHit(r)][2] \in {200, 400, 401}
  <1>1. FirstHit(r) \in 1..7
    BY FirstHitFacts
  <1>2. \A k \in 1..7 : Checks(r)[k][2] \in {200, 400, 401}
    BY DEF Checks
  <1> QED  BY <1>1, <1>2

LEMMA IdsFinite ==
    /\ IsFiniteSet(Ids) /\ Cardinality(Ids) = MaxRequests
    /\ \A S \in SUBSET Ids : IsFiniteSet(S) /\ Cardinality(S) \in 0..MaxRequests
  <1>1. IsFiniteSet(Ids) /\ Cardinality(Ids) = MaxRequests
    BY FS_Interval, WebhookIntakeAssumption DEF Ids
  <1>2. ASSUME NEW S \in SUBSET Ids
        PROVE  IsFiniteSet(S) /\ Cardinality(S) \in 0..MaxRequests
    <2>1. IsFiniteSet(S) /\ Cardinality(S) <= MaxRequests
      BY <1>1, FS_Subset
    <2> QED  BY <2>1, FS_CardinalityType, WebhookIntakeAssumption
  <1> QED  BY <1>1, <1>2

LEMMA CountedAsIds ==
    ASSUME NEW label
    PROVE  CountedAs(label) \subseteq Ids
  BY DEF CountedAs, Counted
-----------------------------------------------------------------------------
\* The counter adds up after a step that counts nothing.
LEMMA CountsStay ==
    ASSUME IntakeInv, received' = received,
           \A label \in Labels : CountedAs(label)' = CountedAs(label)
    PROVE  ReceivedAddsUp' /\ received' \in [Labels -> 0..MaxRequests]
  BY DEF IntakeInv, ReceivedAddsUp, IntakeTypeOK

\* The counter adds up after a step that counts one more request.
LEMMA CountsUp ==
    ASSUME IntakeInv, NEW i \in Ids, NEW counted \in Labels, CountReceived(counted),
           i \notin CountedAs(counted), CountedAs(counted)' = CountedAs(counted) \union {i},
           \A label \in Labels \ {counted} : CountedAs(label)' = CountedAs(label)
    PROVE  ReceivedAddsUp' /\ received' \in [Labels -> 0..MaxRequests]
  <1>1. received \in [Labels -> 0..MaxRequests] /\ received' = [received EXCEPT ![counted] = @ + 1]
    BY DEF IntakeInv, IntakeTypeOK, CountReceived
  <1>2. \A label \in Labels : received[label] = Cardinality(CountedAs(label))
    BY DEF IntakeInv, ReceivedAddsUp
  <1>3. received'[counted] = Cardinality(CountedAs(counted)')
    <2>1. IsFiniteSet(CountedAs(counted))
      BY IdsFinite, CountedAsIds
    <2>2. Cardinality(CountedAs(counted) \union {i}) = Cardinality(CountedAs(counted)) + 1
      BY <2>1, FS_AddElement
    <2> QED  BY <1>1, <1>2, <2>2
  <1>4. Cardinality(CountedAs(counted)') \in 0..MaxRequests
    <2>1. CountedAs(counted) \union {i} \in SUBSET Ids
      BY CountedAsIds
    <2> QED  BY <2>1, IdsFinite
  <1>5. \A label \in Labels : received'[label] = Cardinality(CountedAs(label)')
    <2> SUFFICES ASSUME NEW label \in Labels
                 PROVE  received'[label] = Cardinality(CountedAs(label)')
      OBVIOUS
    <2>1. CASE label = counted
      BY <2>1, <1>3
    <2>2. CASE label # counted
      BY <2>2, <1>1, <1>2
    <2> QED  BY <2>1, <2>2
  <1> QED  BY <1>1, <1>3, <1>4, <1>5 DEF ReceivedAddsUp

LEMMA IntakeInitInv == IntakeInit => IntakeInv
  <1> SUFFICES ASSUME IntakeInit PROVE IntakeInv
    OBVIOUS
  <1>1. PICK file \in SUBSET EventTypes, env \in [EventTypes -> {"unset", "on", "off"}] :
           /\ events = Triggering(file, env)
           /\ disabled = {t \in EventTypes : env[t] = "off"}
    BY DEF IntakeInit
  <1>2. /\ pc = [i \in Ids |-> "none"] /\ request = [i \in Ids |-> NoRequest]
        /\ response = [i \in Ids |-> 0] /\ jobs = {}
        /\ received = [label \in Labels |-> 0]
        /\ {secret, restricted, keyword, byName} \subseteq BOOLEAN
    BY DEF IntakeInit
  <1>3. events \subseteq EventTypes /\ TriggersKept
    BY <1>1 DEF Triggering, Overridden, EventTypes, TriggersKept
  <1>4. IntakeTypeOK
    BY <1>1, <1>2, <1>3, WebhookIntakeAssumption DEF IntakeTypeOK
  <1>5. Counted = {} /\ \A label : CountedAs(label) = {}
    BY <1>2 DEF Counted, CountedAs
  <1>6. ReceivedAddsUp
    BY <1>2, <1>5, FS_EmptySet DEF ReceivedAddsUp
  <1> QED
    BY <1>2, <1>3, <1>4, <1>5, <1>6 DEF IntakeInv, Answered, Filtered, Authorised, JobsAccepted
-----------------------------------------------------------------------------
\* A step of request i leaves the counted requests other than i alone.
LEMMA CountedElsewhere ==
    ASSUME NEW i \in Ids, NEW label \in Labels,
           \A j \in Ids \ {i} :
               pc'[j] = pc[j] /\ response'[j] = response[j] /\ request'[j] = request[j]
    PROVE  \A j \in Ids \ {i} : j \in CountedAs(label)' <=> j \in CountedAs(label)
  <1>1. \A j \in Ids \ {i} : j \in Counted' <=> j \in Counted
    BY DEF Counted
  <1> QED  BY <1>1 DEF CountedAs

\* What a step of request i has to show of i alone.
LEMMA StepKeepsInv ==
    ASSUME IntakeInv, NEW i \in Ids, UNCHANGED configVars,
           pc' \in [Ids -> {"none", "received", "admitted", "enqueue", "done"}],
           response' \in [Ids -> {0, 200, 202, 400, 401, 403, 405, 429, 500, 503}],
           DOMAIN request' = Ids,
           \A j \in Ids \ {i} :
               pc'[j] = pc[j] /\ response'[j] = response[j] /\ request'[j] = request[j],
           IF pc'[i] = "none" THEN request'[i] = NoRequest ELSE request'[i] \in Request,
           pc'[i] = "done" <=> response'[i] # 0,
           pc'[i] = "enqueue" \/ response'[i] \in {202, 403, 500, 503} => Passes(request'[i]),
           pc'[i] = "enqueue" \/ response'[i] = 202 => IsProjectAllowed(request'[i]),
           jobs' \subseteq jobs \union {i}, i \in jobs' => response'[i] = 202,
           ReceivedAddsUp', received' \in [Labels -> 0..MaxRequests]
    PROVE  IntakeInv'
  <1> USE DEF configVars
  <1>1. IntakeTypeOK'
    BY DEF IntakeInv, IntakeTypeOK
  <1>2. Answered'
    <2> SUFFICES ASSUME NEW j \in Ids PROVE (pc'[j] = "done" <=> response'[j] # 0)
      BY DEF Answered
    <2> QED  BY DEF IntakeInv, Answered
  <1>3. Filtered'
    <2> SUFFICES ASSUME NEW j \in Counted' PROVE Passes(request'[j])
      BY DEF Filtered, Passes
    <2>1. CASE j = i
      BY <2>1 DEF Counted
    <2>2. CASE j # i
      <3>1. j \in Ids /\ j \in Counted /\ request'[j] = request[j]
        BY <2>2 DEF Counted
      <3> QED  BY <3>1 DEF IntakeInv, Filtered
    <2> QED  BY <2>1, <2>2
  <1>4. Authorised'
    <2> SUFFICES ASSUME NEW j \in Ids, pc'[j] = "enqueue" \/ response'[j] = 202
                 PROVE  IsProjectAllowed(request'[j])
      BY DEF Authorised, IsProjectAllowed
    <2>1. CASE j = i
      BY <2>1
    <2>2. CASE j # i
      BY <2>2 DEF IntakeInv, Authorised
    <2> QED  BY <2>1, <2>2
  <1>5. JobsAccepted'
    <2> SUFFICES ASSUME NEW j \in jobs' PROVE response'[j] = 202
      BY DEF JobsAccepted
    <2>1. CASE j = i
      BY <2>1
    <2>2. CASE j # i
      BY <2>2 DEF IntakeInv, JobsAccepted, IntakeTypeOK
    <2> QED  BY <2>1, <2>2
  <1>6. TriggersKept'
    BY DEF IntakeInv, TriggersKept
  <1> QED  BY <1>1, <1>2, <1>3, <1>4, <1>5, <1>6 DEF IntakeInv

\* The same for a step that counts nothing and leaves i counted as it was.
LEMMA UncountedStep ==
    ASSUME IntakeInv, NEW i \in Ids, UNCHANGED <<configVars, received>>,
           pc' \in [Ids -> {"none", "received", "admitted", "enqueue", "done"}],
           response' \in [Ids -> {0, 200, 202, 400, 401, 403, 405, 429, 500, 503}],
           DOMAIN request' = Ids,
           \A j \in Ids \ {i} :
               pc'[j] = pc[j] /\ response'[j] = response[j] /\ request'[j] = request[j],
           IF pc'[i] = "none" THEN request'[i] = NoRequest ELSE request'[i] \in Request,
           pc'[i] = "done" <=> response'[i] # 0,
           jobs' \subseteq jobs \union {i}, i \in jobs' => response'[i] = 202,
           pc'[i] = "enqueue" \/ response'[i] = 202 => IsProjectAllowed(request'[i]),
           i \in Counted' <=> i \in Counted,
           response'[i] = 429 <=> response[i] = 429,
           i \in Counted => request'[i] = request[i]
    PROVE  IntakeInv'
  <1>1. \A label \in Labels : CountedAs(label)' = CountedAs(label)
    <2> SUFFICES ASSUME NEW label \in Labels
                 PROVE  CountedAs(label)' = CountedAs(label)
      OBVIOUS
    <2>1. \A j \in Ids \ {i} : j \in CountedAs(label)' <=> j \in CountedAs(label)
      BY CountedElsewhere
    <2>2. i \in CountedAs(label)' <=> i \in CountedAs(label)
      BY DEF CountedAs
    <2>3. CountedAs(label)' \subseteq Ids /\ CountedAs(label) \subseteq Ids
      BY DEF CountedAs, Counted, Ids
    <2> QED  BY <2>1, <2>2, <2>3
  <1>2. ReceivedAddsUp' /\ received' \in [Labels -> 0..MaxRequests]
    BY <1>1, CountsStay
  <1>3. pc'[i] = "enqueue" \/ response'[i] \in {202, 403, 500, 503} => Passes(request'[i])
    BY DEF IntakeInv, Filtered, Counted
  <1> QED  BY <1>2, <1>3, StepKeepsInv
-----------------------------------------------------------------------------
\* The types of the variables that a step of request i changes.
LEMMA IntakeTypes ==
    ASSUME IntakeInv
    PROVE  /\ pc \in [Ids -> {"none", "received", "admitted", "enqueue", "done"}]
           /\ response \in [Ids -> {0, 200, 202, 400, 401, 403, 405, 429, 500, 503}]
           /\ DOMAIN request = Ids /\ jobs \subseteq Ids
           /\ \A i \in Ids : IF pc[i] = "none" THEN request[i] = NoRequest
                                                ELSE request[i] \in Request
           /\ \A i \in Ids : pc[i] = "done" <=> response[i] # 0
           /\ \A i \in jobs : response[i] = 202
           /\ secret \in BOOLEAN /\ events \subseteq EventTypes
  BY DEF IntakeInv, IntakeTypeOK, Answered, JobsAccepted

LEMMA SendInv ==
    ASSUME IntakeInv, NEW i \in Ids, NEW r \in Request, Send(i, r)
    PROVE  IntakeInv'
  <1>1. /\ pc[i] = "none" /\ response[i] = 0
        /\ pc' = [pc EXCEPT ![i] = "received"] /\ request' = [request EXCEPT ![i] = r]
        /\ UNCHANGED <<configVars, response, jobs, received>>
    BY IntakeTypes DEF Send
  <1>2. \A j \in Ids \ {i} :
            pc'[j] = pc[j] /\ response'[j] = response[j] /\ request'[j] = request[j]
    BY <1>1, IntakeTypes
  <1>3. pc'[i] = "received" /\ request'[i] = r /\ response'[i] = 0
    BY <1>1, IntakeTypes
  <1>4. i \notin Counted /\ i \notin Counted' /\ i \notin jobs
    BY <1>1, <1>3, IntakeTypes DEF Counted
  <1>5. pc' \in [Ids -> {"none", "received", "admitted", "enqueue", "done"}]
    BY <1>1, IntakeTypes
  <1> QED  BY <1>1, <1>2, <1>3, <1>4, <1>5, IntakeTypes, UncountedStep

\* An answer that does not count, to a request that has not been counted yet.
LEMMA AnswerInv ==
    ASSUME IntakeInv, NEW i \in Ids, NEW status \in {200, 400, 401, 405},
           pc[i] \in {"received", "admitted"}, Respond(i, status),
           UNCHANGED <<configVars, request, jobs, received>>
    PROVE  IntakeInv'
  <1>1. response[i] = 0
    BY IntakeTypes
  <1>2. \A j \in Ids \ {i} :
            pc'[j] = pc[j] /\ response'[j] = response[j] /\ request'[j] = request[j]
    BY IntakeTypes DEF Respond
  <1>3. pc'[i] = "done" /\ response'[i] = status
    BY IntakeTypes DEF Respond
  <1>4. i \notin Counted /\ i \notin Counted' /\ i \notin jobs
    BY <1>1, <1>3, IntakeTypes DEF Counted
  <1>5. pc' \in [Ids -> {"none", "received", "admitted", "enqueue", "done"}]
    BY IntakeTypes DEF Respond
  <1>6. response' \in [Ids -> {0, 200, 202, 400, 401, 403, 405, 429, 500, 503}]
    BY IntakeTypes DEF Respond
  <1>7. request'[i] \in Request
    BY IntakeTypes
  <1> QED  BY <1>1, <1>2, <1>3, <1>4, <1>5, <1>6, <1>7, IntakeTypes, UncountedStep

LEMMA AdmitInv ==
    ASSUME IntakeInv, NEW i \in Ids, AdmitRequest(i)
    PROVE  IntakeInv'
  <1>1. /\ pc[i] = "received" /\ response[i] = 0
        /\ pc' = [pc EXCEPT ![i] = "admitted"]
        /\ UNCHANGED <<configVars, request, response, jobs, received>>
    BY IntakeTypes DEF AdmitRequest
  <1>2. \A j \in Ids \ {i} :
            pc'[j] = pc[j] /\ response'[j] = response[j] /\ request'[j] = request[j]
    BY <1>1, IntakeTypes
  <1>3. pc'[i] = "admitted" /\ response'[i] = 0 /\ request'[i] \in Request
    BY <1>1, IntakeTypes
  <1>4. i \notin Counted /\ i \notin Counted' /\ i \notin jobs
    BY <1>1, <1>3, IntakeTypes DEF Counted
  <1>5. pc' \in [Ids -> {"none", "received", "admitted", "enqueue", "done"}]
    BY <1>1, IntakeTypes
  <1> QED  BY <1>1, <1>2, <1>3, <1>4, <1>5, IntakeTypes, UncountedStep

LEMMA RateLimitedInv ==
    ASSUME IntakeInv, NEW i \in Ids, RateLimited(i)
    PROVE  IntakeInv'
  <1>1. /\ pc[i] = "received" /\ response[i] = 0
        /\ Respond(i, 429) /\ CountReceived("rate_limited")
        /\ UNCHANGED <<configVars, request, jobs>>
    BY IntakeTypes DEF RateLimited
  <1>2. \A j \in Ids \ {i} :
            pc'[j] = pc[j] /\ response'[j] = response[j] /\ request'[j] = request[j]
    BY <1>1, IntakeTypes DEF Respond
  <1>3. pc'[i] = "done" /\ response'[i] = 429 /\ request'[i] \in Request
    BY <1>1, IntakeTypes DEF Respond
  <1>4. i \notin Counted /\ i \notin Counted' /\ i \notin jobs
    BY <1>1, <1>3, IntakeTypes DEF Counted
  <1>5. "rate_limited" \in Labels /\ "rate_limited" \notin EventTypes
    BY DEF Labels, EventTypes
  <1>6. ReceivedAddsUp' /\ received' \in [Labels -> 0..MaxRequests]
    <2>1. \A label \in Labels : \A j \in Ids \ {i} :
              j \in CountedAs(label)' <=> j \in CountedAs(label)
      BY <1>2, CountedElsewhere
    <2>2. \A label : CountedAs(label) \subseteq Ids /\ CountedAs(label)' \subseteq Ids
      BY DEF CountedAs, Counted, Ids
    <2>3. /\ i \notin CountedAs("rate_limited") /\ i \in CountedAs("rate_limited")'
          /\ \A label \in Labels \ {"rate_limited"} :
                 i \notin CountedAs(label) /\ i \notin CountedAs(label)'
      BY <1>1, <1>3, <1>4 DEF CountedAs
    <2>4. CountedAs("rate_limited")' = CountedAs("rate_limited") \union {i}
      BY <2>1, <2>2, <2>3, <1>5
    <2>5. \A label \in Labels \ {"rate_limited"} : CountedAs(label)' = CountedAs(label)
      BY <2>1, <2>2, <2>3
    <2> QED  BY <1>1, <1>5, <2>3, <2>4, <2>5, CountsUp
  <1>7. pc' \in [Ids -> {"none", "received", "admitted", "enqueue", "done"}]
    BY <1>1, IntakeTypes DEF Respond
  <1>8. response' \in [Ids -> {0, 200, 202, 400, 401, 403, 405, 429, 500, 503}]
    BY <1>1, IntakeTypes DEF Respond
  <1> QED  BY <1>1, <1>2, <1>3, <1>4, <1>6, <1>7, <1>8, IntakeTypes, StepKeepsInv

LEMMA PassInv ==
    ASSUME IntakeInv, NEW i \in Ids, Pass(i)
    PROVE  IntakeInv'
  <1>1. /\ pc[i] = "admitted" /\ response[i] = 0 /\ CountReceived(request[i].type)
        /\ UNCHANGED <<configVars, request, jobs>>
    BY IntakeTypes DEF Pass
  <1>2. Passes(request[i])
    BY IntakeTypes, NoHitPasses DEF Pass
  <1>3. request[i] \in Request /\ request[i].type \in EventTypes
    BY <1>1, <1>2, IntakeTypes DEF Passes
  <1>4. PICK type \in EventTypes : type = request[i].type
    BY <1>3
  <1>5. type \in Labels /\ request'[i].type = type /\ CountReceived(type)
    BY <1>1, <1>4 DEF Labels
  <1>6. \A j \in Ids \ {i} :
            pc'[j] = pc[j] /\ response'[j] = response[j] /\ request'[j] = request[j]
    BY <1>1, IntakeTypes DEF Pass, Respond
  <1>7. \/ pc'[i] = "enqueue" /\ response'[i] = 0 /\ IsProjectAllowed(request[i])
        \/ pc'[i] = "done" /\ response'[i] = 403
    BY IntakeTypes DEF Pass, Respond
  <1>8. i \notin Counted /\ i \in Counted' /\ i \notin jobs
    BY <1>1, <1>7, IntakeTypes DEF Counted
  <1>9. ReceivedAddsUp' /\ received' \in [Labels -> 0..MaxRequests]
    <2>1. \A label \in Labels : \A j \in Ids \ {i} :
              j \in CountedAs(label)' <=> j \in CountedAs(label)
      BY <1>6, CountedElsewhere
    <2>2. \A label : CountedAs(label) \subseteq Ids /\ CountedAs(label)' \subseteq Ids
      BY DEF CountedAs, Counted, Ids
    <2>3. type # "rate_limited"
      BY DEF EventTypes
    <2>4. \A label \in Labels : i \notin CountedAs(label)
      BY <1>1, <1>8 DEF CountedAs
    <2>5. /\ i \in CountedAs(type)'
          /\ \A label \in Labels \ {type} : i \notin CountedAs(label)'
      BY <1>7, <1>8, <1>4, <1>5, <2>3 DEF CountedAs
    <2>6. CountedAs(type)' = CountedAs(type) \union {i}
      BY <2>1, <2>2, <2>5, <1>5
    <2>7. \A label \in Labels \ {type} : CountedAs(label)' = CountedAs(label)
      BY <2>1, <2>2, <2>4, <2>5
    <2> QED  BY <1>5, <2>4, <2>6, <2>7, CountsUp
  <1>10. pc' \in [Ids -> {"none", "received", "admitted", "enqueue", "done"}]
    BY IntakeTypes DEF Pass, Respond
  <1>11. response' \in [Ids -> {0, 200, 202, 400, 401, 403, 405, 429, 500, 503}]
    BY IntakeTypes DEF Pass, Respond
  <1> QED
    BY <1>1, <1>2, <1>3, <1>6, <1>7, <1>8, <1>9, <1>10, <1>11, IntakeTypes, StepKeepsInv

\* The queue's answers: the request was counted before and stays counted.
LEMMA EnqueueInv ==
    ASSUME IntakeInv, NEW i \in Ids, Enqueue(i) \/ EnqueueFull(i) \/ EnqueueFails(i)
    PROVE  IntakeInv'
  <1>1. /\ pc[i] = "enqueue" /\ response[i] = 0
        /\ UNCHANGED <<configVars, request, received>>
    BY IntakeTypes DEF Enqueue, EnqueueFull, EnqueueFails
  <1>2. PICK status \in {202, 503, 500} :
           /\ Respond(i, status)
           /\ \/ status = 202 /\ jobs' = jobs \union {i}
              \/ jobs' = jobs
    BY DEF Enqueue, EnqueueFull, EnqueueFails
  <1>3. \A j \in Ids \ {i} :
            pc'[j] = pc[j] /\ response'[j] = response[j] /\ request'[j] = request[j]
    BY <1>1, <1>2, IntakeTypes DEF Respond
  <1>4. pc'[i] = "done" /\ response'[i] = status /\ request'[i] \in Request
    BY <1>1, <1>2, IntakeTypes DEF Respond
  <1>5. i \in Counted /\ i \in Counted' /\ i \notin jobs
    BY <1>1, <1>4, IntakeTypes DEF Counted
  <1>6. IsProjectAllowed(request'[i])
    BY <1>1 DEF IntakeInv, Authorised
  <1>7. pc' \in [Ids -> {"none", "received", "admitted", "enqueue", "done"}]
    BY <1>2, IntakeTypes DEF Respond
  <1>8. response' \in [Ids -> {0, 200, 202, 400, 401, 403, 405, 429, 500, 503}]
    BY <1>2, IntakeTypes DEF Respond
  <1>9. jobs' \subseteq jobs \union {i} /\ (i \in jobs' => response'[i] = 202)
    BY <1>2, <1>4, <1>5
  <1> QED
    BY <1>1, <1>3, <1>4, <1>5, <1>6, <1>7, <1>8, <1>9, IntakeTypes, UncountedStep

LEMMA ReviewEndsInv ==
    ASSUME IntakeInv, NEW i \in Ids, ReviewEnds(i)
    PROVE  IntakeInv'
  <1>1. /\ jobs' = jobs \ {i}
        /\ UNCHANGED <<configVars, pc, request, response, received>>
    BY DEF ReviewEnds
  <1>2. Counted' = Counted
    BY <1>1 DEF Counted
  <1>3. pc[i] = "enqueue" \/ response[i] = 202 => IsProjectAllowed(request[i])
    BY DEF IntakeInv, Authorised
  <1> QED  BY <1>1, <1>2, <1>3, IntakeTypes, UncountedStep

LEMMA IntakeNextInv == IntakeInv /\ [IntakeNext]_intakeVars => IntakeInv'
  <1> SUFFICES ASSUME IntakeInv, [IntakeNext]_intakeVars PROVE IntakeInv'
    OBVIOUS
  <1>1. ASSUME NEW i \in Ids, SendFromUser(i) PROVE IntakeInv'
    BY <1>1, SendInv, WebhookIntakeAssumption DEF SendFromUser
  <1>2. ASSUME NEW i \in Ids, SendFromBot(i) PROVE IntakeInv'
    <2>1. PICK text \in Texts, listed \in BOOLEAN, named \in BOOLEAN :
             Send(i, [body |-> "event", post |-> TRUE, signed |-> TRUE, listed |-> listed,
                      type |-> "comment_added", author |-> "bot", named |-> named,
                      text |-> text])
      BY <1>2 DEF SendFromBot
    <2>2. [body |-> "event", post |-> TRUE, signed |-> TRUE, listed |-> listed,
           type |-> "comment_added", author |-> "bot", named |-> named,
           text |-> text] \in Request
      BY WebhookIntakeAssumption DEF Request, EventTypes
    <2> QED  BY <2>1, <2>2, SendInv
  <1>3. ASSUME NEW i \in Ids, HandleWebhook(i) PROVE IntakeInv'
    <2>1. CASE NotAllowed(i)
      BY <2>1, AnswerInv DEF NotAllowed
    <2>2. CASE TurnDown(i)
      BY <2>2, HitStatus, AnswerInv DEF TurnDown
    <2> QED
      BY <1>3, <2>1, <2>2, RateLimitedInv, AdmitInv, PassInv, EnqueueInv DEF HandleWebhook
  <1>4. ASSUME UNCHANGED intakeVars PROVE IntakeInv'
    <2>1. Counted' = Counted /\ \A label : CountedAs(label)' = CountedAs(label)
      BY <1>4 DEF intakeVars, configVars, Counted, CountedAs
    <2> QED
      BY <1>4, <2>1 DEF intakeVars, configVars, IntakeInv, IntakeTypeOK, Answered, Filtered, Passes,
         Authorised, IsProjectAllowed, JobsAccepted, TriggersKept,
         ReceivedAddsUp
  <1> QED  BY <1>1, <1>2, <1>3, <1>4, ReviewEndsInv DEF IntakeNext

\* The inductive invariant of the webhook handler.
THEOREM IntakeInvariant == IntakeSpec => []IntakeInv
  BY IntakeInitInv, IntakeNextInv, PTL DEF IntakeSpec

\* The variables keep their types, and webhook_received_total counts exactly
\* the requests that passed every filter, and those that the limiter refused,
\* for any number of concurrent requests.
THEOREM IntakeSoundness == IntakeSpec => []IntakeSound
  <1>1. IntakeInv => IntakeSound
    BY DEF IntakeInv, IntakeSound
  <1> QED  BY <1>1, IntakeInvariant, PTL

\* Only signed requests for allowed projects and triggering types get a review.
THEOREM IntakeAuthorises == IntakeSpec => []AcceptedIsAuthorised
  <1>1. IntakeInv => AcceptedIsAuthorised
    <2> SUFFICES ASSUME IntakeInv PROVE AcceptedIsAuthorised
      OBVIOUS
    <2>1. \A i \in Ids : response[i] = 202 => Passes(request[i]) /\ IsProjectAllowed(request[i])
      BY DEF IntakeInv, Filtered, Counted, Authorised
    <2>2. DisabledStaysOff
      BY <2>1 DEF DisabledStaysOff, Passes, IntakeInv, TriggersKept
    <2>3. \A i \in Ids : response[i] # 202 => i \notin jobs
      BY DEF IntakeInv, JobsAccepted
    <2> QED  BY <2>1, <2>2, <2>3 DEF AcceptedIsAuthorised, Passes
  <1> QED  BY <1>1, IntakeInvariant, PTL
=============================================================================

-------------------------- MODULE ReviewQueueProofs -------------------------
(***************************************************************************)
(* Theorems about ReviewQueue, for all jobs, workers, queue sizes, retry   *)
(* limits and thresholds.                                                  *)
(*                                                                         *)
(* Part 1: types, the steps, the breaker within the queue.                 *)
(* Part 2: what the queue does with a job: it is in one place, and its     *)
(*         emojis and the marks of pull requests follow it.                *)
(* Part 3: what becomes of the jobs: the steps are sorted by what they do  *)
(*         to a job, and from that follow the bound on its reviews and the *)
(*         refinement of ReviewJobs.                                       *)
(***************************************************************************)
EXTENDS ReviewQueue, FiniteSetTheorems, SequenceTheorems, TLAPS

\* Type correctness of the actions, one group of variables at a time.
LEMMA UpdateReactionType ==
    ASSUME NEW j \in Jobs, NEW old, NEW new \in SUBSET Emojis,
           reactions \in [Jobs -> SUBSET Emojis],
           UpdateReaction(j, old, new)
    PROVE  reactions' \in [Jobs -> SUBSET Emojis]
BY DEF UpdateReaction

LEMMA RequeueItemType ==
    ASSUME NEW j \in Jobs, TypeOK, RequeueItem(j)
    PROVE  /\ retryCount' \in [Jobs -> 0..(MaxRetries + 1)]
           /\ backoff' \subseteq Jobs /\ resending' \subseteq Jobs
BY ReviewQueueAssumption DEF RequeueItem, TypeOK

LEMMA GiveUpType ==
    ASSUME NEW w \in Workers, TypeOK, item[w] \in Jobs, GiveUp(w)
    PROVE  /\ fate' \in [Jobs -> Fates]
           /\ reactions' \in [Jobs -> SUBSET Emojis]
           /\ pc' = [pc EXCEPT ![w] = "unmark"]
           /\ UNCHANGED <<retryVars, reviews>>
<1>1. {"FAILED"} \in SUBSET Emojis
  BY DEF Emojis
<1>2. reactions' \in [Jobs -> SUBSET Emojis]
  BY <1>1, UpdateReactionType DEF GiveUp, TypeOK
<1>. QED  BY <1>2 DEF GiveUp, Settle, Goto, TypeOK, Fates, Settled

\* A worker that is at work on an item holds one.
ItemHeld ==
    \A w \in Workers : pc[w] \notin {"off", "idle", "exited"} => item[w] \in Jobs

\* The place the handler holding q.mu has taken is still counted: the cut of
\* the last element on ctx.Done() never meets an empty slice.
SendingCounted == ~MuFree => size > 0

NotStarted == phase = "new" => \A w \in Workers : pc[w] = "off"

TypeInv == TypeOK /\ ItemHeld /\ SendingCounted /\ NotStarted

\* The breaker's variables have their types after every step of the breaker.
LEMMA BreakerType ==
    ASSUME Breaker!TypeOK, [Breaker!Next]_breakerVars
    PROVE  Breaker!TypeOK'
<1>. USE DEF Breaker!TypeOK, Breaker!CircuitState
<1>1. ASSUME NEW w \in Workers, Breaker!Admit(w) PROVE Breaker!TypeOK'
  <2>1. breakerState' \in Breaker!CircuitState /\ failureCount' \in Nat
    BY <1>1 DEF Breaker!Admit
  <2>2. cooled' \in BOOLEAN /\ inFlight' \subseteq Workers
    BY <1>1 DEF Breaker!Admit
  <2>. QED  BY <2>1, <2>2
<1>2. ASSUME NEW w \in Workers, Breaker!Succeed(w) PROVE Breaker!TypeOK'
  BY <1>2 DEF Breaker!Succeed, Breaker!Returns, Breaker!RecordSuccess
<1>3. ASSUME NEW w \in Workers, Breaker!Fail(w) PROVE Breaker!TypeOK'
  <2>1. breakerState' \in Breaker!CircuitState /\ failureCount' \in Nat
    BY <1>3 DEF Breaker!Fail, Breaker!RecordFailure
  <2>2. cooled' \in BOOLEAN /\ inFlight' \subseteq Workers
    BY <1>3 DEF Breaker!Fail, Breaker!Returns, Breaker!RecordFailure
  <2>. QED  BY <2>1, <2>2
<1>4. ASSUME NEW w \in Workers, Breaker!Reject(w) \/ Breaker!Abandon(w)
      PROVE  Breaker!TypeOK'
  BY <1>4 DEF Breaker!Reject, Breaker!Abandon, Breaker!Returns,
              Breaker!breakerVars
<1>5. CASE Breaker!Reset \/ UNCHANGED breakerVars
  BY <1>5 DEF Breaker!Reset, breakerVars
<1>6. CASE Breaker!ResetTimeoutElapses
  BY <1>6, Zenon DEF Breaker!ResetTimeoutElapses
<1>. QED  BY <1>1, <1>2, <1>3, <1>4, <1>5, <1>6 DEF Breaker!Next

\* Every step of the queue is a step of its breaker or leaves it alone.
LEMMA StepOfBreaker ==
    ASSUME [Next]_vars PROVE [Breaker!Next]_breakerVars
BY DEF Next, vars, Start, Enqueue, EnqueueSend, EnqueueCtxDone, Stop,
       CloseStopCh, WorkerStep, Receive, WorkerExit, CheckBreaker, BeginReview,
       RejectedByBreaker, ReviewEnds, ReviewSucceeds, ReviewFails,
       ReviewPanics, Unmark, Leave, RetryStep, BackoffDone, Resend, DropOnStop,
       ResetTimeoutElapses, Breaker!Next

LEMMA QueueTypeStep == TypeInv /\ [Next]_vars => TypeInv'
<1>. SUFFICES ASSUME TypeInv, [Next]_vars PROVE TypeInv'
  OBVIOUS
<1>. USE ReviewQueueAssumption
     DEF TypeInv, TypeOK, ItemHeld, SendingCounted, NotStarted, MuFree
<1>0. Breaker!TypeOK'
  BY StepOfBreaker, BreakerType
<1>1. CASE Start
  BY <1>0, <1>1 DEF Start, retryVars, jobVars
<1>2. ASSUME NEW j \in Jobs, Enqueue(j) PROVE TypeInv'
  <2>1. reactions' \in [Jobs -> SUBSET Emojis]
    BY <1>2, UpdateReactionType
    DEF Enqueue, EnqueueClosed, EnqueueFull, EnqueueAppend, Emojis
  <2>2. fate' \in [Jobs -> Fates]
    BY <1>2 DEF Enqueue, EnqueueClosed, EnqueueFull, EnqueueAppend, Settle,
                Fates, Refusals
  <2>3. /\ sending' \in Jobs \union {NoJob}
        /\ size' \in 0..QueueSize
        /\ sending' # NoJob => size' > 0
    BY <1>2 DEF Enqueue, EnqueueClosed, EnqueueFull, EnqueueAppend
  <2>. QED  BY <1>0, <1>2, <2>1, <2>2, <2>3 DEF Enqueue, workerVars, retryVars
<1>3. CASE EnqueueSend
  <2>1. itemCh' \in Seq(Jobs) /\ Len(itemCh') <= QueueSize
    BY <1>3 DEF EnqueueSend, ChannelFull
  <2>2. fate' \in [Jobs -> Fates]
    BY <1>3 DEF EnqueueSend, Settle, Fates
  <2>. QED  BY <1>0, <1>3, <2>1, <2>2 DEF EnqueueSend, workerVars, retryVars
<1>4. CASE EnqueueCtxDone
  <2>1. fate' \in [Jobs -> Fates]
    BY <1>4 DEF EnqueueCtxDone, Settle, Fates, Refusals
  <2>. QED  BY <1>0, <1>4, <2>1 DEF EnqueueCtxDone, workerVars, retryVars
<1>5. CASE Stop \/ CloseStopCh
  BY <1>0, <1>5 DEF Stop, CloseStopCh, workerVars, retryVars, jobVars
<1>6. ASSUME NEW w \in Workers, Receive(w) PROVE TypeInv'
  <2>. DEFINE j == Head(itemCh)
  <2>1. j \in Jobs /\ Tail(itemCh) \in Seq(Jobs) /\ Len(Tail(itemCh)) <= QueueSize
    BY <1>6 DEF Receive
  <2>2. reactions' \in [Jobs -> SUBSET Emojis]
    BY <1>6, <2>1, UpdateReactionType DEF Receive, Emojis
  <2>3. PrOf[j] \in PRs
    BY <2>1
  <2>. QED  BY <1>0, <1>6, <2>1, <2>2, <2>3 DEF Receive, Goto, retryVars
<1>7. ASSUME NEW w \in Workers, WorkerExit(w) PROVE TypeInv'
  BY <1>0, <1>7 DEF WorkerExit, Goto, queueVars, retryVars, jobVars
<1>8. ASSUME NEW w \in Workers, CheckBreaker(w) PROVE TypeInv'
  <2>1. item[w] \in Jobs
    BY <1>8 DEF CheckBreaker
  <2>2. /\ retryCount' \in [Jobs -> 0..(MaxRetries + 1)]
        /\ backoff' \subseteq Jobs /\ resending' \subseteq Jobs
    BY <1>8, <2>1, RequeueItemType DEF CheckBreaker, retryVars
  <2>. QED  BY <1>0, <1>8, <2>1, <2>2 DEF CheckBreaker, Goto, queueVars, jobVars
<1>9. ASSUME NEW w \in Workers, BeginReview(w) PROVE TypeInv'
  <2>1. reviews' = [reviews EXCEPT ![item[w]] = @ + 1]
    BY <1>9 DEF BeginReview
  <2>2. pc' = [pc EXCEPT ![w] = "reviewing"] /\ pc[w] = "entering"
    BY <1>9 DEF BeginReview, Goto
  <2>3. reviews' \in [Jobs -> Nat]
    <3>1. reviews \in [Jobs -> Nat] /\ item[w] \in Jobs
      BY <2>2
    <3>2. reviews[item[w]] + 1 \in Nat
      BY <3>1
    <3>. QED  BY <2>1, <3>1, <3>2, Zenon
  <2>. QED  BY <1>0, <1>9, <2>3, <2>2 DEF BeginReview, queueVars, retryVars
<1>10. ASSUME NEW w \in Workers, RejectedByBreaker(w) \/ ReviewPanics(w)
       PROVE  TypeInv'
  <2>1. item[w] \in Jobs /\ GiveUp(w)
    BY <1>10 DEF RejectedByBreaker, ReviewPanics
  <2>. QED
    BY <1>0, <1>10, <2>1, GiveUpType
    DEF RejectedByBreaker, ReviewPanics, queueVars, retryVars
<1>11. ASSUME NEW w \in Workers, ReviewSucceeds(w) PROVE TypeInv'
  <2>1. fate' \in [Jobs -> Fates] /\ item[w] \in Jobs
    BY <1>11 DEF ReviewSucceeds, Settle, Fates, Settled
  <2>2. reactions' \in [Jobs -> SUBSET Emojis]
    BY <1>11, <2>1, UpdateReactionType DEF ReviewSucceeds, Emojis
  <2>. QED  BY <1>0, <1>11, <2>1, <2>2 DEF ReviewSucceeds, Goto, queueVars, retryVars
<1>12. ASSUME NEW w \in Workers, NEW r \in BOOLEAN, ReviewFails(w, r)
       PROVE  TypeInv'
  <2>1. item[w] \in Jobs
    BY <1>12 DEF ReviewFails
  <2>2. CASE Retry(w)
    BY <1>0, <1>12, <2>1, <2>2, RequeueItemType
    DEF ReviewFails, Retry, Goto, queueVars, jobVars
  <2>3. CASE GiveUp(w)
    BY <1>0, <1>12, <2>1, <2>3, GiveUpType DEF ReviewFails, queueVars, retryVars
  <2>. QED  BY <1>12, <2>2, <2>3 DEF ReviewFails
<1>13. ASSUME NEW w \in Workers, Unmark(w) PROVE TypeInv'
  BY <1>0, <1>13 DEF Unmark, Goto, queueVars, retryVars, jobVars
<1>14. ASSUME NEW w \in Workers, Leave(w) PROVE TypeInv'
  BY <1>0, <1>14 DEF Leave, Goto, retryVars, jobVars
<1>15. ASSUME NEW j \in Jobs, BackoffDone(j) PROVE TypeInv'
  BY <1>0, <1>15 DEF BackoffDone, queueVars, workerVars, jobVars
<1>16. ASSUME NEW j \in Jobs, Resend(j) PROVE TypeInv'
  <2>1. itemCh' \in Seq(Jobs) /\ Len(itemCh') <= QueueSize
    BY <1>16 DEF Resend, ChannelFull
  <2>. QED  BY <1>0, <1>16, <2>1 DEF Resend, workerVars, jobVars
<1>17. ASSUME NEW j \in Jobs, DropOnStop(j) PROVE TypeInv'
  <2>1. fate' \in [Jobs -> Fates]
    BY <1>17 DEF DropOnStop, Settle, Fates, Settled
  <2>. QED  BY <1>0, <1>17, <2>1 DEF DropOnStop, queueVars, workerVars
<1>18. CASE ResetTimeoutElapses \/ UNCHANGED vars
  BY <1>0, <1>18 DEF ResetTimeoutElapses, vars, queueVars, workerVars,
                     retryVars, jobVars
<1>. QED
  BY <1>1, <1>2, <1>3, <1>4, <1>5, <1>6, <1>7, <1>8, <1>9, <1>10, <1>11,
     <1>12, <1>13, <1>14, <1>15, <1>16, <1>17, <1>18
  DEF Next, WorkerStep, ReviewEnds, RetryStep

THEOREM QueueTypeInv == Spec => []TypeInv
<1>1. Init => TypeInv
  BY ReviewQueueAssumption
  DEF Init, TypeInv, TypeOK, ItemHeld, SendingCounted, NotStarted, MuFree, Fates,
      Breaker!Init, Breaker!TypeOK, Breaker!CircuitState
<1>2. TypeInv /\ [Next]_vars => TypeInv'
  BY QueueTypeStep
<1>. QED  BY <1>1, <1>2, PTL DEF Spec

\* The type invariant of the queue and of the breaker inside it.
THEOREM QueueTypeCorrect == Spec => []TypeOK
BY QueueTypeInv, PTL DEF TypeInv
-----------------------------------------------------------------------------
(***************************************************************************)
(* The length of q.items against the jobs that are really there.  The      *)
(* inequality alone is inductive with the type invariant; equality holds   *)
(* until the first retry, because only a requeued item comes to the        *)
(* channel without a place in q.items.                                     *)
(***************************************************************************)

\* Nobody waits for a timer or the channel whose retry count is still zero.
RetriedAreCounted == \A j \in backoff \union resending : retryCount[j] > 0

ExactWithoutRetries == NeverRetried => size = Present

PlacesInv == SizeNeverOvercounts /\ RetriedAreCounted /\ ExactWithoutRetries

BusyLabels == {"marked", "entering", "reviewing", "unmark", "leave"}

LEMMA BusyDef == TypeOK => Busy = {w \in Workers : pc[w] \in BusyLabels}
BY DEF TypeOK, Busy, BusyLabels

LEMMA BusyFinite == IsFiniteSet(Busy) /\ Cardinality(Busy) \in Nat
<1>1. IsFiniteSet(Workers) /\ Busy \subseteq Workers
  BY ReviewQueueAssumption DEF Busy
<1>. QED  BY <1>1, FS_Subset, FS_CardinalityType

\* What a worker's jump does to the number of busy workers.
LEMMA BusyStays ==
    ASSUME TypeOK, NEW w \in Workers, NEW label \in BusyLabels,
           pc[w] \in BusyLabels, pc' = [pc EXCEPT ![w] = label]
    PROVE  Busy' = Busy
BY DEF TypeOK, Busy, BusyLabels

LEMMA BusyGains ==
    ASSUME TypeOK, NEW w \in Workers, pc[w] = "idle",
           pc' = [pc EXCEPT ![w] = "marked"]
    PROVE  Cardinality(Busy') = Cardinality(Busy) + 1
<1>1. Busy' = Busy \union {w} /\ w \notin Busy
  BY DEF TypeOK, Busy
<1>. QED  BY <1>1, BusyFinite, FS_AddElement

LEMMA BusyLoses ==
    ASSUME TypeOK, NEW w \in Workers, pc[w] = "leave",
           pc' = [pc EXCEPT ![w] = "idle"]
    PROVE  Cardinality(Busy') = Cardinality(Busy) - 1
<1>1. Busy' = Busy \ {w} /\ w \in Busy
  BY DEF TypeOK, Busy
<1>. QED  BY <1>1, BusyFinite, FS_RemoveElement

\* A step that leaves q.items, the channel, the lock and the busy workers
\* alone, and no retry undone, preserves the invariant.
LEMMA PlacesUntouched ==
    ASSUME TypeInv, PlacesInv, UNCHANGED <<size, itemCh, sending>>, Busy' = Busy,
           UNCHANGED retryVars
    PROVE  PlacesInv'
BY DEF PlacesInv, SizeNeverOvercounts, RetriedAreCounted, ExactWithoutRetries,
       Present, MuFree, NeverRetried, retryVars

\* ... and so does putting a job off.
LEMMA PlacesRequeue ==
    ASSUME TypeInv, PlacesInv, UNCHANGED <<size, itemCh, sending>>, Busy' = Busy,
           NEW j \in Jobs, RequeueItem(j)
    PROVE  PlacesInv'
<1>1. retryCount'[j] > 0 /\ \A k \in Jobs \ {j} : retryCount'[k] = retryCount[k]
  BY ReviewQueueAssumption DEF RequeueItem, TypeInv, TypeOK
<1>2. ~NeverRetried'
  BY <1>1 DEF NeverRetried
<1>3. RetriedAreCounted'
  BY <1>1 DEF RetriedAreCounted, PlacesInv, RequeueItem, TypeInv, TypeOK
<1>4. SizeNeverOvercounts'
  BY DEF PlacesInv, SizeNeverOvercounts, Present, MuFree
<1>. QED  BY <1>2, <1>3, <1>4 DEF PlacesInv, ExactWithoutRetries

LEMMA PlacesInductive == TypeInv /\ PlacesInv /\ [Next]_vars => PlacesInv'
<1>. SUFFICES ASSUME TypeInv, PlacesInv, [Next]_vars PROVE PlacesInv'
  OBVIOUS
<1>0. /\ TypeOK
      /\ size \in Nat /\ QueueSize \in Nat /\ Len(itemCh) \in Nat
      /\ itemCh \in Seq(Jobs) /\ Cardinality(Busy) \in Nat
  BY BusyFinite, ReviewQueueAssumption DEF TypeInv, TypeOK
<1>. USE DEF PlacesInv, SizeNeverOvercounts, RetriedAreCounted,
             ExactWithoutRetries, Present, NeverRetried, MuFree
<1>1. CASE Start \/ Stop \/ CloseStopCh
  <2>1. Busy' = Busy
    BY <1>1 DEF Start, Stop, CloseStopCh, Busy, workerVars, TypeInv, TypeOK,
                NotStarted
  <2>. QED  BY <1>1, <2>1, PlacesUntouched DEF Start, Stop, CloseStopCh
<1>2. ASSUME NEW j \in Jobs, Enqueue(j) PROVE PlacesInv'
  <2>1. UNCHANGED <<itemCh, retryCount, backoff, resending>> /\ Busy' = Busy
    BY <1>2 DEF Enqueue, workerVars, retryVars, Busy
  <2>2. CASE EnqueueAppend(j)
    <3>1. sending = NoJob /\ sending' # NoJob /\ size' = size + 1
      BY <1>2, <2>2, ReviewQueueAssumption DEF Enqueue, EnqueueAppend
    <3>. QED  BY <1>0, <2>1, <3>1
  <2>3. CASE UNCHANGED <<sending, size>>
    BY <1>0, <2>1, <2>3
  <2>. QED  BY <1>2, <2>2, <2>3 DEF Enqueue, EnqueueClosed, EnqueueFull
<1>3. CASE EnqueueSend
  <2>1. UNCHANGED <<size, retryCount, backoff, resending>> /\ Busy' = Busy
    BY <1>3 DEF EnqueueSend, workerVars, retryVars, Busy
  <2>2. /\ sending # NoJob /\ sending' = NoJob
        /\ Len(itemCh') = Len(itemCh) + 1
    BY <1>0, <1>3 DEF EnqueueSend, TypeOK
  <2>. QED  BY <1>0, <2>1, <2>2
<1>4. CASE EnqueueCtxDone
  <2>1. UNCHANGED <<itemCh, retryCount, backoff, resending>> /\ Busy' = Busy
    BY <1>4 DEF EnqueueCtxDone, workerVars, retryVars, Busy
  <2>2. sending # NoJob /\ sending' = NoJob /\ size' = size - 1
    BY <1>4 DEF EnqueueCtxDone
  <2>. QED  BY <1>0, <2>1, <2>2
<1>5. ASSUME NEW w \in Workers, Receive(w) PROVE PlacesInv'
  <2>1. UNCHANGED <<size, sending, retryCount, backoff, resending>>
    BY <1>5 DEF Receive, retryVars
  <2>2. Cardinality(Busy') = Cardinality(Busy) + 1
    <3>1. pc[w] = "idle" /\ pc' = [pc EXCEPT ![w] = "marked"]
      BY <1>5 DEF Receive, Goto
    <3>. QED  BY <1>0, <3>1, BusyGains
  <2>3. Len(itemCh') = Len(itemCh) - 1
    BY <1>0, <1>5 DEF Receive
  <2>. QED  BY <1>0, <2>1, <2>2, <2>3
<1>6. ASSUME NEW w \in Workers, WorkerExit(w) PROVE PlacesInv'
  <2>1. Busy' = Busy
    BY <1>0, <1>6 DEF WorkerExit, Goto, Busy, TypeOK
  <2>. QED  BY <1>6, <2>1, PlacesUntouched DEF WorkerExit, queueVars
<1>7. ASSUME NEW w \in Workers, CheckBreaker(w) PROVE PlacesInv'
  <2>1. Busy' = Busy
    BY <1>0, <1>7, BusyStays DEF CheckBreaker, Goto, BusyLabels
  <2>2. item[w] \in Jobs
    BY <1>7 DEF CheckBreaker, TypeInv, ItemHeld
  <2>. QED
    BY <1>7, <2>1, <2>2, PlacesUntouched, PlacesRequeue DEF CheckBreaker, queueVars
<1>8. ASSUME NEW w \in Workers,
             BeginReview(w) \/ ReviewSucceeds(w) \/ Unmark(w)
      PROVE  PlacesInv'
  <2>1. Busy' = Busy
    BY <1>0, <1>8, BusyStays
    DEF BeginReview, ReviewSucceeds, Unmark, Goto, BusyLabels
  <2>. QED
    BY <1>8, <2>1, PlacesUntouched
    DEF BeginReview, ReviewSucceeds, Unmark, queueVars
<1>9. ASSUME NEW w \in Workers, RejectedByBreaker(w) \/ ReviewPanics(w)
      PROVE  PlacesInv'
  <2>1. Busy' = Busy
    BY <1>0, <1>9, BusyStays
    DEF RejectedByBreaker, ReviewPanics, GiveUp, Goto, BusyLabels
  <2>. QED
    BY <1>9, <2>1, PlacesUntouched
    DEF RejectedByBreaker, ReviewPanics, GiveUp, queueVars
<1>10. ASSUME NEW w \in Workers, NEW r \in BOOLEAN, ReviewFails(w, r)
       PROVE  PlacesInv'
  <2>1. Busy' = Busy
    BY <1>0, <1>10, BusyStays DEF ReviewFails, Retry, GiveUp, Goto, BusyLabels
  <2>2. item[w] \in Jobs
    BY <1>10 DEF ReviewFails, TypeInv, ItemHeld
  <2>. QED
    BY <1>10, <2>1, <2>2, PlacesUntouched, PlacesRequeue
    DEF ReviewFails, Retry, GiveUp, queueVars
<1>11. ASSUME NEW w \in Workers, Leave(w) PROVE PlacesInv'
  <2>1. UNCHANGED <<itemCh, sending, retryCount, backoff, resending>>
    BY <1>11 DEF Leave, retryVars
  <2>2. Cardinality(Busy') = Cardinality(Busy) - 1
    BY <1>0, <1>11, BusyLoses DEF Leave, Goto
  <2>3. Cardinality(Busy') \in Nat
    BY <2>2, <1>0, <1>11, BusyFinite, FS_CardinalityType, FS_Subset,
       ReviewQueueAssumption DEF Busy
  <2>4. size' = IF size > 0 THEN size - 1 ELSE size
    BY <1>11 DEF Leave
  <2>. QED  BY <1>0, <2>1, <2>2, <2>3, <2>4
<1>12. ASSUME NEW j \in Jobs, BackoffDone(j) PROVE PlacesInv'
  <2>1. UNCHANGED <<size, sending, itemCh, retryCount>> /\ Busy' = Busy
    BY <1>12 DEF BackoffDone, queueVars, workerVars, Busy
  <2>2. backoff' \union resending' \subseteq backoff \union resending
    BY <1>12 DEF BackoffDone
  <2>. QED  BY <1>0, <2>1, <2>2
<1>13. ASSUME NEW j \in Jobs, Resend(j) PROVE PlacesInv'
  <2>1. UNCHANGED <<size, sending, backoff, retryCount>> /\ Busy' = Busy
    BY <1>13 DEF Resend, workerVars, Busy
  <2>2. Len(itemCh') = Len(itemCh) + 1 /\ resending' = resending \ {j}
    BY <1>0, <1>13 DEF Resend
  <2>3. ~NeverRetried
    BY <1>13 DEF Resend
  <2>. QED  BY <1>0, <2>1, <2>2, <2>3
<1>14. ASSUME NEW j \in Jobs, DropOnStop(j) PROVE PlacesInv'
  <2>1. UNCHANGED <<size, sending, itemCh, retryCount>> /\ Busy' = Busy
    BY <1>14 DEF DropOnStop, queueVars, workerVars, Busy
  <2>2. backoff' \union resending' \subseteq backoff \union resending
    BY <1>14 DEF DropOnStop
  <2>. QED  BY <1>0, <2>1, <2>2
<1>15. CASE ResetTimeoutElapses \/ UNCHANGED vars
  <2>1. Busy' = Busy
    BY <1>15 DEF ResetTimeoutElapses, vars, workerVars, Busy
  <2>. QED
    BY <1>15, <2>1, PlacesUntouched DEF ResetTimeoutElapses, vars, queueVars
<1>. QED
  BY <1>1, <1>2, <1>3, <1>4, <1>5, <1>6, <1>7, <1>8, <1>9, <1>10, <1>11,
     <1>12, <1>13, <1>14, <1>15
  DEF Next, WorkerStep, ReviewEnds, RetryStep

LEMMA PlacesInitially == Init => PlacesInv
<1>. SUFFICES ASSUME Init PROVE PlacesInv
  OBVIOUS
<1>1. Busy = {} /\ Len(itemCh) = 0 /\ sending = NoJob /\ size = 0
  BY DEF Init, Busy
<1>2. Cardinality(Busy) = 0
  BY <1>1, FS_EmptySet
<1>3. backoff = {} /\ resending = {}
  BY DEF Init
<1>. QED
  BY <1>1, <1>2, <1>3
  DEF PlacesInv, SizeNeverOvercounts, RetriedAreCounted, ExactWithoutRetries,
      Present, MuFree

THEOREM QueuePlacesInv == Spec => []PlacesInv
BY PlacesInitially, PlacesInductive, QueueTypeInv, PTL DEF Spec

\* q.items of queue.go never counts a place nobody occupies.
THEOREM QueueSizeNeverOvercounts == Spec => []SizeNeverOvercounts
BY QueuePlacesInv, PTL DEF PlacesInv

\* The comment at queue.go:164 holds as long as nothing is retried.
THEOREM QueueSendReadyWithoutRetries == Spec => []SendReadyWithoutRetries
<1>1. TypeInv /\ PlacesInv => SendReadyWithoutRetries
  BY BusyFinite, ReviewQueueAssumption
  DEF TypeInv, TypeOK, PlacesInv, ExactWithoutRetries, Present,
      SendReadyWithoutRetries, MuFree, ChannelFull
<1>. QED  BY <1>1, QueueTypeInv, QueuePlacesInv, PTL

THEOREM QueuePlacesAddUp == Spec => []PlacesAddUp
BY QueueSizeNeverOvercounts, QueueSendReadyWithoutRetries, PTL DEF PlacesAddUp

\* Enqueue refuses a job as full only for jobs that are really there.
THEOREM QueueFullIsReal == Spec => FullIsReal
<1>1. TypeInv /\ PlacesInv /\ [Next]_vars
        => [\A j \in Jobs : fate[j] # fate'[j] /\ fate'[j] = "full"
                => Len(itemCh) + Cardinality(Busy) >= QueueSize]_vars
  <2>. SUFFICES ASSUME TypeInv, PlacesInv, [Next]_vars, NEW j \in Jobs,
                       fate[j] # fate'[j], fate'[j] = "full"
                PROVE  Len(itemCh) + Cardinality(Busy) >= QueueSize
    OBVIOUS
  <2>1. PICK k \in Jobs : Enqueue(k) /\ size >= QueueSize
    BY DEF TypeInv, TypeOK, Next, vars, Start, Enqueue, EnqueueClosed,
           EnqueueFull, EnqueueAppend, EnqueueSend, EnqueueCtxDone, Stop,
           CloseStopCh, WorkerStep, Receive, WorkerExit, CheckBreaker,
           BeginReview, RejectedByBreaker, ReviewEnds, ReviewSucceeds,
           ReviewFails, Retry, GiveUp, ReviewPanics, Unmark, Leave, RetryStep,
           BackoffDone, Resend, DropOnStop, ResetTimeoutElapses, Settle, jobVars
  <2>. QED
    BY <2>1, BusyFinite, ReviewQueueAssumption
    DEF TypeInv, TypeOK, PlacesInv, SizeNeverOvercounts, Present, Enqueue, MuFree
<1>. QED  BY <1>1, QueueTypeInv, QueuePlacesInv, PTL DEF Spec, FullIsReal
-----------------------------------------------------------------------------
\* The queue uses its breaker as a breaker may be used: what is proved of
\* CircuitBreaker carries over to the breaker of the queue.
THEOREM QueueImplementsCircuitBreaker == Spec => ImplementsCircuitBreaker
<1>1. Init => Breaker!Init
  BY DEF Init
<1>2. [Next]_vars => [Breaker!Next]_(Breaker!breakerVars)
  BY StepOfBreaker DEF breakerVars, Breaker!breakerVars
<1>. QED  BY <1>1, <1>2, PTL DEF Spec, ImplementsCircuitBreaker, Breaker!Spec

\* The number of workers inside Execute, as the instance of CircuitBreaker
\* counts them.
LEMMA InFlightCardinality ==
    ASSUME Breaker!TypeOK
    PROVE  /\ Breaker!Cardinality(inFlight) \in Nat
           /\ Breaker!Cardinality(Workers) \in Nat \ {0}
           /\ Breaker!Cardinality(inFlight) <= Breaker!Cardinality(Workers)
           /\ \A w \in inFlight :
                 Breaker!Cardinality(inFlight \ {w}) = Breaker!Cardinality(inFlight) - 1
<1>1. IsFiniteSet(Workers) /\ IsFiniteSet(inFlight)
  BY FS_Subset, ReviewQueueAssumption DEF Breaker!TypeOK
<1>2. \A S : Breaker!Cardinality(S) = Cardinality(S)
  BY Zenon DEF Breaker!Cardinality, Cardinality
<1>3. Cardinality(Workers) # 0
  BY <1>1, FS_EmptySet, ReviewQueueAssumption
<1>4. /\ Cardinality(inFlight) \in Nat /\ Cardinality(Workers) \in Nat
      /\ Cardinality(inFlight) <= Cardinality(Workers)
      /\ \A w \in inFlight : Cardinality(inFlight \ {w}) = Cardinality(inFlight) - 1
  BY <1>1, FS_CardinalityType, FS_Subset, FS_RemoveElement DEF Breaker!TypeOK
<1>. QED  BY <1>2, <1>3, <1>4

\* One step of the breaker, as in CircuitBreakerProofs.
LEMMA BreakerSoundStep ==
    ASSUME Breaker!Sound, [Breaker!Next]_breakerVars
    PROVE  Breaker!Sound'
<1>0. /\ Breaker!TypeOK /\ Breaker!BelowThreshold /\ Breaker!OpenOverrunBounded
      /\ failureCount \in Nat /\ FailureThreshold \in Nat \ {0}
  BY ReviewQueueAssumption DEF Breaker!Sound, Breaker!TypeOK
<1>1. Breaker!TypeOK'
  BY <1>0, BreakerType
<1>2. /\ Breaker!Cardinality(inFlight) \in Nat /\ Breaker!Cardinality(Workers) \in Nat \ {0}
      /\ Breaker!Cardinality(inFlight) <= Breaker!Cardinality(Workers)
      /\ \A w \in Workers : Breaker!Returns(w) =>
            Breaker!Cardinality(inFlight') = Breaker!Cardinality(inFlight) - 1
  BY <1>0, InFlightCardinality DEF Breaker!Returns
<1>. USE DEF Breaker!BelowThreshold, Breaker!OpenOverrunBounded, Breaker!IsOpen
<1>3. ASSUME NEW w \in Workers, Breaker!Admit(w)
      PROVE  Breaker!BelowThreshold' /\ Breaker!OpenOverrunBounded'
  BY <1>0, <1>3 DEF Breaker!Admit, Breaker!TrialDue
<1>4. ASSUME NEW w \in Workers, Breaker!Fail(w)
      PROVE  Breaker!BelowThreshold' /\ Breaker!OpenOverrunBounded'
  <2>1. Breaker!Returns(w) /\ Breaker!RecordFailure
    BY <1>4 DEF Breaker!Fail
  <2>2. Breaker!BelowThreshold'
    BY <1>0, <2>1 DEF Breaker!RecordFailure
  <2>3. Breaker!OpenOverrunBounded'
    <3>1. Breaker!Cardinality(inFlight') = Breaker!Cardinality(inFlight) - 1
      BY <1>2, <2>1
    <3>2. CASE breakerState = "open"
      BY <1>0, <1>2, <2>1, <3>1, <3>2 DEF Breaker!RecordFailure
    <3>3. CASE breakerState # "open"
      BY <1>0, <1>2, <2>1, <3>1, <3>3 DEF Breaker!RecordFailure
    <3>. QED  BY <3>2, <3>3
  <2>. QED  BY <2>2, <2>3
<1>5. ASSUME NEW w \in Workers, Breaker!Succeed(w)
      PROVE  Breaker!BelowThreshold' /\ Breaker!OpenOverrunBounded'
  <2>1. Breaker!Returns(w) /\ Breaker!RecordSuccess
    BY <1>5 DEF Breaker!Succeed
  <2>2. Breaker!Cardinality(inFlight') = Breaker!Cardinality(inFlight) - 1
    BY <1>2, <2>1
  <2>3. Breaker!BelowThreshold'
    BY <1>0, <2>1 DEF Breaker!RecordSuccess
  <2>4. Breaker!OpenOverrunBounded'
    BY <1>0, <1>2, <2>1, <2>2 DEF Breaker!RecordSuccess
  <2>. QED  BY <2>3, <2>4
<1>6. ASSUME NEW w \in Workers, Breaker!Abandon(w)
      PROVE  Breaker!BelowThreshold' /\ Breaker!OpenOverrunBounded'
  <2>1. Breaker!Returns(w) /\ UNCHANGED <<breakerState, failureCount, cooled>>
    BY <1>6 DEF Breaker!Abandon
  <2>2. Breaker!Cardinality(inFlight') = Breaker!Cardinality(inFlight) - 1
    BY <1>2, <2>1
  <2>3. Breaker!BelowThreshold'
    BY <1>0, <2>1
  <2>4. Breaker!OpenOverrunBounded'
    BY <1>0, <1>2, <2>1, <2>2
  <2>. QED  BY <2>3, <2>4
<1>7. ASSUME Breaker!Reset
      PROVE  Breaker!BelowThreshold' /\ Breaker!OpenOverrunBounded'
  BY <1>0, <1>7 DEF Breaker!Reset
<1>8. ASSUME UNCHANGED <<breakerState, failureCount, inFlight>>
      PROVE  Breaker!BelowThreshold' /\ Breaker!OpenOverrunBounded'
  BY <1>0, <1>8
<1>9. ASSUME NEW w \in Workers, Breaker!Reject(w)
      PROVE  UNCHANGED <<breakerState, failureCount, inFlight>>
  BY <1>9 DEF Breaker!Reject, Breaker!breakerVars
<1>10. \/ Breaker!ResetTimeoutElapses \/ UNCHANGED breakerVars
       => UNCHANGED <<breakerState, failureCount, inFlight>>
  BY DEF Breaker!ResetTimeoutElapses, breakerVars
<1>. HIDE DEF Breaker!BelowThreshold, Breaker!OpenOverrunBounded, Breaker!IsOpen
<1>11. Breaker!BelowThreshold' /\ Breaker!OpenOverrunBounded'
  BY <1>3, <1>4, <1>5, <1>6, <1>7, <1>8, <1>9, <1>10 DEF Breaker!Next
<1>. QED  BY <1>1, <1>11 DEF Breaker!Sound

\* The breaker of the queue lets calls through below the threshold only, and
\* counts past it no more failures than there are workers that were already
\* reviewing, for any number of workers and any threshold.
THEOREM QueueBreakerSound == Spec => []Breaker!Sound
<1>1. Init => Breaker!Sound
  <2>. SUFFICES ASSUME Init PROVE Breaker!Sound
    OBVIOUS
  <2>1. /\ breakerState = "closed" /\ failureCount = 0 /\ cooled = TRUE /\ inFlight = {}
    BY DEF Init, Breaker!Init
  <2>. QED
    BY <2>1, ReviewQueueAssumption
    DEF Breaker!Sound, Breaker!TypeOK, Breaker!CircuitState, Breaker!BelowThreshold,
        Breaker!OpenOverrunBounded, Breaker!IsOpen
<1>2. Breaker!Sound /\ [Next]_vars => Breaker!Sound'
  BY StepOfBreaker, BreakerSoundStep
<1>. QED  BY <1>1, <1>2, PTL DEF Spec

\* Nothing in the queue resets the breaker by hand: an open breaker goes by way
\* of half-open.
THEOREM QueueClosesThroughHalfOpen ==
    Spec => [][Breaker!IsOpen => breakerState' # "closed"]_vars
<1>1. [Next]_vars => [Breaker!IsOpen => breakerState' # "closed"]_vars
  <2>. SUFFICES ASSUME Next, Breaker!IsOpen PROVE breakerState' # "closed"
    OBVIOUS
  <2>. QED
    BY DEF Next, vars, breakerVars, Start, Enqueue, EnqueueSend, EnqueueCtxDone, Stop,
       CloseStopCh, WorkerStep, Receive, WorkerExit, CheckBreaker, BeginReview,
       RejectedByBreaker, ReviewEnds, ReviewSucceeds, ReviewFails, ReviewPanics, Unmark,
       Leave, RetryStep, BackoffDone, Resend, DropOnStop, ResetTimeoutElapses,
       Breaker!IsOpen, Breaker!TrialDue, Breaker!Admit, Breaker!Reject, Breaker!Returns,
       Breaker!Succeed, Breaker!Fail, Breaker!Abandon, Breaker!RecordSuccess,
       Breaker!RecordFailure, Breaker!ResetTimeoutElapses, Breaker!breakerVars
<1>. QED  BY <1>1, PTL DEF Spec
-----------------------------------------------------------------------------
(* Part 2 *)

\* A job whose handler is at the channel send is in no place yet.
SendingIsNew == ~MuFree => fate[sending] = "new"

JobInv == OnePlace /\ SendingIsNew

HoldLabels == {"marked", "entering", "reviewing"}

\* The parts of OnePlace, one after the other.
ChannelInjective == \A i, k \in DOMAIN itemCh : itemCh[i] = itemCh[k] => i = k
HolderUnique ==
    \A v, w \in Workers : \A j \in Jobs : Holds(v, j) /\ Holds(w, j) => v = w
Disjoint ==
    /\ Channel \intersect (Held \union backoff \union resending) = {}
    /\ Held \intersect (backoff \union resending) = {}
    /\ backoff \intersect resending = {}
Accepted == {j \in Jobs : fate[j] = "accepted"}
PlacedAreAccepted == Channel \union Held \union backoff \union resending = Accepted

LEMMA OnePlaceParts ==
    OnePlace <=> ChannelInjective /\ HolderUnique /\ Disjoint /\ PlacedAreAccepted
BY DEF OnePlace, ChannelInjective, HolderUnique, Disjoint, Accepted, PlacedAreAccepted

\* The channel as a set, when a job is appended ...
LEMMA ChannelAppend ==
    ASSUME TypeOK, ChannelInjective, NEW j \in Jobs, j \notin Channel,
           itemCh' = Append(itemCh, j)
    PROVE  Channel' = Channel \union {j} /\ ChannelInjective'
<1>1. /\ itemCh \in Seq(Jobs) /\ Len(itemCh) \in Nat
      /\ DOMAIN itemCh = 1..Len(itemCh)
  BY DEF TypeOK
<1>2. /\ DOMAIN itemCh' = 1..(Len(itemCh) + 1)
      /\ \A i \in 1..Len(itemCh) : itemCh'[i] = itemCh[i]
      /\ itemCh'[Len(itemCh) + 1] = j
  BY <1>1
<1>3. Channel' = Channel \union {j}
  BY <1>1, <1>2 DEF Channel
<1>4. \A i \in 1..Len(itemCh) : itemCh[i] # j
  BY <1>1 DEF Channel
<1>5. ChannelInjective'
  <2>. SUFFICES ASSUME NEW i \in 1..(Len(itemCh) + 1), NEW k \in 1..(Len(itemCh) + 1),
                       itemCh'[i] = itemCh'[k]
                PROVE  i = k
    BY <1>2 DEF ChannelInjective
  <2>1. CASE i \in 1..Len(itemCh) /\ k \in 1..Len(itemCh)
    BY <1>1, <1>2, <2>1 DEF ChannelInjective
  <2>2. CASE i = Len(itemCh) + 1 \/ k = Len(itemCh) + 1
    BY <1>1, <1>2, <1>4, <2>2
  <2>. QED  BY <1>1, <2>1, <2>2
<1>. QED  BY <1>3, <1>5

\* ... and when its head is received.
LEMMA ChannelTail ==
    ASSUME TypeOK, ChannelInjective, itemCh # <<>>, itemCh' = Tail(itemCh)
    PROVE  /\ Head(itemCh) \in Channel
           /\ Channel' = Channel \ {Head(itemCh)}
           /\ ChannelInjective'
<1>1. /\ itemCh \in Seq(Jobs) /\ Len(itemCh) \in Nat \ {0}
      /\ DOMAIN itemCh = 1..Len(itemCh)
      /\ Head(itemCh) = itemCh[1]
  BY DEF TypeOK
<1>2. /\ DOMAIN itemCh' = 1..(Len(itemCh) - 1)
      /\ \A i \in 1..(Len(itemCh) - 1) : itemCh'[i] = itemCh[i + 1]
  BY <1>1
<1>3. Head(itemCh) \in Channel
  BY <1>1 DEF Channel
<1>4. ChannelInjective'
  <2>. SUFFICES ASSUME NEW i \in 1..(Len(itemCh) - 1), NEW k \in 1..(Len(itemCh) - 1),
                       itemCh'[i] = itemCh'[k]
                PROVE  i = k
    BY <1>2 DEF ChannelInjective
  <2>1. i + 1 \in DOMAIN itemCh /\ k + 1 \in DOMAIN itemCh
    BY <1>1
  <2>. QED  BY <1>2, <2>1 DEF ChannelInjective
<1>5. Channel' \subseteq Channel \ {Head(itemCh)}
  <2>. SUFFICES ASSUME NEW i \in 1..(Len(itemCh) - 1)
                PROVE  itemCh[i + 1] \in Channel /\ itemCh[i + 1] # itemCh[1]
    BY <1>1, <1>2 DEF Channel
  <2>1. i + 1 \in DOMAIN itemCh /\ 1 \in DOMAIN itemCh /\ i + 1 # 1
    BY <1>1
  <2>. QED  BY <2>1 DEF Channel, ChannelInjective
<1>6. Channel \ {Head(itemCh)} \subseteq Channel'
  <2>. SUFFICES ASSUME NEW i \in 1..Len(itemCh), i # 1
                PROVE  itemCh[i] \in Channel'
    BY <1>1 DEF Channel
  <2>1. i - 1 \in 1..(Len(itemCh) - 1) /\ itemCh'[i - 1] = itemCh[i]
    BY <1>1, <1>2
  <2>. QED  BY <1>2, <2>1 DEF Channel
<1>. QED  BY <1>3, <1>4, <1>5, <1>6

\* What the jumps of a worker do to the jobs that workers hold.
LEMMA HeldStays ==
    ASSUME TypeOK, HolderUnique, UNCHANGED item, NEW w \in Workers,
           NEW label, pc' = [pc EXCEPT ![w] = label],
           pc[w] \in HoldLabels <=> label \in HoldLabels
    PROVE  Held' = Held /\ HolderUnique'
<1>1. \A v \in Workers : \A j \in Jobs : Holds(v, j)' <=> Holds(v, j)
  BY DEF TypeOK, Holds, HoldLabels
<1>. QED  BY <1>1 DEF Held, HolderUnique

LEMMA HeldLoses ==
    ASSUME TypeOK, HolderUnique, UNCHANGED item, NEW w \in Workers,
           pc[w] \in HoldLabels, item[w] \in Jobs,
           pc' = [pc EXCEPT ![w] = "unmark"]
    PROVE  /\ item[w] \in Held
           /\ Held' = Held \ {item[w]} /\ HolderUnique'
<1>1. \A v \in Workers : \A j \in Jobs : Holds(v, j)' <=> Holds(v, j) /\ v # w
  BY DEF TypeOK, Holds, HoldLabels
<1>2. Holds(w, item[w])
  BY DEF Holds, HoldLabels
<1>3. Held' = Held \ {item[w]}
  BY <1>1, <1>2 DEF Held, HolderUnique, Holds
<1>. QED  BY <1>1, <1>2, <1>3 DEF Held, HolderUnique

LEMMA HeldGains ==
    ASSUME TypeOK, HolderUnique, NEW w \in Workers, NEW j \in Jobs, j \notin Held,
           pc[w] = "idle", pc' = [pc EXCEPT ![w] = "marked"],
           item' = [item EXCEPT ![w] = j]
    PROVE  Held' = Held \union {j} /\ HolderUnique'
<1>1. \A v \in Workers : \A k \in Jobs :
          Holds(v, k)' <=> (IF v = w THEN k = j ELSE Holds(v, k))
  BY DEF TypeOK, Holds
<1>2. \A k \in Jobs : ~Holds(w, k)
  BY DEF Holds
<1>. QED  BY <1>1, <1>2 DEF Held, HolderUnique

\* What settling a job does to the accepted ones.
LEMMA AcceptedLoses ==
    ASSUME TypeOK, NEW j \in Jobs, NEW f, f # "accepted", Settle(j, f)
    PROVE  Accepted' = Accepted \ {j}
BY DEF TypeOK, Accepted, Settle

LEMMA GiveUpLoses ==
    ASSUME TypeOK, HolderUnique, NEW w \in Workers, item[w] \in Jobs,
           pc[w] \in HoldLabels, UNCHANGED item, GiveUp(w)
    PROVE  /\ item[w] \in Held /\ Held' = Held \ {item[w]} /\ HolderUnique'
           /\ Accepted' = Accepted \ {item[w]}
           /\ UNCHANGED <<backoff, resending>>
<1>1. pc' = [pc EXCEPT ![w] = "unmark"] /\ Settle(item[w], "failed")
  BY DEF GiveUp, Goto
<1>. QED  BY <1>1, HeldLoses, AcceptedLoses DEF GiveUp, retryVars

\* A step that moves no job.
LEMMA NoJobMoves ==
    ASSUME OnePlace, UNCHANGED <<itemCh, backoff, resending>>,
           Held' = Held, HolderUnique', Accepted' = Accepted
    PROVE  OnePlace'
<1>1. ChannelInjective' /\ Channel' = Channel
  BY OnePlaceParts DEF ChannelInjective, Channel
<1>2. Disjoint' /\ PlacedAreAccepted'
  BY <1>1, OnePlaceParts DEF Disjoint, PlacedAreAccepted
<1>. QED  BY <1>1, <1>2, OnePlaceParts, PTL

\* A worker puts the job that it holds off ...
LEMMA HeldToBackoff ==
    ASSUME OnePlace, NEW j \in Held, UNCHANGED <<itemCh, resending>>,
           backoff' = backoff \union {j}, Held' = Held \ {j}, HolderUnique',
           Accepted' = Accepted
    PROVE  OnePlace'
<1>1. ChannelInjective' /\ Channel' = Channel
  BY OnePlaceParts DEF ChannelInjective, Channel
<1>2. Disjoint' /\ PlacedAreAccepted'
  BY <1>1, OnePlaceParts DEF Disjoint, PlacedAreAccepted
<1>. QED  BY <1>1, <1>2, OnePlaceParts, PTL

\* ... or settles it.
LEMMA HeldToSettled ==
    ASSUME OnePlace, NEW j \in Held, UNCHANGED <<itemCh, backoff, resending>>,
           Held' = Held \ {j}, HolderUnique', Accepted' = Accepted \ {j}
    PROVE  OnePlace'
<1>1. ChannelInjective' /\ Channel' = Channel
  BY OnePlaceParts DEF ChannelInjective, Channel
<1>2. Disjoint' /\ PlacedAreAccepted'
  BY <1>1, OnePlaceParts DEF Disjoint, PlacedAreAccepted
<1>. QED  BY <1>1, <1>2, OnePlaceParts, PTL

LEMMA JobInductive == TypeInv /\ JobInv /\ [Next]_vars => JobInv'
<1>. SUFFICES ASSUME TypeInv, JobInv, [Next]_vars PROVE JobInv'
  OBVIOUS
<1>0. /\ TypeOK /\ ItemHeld /\ NotStarted /\ OnePlace /\ SendingIsNew
      /\ ChannelInjective /\ HolderUnique /\ Disjoint /\ PlacedAreAccepted
  BY OnePlaceParts DEF TypeInv, JobInv
<1>1. CASE Start \/ Stop \/ CloseStopCh
  <2>1. /\ UNCHANGED <<item, itemCh, backoff, resending, fate, sending>>
        /\ \A w \in Workers : pc[w] \in HoldLabels <=> pc'[w] \in HoldLabels
    BY <1>0, <1>1 DEF Start, Stop, CloseStopCh, workerVars, retryVars, jobVars,
                      NotStarted, HoldLabels, TypeOK
  <2>2. \A w \in Workers : \A j \in Jobs : Holds(w, j)' <=> Holds(w, j)
    BY <2>1 DEF Holds, HoldLabels
  <2>3. Held' = Held /\ HolderUnique' /\ Accepted' = Accepted /\ SendingIsNew'
    BY <1>0, <2>1, <2>2
    DEF Held, HolderUnique, Accepted, SendingIsNew, MuFree
  <2>. QED  BY <1>0, <2>1, <2>3, NoJobMoves DEF JobInv
<1>2. ASSUME NEW j \in Jobs, Enqueue(j) PROVE JobInv'
  <2>1. UNCHANGED <<pc, item, itemCh, backoff, resending>> /\ fate[j] = "new"
    BY <1>2 DEF Enqueue, workerVars, retryVars
  <2>2. Held' = Held /\ HolderUnique'
    BY <1>0, <2>1 DEF Held, HolderUnique, Holds
  <2>3. Accepted' = Accepted
    BY <1>0, <1>2, <2>1
    DEF Enqueue, EnqueueClosed, EnqueueFull, EnqueueAppend, Settle, TypeOK, Accepted
  <2>4. SendingIsNew'
    BY <1>0, <1>2, <2>1, ReviewQueueAssumption
    DEF Enqueue, EnqueueClosed, EnqueueFull, EnqueueAppend, SendingIsNew, MuFree
  <2>. QED  BY <1>0, <2>1, <2>2, <2>3, <2>4, NoJobMoves DEF JobInv
<1>3. CASE EnqueueSend
  <2>1. /\ sending \in Jobs /\ fate[sending] = "new" /\ sending' = NoJob
        /\ itemCh' = Append(itemCh, sending)
        /\ UNCHANGED <<pc, item, backoff, resending>>
    BY <1>0, <1>3
    DEF EnqueueSend, MuFree, SendingIsNew, TypeOK, workerVars, retryVars
  <2>2. Held' = Held /\ HolderUnique'
    BY <1>0, <2>1 DEF Held, HolderUnique, Holds
  <2>3. sending \notin Accepted /\ Accepted' = Accepted \union {sending}
    BY <1>0, <1>3, <2>1 DEF EnqueueSend, Settle, Accepted, TypeOK
  <2>4. sending \notin Channel \union Held \union backoff \union resending
    BY <1>0, <2>3 DEF PlacedAreAccepted
  <2>5. Channel' = Channel \union {sending} /\ ChannelInjective'
    BY <1>0, <2>1, <2>4, ChannelAppend
  <2>6. Disjoint' /\ PlacedAreAccepted'
    BY <1>0, <2>1, <2>2, <2>3, <2>4, <2>5 DEF Disjoint, PlacedAreAccepted
  <2>7. SendingIsNew'
    BY <2>1 DEF SendingIsNew, MuFree
  <2>. QED  BY <2>2, <2>5, <2>6, <2>7, OnePlaceParts, PTL DEF JobInv
<1>4. CASE EnqueueCtxDone
  <2>1. /\ sending \in Jobs /\ fate[sending] = "new" /\ sending' = NoJob
        /\ UNCHANGED <<pc, item, itemCh, backoff, resending>>
    BY <1>0, <1>4
    DEF EnqueueCtxDone, MuFree, SendingIsNew, TypeOK, workerVars, retryVars
  <2>2. Held' = Held /\ HolderUnique'
    BY <1>0, <2>1 DEF Held, HolderUnique, Holds
  <2>3. Accepted' = Accepted
    BY <1>0, <1>4, <2>1 DEF EnqueueCtxDone, Settle, Accepted, TypeOK
  <2>. QED  BY <1>0, <2>1, <2>2, <2>3, NoJobMoves DEF JobInv, SendingIsNew, MuFree
<1>5. ASSUME NEW w \in Workers, Receive(w) PROVE JobInv'
  <2>. DEFINE j == Head(itemCh)
  <2>1. /\ itemCh # <<>> /\ itemCh' = Tail(itemCh) /\ j \in Jobs
        /\ pc[w] = "idle" /\ pc' = [pc EXCEPT ![w] = "marked"]
        /\ item' = [item EXCEPT ![w] = j]
        /\ UNCHANGED <<backoff, resending, fate, sending>>
    BY <1>0, <1>5 DEF Receive, Goto, retryVars, TypeOK
  <2>2. j \in Channel /\ Channel' = Channel \ {j} /\ ChannelInjective'
    BY <1>0, <2>1, ChannelTail
  <2>3. j \notin Held
    BY <1>0, <2>2 DEF Disjoint
  <2>4. Held' = Held \union {j} /\ HolderUnique'
    BY <1>0, <2>1, <2>3, HeldGains
  <2>5. Accepted' = Accepted /\ SendingIsNew'
    BY <1>0, <2>1 DEF Accepted, SendingIsNew, MuFree
  <2>6. Disjoint' /\ PlacedAreAccepted'
    BY <1>0, <2>1, <2>2, <2>3, <2>4, <2>5 DEF Disjoint, PlacedAreAccepted
  <2>. QED  BY <2>2, <2>4, <2>5, <2>6, OnePlaceParts, PTL DEF JobInv
<1>6. ASSUME NEW w \in Workers, WorkerExit(w) \/ BeginReview(w) \/ Unmark(w)
      PROVE  JobInv'
  <2>1. UNCHANGED <<item, itemCh, backoff, resending, fate, sending>>
    BY <1>6 DEF WorkerExit, BeginReview, Unmark, queueVars, retryVars, jobVars
  <2>2. Held' = Held /\ HolderUnique'
    BY <1>0, <1>6, <2>1, HeldStays DEF WorkerExit, BeginReview, Unmark, Goto, HoldLabels
  <2>3. Accepted' = Accepted /\ SendingIsNew'
    BY <1>0, <2>1 DEF Accepted, SendingIsNew, MuFree
  <2>. QED  BY <1>0, <2>1, <2>2, <2>3, NoJobMoves DEF JobInv
<1>7. ASSUME NEW w \in Workers, CheckBreaker(w) PROVE JobInv'
  <2>1. /\ UNCHANGED <<item, itemCh, fate, sending>>
        /\ pc[w] \in HoldLabels /\ item[w] \in Jobs
    BY <1>0, <1>7 DEF CheckBreaker, queueVars, jobVars, ItemHeld, HoldLabels
  <2>2. Accepted' = Accepted /\ SendingIsNew'
    BY <1>0, <2>1 DEF Accepted, SendingIsNew, MuFree
  <2>3. CASE Breaker!IsOpen
    <3>1. /\ pc' = [pc EXCEPT ![w] = "unmark"]
          /\ backoff' = backoff \union {item[w]} /\ UNCHANGED resending
      BY <1>7, <2>3 DEF CheckBreaker, Goto, RequeueItem
    <3>2. item[w] \in Held /\ Held' = Held \ {item[w]} /\ HolderUnique'
      BY <1>0, <2>1, <3>1, HeldLoses
    <3>. QED  BY <1>0, <2>1, <2>2, <3>1, <3>2, HeldToBackoff DEF JobInv
  <2>4. CASE ~Breaker!IsOpen
    <3>1. /\ pc' = [pc EXCEPT ![w] = "entering"] /\ "entering" \in HoldLabels
          /\ UNCHANGED <<backoff, resending>>
      BY <1>7, <2>4 DEF CheckBreaker, Goto, retryVars, HoldLabels
    <3>2. Held' = Held /\ HolderUnique'
      BY <1>0, <2>1, <3>1, HeldStays
    <3>. QED  BY <1>0, <2>1, <2>2, <3>1, <3>2, NoJobMoves DEF JobInv
  <2>. QED  BY <2>3, <2>4
<1>8. ASSUME NEW w \in Workers,
             \/ RejectedByBreaker(w) \/ ReviewPanics(w)
             \/ \E r \in BOOLEAN : ReviewFails(w, r) /\ GiveUp(w)
      PROVE  JobInv'
  <2>1. /\ UNCHANGED <<item, itemCh, sending>> /\ GiveUp(w)
        /\ pc[w] \in HoldLabels /\ item[w] \in Jobs
    BY <1>0, <1>8 DEF RejectedByBreaker, ReviewPanics, ReviewFails, queueVars,
                      ItemHeld, HoldLabels
  <2>2. /\ item[w] \in Held /\ Held' = Held \ {item[w]} /\ HolderUnique'
        /\ Accepted' = Accepted \ {item[w]} /\ UNCHANGED <<backoff, resending>>
    BY <1>0, <2>1, GiveUpLoses
  <2>3. fate[item[w]] = "accepted"
    BY <1>0, <2>2 DEF PlacedAreAccepted, Accepted
  <2>4. SendingIsNew'
    BY <1>0, <2>1, <2>3
    DEF SendingIsNew, MuFree, GiveUp, Settle, TypeOK
  <2>. QED  BY <1>0, <2>1, <2>2, <2>4, HeldToSettled DEF JobInv
<1>9. ASSUME NEW w \in Workers, ReviewSucceeds(w) PROVE JobInv'
  <2>1. /\ UNCHANGED <<item, itemCh, backoff, resending, sending>>
        /\ Settle(item[w], "succeeded") /\ pc' = [pc EXCEPT ![w] = "unmark"]
        /\ pc[w] \in HoldLabels /\ item[w] \in Jobs
    BY <1>0, <1>9 DEF ReviewSucceeds, queueVars, retryVars, Goto, ItemHeld, HoldLabels
  <2>2. item[w] \in Held /\ Held' = Held \ {item[w]} /\ HolderUnique'
    BY <1>0, <2>1, HeldLoses
  <2>3. Accepted' = Accepted \ {item[w]}
    BY <1>0, <2>1, AcceptedLoses
  <2>4. fate[item[w]] = "accepted"
    BY <1>0, <2>2 DEF PlacedAreAccepted, Accepted
  <2>5. SendingIsNew'
    BY <1>0, <2>1, <2>4 DEF SendingIsNew, MuFree, Settle, TypeOK
  <2>. QED  BY <1>0, <2>1, <2>2, <2>3, <2>5, HeldToSettled DEF JobInv
<1>10. ASSUME NEW w \in Workers, NEW r \in BOOLEAN, ReviewFails(w, r), Retry(w)
       PROVE  JobInv'
  <2>1. /\ UNCHANGED <<item, itemCh, resending, fate, sending>>
        /\ pc[w] \in HoldLabels /\ item[w] \in Jobs
        /\ pc' = [pc EXCEPT ![w] = "unmark"] /\ backoff' = backoff \union {item[w]}
    BY <1>0, <1>10 DEF ReviewFails, Retry, RequeueItem, Goto, queueVars, jobVars,
                       ItemHeld, HoldLabels
  <2>2. item[w] \in Held /\ Held' = Held \ {item[w]} /\ HolderUnique'
    BY <1>0, <2>1, HeldLoses
  <2>3. Accepted' = Accepted /\ SendingIsNew'
    BY <1>0, <2>1 DEF Accepted, SendingIsNew, MuFree
  <2>. QED  BY <1>0, <2>1, <2>2, <2>3, HeldToBackoff DEF JobInv
<1>11. ASSUME NEW w \in Workers, Leave(w) PROVE JobInv'
  <2>1. /\ UNCHANGED <<itemCh, backoff, resending, fate, sending>>
        /\ pc[w] = "leave" /\ pc' = [pc EXCEPT ![w] = "idle"]
        /\ item' = [item EXCEPT ![w] = NoJob]
    BY <1>11 DEF Leave, Goto, retryVars, jobVars
  <2>2. \A v \in Workers : \A j \in Jobs : Holds(v, j)' <=> Holds(v, j)
    BY <1>0, <2>1 DEF Holds, TypeOK
  <2>3. Held' = Held /\ HolderUnique' /\ Accepted' = Accepted /\ SendingIsNew'
    BY <1>0, <2>1, <2>2 DEF Held, HolderUnique, Accepted, SendingIsNew, MuFree
  <2>. QED  BY <1>0, <2>1, <2>3, NoJobMoves DEF JobInv
<1>12. ASSUME NEW j \in Jobs, BackoffDone(j) \/ Resend(j) \/ DropOnStop(j)
       PROVE  JobInv'
  <2>1. UNCHANGED <<pc, item, sending>>
    BY <1>12 DEF BackoffDone, Resend, DropOnStop, queueVars, workerVars
  <2>2. Held' = Held /\ HolderUnique'
    BY <1>0, <2>1 DEF Held, HolderUnique, Holds
  <2>3. CASE BackoffDone(j)
    <3>1. ChannelInjective' /\ Channel' = Channel /\ Accepted' = Accepted /\ SendingIsNew'
      BY <1>0, <2>1, <2>3 DEF BackoffDone, queueVars, jobVars, ChannelInjective,
                              Channel, Accepted, SendingIsNew, MuFree
    <3>2. Disjoint' /\ PlacedAreAccepted'
      BY <1>0, <2>2, <2>3, <3>1 DEF BackoffDone, Disjoint, PlacedAreAccepted
    <3>. QED  BY <2>2, <3>1, <3>2, OnePlaceParts, PTL DEF JobInv
  <2>4. CASE Resend(j)
    <3>1. j \notin Channel
      BY <1>0, <2>4 DEF Resend, Disjoint
    <3>2. Channel' = Channel \union {j} /\ ChannelInjective'
      BY <1>0, <2>4, <3>1, ChannelAppend DEF Resend
    <3>3. Accepted' = Accepted /\ SendingIsNew'
      BY <1>0, <2>1, <2>4 DEF Resend, jobVars, Accepted, SendingIsNew, MuFree
    <3>4. Disjoint' /\ PlacedAreAccepted'
      BY <1>0, <2>2, <2>4, <3>1, <3>2, <3>3 DEF Resend, Disjoint, PlacedAreAccepted
    <3>. QED  BY <2>2, <3>2, <3>3, <3>4, OnePlaceParts, PTL DEF JobInv
  <2>5. CASE DropOnStop(j)
    <3>1. ChannelInjective' /\ Channel' = Channel
      BY <1>0, <2>5 DEF DropOnStop, queueVars, ChannelInjective, Channel
    <3>2. Accepted' = Accepted \ {j}
      BY <1>0, <2>5, AcceptedLoses DEF DropOnStop
    <3>3. fate[j] = "accepted"
      BY <1>0, <2>5 DEF DropOnStop, PlacedAreAccepted, Accepted
    <3>4. SendingIsNew'
      BY <1>0, <2>1, <2>5, <3>3 DEF DropOnStop, SendingIsNew, MuFree, Settle, TypeOK
    <3>5. Disjoint' /\ PlacedAreAccepted'
      BY <1>0, <2>2, <2>5, <3>1, <3>2 DEF DropOnStop, Disjoint, PlacedAreAccepted
    <3>. QED  BY <2>2, <3>1, <3>4, <3>5, OnePlaceParts, PTL DEF JobInv
  <2>. QED  BY <1>12, <2>3, <2>4, <2>5
<1>13. CASE ResetTimeoutElapses \/ UNCHANGED vars
  <2>1. UNCHANGED <<pc, item, itemCh, backoff, resending, fate, sending>>
    BY <1>13 DEF ResetTimeoutElapses, vars, queueVars, workerVars, retryVars, jobVars
  <2>2. Held' = Held /\ HolderUnique' /\ Accepted' = Accepted /\ SendingIsNew'
    BY <1>0, <2>1 DEF Held, HolderUnique, Holds, Accepted, SendingIsNew, MuFree
  <2>. QED  BY <1>0, <2>1, <2>2, NoJobMoves DEF JobInv
<1>. QED
  BY <1>1, <1>2, <1>3, <1>4, <1>5, <1>6, <1>7, <1>8, <1>9, <1>10, <1>11,
     <1>12, <1>13
  DEF Next, WorkerStep, ReviewEnds, ReviewFails, RetryStep

LEMMA JobInitially == Init => JobInv
<1>. SUFFICES ASSUME Init PROVE JobInv
  OBVIOUS
<1>1. Channel = {} /\ Held = {} /\ Accepted = {} /\ ChannelInjective /\ HolderUnique
  BY DEF Init, Channel, Held, Holds, Accepted, ChannelInjective, HolderUnique
<1>2. backoff = {} /\ resending = {} /\ SendingIsNew
  BY DEF Init, SendingIsNew, MuFree
<1>. QED  BY <1>1, <1>2, OnePlaceParts DEF JobInv, Disjoint, PlacedAreAccepted

THEOREM QueueJobInv == Spec => []JobInv
BY JobInitially, JobInductive, QueueTypeInv, PTL DEF Spec

\* No retry, failure or Stop of queue.go loses an accepted job or keeps two
\* of it.
THEOREM QueueOnePlace == Spec => []OnePlace
BY QueueJobInv, PTL DEF JobInv

\* The state of the queue is sound: types, the count of places, one place per
\* accepted job.
THEOREM QueueSound == Spec => []Sound
BY QueueTypeCorrect, QueuePlacesAddUp, QueueOnePlace, PTL DEF Sound

-----------------------------------------------------------------------------
(* Part 3 *)

InReview(j) == \E w \in Reviewing : item[w] = j

\* What a step of the queue can be to the jobs: nothing ...
Quiet ==
    /\ UNCHANGED <<fate, reviews>>
    /\ \A k \in Jobs : retryCount'[k] >= retryCount[k]
    /\ \A k \in Jobs : InReview(k)' <=> InReview(k)

\* ... the answer of Enqueue ...
Answered(j, f) ==
    /\ fate[j] = "new" /\ f \in Refusals \union {"accepted"} /\ Settle(j, f)
    /\ UNCHANGED <<reviews, retryCount>>
    /\ \A k \in Jobs : InReview(k)' <=> InReview(k)

\* ... the beginning of an attempt ...
Begun(j) ==
    /\ fate[j] = "accepted" /\ ~InReview(j) /\ InReview(j)'
    /\ reviews' = [reviews EXCEPT ![j] = @ + 1]
    /\ UNCHANGED <<fate, retryCount>>
    /\ \A k \in Jobs \ {j} : InReview(k)' <=> InReview(k)

\* ... or its end, with a retry or for good ...
PutOff(j) ==
    /\ fate[j] = "accepted" /\ InReview(j) /\ ~InReview(j)'
    /\ retryCount[j] < MaxRetries
    /\ retryCount' = [retryCount EXCEPT ![j] = @ + 1]
    /\ UNCHANGED <<fate, reviews>>
    /\ \A k \in Jobs \ {j} : InReview(k)' <=> InReview(k)

Ended(j, f) ==
    /\ fate[j] = "accepted" /\ InReview(j) /\ ~InReview(j)'
    /\ f \in {"succeeded", "failed"} /\ Settle(j, f)
    /\ UNCHANGED <<reviews, retryCount>>
    /\ \A k \in Jobs \ {j} : InReview(k)' <=> InReview(k)

\* ... or the end of a job outside any attempt.
EndedUntried(j, f) ==
    /\ fate[j] = "accepted" /\ ~InReview(j)
    /\ f \in {"failed", "dropped"} /\ Settle(j, f)
    /\ f = "failed" => \E w \in Workers : item[w] = j /\ RejectedByBreaker(w)
    /\ UNCHANGED <<reviews, retryCount>>
    /\ \A k \in Jobs : InReview(k)' <=> InReview(k)

\* What the jumps of a worker do to the running attempts.
LEMMA AttemptsStay ==
    ASSUME \A w \in Workers : (pc[w] = "reviewing" <=> pc'[w] = "reviewing")
                              /\ (pc[w] = "reviewing" => item'[w] = item[w])
    PROVE  \A k \in Jobs : InReview(k)' <=> InReview(k)
BY DEF InReview, Reviewing

LEMMA AttemptBegins ==
    ASSUME TypeOK, HolderUnique, NEW w \in Workers, item[w] \in Jobs,
           pc[w] = "entering", pc' = [pc EXCEPT ![w] = "reviewing"],
           UNCHANGED item
    PROVE  /\ ~InReview(item[w]) /\ InReview(item[w])'
           /\ \A k \in Jobs \ {item[w]} : InReview(k)' <=> InReview(k)
<1>1. \A v \in Workers : pc'[v] = "reviewing" <=> pc[v] = "reviewing" \/ v = w
  BY DEF TypeOK
<1>2. \A v \in Workers : item[v] = item[w] /\ pc[v] = "reviewing" => v = w
  BY DEF HolderUnique, Holds
<1>. QED  BY <1>1, <1>2 DEF InReview, Reviewing

LEMMA AttemptEnds ==
    ASSUME TypeOK, HolderUnique, NEW w \in Workers, item[w] \in Jobs,
           pc[w] = "reviewing", pc' = [pc EXCEPT ![w] = "unmark"],
           UNCHANGED item
    PROVE  /\ InReview(item[w]) /\ ~InReview(item[w])'
           /\ \A k \in Jobs \ {item[w]} : InReview(k)' <=> InReview(k)
<1>1. \A v \in Workers : pc'[v] = "reviewing" <=> pc[v] = "reviewing" /\ v # w
  BY DEF TypeOK
<1>2. \A v \in Workers : item[v] = item[w] /\ pc[v] = "reviewing" => v = w
  BY DEF HolderUnique, Holds
<1>. QED  BY <1>1, <1>2 DEF InReview, Reviewing

JobStep(j) ==
    \/ \E f \in Refusals \union {"accepted"} : Answered(j, f)
    \/ Begun(j)
    \/ PutOff(j)
    \/ \E f \in {"succeeded", "failed"} : Ended(j, f)
    \/ \E f \in {"failed", "dropped"} : EndedUntried(j, f)

LEMMA StepsOfJobs ==
    ASSUME TypeInv, JobInv, [Next]_vars
    PROVE  Quiet \/ \E j \in Jobs : JobStep(j)
<1>0. /\ TypeOK /\ ItemHeld /\ NotStarted /\ SendingIsNew
      /\ HolderUnique /\ Disjoint /\ PlacedAreAccepted
      /\ retryCount \in [Jobs -> 0..(MaxRetries + 1)] /\ MaxRetries \in Nat
  BY OnePlaceParts, ReviewQueueAssumption DEF TypeInv, JobInv, TypeOK
<1>. USE DEF Quiet
<1>1. CASE Start \/ Stop \/ CloseStopCh
  <2>1. UNCHANGED <<fate, reviews, retryCount, item>>
    BY <1>1 DEF Start, Stop, CloseStopCh, workerVars, retryVars, jobVars
  <2>2. \A w \in Workers : pc[w] = "reviewing" <=> pc'[w] = "reviewing"
    BY <1>0, <1>1 DEF Start, Stop, CloseStopCh, workerVars, NotStarted, TypeOK
  <2>. QED  BY <1>0, <2>1, <2>2, AttemptsStay
<1>2. ASSUME NEW j \in Jobs, Enqueue(j)
      PROVE  Quiet \/ JobStep(j)
  <2>1. UNCHANGED <<pc, item, reviews, retryCount>> /\ fate[j] = "new"
    BY <1>2 DEF Enqueue, workerVars, retryVars
  <2>2. \A k \in Jobs : InReview(k)' <=> InReview(k)
    BY <2>1, AttemptsStay
  <2>3. CASE EnqueueAppend(j)
    BY <1>0, <2>1, <2>2, <2>3 DEF EnqueueAppend
  <2>4. CASE EnqueueClosed(j) \/ EnqueueFull(j)
    <3>1. PICK f \in {"closed", "full"} : Settle(j, f)
      BY <2>4 DEF EnqueueClosed, EnqueueFull
    <3>2. f \in Refusals
      BY DEF Refusals
    <3>. QED  BY <2>1, <2>2, <3>1, <3>2 DEF JobStep, Answered
  <2>. QED  BY <1>2, <2>3, <2>4 DEF Enqueue
<1>3. CASE EnqueueSend \/ EnqueueCtxDone
  <2>1. /\ sending \in Jobs /\ fate[sending] = "new"
        /\ UNCHANGED <<pc, item, reviews, retryCount>>
    BY <1>0, <1>3
    DEF EnqueueSend, EnqueueCtxDone, MuFree, SendingIsNew, TypeOK, workerVars,
        retryVars
  <2>2. \A k \in Jobs : InReview(k)' <=> InReview(k)
    BY <2>1, AttemptsStay
  <2>3. PICK f \in {"accepted", "timedOut"} : Settle(sending, f)
    BY <1>3 DEF EnqueueSend, EnqueueCtxDone
  <2>4. f \in Refusals \union {"accepted"}
    BY DEF Refusals
  <2>5. Answered(sending, f)
    BY <2>1, <2>2, <2>3, <2>4 DEF Answered
  <2>. QED  BY <2>1, <2>4, <2>5 DEF JobStep
<1>4. ASSUME NEW w \in Workers,
             Receive(w) \/ WorkerExit(w) \/ CheckBreaker(w) \/ Unmark(w) \/ Leave(w)
      PROVE  Quiet
  <2>1. UNCHANGED <<fate, reviews>>
    BY <1>4 DEF Receive, WorkerExit, CheckBreaker, Unmark, Leave, jobVars
  <2>2. \A v \in Workers : (pc[v] = "reviewing" <=> pc'[v] = "reviewing")
                            /\ (pc[v] = "reviewing" => item'[v] = item[v])
    BY <1>0, <1>4
    DEF TypeOK, Receive, WorkerExit, CheckBreaker, Unmark, Leave, Goto
  <2>3. CASE UNCHANGED retryCount
    BY <1>0, <2>1, <2>2, <2>3, AttemptsStay
  <2>4. CASE CheckBreaker(w) /\ RequeueItem(item[w])
    <3>1. \A k \in Jobs : retryCount'[k] >= retryCount[k]
      BY <1>0, <2>4 DEF RequeueItem
    <3>. QED  BY <2>1, <2>2, <3>1, AttemptsStay
  <2>. QED
    BY <1>4, <2>3, <2>4
    DEF Receive, WorkerExit, CheckBreaker, Unmark, Leave, retryVars
<1>5. ASSUME NEW w \in Workers, BeginReview(w) PROVE JobStep(item[w])
  <2>1. /\ item[w] \in Jobs /\ pc[w] = "entering"
        /\ pc' = [pc EXCEPT ![w] = "reviewing"]
        /\ reviews' = [reviews EXCEPT ![item[w]] = @ + 1]
        /\ UNCHANGED <<item, fate, retryCount>>
    BY <1>0, <1>5 DEF BeginReview, Goto, ItemHeld, retryVars
  <2>2. fate[item[w]] = "accepted"
    BY <1>0, <2>1 DEF PlacedAreAccepted, Held, Holds, Accepted
  <2>. QED  BY <1>0, <2>1, <2>2, AttemptBegins DEF JobStep, Begun
<1>6. ASSUME NEW w \in Workers, ReviewEnds(w) PROVE JobStep(item[w])
  <2>1. /\ item[w] \in Jobs /\ pc[w] = "reviewing"
        /\ pc' = [pc EXCEPT ![w] = "unmark"]
        /\ UNCHANGED <<item, reviews>>
    BY <1>0, <1>6 DEF ReviewEnds, ReviewSucceeds, ReviewFails, ReviewPanics,
                      Retry, GiveUp, Goto, ItemHeld, jobVars
  <2>2. fate[item[w]] = "accepted"
    BY <1>0, <2>1 DEF PlacedAreAccepted, Held, Holds, Accepted
  <2>3. /\ InReview(item[w]) /\ ~InReview(item[w])'
        /\ \A k \in Jobs \ {item[w]} : InReview(k)' <=> InReview(k)
    BY <1>0, <2>1, AttemptEnds
  <2>4. CASE Retry(w)
    <3>1. /\ retryCount[item[w]] < MaxRetries /\ UNCHANGED fate
          /\ retryCount' = [retryCount EXCEPT ![item[w]] =
                               IF @ > MaxRetries THEN @ ELSE @ + 1]
      BY <2>4 DEF Retry, RequeueItem, jobVars
    <3>2. (IF retryCount[item[w]] > MaxRetries
           THEN retryCount[item[w]] ELSE retryCount[item[w]] + 1)
             = retryCount[item[w]] + 1
      BY <1>0, <2>1, <3>1
    <3>3. retryCount' = [retryCount EXCEPT ![item[w]] = @ + 1]
      BY <3>1, <3>2, Zenon
    <3>4. PutOff(item[w])
      BY <2>1, <2>2, <2>3, <3>1, <3>3 DEF PutOff
    <3>. QED  BY <3>4 DEF JobStep
  <2>5. CASE GiveUp(w) \/ ReviewSucceeds(w)
    <3>1. UNCHANGED retryCount
      BY <2>5 DEF GiveUp, ReviewSucceeds, retryVars
    <3>2. PICK f \in {"succeeded", "failed"} : Settle(item[w], f)
      BY <2>5 DEF GiveUp, ReviewSucceeds
    <3>. QED  BY <2>1, <2>2, <2>3, <3>1, <3>2 DEF JobStep, Ended
  <2>. QED
    BY <1>6, <2>4, <2>5 DEF ReviewEnds, ReviewFails, ReviewPanics
<1>7. ASSUME NEW w \in Workers, RejectedByBreaker(w) PROVE JobStep(item[w])
  <2>1. /\ item[w] \in Jobs /\ pc[w] = "entering"
        /\ pc' = [pc EXCEPT ![w] = "unmark"] /\ Settle(item[w], "failed")
        /\ UNCHANGED <<item, reviews, retryCount>>
    BY <1>0, <1>7 DEF RejectedByBreaker, GiveUp, Goto, ItemHeld, retryVars
  <2>2. fate[item[w]] = "accepted"
    BY <1>0, <2>1 DEF PlacedAreAccepted, Held, Holds, Accepted
  <2>3. \A k \in Jobs : InReview(k)' <=> InReview(k)
    BY <1>0, <2>1, AttemptsStay DEF TypeOK
  <2>4. ~InReview(item[w])
    BY <1>0, <2>1 DEF InReview, Reviewing, HolderUnique, Holds
  <2>5. EndedUntried(item[w], "failed")
    BY <1>7, <2>1, <2>2, <2>3, <2>4 DEF EndedUntried
  <2>. QED  BY <2>5 DEF JobStep
<1>8. ASSUME NEW j \in Jobs, BackoffDone(j) \/ Resend(j) PROVE Quiet
  <2>1. UNCHANGED <<pc, item, fate, reviews, retryCount>>
    BY <1>8 DEF BackoffDone, Resend, workerVars, jobVars
  <2>. QED  BY <1>0, <2>1, AttemptsStay
<1>9. ASSUME NEW j \in Jobs, DropOnStop(j) PROVE JobStep(j)
  <2>1. /\ UNCHANGED <<pc, item, reviews, retryCount>> /\ Settle(j, "dropped")
        /\ j \in backoff \union resending
    BY <1>9 DEF DropOnStop, workerVars
  <2>2. \A k \in Jobs : InReview(k)' <=> InReview(k)
    BY <2>1, AttemptsStay
  <2>3. fate[j] = "accepted" /\ j \notin Held
    BY <1>0, <2>1 DEF PlacedAreAccepted, Disjoint, Accepted
  <2>4. ~InReview(j)
    BY <2>3 DEF InReview, Reviewing, Held, Holds
  <2>5. EndedUntried(j, "dropped")
    BY <2>1, <2>2, <2>3, <2>4 DEF EndedUntried
  <2>. QED  BY <2>5 DEF JobStep
<1>10. CASE ResetTimeoutElapses \/ UNCHANGED vars
  <2>1. UNCHANGED <<pc, item, fate, reviews, retryCount>>
    BY <1>10 DEF ResetTimeoutElapses, vars, workerVars, retryVars, jobVars
  <2>. QED  BY <1>0, <2>1, AttemptsStay
<1>11. ASSUME NEW w \in Workers, pc[w] \notin {"off", "idle", "exited"}
       PROVE  item[w] \in Jobs
  BY <1>0, <1>11 DEF ItemHeld
<1>12. ASSUME NEW w \in Workers, WorkerStep(w)
       PROVE  Quiet \/ \E j \in Jobs : JobStep(j)
  <2>1. ASSUME BeginReview(w) \/ ReviewEnds(w) \/ RejectedByBreaker(w)
        PROVE  item[w] \in Jobs /\ JobStep(item[w])
    <3>1. pc[w] \in {"entering", "reviewing"}
      BY <2>1 DEF BeginReview, ReviewEnds, RejectedByBreaker, ReviewSucceeds,
                  ReviewFails, ReviewPanics
    <3>. QED  BY <1>5, <1>6, <1>7, <1>11, <2>1, <3>1
  <2>. QED  BY <1>4, <1>12, <2>1 DEF WorkerStep
<1>. QED
  BY <1>1, <1>2, <1>3, <1>8, <1>9, <1>10, <1>12 DEF Next, RetryStep
-----------------------------------------------------------------------------
(***************************************************************************)
(* A job has been reviewed once for each time it was put off after a       *)
(* review, and once more when a review runs or has settled it.  Putting it *)
(* off while the breaker is open counts as well, but past MaxRetries there *)
(* is no retry after a review.                                             *)
(***************************************************************************)
PutOffs(j) == IF retryCount[j] <= MaxRetries THEN retryCount[j] ELSE MaxRetries

Last(j) == IF fate[j] \in {"new", "accepted"} /\ ~InReview(j) THEN 0 ELSE 1

ReviewsInv == \A j \in Jobs : reviews[j] <= PutOffs(j) + Last(j)

LEMMA ReviewsInductive ==
    ASSUME TypeInv, JobInv, ReviewsInv, [Next]_vars
    PROVE  ReviewsInv'
<1>0. /\ retryCount \in [Jobs -> Nat] /\ retryCount' \in [Jobs -> Nat]
      /\ reviews \in [Jobs -> Nat] /\ fate \in [Jobs -> Fates]
      /\ MaxRetries \in Nat \ {0}
  <2>1. TypeOK'
    BY QueueTypeStep DEF TypeInv
  <2>. QED  BY <2>1, ReviewQueueAssumption DEF TypeInv, TypeOK
<1>1. CASE Quiet
  <2>. SUFFICES ASSUME NEW k \in Jobs
                PROVE  reviews'[k] <= PutOffs(k)' + Last(k)'
    BY DEF ReviewsInv
  <2>1. Last(k)' = Last(k) /\ reviews'[k] = reviews[k]
    BY <1>1 DEF Quiet, Last
  <2>2. PutOffs(k)' >= PutOffs(k) /\ PutOffs(k) \in Nat /\ PutOffs(k)' \in Nat
    BY <1>0, <1>1 DEF Quiet, PutOffs
  <2>3. reviews[k] <= PutOffs(k) + Last(k) /\ Last(k) \in {0, 1}
    BY DEF ReviewsInv, Last
  <2>. QED  BY <1>0, <2>1, <2>2, <2>3
<1>2. ASSUME NEW j \in Jobs, JobStep(j), NEW k \in Jobs \ {j}
      PROVE  reviews'[k] <= PutOffs(k)' + Last(k)'
  <2>1. /\ reviews'[k] = reviews[k] /\ fate'[k] = fate[k]
        /\ retryCount'[k] = retryCount[k] /\ (InReview(k)' <=> InReview(k))
    BY <1>0, <1>2
    DEF JobStep, Answered, Begun, PutOff, Ended, EndedUntried, Settle
  <2>2. PutOffs(k)' = PutOffs(k) /\ Last(k)' = Last(k)
    BY <2>1 DEF PutOffs, Last
  <2>. QED  BY <2>1, <2>2 DEF ReviewsInv
<1>3. ASSUME NEW j \in Jobs, JobStep(j)
      PROVE  reviews'[j] <= PutOffs(j)' + Last(j)'
  <2>0. /\ reviews[j] <= PutOffs(j) + Last(j) /\ reviews[j] \in Nat
        /\ PutOffs(j) \in 0..MaxRetries
    BY <1>0 DEF ReviewsInv, PutOffs
  <2>1. CASE Begun(j)
    <3>1. reviews'[j] = reviews[j] + 1 /\ PutOffs(j)' = PutOffs(j)
      BY <1>0, <2>1 DEF Begun, PutOffs
    <3>2. Last(j) = 0 /\ Last(j)' = 1
      BY <2>1 DEF Begun, Last
    <3>. QED  BY <2>0, <3>1, <3>2
  <2>2. CASE PutOff(j)
    <3>1. reviews'[j] = reviews[j] /\ PutOffs(j)' = PutOffs(j) + 1
      BY <1>0, <2>2 DEF PutOff, PutOffs
    <3>2. Last(j) = 1 /\ Last(j)' = 0
      BY <2>2 DEF PutOff, Last
    <3>. QED  BY <2>0, <3>1, <3>2
  <2>3. CASE \/ \E f \in Refusals \union {"accepted"} : Answered(j, f)
             \/ \E f \in {"succeeded", "failed"} : Ended(j, f)
             \/ \E f \in {"failed", "dropped"} : EndedUntried(j, f)
    <3>1. reviews'[j] = reviews[j] /\ PutOffs(j)' = PutOffs(j)
      BY <2>3 DEF Answered, Ended, EndedUntried, PutOffs
    <3>2. Last(j)' >= Last(j) /\ Last(j) \in {0, 1} /\ Last(j)' \in {0, 1}
      BY <1>0, <2>3 DEF Answered, Ended, EndedUntried, Last, Settle, Refusals
    <3>. QED  BY <2>0, <3>1, <3>2
  <2>. QED  BY <1>3, <2>1, <2>2, <2>3 DEF JobStep
<1>. QED  BY <1>1, <1>2, <1>3, StepsOfJobs DEF ReviewsInv

THEOREM QueueReviewsInv == Spec => []ReviewsInv
<1>1. Init => ReviewsInv
  BY ReviewQueueAssumption DEF Init, ReviewsInv, PutOffs, Last
<1>2. TypeInv /\ JobInv /\ ReviewsInv /\ [Next]_vars => ReviewsInv'
  BY ReviewsInductive
<1>. QED  BY <1>1, <1>2, QueueTypeInv, QueueJobInv, PTL DEF Spec

\* "Failed reviews are retried up to 3 times", however often a job is put off.
THEOREM QueueReviewsBounded == Spec => []ReviewsBounded
<1>1. TypeInv /\ ReviewsInv => ReviewsBounded
  <2>. SUFFICES ASSUME TypeInv, ReviewsInv, NEW j \in Jobs
                PROVE  reviews[j] <= MaxRetries + 1
    BY DEF ReviewsBounded
  <2>1. /\ retryCount[j] \in Nat /\ reviews[j] \in Nat /\ MaxRetries \in Nat
        /\ reviews[j] <= PutOffs(j) + Last(j)
    BY ReviewQueueAssumption DEF TypeInv, TypeOK, ReviewsInv
  <2>2. PutOffs(j) \in 0..MaxRetries /\ Last(j) \in {0, 1}
    BY <2>1 DEF PutOffs, Last
  <2>. QED  BY <2>1, <2>2
<1>. QED  BY <1>1, QueueTypeInv, QueueReviewsInv, PTL
-----------------------------------------------------------------------------
(* The refinement of ReviewJobs. *)

LEMMA StatusIs ==
    ASSUME TypeOK, NEW j \in Jobs
    PROVE  /\ fate[j] = "new" => Status(j) = "absent"
           /\ fate[j] \in Refusals => Status(j) = "refused"
           /\ fate[j] = "accepted" =>
                 Status(j) = IF InReview(j) THEN "reviewing" ELSE "waiting"
           /\ fate[j] \in Settled => Status(j) = fate[j]
BY DEF Status, InReview, Refusals, Settled

\* One job changes its status, and the others keep theirs.
LEMMA StatusMoves ==
    ASSUME NEW j \in Jobs, NEW from, NEW to,
           Status(j) = from, Status(j)' = to,
           \A k \in Jobs \ {j} : Status(k)' = Status(k)
    PROVE  Abstract!Move(j, from, to)
BY DEF Abstract!Move

LEMMA StatusStays ==
    ASSUME NEW k \in Jobs, fate'[k] = fate[k], InReview(k)' <=> InReview(k)
    PROVE  Status(k)' = Status(k)
BY DEF Status, InReview

LEMMA JobsRefined ==
    ASSUME TypeInv, JobInv, ReviewsInv, [Next]_vars
    PROVE  [Abstract!Next]_(Abstract!jobVars)
<1>0. /\ TypeOK /\ TypeOK' /\ MaxRetries \in Nat
      /\ retryCount \in [Jobs -> Nat] /\ reviews \in [Jobs -> Nat]
      /\ fate \in [Jobs -> Fates]
  BY QueueTypeStep, ReviewQueueAssumption DEF TypeInv, TypeOK
<1>1. CASE Quiet
  <2>1. \A k \in Jobs : Status(k)' = Status(k)
    BY <1>1, StatusStays DEF Quiet
  <2>. QED  BY <1>1, <2>1 DEF Quiet, Abstract!jobVars
<1>2. ASSUME NEW j \in Jobs, JobStep(j) PROVE Abstract!Next
  <2>1. \A k \in Jobs \ {j} : Status(k)' = Status(k)
    <3>. SUFFICES ASSUME NEW k \in Jobs \ {j}
                  PROVE  fate'[k] = fate[k] /\ (InReview(k)' <=> InReview(k))
      BY StatusStays
    <3>. QED  BY <1>0, <1>2 DEF JobStep, Answered, Begun, PutOff, Ended,
                                EndedUntried, Settle
  <2>2. ASSUME NEW f \in Refusals \union {"accepted"}, Answered(j, f)
        PROVE  Abstract!Accept(j) \/ Abstract!Refuse(j)
    <3>1. Status(j) = "absent" /\ fate'[j] = f /\ UNCHANGED reviews
      BY <1>0, <2>2, StatusIs DEF Answered, Settle
    <3>2. CASE f = "accepted"
      <4>1. ~InReview(j)'
        BY <1>0, <2>2 DEF Answered, InReview, Reviewing, JobInv, OnePlace, Held,
                          Holds, TypeInv, ItemHeld
      <4>2. Status(j)' = "waiting"
        BY <1>0, <3>1, <3>2, <4>1 DEF Status, InReview, Refusals
      <4>. QED  BY <2>1, <3>1, <4>2, StatusMoves DEF Abstract!Accept
    <3>3. CASE f \in Refusals
      <4>1. Status(j)' = "refused"
        BY <3>1, <3>3 DEF Status, Refusals
      <4>. QED  BY <2>1, <3>1, <4>1, StatusMoves DEF Abstract!Refuse
    <3>. QED  BY <3>2, <3>3
  <2>3. CASE Begun(j)
    <3>1. /\ Status(j) = "waiting" /\ Status(j)' = "reviewing"
          /\ reviews' = [reviews EXCEPT ![j] = @ + 1]
      BY <2>3 DEF Begun, Status, InReview, Refusals
    <3>2. reviews[j] <= MaxRetries
      BY <1>0, <2>3 DEF Begun, ReviewsInv, PutOffs, Last
    <3>. QED  BY <2>1, <3>1, <3>2, StatusMoves DEF Abstract!Attempt, Abstract!Next
  <2>4. CASE PutOff(j)
    <3>1. Status(j) = "reviewing" /\ Status(j)' = "waiting" /\ UNCHANGED reviews
      BY <2>4 DEF PutOff, Status, InReview, Refusals
    <3>2. reviews[j] <= MaxRetries
      BY <1>0, <2>4 DEF PutOff, ReviewsInv, PutOffs, Last
    <3>. QED  BY <2>1, <3>1, <3>2, StatusMoves DEF Abstract!TryAgain, Abstract!Next
  <2>5. ASSUME NEW f \in {"succeeded", "failed"}, Ended(j, f)
        PROVE  Abstract!Finish(j)
    <3>1. Status(j) = "reviewing" /\ fate'[j] = f /\ UNCHANGED reviews
      BY <1>0, <2>5 DEF Ended, Status, InReview, Refusals, Settle
    <3>2. Status(j)' = f
      BY <3>1 DEF Status, Refusals
    <3>. QED  BY <2>1, <3>1, <3>2, StatusMoves DEF Abstract!Finish
  <2>6. ASSUME NEW f \in {"failed", "dropped"}, EndedUntried(j, f)
        PROVE  Abstract!FailUntried(j) \/ Abstract!Drop(j)
    <3>1. Status(j) = "waiting" /\ fate'[j] = f /\ UNCHANGED reviews
      BY <1>0, <2>6 DEF EndedUntried, Status, InReview, Refusals, Settle
    <3>2. Status(j)' = f
      BY <3>1 DEF Status, Refusals
    <3>. QED
      BY <2>1, <3>1, <3>2, StatusMoves DEF Abstract!FailUntried, Abstract!Drop
  <2>. QED  BY <1>2, <2>2, <2>3, <2>4, <2>5, <2>6 DEF JobStep, Abstract!Next
<1>. QED  BY <1>1, <1>2, StepsOfJobs

\* The queue keeps the promises of ReviewJobs, with any number of workers and
\* whatever the breaker, the retries, panics and Stop do.
THEOREM QueueImplementsReviewJobs == Spec => ImplementsReviewJobs
<1>1. Init => Abstract!Init
  <2>. SUFFICES ASSUME Init PROVE Abstract!Init
    OBVIOUS
  <2>1. \A j \in Jobs : fate[j] = "new"
    BY DEF Init
  <2>2. \A j \in Jobs : Status(j) = "absent"
    BY <2>1 DEF Status, Refusals
  <2>. QED  BY <2>2 DEF Init, Abstract!Init
<1>2. TypeInv /\ JobInv /\ ReviewsInv /\ [Next]_vars
        => [Abstract!Next]_(Abstract!jobVars)
  BY JobsRefined
<1>. QED
  BY <1>1, <1>2, QueueTypeInv, QueueJobInv, QueueReviewsInv, PTL
  DEF Spec, ImplementsReviewJobs, Abstract!Spec
-----------------------------------------------------------------------------
(* The marks of pull requests *)

AtWork == {"marked", "entering", "reviewing", "unmark"}

\* A worker takes its mark along until it removes it.
LEMMA MarksInductive ==
    ASSUME TypeInv, NoPhantomProcessing, [Next]_vars
    PROVE  NoPhantomProcessing'
<1>0. pc \in [Workers -> {"off", "idle", "marked", "entering", "reviewing",
                          "unmark", "leave", "exited"}]
      /\ item \in [Workers -> Jobs \union {NoJob}]
  BY DEF TypeInv, TypeOK
<1>. SUFFICES ASSUME NEW p \in processing'
              PROVE  \E w \in Workers : pc'[w] \in AtWork /\ PrOf[item'[w]] = p
  BY DEF NoPhantomProcessing, AtWork
<1>1. CASE p \in processing
  <2>1. PICK w \in Workers : pc[w] \in AtWork /\ PrOf[item[w]] = p
    BY <1>1 DEF NoPhantomProcessing, AtWork
  <2>2. item'[w] = item[w]
    BY <1>0, <2>1
    DEF AtWork, Next, vars, Start, Enqueue, EnqueueSend, EnqueueCtxDone, Stop,
        CloseStopCh, WorkerStep, Receive, WorkerExit, CheckBreaker, BeginReview,
        RejectedByBreaker, ReviewEnds, ReviewSucceeds, ReviewFails,
        ReviewPanics, Unmark, Leave, RetryStep, BackoffDone, Resend, DropOnStop,
        ResetTimeoutElapses, workerVars
  <2>3. pc'[w] \in AtWork
    <3>1. ~Unmark(w)
      BY <1>0, <2>1 DEF Unmark
    <3>2. ASSUME NEW v \in Workers, WorkerStep(v) PROVE pc'[w] \in AtWork
      BY <1>0, <2>1, <3>1, <3>2
      DEF AtWork, WorkerStep, Receive, WorkerExit, CheckBreaker, BeginReview,
          RejectedByBreaker, ReviewEnds, ReviewSucceeds, ReviewFails,
          ReviewPanics, Retry, GiveUp, Unmark, Leave, Goto
    <3>3. CASE Start
      BY <2>1, <3>3 DEF Start, TypeInv, NotStarted, AtWork
    <3>. QED
      BY <2>1, <3>2, <3>3
      DEF Next, vars, Enqueue, EnqueueSend, EnqueueCtxDone, Stop, CloseStopCh,
          RetryStep, BackoffDone, Resend, DropOnStop, ResetTimeoutElapses,
          workerVars
  <2>. QED  BY <2>1, <2>2, <2>3
<1>2. CASE p \notin processing
  <2>1. PICK w \in Workers : Receive(w)
    BY <1>2
    DEF Next, vars, Start, Enqueue, EnqueueSend, EnqueueCtxDone, Stop,
        CloseStopCh, WorkerStep, WorkerExit, CheckBreaker, BeginReview,
        RejectedByBreaker, ReviewEnds, ReviewSucceeds, ReviewFails,
        ReviewPanics, Unmark, Leave, RetryStep, BackoffDone, Resend, DropOnStop,
        ResetTimeoutElapses, workerVars
  <2>2. pc'[w] = "marked" /\ item'[w] = Head(itemCh) /\ p = PrOf[Head(itemCh)]
    BY <1>0, <1>2, <2>1 DEF Receive, Goto
  <2>. QED  BY <2>2 DEF AtWork
<1>. QED  BY <1>1, <1>2

\* No pull request stays marked as being processed by nobody.
THEOREM QueueNoPhantomProcessing == Spec => []NoPhantomProcessing
<1>1. Init => NoPhantomProcessing
  BY DEF Init, NoPhantomProcessing
<1>2. TypeInv /\ NoPhantomProcessing /\ [Next]_vars => NoPhantomProcessing'
  BY MarksInductive
<1>. QED  BY <1>1, <1>2, QueueTypeInv, PTL DEF Spec
-----------------------------------------------------------------------------
(* The failures of a single worker *)

Alone == Cardinality(Workers) = 1

\* A single worker that found the breaker not open finds it so once more.
AdmissionSure == Alone => \A w \in Workers : pc[w] = "entering" => ~Breaker!IsOpen

AttemptsCounted == \A j \in Jobs : InReview(j) => reviews[j] > 0

FailuresInv == AdmissionSure /\ AttemptsCounted /\ FailedWasReviewed

LEMMA AloneIsOne ==
    ASSUME Alone, NEW v \in Workers, NEW w \in Workers PROVE v = w
<1>1. PICK x : Workers = {x}
  BY FS_Singleton, ReviewQueueAssumption DEF Alone
<1>. QED  BY <1>1

LEMMA AdmissionInductive ==
    ASSUME TypeInv, AdmissionSure, [Next]_vars PROVE AdmissionSure'
<1>. SUFFICES ASSUME Alone, NEW w \in Workers, pc'[w] = "entering"
              PROVE  breakerState' # "open"
  BY DEF AdmissionSure, Alone, Breaker!IsOpen
<1>0. pc \in [Workers -> {"off", "idle", "marked", "entering", "reviewing",
                          "unmark", "leave", "exited"}]
  BY DEF TypeInv, TypeOK
<1>1. ASSUME NEW v \in Workers, WorkerStep(v) PROVE breakerState' # "open"
  <2>1. v = w
    BY AloneIsOne
  <2>2. CheckBreaker(w)
    BY <1>0, <1>1, <2>1
    DEF WorkerStep, Receive, WorkerExit, BeginReview, RejectedByBreaker,
        ReviewEnds, ReviewSucceeds, ReviewFails, ReviewPanics, Retry, GiveUp,
        Unmark, Leave, Goto
  <2>. QED
    BY <1>0, <2>2 DEF CheckBreaker, Goto, Breaker!IsOpen, breakerVars
<1>2. CASE Start
  BY <1>0, <1>2 DEF Start
<1>3. ASSUME UNCHANGED <<pc, breakerState>> PROVE breakerState' # "open"
  BY <1>3 DEF AdmissionSure, Breaker!IsOpen
<1>. QED
  BY <1>1, <1>2, <1>3
  DEF Next, vars, Enqueue, EnqueueSend, EnqueueCtxDone, Stop, CloseStopCh,
      RetryStep, BackoffDone, Resend, DropOnStop, ResetTimeoutElapses,
      Breaker!ResetTimeoutElapses, workerVars, breakerVars

LEMMA FailuresInductive ==
    ASSUME TypeInv, JobInv, FailuresInv, [Next]_vars PROVE FailuresInv'
<1>0. reviews \in [Jobs -> Nat] /\ reviews' \in [Jobs -> Nat]
      /\ fate \in [Jobs -> Fates]
  BY QueueTypeStep DEF TypeInv, TypeOK
<1>1. \A k \in Jobs : reviews'[k] >= reviews[k]
  BY <1>0, StepsOfJobs
  DEF Quiet, JobStep, Answered, Begun, PutOff, Ended, EndedUntried
<1>2. AttemptsCounted'
  <2>. SUFFICES ASSUME NEW k \in Jobs, InReview(k)' PROVE reviews'[k] > 0
    BY DEF AttemptsCounted
  <2>1. CASE InReview(k)
    BY <1>0, <1>1, <2>1 DEF FailuresInv, AttemptsCounted
  <2>2. CASE ~InReview(k)
    <3>1. Begun(k)
      BY <2>2, StepsOfJobs
      DEF Quiet, JobStep, Answered, Begun, PutOff, Ended, EndedUntried
    <3>. QED  BY <1>0, <3>1 DEF Begun
  <2>. QED  BY <2>1, <2>2
<1>3. FailedWasReviewed'
  <2>. SUFFICES ASSUME Alone, NEW k \in Jobs, fate'[k] = "failed"
                PROVE  reviews'[k] > 0
    BY DEF FailedWasReviewed, Alone
  <2>1. CASE fate[k] = "failed"
    BY <1>0, <1>1, <2>1 DEF FailuresInv, FailedWasReviewed, Alone
  <2>2. CASE fate[k] # "failed"
    <3>1. InReview(k) \/ \E w \in Workers : item[w] = k /\ RejectedByBreaker(w)
      <4>1. PICK j \in Jobs : JobStep(j)
        BY <2>2, StepsOfJobs DEF Quiet
      <4>. QED
        BY <1>0, <2>2, <4>1
        DEF JobStep, Answered, Begun, PutOff, Ended, EndedUntried, Settle, Refusals
    <3>2. \A w \in Workers : ~RejectedByBreaker(w)
      BY DEF FailuresInv, AdmissionSure, RejectedByBreaker, Breaker!Reject
    <3>. QED  BY <1>0, <1>1, <3>1, <3>2 DEF FailuresInv, AttemptsCounted
  <2>. QED  BY <2>1, <2>2
<1>. QED  BY <1>2, <1>3, AdmissionInductive DEF FailuresInv

\* With a single worker no job fails that was not reviewed: between IsOpen and
\* Execute nobody else is there to open the breaker.
THEOREM QueueFailedWasReviewed == Spec => []FailedWasReviewed
<1>1. Init => FailuresInv
  BY DEF Init, FailuresInv, AdmissionSure, AttemptsCounted, FailedWasReviewed,
         InReview, Reviewing
<1>2. TypeInv /\ JobInv /\ FailuresInv /\ [Next]_vars => FailuresInv'
  BY FailuresInductive
<1>3. FailuresInv => FailedWasReviewed
  BY DEF FailuresInv
<1>. QED  BY <1>1, <1>2, <1>3, QueueTypeInv, QueueJobInv, PTL DEF Spec
-----------------------------------------------------------------------------
(* The emojis *)

\* The emoji of a job before it is settled: none, then QUEUED from Enqueue on,
\* PROCESSING while a worker holds it, one of the two while it waits.
EmojiInv(j) ==
    /\ fate[j] = "new" => reactions[j] = (IF sending = j THEN {"QUEUED"} ELSE {})
    /\ fate[j] = "accepted" => reactions[j] \subseteq {"QUEUED", "PROCESSING"}
    /\ j \in Held => reactions[j] = {"PROCESSING"}
    /\ fate[j] = "succeeded" => reactions[j] = {"SUCCESS"}
    /\ fate[j] = "failed" => reactions[j] = {"FAILED"}
    /\ reactions[j] \intersect {"SUCCESS", "FAILED"} # {} =>
           fate[j] \in {"succeeded", "failed", "full"}

ReactionsInv == \A j \in Manual : EmojiInv(j)

\* The step leaves the job where it is.
LEMMA EmojiStays ==
    ASSUME NEW j \in Manual, EmojiInv(j), fate'[j] = fate[j],
           reactions'[j] = reactions[j], (sending' = j <=> sending = j) \/ fate[j] # "new",
           j \in Held' => j \in Held
    PROVE  EmojiInv(j)'
BY DEF EmojiInv

LEMMA ReactionsInductive ==
    ASSUME TypeInv, JobInv, ReactionsInv, [Next]_vars, NEW j \in Manual
    PROVE  EmojiInv(j)'
<1>0. /\ TypeOK /\ ItemHeld /\ NotStarted /\ SendingIsNew
      /\ HolderUnique /\ Disjoint /\ PlacedAreAccepted /\ ChannelInjective
      /\ fate \in [Jobs -> Fates] /\ reactions \in [Jobs -> SUBSET Emojis]
      /\ pc \in [Workers -> {"off", "idle", "marked", "entering", "reviewing",
                             "unmark", "leave", "exited"}]
      /\ item \in [Workers -> Jobs \union {NoJob}]
      /\ j \in Jobs /\ NoJob \notin Jobs
  BY OnePlaceParts, ReviewQueueAssumption DEF TypeInv, JobInv, TypeOK
<1>e. EmojiInv(j)
  BY DEF ReactionsInv
<1>1. CASE Start \/ Stop \/ CloseStopCh
  <2>1. UNCHANGED <<item, fate, reactions, sending>>
        /\ \A w \in Workers : Holds(w, j)' => Holds(w, j)
    BY <1>0, <1>1 DEF Start, Stop, CloseStopCh, workerVars, jobVars, Holds
  <2>. QED  BY <1>0, <1>e, <2>1, EmojiStays DEF Held
<1>2. ASSUME NEW k \in Jobs, Enqueue(k) PROVE EmojiInv(j)'
  <2>1. UNCHANGED <<pc, item>> /\ fate[k] = "new" /\ sending = NoJob
    BY <1>2 DEF Enqueue, workerVars, MuFree
  <2>2. Held' = Held
    BY <2>1 DEF Held, Holds
  <2>3. CASE j # k
    <3>1. fate'[j] = fate[j] /\ reactions'[j] = reactions[j]
      BY <1>0, <1>2, <2>3
      DEF Enqueue, EnqueueClosed, EnqueueFull, EnqueueAppend, Settle, UpdateReaction
    <3>2. sending' # j /\ sending # j
      BY <1>0, <1>2, <2>1, <2>3 DEF Enqueue, EnqueueClosed, EnqueueFull, EnqueueAppend
    <3>. QED  BY <1>e, <2>2, <3>1, <3>2, EmojiStays
  <2>4. CASE j = k
    <3>1. reactions[j] = {}
      BY <1>0, <1>e, <2>1, <2>4 DEF EmojiInv
    <3>2. /\ reactions' = [reactions EXCEPT ![j] =
                             (@ \ {}) \union IF EnqueueFull(j) THEN {"QUEUED", "FAILED"}
                                             ELSE {"QUEUED"}]
          /\ \/ fate'[j] = "closed" /\ ~EnqueueFull(j)
             \/ fate'[j] = "full" /\ EnqueueFull(j)
             \/ fate'[j] = "new" /\ sending' = j /\ ~EnqueueFull(j)
      BY <1>0, <1>2, <2>1, <2>4
      DEF Enqueue, EnqueueClosed, EnqueueFull, EnqueueAppend, Settle, UpdateReaction
    <3>3. reactions'[j] = IF fate'[j] = "full" THEN {"QUEUED", "FAILED"} ELSE {"QUEUED"}
      BY <1>0, <3>1, <3>2
    <3>. QED  BY <1>e, <2>2, <3>2, <3>3 DEF EmojiInv
  <2>. QED  BY <2>3, <2>4
<1>3. CASE EnqueueSend \/ EnqueueCtxDone
  <2>1. /\ UNCHANGED <<pc, item, reactions>> /\ sending' = NoJob
        /\ fate[sending] = "new" /\ sending \in Jobs
    BY <1>0, <1>3
    DEF EnqueueSend, EnqueueCtxDone, workerVars, MuFree, SendingIsNew, TypeOK
  <2>2. Held' = Held
    BY <2>1 DEF Held, Holds
  <2>3. CASE j # sending
    <3>1. fate'[j] = fate[j]
      BY <1>0, <1>3, <2>3 DEF EnqueueSend, EnqueueCtxDone, Settle
    <3>. QED  BY <1>0, <1>e, <2>1, <2>2, <2>3, <3>1, EmojiStays
  <2>4. CASE j = sending
    <3>1. fate'[j] \in {"accepted", "timedOut"} /\ reactions'[j] = {"QUEUED"}
      BY <1>0, <1>e, <1>3, <2>1, <2>4
      DEF EnqueueSend, EnqueueCtxDone, Settle, EmojiInv
    <3>2. j \notin Held
      BY <1>0, <2>1, <2>4 DEF PlacedAreAccepted, Accepted
    <3>. QED  BY <2>2, <3>1, <3>2 DEF EmojiInv
  <2>. QED  BY <2>3, <2>4
<1>4. ASSUME NEW w \in Workers, Receive(w) PROVE EmojiInv(j)'
  <2>. DEFINE k == Head(itemCh)
  <2>1. /\ itemCh # <<>> /\ k \in Jobs /\ itemCh' = Tail(itemCh)
        /\ UNCHANGED <<fate, sending>>
        /\ pc[w] = "idle" /\ pc' = [pc EXCEPT ![w] = "marked"]
        /\ item' = [item EXCEPT ![w] = k]
        /\ UpdateReaction(k, {"QUEUED"}, {"PROCESSING"})
    BY <1>0, <1>4 DEF Receive, Goto, TypeOK
  <2>2. k \in Channel
    BY <1>0, <2>1, ChannelTail
  <2>3. fate[k] = "accepted" /\ k \notin Held
    BY <1>0, <2>2 DEF PlacedAreAccepted, Disjoint, Accepted
  <2>4. Held' = Held \union {k}
    BY <1>0, <2>1, <2>3, HeldGains
  <2>5. CASE j # k
    <3>1. reactions'[j] = reactions[j]
      BY <1>0, <2>1, <2>5 DEF UpdateReaction
    <3>. QED  BY <1>e, <2>1, <2>4, <2>5, <3>1, EmojiStays
  <2>6. CASE j = k
    <3>1. reactions[j] \subseteq {"QUEUED", "PROCESSING"}
      BY <1>e, <2>3, <2>6 DEF EmojiInv
    <3>2. reactions'[j] = (reactions[j] \ {"QUEUED"}) \union {"PROCESSING"}
      BY <1>0, <2>1, <2>6 DEF UpdateReaction
    <3>3. reactions'[j] = {"PROCESSING"} /\ fate'[j] = "accepted"
      BY <2>1, <2>3, <2>6, <3>1, <3>2
    <3>. QED  BY <3>3 DEF EmojiInv
  <2>. QED  BY <2>5, <2>6
<1>5. ASSUME NEW w \in Workers,
             \/ WorkerExit(w) \/ CheckBreaker(w) \/ BeginReview(w)
             \/ Unmark(w) \/ Leave(w)
             \/ ReviewEnds(w) /\ Retry(w)
      PROVE  EmojiInv(j)'
  <2>1. UNCHANGED <<fate, reactions, sending>>
    BY <1>5 DEF WorkerExit, CheckBreaker, BeginReview, Unmark, Leave, Retry,
                ReviewEnds, ReviewSucceeds, ReviewFails, ReviewPanics, queueVars,
                jobVars
  <2>2. \A v \in Workers : Holds(v, j)' => Holds(v, j)
    BY <1>0, <1>5
    DEF Holds, WorkerExit, CheckBreaker, BeginReview, Unmark, Leave, ReviewEnds,
        ReviewSucceeds, ReviewFails, ReviewPanics, Retry, GiveUp, Goto
  <2>. QED  BY <1>0, <1>e, <2>1, <2>2, EmojiStays DEF Held
<1>6. ASSUME NEW w \in Workers, NEW f \in {"succeeded", "failed"},
             NEW emoji, emoji = IF f = "failed" THEN {"FAILED"} ELSE {"SUCCESS"},
             pc[w] \in {"entering", "reviewing"},
             pc' = [pc EXCEPT ![w] = "unmark"], UNCHANGED <<item, sending>>,
             Settle(item[w], f), UpdateReaction(item[w], {"PROCESSING"}, emoji)
      PROVE  EmojiInv(j)'
  <2>1. /\ item[w] \in Jobs /\ item[w] \in Held /\ Held' = Held \ {item[w]}
    BY <1>0, <1>6, HeldLoses DEF ItemHeld, HoldLabels
  <2>2. fate[item[w]] = "accepted"
    BY <1>0, <2>1 DEF PlacedAreAccepted, Accepted
  <2>3. CASE j # item[w]
    <3>1. fate'[j] = fate[j] /\ reactions'[j] = reactions[j]
      BY <1>0, <1>6, <2>1, <2>3 DEF Settle, UpdateReaction
    <3>. QED  BY <1>6, <1>e, <2>1, <3>1, EmojiStays
  <2>4. CASE j = item[w]
    <3>1. reactions[j] = {"PROCESSING"} /\ fate'[j] = f
      BY <1>0, <1>e, <1>6, <2>1, <2>4 DEF EmojiInv, Settle
    <3>2. reactions'[j] = (reactions[j] \ {"PROCESSING"}) \union emoji
      BY <1>0, <1>6, <2>4 DEF UpdateReaction
    <3>3. reactions'[j] = emoji
      BY <1>6, <3>1, <3>2
    <3>. QED  BY <1>6, <2>1, <2>4, <3>1, <3>3 DEF EmojiInv
  <2>. QED  BY <2>3, <2>4
<1>7. ASSUME NEW w \in Workers,
             \/ RejectedByBreaker(w)
             \/ ReviewEnds(w) /\ (GiveUp(w) \/ ReviewSucceeds(w))
      PROVE  EmojiInv(j)'
  <2>1. /\ pc[w] \in {"entering", "reviewing"}
        /\ pc' = [pc EXCEPT ![w] = "unmark"] /\ UNCHANGED <<item, sending>>
    BY <1>7 DEF RejectedByBreaker, ReviewEnds, ReviewSucceeds, ReviewFails,
                ReviewPanics, GiveUp, Retry, Goto, queueVars
  <2>2. \/ Settle(item[w], "failed")
            /\ UpdateReaction(item[w], {"PROCESSING"}, {"FAILED"})
        \/ Settle(item[w], "succeeded")
            /\ UpdateReaction(item[w], {"PROCESSING"}, {"SUCCESS"})
    BY <1>7 DEF RejectedByBreaker, ReviewSucceeds, GiveUp
  <2>. QED  BY <1>6, <2>1, <2>2
<1>8. ASSUME NEW k \in Jobs, RetryStep(k) PROVE EmojiInv(j)'
  <2>1. UNCHANGED <<pc, item, reactions, sending>>
    BY <1>8 DEF RetryStep, BackoffDone, Resend, DropOnStop, queueVars,
                workerVars, jobVars
  <2>2. Held' = Held
    BY <2>1 DEF Held, Holds
  <2>3. CASE fate'[j] = fate[j]
    BY <1>e, <2>1, <2>2, <2>3, EmojiStays
  <2>4. CASE fate'[j] # fate[j]
    <3>1. DropOnStop(k) /\ k = j /\ fate'[j] = "dropped"
      BY <1>0, <1>8, <2>4
      DEF RetryStep, BackoffDone, Resend, DropOnStop, Settle, jobVars
    <3>2. fate[j] = "accepted"
      BY <1>0, <3>1 DEF DropOnStop, PlacedAreAccepted, Accepted
    <3>. QED  BY <1>e, <2>1, <2>2, <3>1, <3>2 DEF EmojiInv
  <2>. QED  BY <2>3, <2>4
<1>9. CASE ResetTimeoutElapses \/ UNCHANGED vars
  <2>1. UNCHANGED <<pc, item, fate, reactions, sending>>
    BY <1>9 DEF ResetTimeoutElapses, vars, queueVars, workerVars, jobVars
  <2>2. Held' = Held
    BY <2>1 DEF Held, Holds
  <2>. QED  BY <1>e, <2>1, <2>2, EmojiStays
<1>10. ASSUME NEW w \in Workers, ReviewEnds(w)
       PROVE  Retry(w) \/ GiveUp(w) \/ ReviewSucceeds(w)
  BY <1>10 DEF ReviewEnds, ReviewFails, ReviewPanics
<1>11. ASSUME NEW w \in Workers, WorkerStep(w) PROVE EmojiInv(j)'
  <2>1. CASE ReviewEnds(w)
    BY <1>5, <1>7, <1>10, <2>1
  <2>2. CASE Receive(w)
    BY <1>4, <2>2
  <2>3. CASE \/ WorkerExit(w) \/ CheckBreaker(w) \/ BeginReview(w)
             \/ Unmark(w) \/ Leave(w)
    BY <1>5, <2>3
  <2>4. CASE RejectedByBreaker(w)
    BY <1>7, <2>4
  <2>. QED  BY <1>11, <2>1, <2>2, <2>3, <2>4 DEF WorkerStep
<1>. QED  BY <1>1, <1>2, <1>3, <1>8, <1>9, <1>11 DEF Next

\* The emoji that a finished job is left with is that of its fate, and none
\* tells of a result that there is not.
THEOREM QueueReactionsTellFate == Spec => []ReactionsTellFate
<1>1. Init => ReactionsInv
  <2>. SUFFICES ASSUME Init, NEW j \in Manual PROVE EmojiInv(j)
    BY DEF ReactionsInv
  <2>1. /\ fate[j] = "new" /\ reactions[j] = {} /\ sending = NoJob
        /\ j \in Jobs /\ NoJob \notin Jobs
    BY ReviewQueueAssumption DEF Init
  <2>2. Held = {}
    BY DEF Init, Held, Holds
  <2>. QED  BY <2>1, <2>2 DEF EmojiInv
<1>2. TypeInv /\ JobInv /\ ReactionsInv /\ [Next]_vars => ReactionsInv'
  BY ReactionsInductive DEF ReactionsInv
<1>3. ReactionsInv => ReactionsTellFate
  BY DEF ReactionsInv, EmojiInv, ReactionsTellFate
<1>. QED  BY <1>1, <1>2, <1>3, QueueTypeInv, QueueJobInv, PTL DEF Spec
=============================================================================

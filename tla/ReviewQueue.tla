---------------------------- MODULE ReviewQueue -----------------------------
(***************************************************************************)
(* The review queue of internal/adapters/queue/queue.go, composed with the *)
(* circuit breaker it calls (module CircuitBreaker).                       *)
(*                                                                         *)
(* A job is one submission of a pull request: one call of Enqueue by a     *)
(* webhook handler.  Handlers, workers, the timers of requeued items and   *)
(* Stop run concurrently.  An action is the code between two points where  *)
(* another goroutine can intervene: a lock, a channel, a call out.         *)
(*                                                                         *)
(* Only the length of q.items is ever used (its elements are never read),  *)
(* so the slice is modelled by size.  Contexts of the workers never end    *)
(* (the application passes context.Background()); the context of Enqueue   *)
(* may end at any time, since its five seconds start before the wait for   *)
(* the lock and include the reaction call made under it.                   *)
(***************************************************************************)
EXTENDS Naturals, FiniteSets, Sequences

CONSTANTS
    Jobs, NoJob,
    Workers,
    PRs, PrOf,          \* PrOf[j] is the id of the pull request of job j
    Manual,             \* the jobs triggered by a comment
    QueueSize, MaxRetries, FailureThreshold

ASSUME ReviewQueueAssumption ==
    /\ NoJob \notin Jobs
    /\ IsFiniteSet(Workers) /\ Workers # {}
    /\ PrOf \in [Jobs -> PRs]
    /\ Manual \subseteq Jobs
    /\ QueueSize \in Nat \ {0}          \* NewQueue turns 0 into 100,
    /\ MaxRetries \in Nat \ {0}         \* and 0 into 3
    /\ FailureThreshold \in Nat \ {0}

VARIABLES
    (* the circuit breaker *)
    breakerState, failureCount, cooled, inFlight,
    (* the queue, under q.mu *)
    phase,        \* "new", "running", "closing" (not running), "closed" (stopCh)
    sending,      \* the job whose Enqueue holds q.mu at the channel send
    size,         \* len(q.items)
    itemCh,       \* the buffered channel
    (* the workers, and the goroutines of requeueItem *)
    pc, item,
    backoff,      \* items whose backoff timer is running
    resending,    \* items whose timer fired, blocked on the channel
    processing,   \* the set of pull request ids, under q.processingMu
    retryCount,   \* the field of queueItem, counted up to MaxRetries + 1
    (* what the outside sees *)
    fate,         \* what became of a job
    reactions,    \* the emojis on the triggering comment
    reviews       \* how often the review service was called for a job

Breaker == INSTANCE CircuitBreaker WITH Callers <- Workers, state <- breakerState

breakerVars == <<breakerState, failureCount, cooled, inFlight>>
queueVars   == <<phase, sending, size, itemCh>>
workerVars  == <<pc, item, processing>>
retryVars   == <<backoff, resending, retryCount>>
jobVars     == <<fate, reactions, reviews>>
vars == <<breakerVars, queueVars, workerVars, retryVars, jobVars>>

Emojis == {"QUEUED", "PROCESSING", "SUCCESS", "FAILED"}

Refusals == {"full", "closed", "timedOut"}
Settled  == {"succeeded", "failed", "dropped"}
Fates    == {"new", "accepted"} \union Refusals \union Settled

TypeOK ==
    /\ Breaker!TypeOK
    /\ phase \in {"new", "running", "closing", "closed"}
    /\ sending \in Jobs \union {NoJob}
    /\ size \in 0..QueueSize
    /\ itemCh \in Seq(Jobs) /\ Len(itemCh) <= QueueSize
    /\ pc \in [Workers -> {"off", "idle", "marked", "entering", "reviewing",
                           "unmark", "leave", "exited"}]
    /\ item \in [Workers -> Jobs \union {NoJob}]
    /\ backoff \subseteq Jobs /\ resending \subseteq Jobs
    /\ processing \subseteq PRs
    /\ retryCount \in [Jobs -> 0..(MaxRetries + 1)]
    /\ fate \in [Jobs -> Fates]
    /\ reactions \in [Jobs -> SUBSET Emojis]
    /\ reviews \in [Jobs -> Nat]

Init ==
    /\ Breaker!Init
    /\ phase = "new" /\ sending = NoJob /\ size = 0 /\ itemCh = <<>>
    /\ pc = [w \in Workers |-> "off"]
    /\ item = [w \in Workers |-> NoJob]
    /\ processing = {}
    /\ backoff = {} /\ resending = {}
    /\ retryCount = [j \in Jobs |-> 0]
    /\ fate = [j \in Jobs |-> "new"]
    /\ reactions = [j \in Jobs |-> {}]
    /\ reviews = [j \in Jobs |-> 0]
-----------------------------------------------------------------------------
(* Helpers *)

MuFree == sending = NoJob

ChannelFull == Len(itemCh) >= QueueSize

\* updateReaction: nothing without a triggering comment; removing an emoji
\* that is not there and adding one that is are harmless.
UpdateReaction(j, old, new) ==
    reactions' = IF j \in Manual
                 THEN [reactions EXCEPT ![j] = (@ \ old) \union new]
                 ELSE reactions

Settle(j, f) == fate' = [fate EXCEPT ![j] = f]

\* Counting stops where the only test on it, against MaxRetries, is decided.
RequeueItem(j) ==
    /\ retryCount' = [retryCount EXCEPT ![j] = IF @ > MaxRetries THEN @ ELSE @ + 1]
    /\ backoff' = backoff \union {j}
    /\ UNCHANGED resending

Goto(w, label) == pc' = [pc EXCEPT ![w] = label]
-----------------------------------------------------------------------------
(* Start, Enqueue and Stop *)

\* The application calls Start once.
Start ==
    /\ phase = "new" /\ MuFree
    /\ phase' = "running"
    /\ pc' = [w \in Workers |-> "idle"]
    /\ UNCHANGED <<breakerVars, sending, size, itemCh, item, processing,
                   retryVars, jobVars>>

EnqueueClosed(j) ==
    /\ phase # "running"
    /\ Settle(j, "closed")
    /\ UpdateReaction(j, {}, {"QUEUED"})
    /\ UNCHANGED <<sending, size>>

EnqueueFull(j) ==
    /\ phase = "running" /\ size >= QueueSize
    /\ Settle(j, "full")
    /\ UpdateReaction(j, {}, {"QUEUED", "FAILED"})
    /\ UNCHANGED <<sending, size>>

\* Mutant: the test for a full queue is off by one.
EnqueueAppendOneMore(j) ==
    /\ phase = "running" /\ size <= QueueSize
    /\ size' = size + 1
    /\ sending' = j
    /\ UpdateReaction(j, {}, {"QUEUED"})
    /\ UNCHANGED fate

EnqueueAppend(j) ==
    /\ phase = "running" /\ size < QueueSize
    /\ size' = size + 1
    /\ sending' = j
    /\ UpdateReaction(j, {}, {"QUEUED"})
    /\ UNCHANGED fate

\* Enqueue up to its return or to the channel send, under q.mu.
Enqueue(j) ==
    /\ fate[j] = "new" /\ MuFree
    /\ EnqueueClosed(j) \/ EnqueueFull(j) \/ EnqueueAppend(j)
    /\ UNCHANGED <<breakerVars, phase, itemCh, workerVars, retryVars, reviews>>

\* The channel send of Enqueue, which releases q.mu.
EnqueueSend ==
    /\ ~MuFree /\ ~ChannelFull
    /\ itemCh' = Append(itemCh, sending)
    /\ Settle(sending, "accepted")
    /\ sending' = NoJob
    /\ UNCHANGED <<breakerVars, phase, size, workerVars, retryVars,
                   reactions, reviews>>

\* Mutants: the place of a job that was not sent is kept; the send does not
\* watch the context.
EnqueueCtxDoneKeepsPlace ==
    /\ ~MuFree
    /\ Settle(sending, "timedOut")
    /\ sending' = NoJob
    /\ UNCHANGED <<breakerVars, phase, size, itemCh, workerVars, retryVars,
                   reactions, reviews>>
EnqueueCtxIgnored == FALSE /\ UNCHANGED vars

\* The context ends first: the last element of q.items is cut off.
EnqueueCtxDone ==
    /\ ~MuFree
    /\ size' = size - 1
    /\ Settle(sending, "timedOut")
    /\ sending' = NoJob
    /\ UNCHANGED <<breakerVars, phase, itemCh, workerVars, retryVars,
                   reactions, reviews>>

\* Stop: first running is cleared under q.mu, then stopCh is closed.
Stop ==
    /\ phase = "running" /\ MuFree
    /\ phase' = "closing"
    /\ UNCHANGED <<breakerVars, sending, size, itemCh, workerVars, retryVars,
                   jobVars>>

CloseStopCh ==
    /\ phase = "closing"
    /\ phase' = "closed"
    /\ UNCHANGED <<breakerVars, sending, size, itemCh, workerVars, retryVars,
                   jobVars>>
-----------------------------------------------------------------------------
(* worker and processItem *)

\* Receive an item and mark its pull request as being processed.
Receive(w) ==
    /\ pc[w] = "idle" /\ itemCh # <<>>
    /\ LET j == Head(itemCh) IN
          /\ item' = [item EXCEPT ![w] = j]
          /\ processing' = processing \union {PrOf[j]}
          /\ UpdateReaction(j, {"QUEUED"}, {"PROCESSING"})
    /\ itemCh' = Tail(itemCh)
    /\ Goto(w, "marked")
    /\ UNCHANGED <<breakerVars, phase, sending, size, retryVars, fate, reviews>>

WorkerExit(w) ==
    /\ pc[w] = "idle" /\ phase = "closed"
    /\ Goto(w, "exited")
    /\ UNCHANGED <<breakerVars, queueVars, item, processing, retryVars, jobVars>>

\* Mutants: no return after the requeue; no look at the breaker.
CheckBreakerFallsThrough(w) ==
    /\ pc[w] = "marked"
    /\ Goto(w, "entering")
    /\ IF Breaker!IsOpen THEN RequeueItem(item[w]) ELSE UNCHANGED retryVars
    /\ UNCHANGED <<breakerVars, queueVars, item, processing, jobVars>>
CheckBreakerSkipped(w) ==
    /\ pc[w] = "marked"
    /\ Goto(w, "entering")
    /\ UNCHANGED <<breakerVars, queueVars, retryVars, item, processing, jobVars>>

\* processItem asks IsOpen before it calls Execute, and puts the item off
\* when it is, whatever its retry count.
CheckBreaker(w) ==
    /\ pc[w] = "marked"
    /\ IF Breaker!IsOpen
       THEN Goto(w, "unmark") /\ RequeueItem(item[w])
       ELSE Goto(w, "entering") /\ UNCHANGED retryVars
    /\ UNCHANGED <<breakerVars, queueVars, item, processing, jobVars>>

\* Mutant: the review is called past the breaker.
BeginReviewUnprotected(w) ==
    /\ pc[w] = "entering"
    /\ reviews' = [reviews EXCEPT ![item[w]] = @ + 1]
    /\ inFlight' = inFlight \union {w}
    /\ Goto(w, "reviewing")
    /\ UNCHANGED <<breakerState, failureCount, cooled, queueVars, item,
                   processing, retryVars, fate, reactions>>

BeginReview(w) ==
    /\ pc[w] = "entering"
    /\ Breaker!Admit(w)
    /\ reviews' = [reviews EXCEPT ![item[w]] = @ + 1]
    /\ Goto(w, "reviewing")
    /\ UNCHANGED <<queueVars, item, processing, retryVars, fate, reactions>>

\* Mutants: the wrong emoji is removed; the mark is not taken off.
GiveUpKeepsEmoji(w) ==
    /\ Settle(item[w], "failed")
    /\ UpdateReaction(item[w], {"QUEUED"}, {"FAILED"})
    /\ Goto(w, "unmark")
    /\ UNCHANGED <<retryVars, reviews>>
GiveUpKeepsMark(w) ==
    /\ Settle(item[w], "failed")
    /\ UpdateReaction(item[w], {"PROCESSING"}, {"FAILED"})
    /\ Goto(w, "leave")
    /\ UNCHANGED <<retryVars, reviews>>

\* The error path of handleProcessingError that gives the item up.
GiveUp(w) ==
    /\ Settle(item[w], "failed")
    /\ UpdateReaction(item[w], {"PROCESSING"}, {"FAILED"})
    /\ Goto(w, "unmark")
    /\ UNCHANGED <<retryVars, reviews>>

\* ErrCircuitOpen is not retryable.
RejectedByBreaker(w) ==
    /\ pc[w] = "entering"
    /\ Breaker!Reject(w)
    /\ GiveUp(w)
    /\ UNCHANGED <<queueVars, item, processing>>

ReviewSucceeds(w) ==
    /\ pc[w] = "reviewing"
    /\ Breaker!Succeed(w)
    /\ Settle(item[w], "succeeded")
    /\ UpdateReaction(item[w], {"PROCESSING"}, {"SUCCESS"})
    /\ Goto(w, "unmark")
    /\ UNCHANGED <<queueVars, item, processing, retryVars, reviews>>

\* Mutant: one retry more than configured.
RetryOnceMore(w) ==
    /\ retryCount[item[w]] <= MaxRetries
    /\ RequeueItem(item[w])
    /\ Goto(w, "unmark")
    /\ UNCHANGED jobVars

Retry(w) ==
    /\ retryCount[item[w]] < MaxRetries
    /\ RequeueItem(item[w])
    /\ Goto(w, "unmark")
    /\ UNCHANGED jobVars

ReviewFails(w, retryable) ==
    /\ pc[w] = "reviewing"
    /\ Breaker!Fail(w)
    /\ \/ retryable /\ Retry(w)
       \/ ~(retryable /\ retryCount[item[w]] < MaxRetries) /\ GiveUp(w)
    /\ UNCHANGED <<queueVars, item, processing>>

\* Mutant: the recovered item is tried again.
ReviewPanicsAndRetries(w) ==
    /\ pc[w] = "reviewing"
    /\ Breaker!Abandon(w)
    /\ RequeueItem(item[w])
    /\ Goto(w, "unmark")
    /\ UNCHANGED <<queueVars, item, processing, jobVars>>

\* A panic passes through Execute and is recovered by processItem.
ReviewPanics(w) ==
    /\ pc[w] = "reviewing"
    /\ Breaker!Abandon(w)
    /\ GiveUp(w)
    /\ UNCHANGED <<queueVars, item, processing>>

\* The deferred cleanup: the mark, and then, under q.mu, the head of q.items.
Unmark(w) ==
    /\ pc[w] = "unmark"
    /\ processing' = processing \ {PrOf[item[w]]}
    /\ Goto(w, "leave")
    /\ UNCHANGED <<breakerVars, queueVars, item, retryVars, jobVars>>

\* Mutant: the item is not removed from q.items.
LeaveKeepsPlace(w) ==
    /\ pc[w] = "leave" /\ MuFree
    /\ item' = [item EXCEPT ![w] = NoJob]
    /\ Goto(w, "idle")
    /\ UNCHANGED <<breakerVars, queueVars, processing, retryVars, jobVars>>

Leave(w) ==
    /\ pc[w] = "leave" /\ MuFree
    /\ size' = IF size > 0 THEN size - 1 ELSE size
    /\ item' = [item EXCEPT ![w] = NoJob]
    /\ Goto(w, "idle")
    /\ UNCHANGED <<breakerVars, phase, sending, itemCh, processing, retryVars,
                   jobVars>>
-----------------------------------------------------------------------------
(* the goroutine of requeueItem *)

BackoffDone(j) ==
    /\ j \in backoff
    /\ backoff' = backoff \ {j}
    /\ resending' = resending \union {j}
    /\ UNCHANGED <<breakerVars, queueVars, workerVars, retryCount, jobVars>>

\* The item goes back to the channel, but not to q.items.
Resend(j) ==
    /\ j \in resending /\ ~ChannelFull
    /\ itemCh' = Append(itemCh, j)
    /\ resending' = resending \ {j}
    /\ UNCHANGED <<breakerVars, phase, sending, size, workerVars, backoff,
                   retryCount, jobVars>>

\* Mutant: only the timer watches stopCh, the channel send does not.
DropOnStopInBackoff(j) ==
    /\ j \in backoff /\ phase = "closed"
    /\ backoff' = backoff \ {j}
    /\ Settle(j, "dropped")
    /\ UNCHANGED <<breakerVars, queueVars, workerVars, resending, retryCount,
                   reactions, reviews>>

DropOnStop(j) ==
    /\ j \in backoff \union resending /\ phase = "closed"
    /\ backoff' = backoff \ {j}
    /\ resending' = resending \ {j}
    /\ Settle(j, "dropped")
    /\ UNCHANGED <<breakerVars, queueVars, workerVars, retryCount, reactions,
                   reviews>>
-----------------------------------------------------------------------------
ResetTimeoutElapses ==
    /\ Breaker!ResetTimeoutElapses
    /\ UNCHANGED <<queueVars, workerVars, retryVars, jobVars>>

ReviewEnds(w) ==
    \/ ReviewSucceeds(w)
    \/ \E retryable \in BOOLEAN : ReviewFails(w, retryable)
    \/ ReviewPanics(w)

WorkerStep(w) ==
    \/ Receive(w)
    \/ WorkerExit(w)
    \/ CheckBreaker(w)
    \/ BeginReview(w)
    \/ RejectedByBreaker(w)
    \/ ReviewEnds(w)
    \/ Unmark(w)
    \/ Leave(w)

RetryStep(j) == BackoffDone(j) \/ Resend(j) \/ DropOnStop(j)

Next ==
    \/ Start
    \/ \E j \in Jobs : Enqueue(j)
    \/ EnqueueSend
    \/ EnqueueCtxDone
    \/ Stop
    \/ CloseStopCh
    \/ \E w \in Workers : WorkerStep(w)
    \/ \E j \in Jobs : RetryStep(j)
    \/ ResetTimeoutElapses

Spec == Init /\ [][Next]_vars

\* Goroutines keep running, timers fire, a review ends (the agent runs under
\* a timeout), the context of a blocked Enqueue ends.  The select statements
\* choose at random among what is ready, so a branch that is ready again and
\* again is taken: strong fairness for the branches on stopCh.
Fairness ==
    /\ WF_vars(EnqueueSend \/ EnqueueCtxDone)
    /\ WF_vars(CloseStopCh)
    /\ \A w \in Workers : WF_vars(WorkerStep(w)) /\ SF_vars(WorkerExit(w))
    /\ \A j \in Jobs : WF_vars(RetryStep(j)) /\ SF_vars(DropOnStop(j))
    /\ WF_vars(ResetTimeoutElapses)

FairSpec == Spec /\ Fairness
-----------------------------------------------------------------------------
(* Properties *)

Busy == {w \in Workers : pc[w] \notin {"off", "idle", "exited"}}

\* The jobs the queue counts at most: in the channel, with a worker that has
\* not given its place back, or with the handler that is sending.
Present ==
    Len(itemCh) + Cardinality(Busy) + (IF MuFree THEN 0 ELSE 1)

\* q.items never counts more jobs than there are: retries take items past
\* it, removals may be skipped (the len(q.items) > 0 test), but no place is
\* ever held by nobody.
SizeNeverOvercounts == size <= Present

\* queue.go:131: a job is refused as "full" only when at least QueueSize
\* jobs are waiting in the channel or occupy a worker.
FullIsReal ==
    [][\A j \in Jobs : fate[j] # fate'[j] /\ fate'[j] = "full"
            => Len(itemCh) + Cardinality(Busy) >= QueueSize]_vars

NeverRetried == \A j \in Jobs : retryCount[j] = 0

\* queue.go:164, "blocking, but should never block due to queue size check
\* above", is true as long as no item was ever put off or retried.
SendReadyWithoutRetries == NeverRetried => (~MuFree => ~ChannelFull)

\* The bookkeeping of q.items: both of the above.
PlacesAddUp == SizeNeverOvercounts /\ SendReadyWithoutRetries

Holds(w, j) == item[w] = j /\ pc[w] \in {"marked", "entering", "reviewing"}

Channel == {itemCh[i] : i \in DOMAIN itemCh}
Held    == {j \in Jobs : \E w \in Workers : Holds(w, j)}

\* An accepted job that is not settled is in exactly one place (a slot of the
\* channel, a worker, a timer or a blocked requeue goroutine), and any other
\* job is nowhere: no retry duplicates a job or loses it.
OnePlace ==
    /\ \A i, k \in DOMAIN itemCh : itemCh[i] = itemCh[k] => i = k
    /\ \A v, w \in Workers : \A j \in Jobs : Holds(v, j) /\ Holds(w, j) => v = w
    /\ Channel \intersect (Held \union backoff \union resending) = {}
    /\ Held \intersect (backoff \union resending) = {}
    /\ backoff \intersect resending = {}
    /\ Channel \union Held \union backoff \union resending
         = {j \in Jobs : fate[j] = "accepted"}

\* The variables keep their types, q.items counts no place that nobody
\* occupies, and every accepted job is in one place.
Sound == TypeOK /\ PlacesAddUp /\ OnePlace

\* docs/architecture-explained.md:197, "Failed reviews are retried up to 3
\* times": the reviews of a job are bounded although putting a job off while
\* the circuit is open raises its retry count without any bound.
ReviewsBounded == \A j \in Jobs : reviews[j] <= MaxRetries + 1

\* A job that was told to have failed was reviewed at least once, when there
\* is one worker; with more, the breaker can open between CheckBreaker and
\* BeginReview and fail a job nobody looked at.
FailedWasReviewed ==
    Cardinality(Workers) = 1 =>
        \A j \in Jobs : fate[j] = "failed" => reviews[j] > 0

\* The emoji on the triggering comment, moved from QUEUED to PROCESSING to
\* the result across any number of retries, tells the job's fate.
ReactionsTellFate ==
    \A j \in Manual :
        /\ fate[j] = "succeeded" => reactions[j] = {"SUCCESS"}
        /\ fate[j] = "failed" => reactions[j] = {"FAILED"}
        /\ reactions[j] \intersect {"SUCCESS", "FAILED"} # {} =>
               fate[j] \in {"succeeded", "failed", "full"}

\* A pull request is marked as being processed only while some worker is
\* between its Receive and its Unmark: no mark is left behind.
NoPhantomProcessing ==
    \A p \in processing : \E w \in Workers :
        /\ pc[w] \in {"marked", "entering", "reviewing", "unmark"}
        /\ PrOf[item[w]] = p

Reviewing == {w \in Workers : pc[w] = "reviewing"}

\* docs/architecture-explained.md:194, "Automatically closes after reset
\* timeout".
BreakerRecovers == breakerState = "open" ~> breakerState # "open"

\* Every accepted job is settled, through all retries and although a handler
\* may hold the lock every worker needs, unless the queue is stopped or the
\* breaker opens.
AcceptedSettles ==
    \A j \in Jobs : fate[j] = "accepted" ~>
        (fate[j] \in Settled \/ phase # "running" \/ breakerState = "open")

AllGone ==
    /\ \A w \in Workers : pc[w] = "exited"
    /\ backoff \union resending = {}

\* Once stopCh is closed every worker and every requeue goroutine ends, so
\* the wait in Stop does: none waits for ever for the channel or the lock.
WaitGroupDrains == phase = "closed" ~> AllGone

\* What a job looks like from outside.
Status(j) ==
    CASE fate[j] = "new" -> "absent"
      [] fate[j] \in Refusals -> "refused"
      [] fate[j] = "accepted" ->
            IF \E w \in Reviewing : item[w] = j THEN "reviewing" ELSE "waiting"
      [] OTHER -> fate[j]

Abstract == INSTANCE ReviewJobs
    WITH status <- [j \in Jobs |-> Status(j)], attempts <- reviews

\* The breaker inside the queue behaves as CircuitBreaker says, so that what
\* holds of every CircuitBreaker holds of it.
ImplementsCircuitBreaker == Breaker!Spec

\* The queue implements the life cycle of ReviewJobs.
ImplementsReviewJobs == Abstract!Spec
=============================================================================

----------------------------- MODULE ReviewRun ------------------------------
(***************************************************************************)
(* A job on its way through one worker: processItem of                     *)
(* internal/adapters/queue/queue.go and performReview of                   *)
(* internal/domain/services/review_service.go, with two of the adapters    *)
(* they call as modules of their own: the Bitbucket client for the         *)
(* reactions and the failure comment, and the claude reviewer.  Every job  *)
(* has a worker, and may find the circuit breaker open at either of its    *)
(* two looks; the breaker's own state, the channel and Stop are            *)
(* ReviewQueue's, the clone directories ReviewService's, the profiles      *)
(* ProfileProvider's.                                                      *)
(***************************************************************************)
EXTENDS DomainErrors, Naturals

CONSTANTS
    Jobs,
    Manual,      \* the jobs triggered by a comment, which carries the emojis
    MaxRetries,
    MaxFaults    \* bound on the requests to Bitbucket that go wrong

ASSUME ReviewRunAssumption ==
    /\ Manual \subseteq Jobs
    /\ MaxRetries \in Nat /\ MaxFaults \in Nat

VARIABLES
    pc,          \* where the job's worker stands
    retryCount,  \* counts every requeue, an open breaker's too
    reviews,     \* history: how often the review of a job was begun
    told,        \* jobs whose failure comment is on the pull request
    timedOut,    \* history: jobs whose agent met its time limit
    child, pipeHeld, deadline,                 \* ClaudeReviewer
    reactions, tracker, late, faults, broken   \* BitbucketClient

Agent  == INSTANCE ClaudeReviewer
Client == INSTANCE BitbucketClient WITH Comments <- Manual

runVars    == <<pc, retryCount, reviews, told, timedOut>>
agentVars  == <<child, pipeHeld, deadline>>
clientVars == <<reactions, tracker, late, faults, broken>>
vars == <<runVars, agentVars, clientVars>>

Settled == {"succeeded", "failed"}
Labels  == {"enqueue", "unqueue", "mark", "check", "repository", "profile",
            "review", "agent", "backoff", "clear", "praise", "giveUp", "blame",
            "comment", "panicked", "panicClear", "panicBlame"} \union Settled

TypeOK ==
    /\ pc \in [Jobs -> Labels]
    /\ retryCount \in [Jobs -> 0..MaxRetries]
    /\ reviews \in [Jobs -> 0..MaxRetries + 1]
    /\ told \subseteq Jobs /\ timedOut \subseteq Jobs
    /\ Agent!AgentTypeOK /\ Client!ClientTypeOK

Init ==
    /\ pc = [j \in Jobs |-> "enqueue"]
    /\ retryCount = [j \in Jobs |-> 0]
    /\ reviews = [j \in Jobs |-> 0]
    /\ told = {} /\ timedOut = {}
    /\ Agent!AgentInit /\ Client!ClientInit
-----------------------------------------------------------------------------
(* updateReaction: nothing without a comment; errors are logged only *)

Goto(j, label) == pc' = [pc EXCEPT ![j] = label]

Add(j, emoji) ==
    IF j \in Manual THEN Client!AddCommentReaction(j, emoji)
                    ELSE UNCHANGED clientVars

Remove(j, emoji) ==
    IF j \in Manual THEN Client!RemoveCommentReaction(j, emoji)
                    ELSE UNCHANGED clientVars

\* One step of updateReaction at a place of the worker, on to the next place.
Adding(j, place, emoji, next) ==
    /\ pc[j] = place /\ Goto(j, next)
    /\ Add(j, emoji)
    /\ UNCHANGED <<retryCount, reviews, told, timedOut, agentVars>>

Removing(j, place, emoji, next) ==
    /\ pc[j] = place /\ Goto(j, next)
    /\ Remove(j, emoji)
    /\ UNCHANGED <<retryCount, reviews, told, timedOut, agentVars>>
-----------------------------------------------------------------------------
(* Enqueue and processItem up to the review *)

Enqueue(j)        == Adding(j, "enqueue", "QUEUED", "unqueue")
Unqueue(j)        == Removing(j, "unqueue", "QUEUED", "mark")
MarkProcessing(j) == Adding(j, "mark", "PROCESSING", "check")

\* requeueItem; from MaxRetries on the count makes no difference any more.
RequeueItem(j) ==
    /\ retryCount' = [retryCount EXCEPT ![j] = IF @ = MaxRetries THEN @ ELSE @ + 1]
    /\ Goto(j, "backoff")

\* Mutant: one more retry than configured.
HandleOnceMore(j, err) ==
    /\ IF IsRetryable(err) /\ retryCount[j] <= MaxRetries
       THEN RequeueItem(j)
       ELSE Goto(j, "giveUp") /\ UNCHANGED retryCount
    /\ UNCHANGED <<told, clientVars>>

\* Mutant: the try is not counted.
HandleUncounted(j, err) ==
    /\ IF IsRetryable(err) /\ retryCount[j] < MaxRetries
       THEN Goto(j, "backoff") ELSE Goto(j, "giveUp")
    /\ UNCHANGED <<retryCount, told, clientVars>>

\* handleProcessingError: another try, after a backoff, or the end.
HandleProcessingError(j, err) ==
    /\ IF IsRetryable(err) /\ retryCount[j] < MaxRetries
       THEN RequeueItem(j)
       ELSE Goto(j, "giveUp") /\ UNCHANGED retryCount
    /\ UNCHANGED <<told, clientVars>>

BackoffEnds(j) ==
    /\ pc[j] = "backoff" /\ Goto(j, "unqueue")
    /\ UNCHANGED <<retryCount, reviews, told, timedOut, agentVars, clientVars>>

\* IsOpen: the worker puts the job off, whatever its retry count, and leaves
\* the emoji as it is.
PutOff(j) ==
    /\ pc[j] = "check" /\ RequeueItem(j)
    /\ UNCHANGED <<reviews, told, timedOut, agentVars, clientVars>>

\* Execute: the review begins, unless the breaker has opened since that look.
Execute(j) ==
    /\ pc[j] = "check"
    /\ \/ /\ Goto(j, "repository")
          /\ reviews' = [reviews EXCEPT ![j] = @ + 1]
          /\ UNCHANGED <<retryCount, told, clientVars>>
       \/ HandleProcessingError(j, New("CIRCUIT_OPEN")) /\ UNCHANGED reviews
    /\ UNCHANGED <<timedOut, agentVars>>

\* getRepository; git has no time limit.
GetRepository(j) ==
    /\ pc[j] = "repository"
    /\ \/ /\ Goto(j, "profile")
          /\ UNCHANGED <<retryCount, told, clientVars>>
       \/ HandleProcessingError(j,
              Wrap("GIT_CLONE_FAILED", New("GIT_CLONE_FAILED")))
    /\ UNCHANGED <<reviews, timedOut, agentVars>>

\* GetProfile: the service's code hides the provider's.
GetProfile(j) ==
    /\ pc[j] = "profile"
    /\ \/ /\ Goto(j, "review")
          /\ UNCHANGED <<retryCount, told, clientVars>>
       \/ HandleProcessingError(j,
              Wrap("PROFILE_NOT_FOUND", New("PROFILE_INVALID")))
    /\ UNCHANGED <<reviews, timedOut, agentVars>>

\* A panic inside the review is recovered by processItem's deferred function.
Panic(j) ==
    /\ pc[j] \in {"repository", "profile", "review"} /\ Goto(j, "panicked")
    /\ UNCHANGED <<retryCount, reviews, told, timedOut, agentVars, clientVars>>
-----------------------------------------------------------------------------
(* The agent *)

StartReview(j) ==
    /\ pc[j] = "review" /\ Goto(j, "agent")
    /\ Agent!Start(j)
    /\ UNCHANGED <<retryCount, reviews, told, timedOut, clientVars>>

\* The agent's command has returned; what the service does with the answer
\* may still panic.
ReviewReturns(j) ==
    /\ pc[j] = "agent"
    /\ \E result \in Agent!ReviewResults :
          /\ Agent!Return(j, result)
          /\ \/ /\ \/ result = NoError /\ Goto(j, "clear")
                   \/ Goto(j, "panicked")
                /\ UNCHANGED <<retryCount, told, clientVars>>
             \/ result # NoError /\ HandleProcessingError(j, result)
    /\ UNCHANGED reviews
    /\ timedOut' = IF deadline[j] THEN timedOut \union {j} ELSE timedOut

AgentWorks(j) ==
    /\ Agent!Spawn(j) \/ Agent!LetGo(j) \/ Agent!Exit(j)
    /\ UNCHANGED <<runVars, clientVars>>

TimeLimitPasses(j) ==
    /\ Agent!DeadlinePasses(j)
    /\ UNCHANGED <<runVars, clientVars>>

Kill(j) ==
    /\ Agent!Kill(j)
    /\ UNCHANGED <<runVars, clientVars>>
-----------------------------------------------------------------------------
(* The end of processItem *)

ClearProcessing(j) == Removing(j, "clear", "PROCESSING", "praise")
ShowSuccess(j)     == Adding(j, "praise", "SUCCESS", "succeeded")

\* Mutant: the failure is shown beside the emoji of the work in progress.
ClearNothing(j) ==
    /\ pc[j] = "giveUp" /\ Goto(j, "blame")
    /\ UNCHANGED <<retryCount, reviews, told, timedOut, agentVars, clientVars>>

ClearFailed(j) == Removing(j, "giveUp", "PROCESSING", "blame")

\* Mutant: no comment after the emoji.
ShowFailureOnly(j) == Adding(j, "blame", "FAILED", "failed")

ShowFailure(j) == Adding(j, "blame", "FAILED", "comment")

\* postFailureComment, and the panic's comment, which comes before its emoji.
PostFailureComment(j) ==
    /\ \/ pc[j] = "comment" /\ Goto(j, "failed")
       \/ pc[j] = "panicked" /\ Goto(j, "panicClear")
    /\ \E posted \in BOOLEAN :
          /\ Client!PostComment(posted)
          /\ told' = IF posted THEN told \union {j} ELSE told
    /\ UNCHANGED <<retryCount, reviews, timedOut, agentVars>>

ClearPanicked(j) == Removing(j, "panicClear", "PROCESSING", "panicBlame")
ShowPanic(j)     == Adding(j, "panicBlame", "FAILED", "failed")
-----------------------------------------------------------------------------
(* The world around *)

CarriedOutLate ==
    /\ \E request \in late : Client!CarriedOutLate(request)
    /\ UNCHANGED <<runVars, agentVars>>

BeforeReview(j) ==
    \/ Enqueue(j) \/ Unqueue(j) \/ MarkProcessing(j) \/ PutOff(j) \/ Execute(j)
    \/ GetRepository(j) \/ GetProfile(j) \/ StartReview(j) \/ BackoffEnds(j)

AfterReview(j) ==
    \/ ClearProcessing(j) \/ ShowSuccess(j) \/ ClearFailed(j) \/ ShowFailure(j)
    \/ PostFailureComment(j) \/ ClearPanicked(j) \/ ShowPanic(j)

WorkerStep(j) == BeforeReview(j) \/ ReviewReturns(j) \/ AfterReview(j)

AllSettled == (\A j \in Jobs : pc[j] \in Settled) /\ UNCHANGED vars

Next ==
    \/ \E j \in Jobs :
          \/ WorkerStep(j) \/ Panic(j)
          \/ AgentWorks(j) \/ TimeLimitPasses(j) \/ Kill(j)
    \/ CarriedOutLate
    \/ AllSettled

Spec == Init /\ [][Next]_vars

\* A worker goes on, the time limit passes and the signal is delivered; git
\* and the processes that the command starts may take for ever.
Fairness ==
    \A j \in Jobs :
        /\ WF_vars(pc[j] # "repository" /\ WorkerStep(j))
        /\ WF_vars(TimeLimitPasses(j)) /\ WF_vars(Kill(j))

FairSpec == Spec /\ Fairness
-----------------------------------------------------------------------------
\* The emojis of a settled job tell its fate and nothing else, except for
\* those whose own request went wrong: over retries, panics, lost answers and
\* requests carried out late, a failing request never spoils another emoji.
\* (queue.go:64-79 ignores the errors, client.go:177 takes some for success.)
EmojisExplained ==
    \A j \in Manual : pc[j] \in Settled =>
        LET shown == IF pc[j] = "succeeded" THEN "SUCCESS" ELSE "FAILED" IN
        \A e \in Client!Emojis :
            (e \in reactions[j]) # (e = shown) => <<j, e>> \in broken

\* postFailureComment and the emoji are two ways of telling: one request that
\* goes wrong does not hide a failure from the user who asked for the review.
\* An automatic review has the comment only.
FailureIsTold ==
    \A j \in Jobs :
        pc[j] = "failed" /\ j \notin told
              /\ (j \in Manual => "FAILED" \notin reactions[j])
            => faults >= (IF j \in Manual THEN 2 ELSE 1)

\* Of all the ways a review fails the time limit alone leads to another one,
\* and an open breaker's requeues repeat nothing.  What counts is the agent's
\* clock when its command returned (reviewer.go asks ctx.Err after any error),
\* so an agent that failed by itself just before is tried again as well.
RetriesAreTimeouts ==
    \A j \in Jobs : reviews[j] > 1 => j \in timedOut

\* "Only retries on retryable errors (network issues, timeouts)"
\* (docs/architecture-explained.md:199): git that fails, at a remote it does
\* not reach among others, ends a job at its first review.
NetworkIssuesAreRetried ==
    [][\A j \in Jobs :
          pc[j] = "repository" /\ pc'[j] = "giveUp" => retryCount[j] >= MaxRetries]_vars

\* While a worker is not waiting for its agent no agent of its job is alive:
\* a retry never runs beside the attempt that timed out.
NoAgentLeftBehind ==
    \A j \in Jobs : pc[j] # "agent" => child[j] = "none" /\ ~pipeHeld[j]

\* The variables keep their types, so that no job is reviewed once too often
\* although breaker and errors share one count, and an agent ends before its
\* worker goes on.
Sound == TypeOK /\ NoAgentLeftBehind

\* What ReviewJobs sees of a job.
Stage(place) ==
    CASE place = "enqueue" -> "absent"
      [] place \in {"unqueue", "mark", "check", "backoff"} -> "waiting"
      [] place \in {"repository", "profile", "review", "agent"} -> "reviewing"
      [] place \in {"clear", "praise", "succeeded"} -> "succeeded"
      [] OTHER -> "failed"

Abstract == INSTANCE ReviewJobs
            WITH status <- [j \in Jobs |-> Stage(pc[j])],
                 attempts <- reviews

\* The worker, the agent and the client together keep the promises of
\* ReviewJobs, at most MaxRetries + 1 attempts and one fate among them, and
\* each of the two adapters goes only through the steps of its own module.
ImplementsSpecs == Abstract!Spec /\ Agent!AgentSpec /\ Client!ClientSpec

\* The time limit ends a review, and every job settles, unless git never
\* returns (it has no limit), a process that the agent started never lets go
\* of its pipes (cmd.Run waits for them past the limit), or a breaker that is
\* open at every look puts the job off for ever (queue.go:339-345 counts those
\* requeues but does not limit them).
JobSettles ==
    \A j \in Jobs : \/ <>(pc[j] \in Settled)
                    \/ <>[](pc[j] = "repository")
                    \/ <>[](pipeHeld[j])
                    \/ []<>(pc[j] = "backoff")
=============================================================================

# Verification of the Bitbucket PR reviewer bot

TLA+ models of the Go program in `src/`, small TLC instances of them, and TLAPS proofs about the
central ones. Every definition is translated from the source; `PROJECT.json` ("map") names the lines
each definition stands for. Paths below are relative to `src/internal/` unless they start with `docs/`.

1. [The system](#1-the-system)
2. [Modules and code](#2-modules-and-code)
3. [The runs: bounds, and what they show](#3-the-runs)
4. [Fairness](#4-fairness)
5. [Proofs](#5-proofs)
6. [Where code and documents disagree](#6-where-code-and-documents-disagree)
7. [What is not modelled](#7-what-is-not-modelled)
8. [Plan](#8-plan)

## 1. The system

Bitbucket Data Center announces a pull request, or a comment on one, by a webhook. The bot checks and
filters it, queues the pull request, and answers. A worker clones the repository, lets an AI agent (the
Claude CLI, which posts its findings itself) review it, removes the clone and counts what happened.

| Component | State it keeps | Operations | Talks to |
|---|---|---|---|
| Application (`app/application.go`, `cmd/server/main.go`) | startup status, the main goroutine, the HTTP server | `New`, `Start`, `Stop`, periodic save, signals | everything below |
| Webhook endpoint (`app/handlers/webhook.go`, `adapters/bitbucket-dc/webhook.go`, `config/events.go`) | none of its own | `HandleWebhook`, one goroutine per request | rate limiter, parser, queue, metrics |
| Health endpoint (`app/handlers/health.go`) | none | `HandleHealth` | startup status, queue, breaker |
| Rate limiter (`infrastructure/ratelimit`) | `capacity`, `lastRefill` | `Allow`, `Wait`, `Execute`, `TryExecute`, `GetAvailableCapacity`, `Reset` | - |
| Review queue (`adapters/queue`) | `items`, channel `itemCh`, `running`, `stopCh`, the `processing` set, `retryCount` of an item | `Enqueue`, `Start`, `Stop`, workers, requeue goroutines | breaker, review service, Bitbucket (emojis, comments), metrics |
| Circuit breaker (`adapters/circuitbreaker`) | state, failure count, time of the last failure | `Execute`, `IsOpen`, `Reset`, state-change callback | metrics (by callback) |
| Review service (`domain/services`, `adapters/git`, `adapters/claude`) | the clone directories on disk | `ReviewPullRequest`, `GetOrUpdate`, `Clean`, `Review` | git, agent, profiles, metrics |
| Metrics (`adapters/metrics`) | `values`, the Prometheus counters, a file or an SQLite table | `trackValue`, `Save`, `Restore`, `Close` | disk |
| Claude reviewer (`adapters/claude/reviewer.go`) | a child process, its pipes, a time limit | `Review`, `executeClaude` | the claude command |
| Bitbucket Data Center client (`adapters/bitbucket-dc/client.go`) | `emojiTracker` | reactions, comments, `TestConnection` | Bitbucket over HTTP |
| Profile provider (`adapters/profiles`) | the cache of profiles | `GetProfile`, `ReloadProfiles` | profile files |
| Configuration (`config/`) | the values in force | `Load`: defaults, file, environment | disk |
| Startup validator (`app/validator`) | the errors found; a test row in the metrics table | `ValidateStartup` | Bitbucket, claude, git, disk |
| Domain errors (`domain/errors`) | - | `New`, `Wrap`, `GetCode`, `IsRetryable` | - |
| Bitbucket Cloud client, retry helper, logger | - | a stub; unused; output | - |

What makes the parts hard, and what makes them correct:

* **Queue.** Handlers, workers and requeue goroutines meet in a channel, a slice (`q.items`) that is
  meant to count the channel's content, and one mutex that `Enqueue` holds across a channel send and an
  HTTP request. Correct means: an accepted job is in one place until it is settled, is reviewed at most
  `MaxRetries + 1` times, gets the emoji of its fate, is refused as "full" only if the queue is full, is
  settled in the end, and `Stop` ends every goroutine.
* **Breaker.** Calls overlap and their results arrive in a later state than the one they started in.
  Correct means: it lets calls through only below its threshold, opens for good reason, closes only by way
  of a trial, and the counters of its asynchronous callbacks tell a possible history.
* **Review service.** Reviews of one pull request share a directory that survives crashes and failed
  clean-ups. Correct means: the agent reads a complete tree, prepared for this very review, that does not
  change under it, and nothing is left behind. Complete is not current: a fresh clone, the ordinary
  case, shows the remote's default branch (repository.go:61, :165), and the profile tells the agent to
  switch to the branch of the pull request itself. Only a clone that an earlier process left is brought to the source
  branch (repository.go:108).
* **Metrics.** Two goroutines save, the process may die at any time and is restarted from what it
  saved. Correct means: the store is readable, consistent, never goes back, and nothing is counted
  twice or lost.
* **Webhook endpoint.** A chain of early returns, and a loop: the bot's comments come back as webhooks.
  Correct means: only authorised and configured events get a review, none of them the bot's own
  words (which does not hold, section 6.3), and the counter adds up.
* **Rate limiter.** Integer refill. Correct means: the long-term rate is kept and nobody starves.
* **A review from end to end.** Requests to Bitbucket get lost or are carried out after the client gave up;
  the agent's processes outlive the kill; the error that decides about a retry is the outermost of a
  chain. Correct means: the emojis and comments on the pull request tell the fate of the job or the
  request that went wrong is to blame, only a time limit leads to a retry, an attempt has ended before the
  next begins, an open breaker's put-offs repeat nothing, and the job is settled.
* **Profiles.** The cache is read and filled under a lock that is free while the file is read. Correct means:
  a review gets validated text only, and a reload is outlived only by what an overlapping miss had read.
* **Start.** Nine checks, some of which end the validation or skip others, one of which writes to the
  metrics table. Correct means: a process at work has passed all of them and runs under usable limits, and
  nothing of the checks is left.
* **Application.** The server answers while the process is still starting and while it stops. Correct
  means: nothing is accepted before validation or after `Stop`, `/health` tells the truth, a signal ends
  the process.

`PROJECT.json` lists under "hazards" the places where this can go wrong, with the properties that watch
them.

## 2. Modules and code

Composition. `ReviewQueue` contains a `CircuitBreaker` (INSTANCE `Breaker`) and implements the abstract
`ReviewJobs`; `BreakerMetrics` EXTENDS `CircuitBreaker` and runs the callbacks beside it. `ReviewRun` joins
the worker of the queue, the order of `performReview`, the agent (INSTANCE `ClaudeReviewer`), the client
(INSTANCE `BitbucketClient`, its comments are the jobs triggered by one) and the errors (EXTENDS
`DomainErrors`). It keeps the promises of `ReviewJobs` too, and uses its two adapters only as their modules
allow (`ImplementsSpecs`). `Startup` EXTENDS `Configuration` and `ProfileProvider`: start the process, check it, then let
reviews read profiles; of the provider it takes steps of its module only (proved). The others are connected by assumption:
each states the neighbour it sees in the weakest form (`ReviewService` may be called at any time, `WebhookIntake` has
a set of queued jobs, a job of `ReviewRun` may find the breaker open at either of its two looks, `Application` sees of the
queue `q.mu`, `running`, `stopCh` and workers that may hang).

`Sound` in a module is its type invariant together with invariants that are checked along with it.

| Module | Models | State and actions against the code |
|---|---|---|
| `CircuitBreaker` | `circuitbreaker/breaker.go` | `state`, `failureCount` are the fields; `cooled` is the truth of `time.Since(lastFailureTime) > resetTimeout`; `inFlight` the callers between the two critical sections of `Execute`. `Admit`/`Reject` are the first section, `Succeed`/`Fail` the second, `Abandon` a panic that skips it. |
| `BreakerMetrics` | the callback `New` installs, `transitionTo`'s goroutines | one record per state change; `IncrementTransition` and `RecordState` are the two statements of the callback, in any order between goroutines. |
| `ReviewJobs` | what the queue promises a job | `absent`, `refused`, `waiting`, `reviewing`, `succeeded`, `failed`, `dropped`, and the number of attempts. |
| `ReviewQueue` | `queue/queue.go` | `size` is `len(q.items)`: every removal cuts one element, which one does not matter to anybody; `itemCh` the channel; `sending` the job whose `Enqueue` holds `q.mu` at the send; `pc`/`item` the workers; `backoff`/`resending` the two waits of a requeue goroutine. One action per critical section, channel operation or call of the breaker. `retryCount` is cut at `MaxRetries + 1`, above which the code does not tell values apart. |
| `ReviewService` | `review_service.go`, `git/repository.go`, the error codes of `claude/reviewer.go` | `tree` is the directory of a pull request, `branch`/`version` what it shows, `head` its source branch; a worker goes through lookup, clone or update, profile, review, deferred `Clean`. git and the agent succeed or fail. |
| `MetricsStore` | `metrics/collector.go` and both persisters, the saves of `application.go` | two counters stand for all: "started" is counted when a review begins, "cost" when it has succeeded. `values` and `exposed` are written in two steps, as in the code. `kind` chooses the persister. The file's save has the steps write and rename under `p.mu`; the table's is one transaction. |
| `DomainErrors` | `domain/errors/errors.go` | an error is the chain of codes that `Wrap` built, outermost first; `GetCode` and `IsRetryable` see its head. |
| `ClaudeReviewer` | `claude/reviewer.go` | per call: `child` the command and how it ended, `pipeHeld` whether a process it started still holds its output, `deadline` whether the limit has passed. `Return` is the end of `cmd.Run`, `Classify` the code. |
| `BitbucketClient` | reactions and comments of `bitbucket-dc/client.go` | `reactions` is what Bitbucket shows, `tracker` is `emojiTracker`; a request goes well, is refused, loses its answer, or stays `late` and is carried out afterwards. |
| `ReviewRun` | `processItem`, `handleProcessingError`, `performReview` | `pc` is the statement the job's worker is at, one action per request, command or wait. At "check" the breaker may be open: the worker puts the job off without a review (`PutOff`, queue.go:339-345), or meets it open after all inside `Execute` and fails. `reviews` is history, `retryCount` counts both kinds of requeue and is cut at `MaxRetries`, above which the code does not tell values apart. |
| `ProfileProvider` | `profiles/provider.go` | `disk` holds the edits of each file; `at`/`got` is where a `GetProfile` stands between its two critical sections. |
| `Configuration` | `config.go`, the constructors' defaults | pure operators: default, file, environment, limit in force. |
| `Startup` | `Load`, `New`, `ValidateStartup`, then the reviews' use of profiles | `phase` is the check under way; `testRow` the row of the SQLite check, `loaded` whether `Restore` took it for a counter. |
| `RateLimiter` | `ratelimit/ratelimit.go` | `capacity`, `lastRefill`, integer ticks; `OpenWindow` lets any moment be the beginning of the window the property looks at. |
| `WebhookIntake` | `handlers/webhook.go`, the parser's refusals, `config/events.go` | a request is a record of what the handler tells apart; `Checks` is the list of early returns in order, `FirstHit` the one that answers; `named` says that the parser finds the author of a comment where it looks. `IntakeInit` computes the triggering events from every file and environment. |
| `Application` | `main.go`, `Start`, `Stop`, `health.go`, the lock and flag of the queue | `main` is the statement the main goroutine is at; `ServerFails` is the other goroutine; webhooks are followed from `Enqueue` on, a probe reads the status, the queue and the breaker in three steps. |

`MC*` modules hold the sets and symmetries of the small instances. `*Proofs` modules hold theorems.
Operators named in a comment that begins "Mutant" are plausible bugs. They are no part of any
specification: put in place of the operation they imitate, each makes a property fail.

## 3. The runs

Bounds are constants with names; a bounded counter is bounded by a guard, never by a constraint on
states. CHECK_DEADLOCK is off where the system really stops (bounded inputs, a finished process).

| Run | Instance | Shows |
|---|---|---|
| `infrastructure` | four components that share no state, one at a time (`MCInfrastructure`): 3 callers of a breaker of threshold 3 with callbacks of 5 state changes (`MaxChanges`); 3 requests per 4 ticks over 9 ticks; 2 webhooks at once, 5 texts, a queue of 1, all configurations; 2 workers, 2 reviews and 2 restarts, file and SQLite | Breaker: `Sound` (`BelowThreshold`, `OpenOverrunBounded`), `ClosesThroughHalfOpen`, `CountersFormPath`, under fairness `OpenIsTried`. Three callers reach the threshold of three and overshoot it by late failures; five changes are closed-open-halfOpen-open-halfOpen-closed, and the breaker goes on after them. Limiter: `LimiterSound` (`LimiterTypeOK`, `AdmitsAtRate`), `RefusesOnlyAfterAdmission`; rate and interval have no common divisor, so that fractions are lost in refills. Webhooks: `IntakeSound` (`ReceivedAddsUp`, over every event type and the label of the requests that the limiter refused), `AcceptedIsAuthorised` (with `DisabledStaysOff`); of two requests one may take the last place in the queue. Metrics: `StoreSound` (`StoreReadable`, `CountsAreTrue`), `StoredInOrder`, `StoreNeverGoesBack`; two restarts: one restores what the first saved after a failed restore. |
| `queue_two_workers` | 2 jobs of one pull request, 2 workers, `QueueSize` 1, 2 retries, threshold 2 | safety of the queue (`Sound` is `TypeOK`, `PlacesAddUp` and `OnePlace`), `ReactionsTellFate`, and both refinements. The smallest instance where one pull request is in two workers, an item is refused as full, both retries are used and the breaker opens with a review running. |
| `queue_one_worker` | 3 jobs, 1 worker (the default), `QueueSize` 1, 1 retry, threshold 3 | liveness: `AcceptedSettles` though `Enqueue` may hold the lock its worker waits for, `WaitGroupDrains`; and `FailedWasReviewed`. Three jobs fill worker, channel and the blocked `Enqueue` at once. |
| `queue_recovers` | 1 job, threshold 1 | violation, section 6.1 |
| `review_service` | 2 workers, 2 pull requests, 3 reviews, 1 push each | overlapping and successive reviews with failures, panics and crashes at every step: `ReviewsPreparedTree`, `TreeStableUnderReview`, `NothingLeftBehind`, `Sound` (`StartedAddsUp`). The third review meets whatever two others left. |
| `metrics_restart` | the metrics of `infrastructure` | violation, section 6.2 |
| `webhook_self` | the webhooks of `infrastructure` | violation, section 6.3 |
| `application` | 2 workers, 2 webhooks, 1 probe that asks again and again | `Sound` (`NothingUnvalidated`), `HealthTellsTruth`, `NoneAcceptedAfterStop`, and `StopTerminates` with reviews and handlers that hang. |
| `review_run` | 2 jobs, one with a comment, 1 retry, 2 requests that go wrong (`MaxFaults`) | `EmojisExplained`, `FailureIsTold`, `RetriesAreTimeouts`, `Sound` (`NoAgentLeftBehind`), the three refinements `ImplementsSpecs`, under fairness `JobSettles`. Two faults are the bound `FailureIsTold` speaks of: an emoji and the comment of one job, or one of each job. One retry suffices for a put-off to use it up, and for a time limit to. |
| `review_run_network` | the same | violation, section 6.4 |
| `startup` | 2 readers, 2 starts, 1 edit, 1 reload, every limit at -1, 0 or 1 or not given | `Sound` (`StartedSound`), `TestRowExplained`, `ProfilesSound`, under fairness `StartupEnds`. Two starts: the second meets the row that the first left. One edit and one reload fall between the two critical sections of two readers. |
| `startup_profile` | the same | violation, section 6.5 |

The state spaces of the passing runs are explored completely: 1,529,969 distinct states of `infrastructure`, 674,642 of
`review_run`, 560,112 of `startup`, 494,089 of `review_service`, fewer in the others. Every property of a passing run fails for at least one mutant of the code.

## 4. Fairness

* `CircuitBreaker`: time passes, functions return, somebody keeps calling `Execute`. The last is the
  assumption `OpenIsTried` is about. The queue does not meet it, section 6.1.
  The run `infrastructure` (`MCSpec`) takes the same, and nothing of the callbacks' goroutines.
* `ReviewQueue`: weak fairness of every worker and requeue goroutine (the Go scheduler), of the timers,
  and of `EnqueueSend \/ EnqueueCtxDone`, because the handler gives `Enqueue` a context of 5 s
  (webhook.go:192). A review ends: `JobSettles` of `ReviewRun` gives the reason and its two exceptions
  (git has no time limit, nor have processes that hold the pipes of the agent). A `select` with
  several ready branches chooses at random, hence strong fairness of the
  branches on `stopCh` and nothing more. No fairness for `Start`, new jobs or `Stop`.
* `ReviewRun`: weak fairness of the worker except at git, of the time limit, and of the kill that follows it.
  None for git, for the agent, for the processes it starts, or for Bitbucket carrying out a late request; an open
  breaker may put a job off again and again.
* `Startup`: weak fairness of its steps except the four checks that may hang (`Untimed`): three run a command
  without a limit, one has a limit that does not reach a process holding its output.
* `Application`: weak fairness of the main goroutine with its timers (100 ms, 1 s, 30 s) and of the webhook that
  holds `q.mu`: the emoji is an HTTP request with a timeout of 30 s, the send has 5 s. Reviews, handlers
  after `Enqueue`, clients and the server's goroutine may hang for ever.

## 5. Proofs

All theorems hold for every value of the constants under the ASSUME of the module (finite sets of
callers and workers, positive thresholds and sizes, model values that are not members of the sets they
are told from). TLC evaluates every ASSUME in a run.

**Breaker** (`CircuitBreakerProofs`). `TypeOK` and `BelowThreshold` are inductive together: the only step into a
state that admits calls is through the half-open state, which starts at zero. `OpenOverrunBounded` needs
`BelowThreshold`, because a breaker opens with `failureCount = FailureThreshold` at a step of one of the
calls that are counted (`BreakerSound`). `ClosesThroughHalfOpen` is an action property of every single step.
`CallbacksLeaveBreakerAlone` shows that `BreakerMetrics` implements `CircuitBreaker`, so all of this holds of the breaker
with its callbacks. `CountersFormPath` follows from `Balanced`: the transitions counted and those whose goroutine
is still due form a path together, however many changes are followed.

**Queue** (`ReviewQueueProofs`), in three parts.

* *Places.* The type invariant is not inductive alone. `TypeInv` adds that a busy worker has an item
  (`ItemHeld`), that the place of the job being sent is still counted (`SendingCounted`: otherwise the cut
  in `Enqueue` would meet an empty slice) and that no worker runs before `Start` (`NotStarted`). `PlacesInv` relates
  `len(q.items)` to the channel, the busy workers and the sender: at most as many in general, exactly as
  many as long as nothing was requeued (`ExactWithoutRetries`), for which requeue goroutines must be
  known to hold retried items only (`RetriedAreCounted`). It gives `PlacesAddUp` and `FullIsReal`.
  `QueueImplementsCircuitBreaker` maps every step of the queue to a step of its breaker or a stutter, so the
  breaker's theorems hold inside the queue. Two of them are also stated there: `QueueBreakerSound`, and
  `QueueClosesThroughHalfOpen`, stronger inside than outside because nothing in the queue resets the breaker.
* *Jobs.* `OnePlace` is taken apart (`OnePlaceParts`): no job twice in the channel, one holder, disjoint
  kinds of place, and the places together are the accepted jobs. With `SendingIsNew` (a job at the send is
  in no place yet) it is inductive.
* *Fates.* Every step is `Quiet`, or answers, begins or ends the attempt of one job (`Answered`, `Begun`, ...).
  That classification carries the bound `ReviewsBounded` (an attempt under way is not yet paid for by
  `retryCount`), `QueueImplementsReviewJobs`, `NoPhantomProcessing`, `FailedWasReviewed` and `ReactionsTellFate`.

**Review service** (`ReviewServiceProofs`). `ServiceInv`: a review that is not marked `shared` has its pull
request to itself (`AloneUnlessShared`), and from the check-out on its clone is whole and either fresh and on the default branch or, if an earlier one was left, on the source
branch and as new as the review (`TreeInv`), because a step of another worker touches another directory. Steps of one worker are all
`OwnStep`s, which is what the lemmas are about; counting is a second classification (`Uncounted`, `CountedOnce`). It
gives `StartedAddsUp`, `NothingLeftBehind`, `ReviewsPreparedTree` and `TreeStableUnderReview`.

**Metrics** (`MetricsStoreProofs`). `CountInv` relates what happened, what is tracked and what is shown, per worker
between its two statements; `SaveInv` bounds a snapshot under way by what is tracked and orders the two
saves (one writer at a time, none left when the process is down); `StoreInv` carries that over to the disk, across a crash.
They give `StoreSound`, `StoredInOrder` and `StoreNeverGoesBack` for both persisters.

**A review from end to end** (`ReviewRunProofs`). `EmojiInv` says at which places of the worker an emoji must be
shown (`ShownAt`) or hidden (`HiddenAt`), unless a request about it went wrong; that request is in `broken`, and a
late one is too (`LateIsBroken`). `FaultInv` counts: failed jobs without their comment and broken
emojis took a request of their own each, hence `FailureIsTold`. `RunSound` is that an agent is gone before its worker
goes on (`NoAgentLeftBehind`), `RunAgentUnderWay` the converse: who waits for an agent has one.
`TriesInv` says that a job that waits was reviewed no more often than requeued, and not at all unless it has met a time limit:
that is why an open breaker, which raises the same count, costs a job its retries and never adds a review, and
why a second review needs a time limit (`RunRetriesAreTimeouts`).
`RunImplementsSpecs` maps every step to `ReviewJobs`, `ClaudeReviewer` and `BitbucketClient`. For the first, a step
goes on (`GoesOn`) from one stage to the next, begins a review (`Begins`), repeats (`Repeats`) or puts the job off (`PutOff`).
The same cases carry a measure of the work left, `Remaining`: each step of a worker lowers it
(`RunAlwaysForward`), except a put-off of a job without retries, which nothing limits; and it lies between 0 and
`8 * MaxRetries + 11` (`RunBounded`). That is the part of `JobSettles` that does not depend on fairness: a worker can stand
still, at git or the agent, but goes round only with an open breaker.

**Start** (`StartupProofs`). `StartupInv` ties `phase` to the checks passed so far, the errors to those missed,
`testRow` to the statements of the storage check or to `leaked`, and the cache to contents that were
validated and, unless a miss overlapped the reload, read since. The part about the cache, `ProviderInv`, is inductive
for the provider alone (`ProviderSound`), and a starting, crashing and restarting process takes only steps of the provider
(`StartupDrivesProvider`). What is left of the promise about the default profile that section 6.5 refutes, that it exists and is
not empty, is `StartupDefaultExists`.

**Rate limiter** (`EndpointProofs`). `WindowBound` bounds what was admitted in the window together with
what the bucket still holds; it is preserved by a refill only if a bucket last refilled before the
window had less than one request outstanding (`OldRefill`). An empty bucket was emptied by an admission since
its last refill (`EmptyAfterAdmission`), which gives `RefusesOnlyAfterAdmission`.

**Webhook endpoint** (`EndpointProofs`), for any number of requests at once, any queue and every configuration. `IntakeInv`
says what a request has passed by the place it is at: one that was counted passed every filter (`Filtered`), one
given to the queue is of an allowed project (`Authorised`), a job was answered with 202 (`JobsAccepted`), and the triggering
events are those computed at the start (`TriggersKept`). Hence `AcceptedIsAuthorised`. `ReceivedAddsUp` is
about cardinalities: every step moves at most one request, into one label's set (`CountsUp`) or past all of them
(`CountsStay`), between the raising of the counter and the answers that follow it.

**Application** (`ApplicationProofs`). `StartOrder` ties the place of the main goroutine to the verdict, the
flag, the workers and the status; `LockHeld` says who has `q.mu` and that a sender saw the queue running;
`ProbeTruth` carries what a probe has read forward, because the start never goes back. From these follow
`NothingUnvalidated`, `HealthTellsTruth` and `NoneAcceptedAfterStop`.

**Only model-checked.** Liveness (`OpenIsTried`, `AcceptedSettles`, `WaitGroupDrains`, `StopTerminates`, `JobSettles`,
`StartupEnds`): the prover does not handle fairness and ENABLED. Every other property of a passing run is a theorem. The five
violations of section 6 are counterexamples and need no proof.

## 6. Where code and documents disagree

Five disagreements are shown by runs that end in a violation:

1. **An open circuit never closes** (`queue_recovers`, property `BreakerRecovers`). `docs/architecture-explained.md:194`: "Automatically closes after
   reset timeout". Only `Execute` looks at the timeout (breaker.go:53), and `processItem` asks `IsOpen`
   first (queue.go:339), which does not, and puts every item off without calling `Execute`. With one worker
   the circuit stays open until the process is restarted. The breaker itself keeps the promise (`OpenIsTried`).
2. **Costs are lost in an orderly stop** (`metrics_restart`, property `SurvivesRestart`). `docs/metrics.md:469` and `:524`. `Stop` makes the
   final save before it stops the queue (application.go:400, 412).
3. **The bot may answer itself** (`webhook_self`, property `NoReviewOfOwnComments`). webhook.go:258: "Ignore comments from the bot itself to
   prevent infinite loops". The check at :259 compares `comment.author.user` (bitbucket-dc/webhook.go:105-110, 229-231), but
   Bitbucket's own example in `examples/bitbucket-data-center/pr-comment-added.json:256-260` has the name at `comment.author`, and the
   author is then empty. What remains are the filters of the text: a comment of the bot that mentions it and
   carries the keyword, without the pattern of a finished review, gets a review. The same holds with an e-mail address as
   `Bitbucket.User` (docs/configuration.md:73); the property is about a bot configured by its name.
4. **Network failures are not retried** (`review_run_network`, property `NetworkIssuesAreRetried`). docs/architecture-explained.md:199: "Only
   retries on retryable errors (network issues, timeouts)". A failed clone is wrapped in GIT_CLONE_FAILED (review_service.go:136),
   which is not retryable; the client makes a NETWORK_FAILURE, but for comments and reactions only, whose
   errors the queue just logs. Only the agent's time limit leads to another review (`RetriesAreTimeouts`, proved).
5. **An invalid default profile does not prevent the start** (`startup_profile`, property `DefaultProfileValidated`).
   docs/profiles.md:469-475 says so of a profile without its sections or 100 characters. The start checks that it is not empty
   (validator.go:302), only a review that it is valid (provider.go:99): the process runs and every review that needs it fails.

Others were met while reading and have no run, mostly because one line shows them:

* The send that "will never block" (comment at queue.go:164) can block. Requeued items return to the channel
  without a place in `q.items`, so the channel can be full while `len(q.items) < queueSize`; `Enqueue` then
  waits with `q.mu` held, which every worker that finishes needs. The 5 s of the handler's context end
  the wait (`AcceptedSettles`); without retries it cannot happen (`PlacesAddUp`, proved).
* `unique_pr_reviewed_total` counts every attempt (review_service.go:61), docs/metrics.md:451 "each PR
  counted once regardless of retries".
* `Stop` drops items that wait for a retry or in the channel, docs/architecture-explained.md:226 "No
  reviews are lost", :208 "Waits for current review to finish" (it waits one second).
* With two workers the breaker may open between `IsOpen` and `Execute`, and an item fails for good without a
  review; `FailedWasReviewed` is therefore stated for one worker.
* The half-open state admits any number of calls and opens only at a full threshold,
  docs/configuration.md:200.
* The gauge of the breaker's state may stay at an old state when callbacks overtake each other.
* `GetActiveWorkers` counts pull requests, not workers (queue.go:252); a job in backoff is in no
  reported size.
* Backoff is linear and has no dead letter queue (docs/architecture-explained.md:97, :198).
* An open breaker's requeues raise `retryCount` without a limit (queue.go:339-345): a job that was put off
  `MaxRetries` times fails at its first time limit, and one may be put off for ever (excused in `JobSettles`).
* Whether a failed agent timed out is asked of the clock after its end (reviewer.go:71): one that fails by itself
  just before the limit may be retried. `RetriesAreTimeouts` speaks of that clock, so it does not tell the two apart.
* The limit kills the agent and none of the processes it started; `cmd.Run` waits for those that hold its
  output (reviewer.go:178, no WaitDelay), past any limit.
* An error whose text contains "404", a comment's number for example, passes for "already removed"
  (client.go:177).
* An ignored error of the DELETE, or a crash before it, leaves the row of the storage check in the metrics
  table (validator.go:478), where `Restore` takes it for a counter.
* Limits are not validated (config.go:271): 0 means "not set", a negative queue size panics in `make(chan)`, a
  negative number of workers starts none, a negative threshold opens the breaker at the first failure.
* A manual trigger refused by a closed queue, or timed out in the send, keeps the QUEUED emoji (queue.go:124).
* After a failed restore, saves replace the history that could not be read; SQLite rows mix.
* Switching off every event in the environment brings the default event back (events.go:113).
* If `ListenAndServe` fails later than 100 ms after its start and the main goroutine is still starting, the status
  "failed" is overwritten and the process lives without a listener (application.go:316, 333, 367).
* `queue.Stop` waits for `q.mu` without regard to the 30 s context (queue.go:203).

## 7. What is not modelled

* The decoding of webhooks and of the agent's answer, URLs, prompts and sanitising, except for the outcomes that
  control depends on: whether the payload is refused, its type, project and text class, and whether the comment's
  author is found (`named`) in `WebhookIntake`, whether the answer is an error in `ReviewRun`. The answer's metrics cannot fail a review.
* Token, issue and duration metrics, gauges and histograms: counters follow "cost" and "started" of
  `MetricsStore`, the others keep nothing across steps.
* The substitution of variables in a profile (provider.go:223) goes through a Go map in random order; a value
  that contains a placeholder is substituted again or not. The result is text for the agent that
  nothing in the program looks at, so no property depends on it.
* The search for the configuration file and the profile directory, and settings that only name things.
* The Bitbucket Cloud client is a stub. `infrastructure/retry` is not called by anything; the queue has its
  own backoff. The logger is output.
* `Wait`, `Execute` and `TryExecute` of the limiter, its `Reset` and the breaker's, and `ReloadProfiles` are not
  called by the application. They are modelled as operations that anybody may call, except the waiting of
  `Wait`: `getWaitTime` rounds down and a waiter that wakes early asks `Allow` again.
* The status of the process after `ListenAndServe` failed late (application.go:333): the model has the step, the
  code promises nothing about it.
* Induction over data: the provers at hand have none, so operators on sequences are used through the
  library's theorems or as sets.

## 8. Plan

All modules of the first plan exist and are checked: breaker, queue and its abstraction, review service,
metrics, limiter, webhook endpoint, application, then errors, agent, client and the run of a review, profiles,
configuration and start. What a next step would add:

1. `ReviewQueue` joined with `Application`: one model of `Stop` with retries in flight, in place of the
   abstract workers of `Application`.
2. `RateLimiter` joined with `WebhookIntake`: the handler's answer 429 as the limiter's refusal, in place of a
   refusal that may come at any time.

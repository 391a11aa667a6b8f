----------------------------- MODULE Application -----------------------------
(***************************************************************************)
(* The life of the process: cmd/server/main.go with Start and Stop of      *)
(* internal/app/application.go, the HTTP server's goroutine, webhooks and  *)
(* health probes that arrive at any time (handlers/health.go), and what    *)
(* the queue shows of itself: q.mu, q.running, stopCh and its workers      *)
(* (ReviewQueue.tla has the rest).                                         *)
(***************************************************************************)
CONSTANTS
    Workers,
    Webhooks,   \* the requests that get as far as Enqueue, each sent once
    Probes,     \* clients of /health, each asks again and again
    Free        \* the value of mu when nobody holds q.mu

ASSUME ApplicationAssumption == Free \notin Webhooks

VARIABLES
    (* the main goroutine *)
    main,       \* where it is, see MainPlaces
    verdict,    \* of ValidateStartup
    exit,       \* "none" while the process lives, then its exit code
    (* the HTTP server *)
    server,     \* "down", "starting", "serving", "failed" (to listen),
                \* "lost" (its listener), "closed"
    status,     \* StartupStatus.State
    (* the queue *)
    mu,         \* who holds q.mu for more than one step
    running,    \* q.running
    stopped,    \* stopCh is closed
    worker,     \* each worker: "none", "idle", "busy", "gone"
    jobs,       \* the items in the channel
    accepted,   \* the webhooks whose item was put there
    open,       \* circuitBreaker.IsOpen()
    (* the requests *)
    webhook,    \* each: "none", "arrived", "locked", "sending", "result", "done"
    probe,      \* each: "none", "arrived", "status", "queue", "answered"
    seen        \* what the probe has read, and its answer

mainVars    == <<main, verdict, exit>>
serverVars  == <<server, status>>
queueVars   == <<mu, running, stopped, worker, jobs, accepted, open>>
requestVars == <<webhook, probe, seen>>
vars == <<mainVars, serverVars, queueVars, requestVars>>

StartPlaces == {"listen", "listening", "validate", "validating", "components",
                "startQueue", "spawn", "markRunning", "notify"}
StopPlaces  == {"closeStopCh", "waitWorkers", "shutdown", "draining"}
MainPlaces  == StartPlaces \union {"awaitSignal", "save", "stopQueue"} \union StopPlaces

States == {"starting", "running", "failed"}

Unseen == [state |-> "starting", running |-> FALSE, open |-> FALSE, healthy |-> FALSE]

TypeOK ==
    /\ main \in MainPlaces
    /\ verdict \in {"unknown", "valid", "invalid"}
    /\ exit \in {"none", "0", "1", "killed"}
    /\ server \in {"down", "starting", "serving", "failed", "lost", "closed"}
    /\ status \in States
    /\ mu \in Webhooks \union {Free}
    /\ running \in BOOLEAN /\ stopped \in BOOLEAN /\ open \in BOOLEAN
    /\ worker \in [Workers -> {"none", "idle", "busy", "gone"}]
    /\ accepted \subseteq Webhooks /\ jobs \subseteq accepted
    /\ webhook \in [Webhooks -> {"none", "arrived", "locked", "sending", "result", "done"}]
    /\ probe \in [Probes -> {"none", "arrived", "status", "queue", "answered"}]
    /\ seen \in [Probes -> [state : States, running : BOOLEAN, open : BOOLEAN,
                            healthy : BOOLEAN]]

\* New: everything is built, nothing runs.
Init ==
    /\ main = "listen" /\ verdict = "unknown" /\ exit = "none"
    /\ server = "down" /\ status = "starting"
    /\ mu = Free /\ running = FALSE /\ stopped = FALSE
    /\ worker = [w \in Workers |-> "none"]
    /\ jobs = {} /\ accepted = {} /\ open = FALSE
    /\ webhook = [r \in Webhooks |-> "none"]
    /\ probe = [p \in Probes |-> "none"]
    /\ seen = [p \in Probes |-> Unseen]
-----------------------------------------------------------------------------
(* The main goroutine *)

Alive == exit = "none"

At(place) == Alive /\ main = place

Goto(place) == main' = place /\ UNCHANGED <<verdict, exit>>

Exit(code) == exit' = code /\ UNCHANGED <<main, verdict>>

\* startHTTPServer: the server gets a goroutine of its own.
StartHTTPServer ==
    /\ At("listen")
    /\ Goto("listening")
    /\ server' = "starting" /\ status' = "starting"
    /\ UNCHANGED <<queueVars, requestVars>>

\* The error of ListenAndServe is in errChan: Start returns it, main is fatal.
ListenError ==
    /\ At("listening") /\ server \in {"failed", "lost"}
    /\ Exit("1")
    /\ UNCHANGED <<serverVars, queueVars, requestVars>>

\* 100 ms are over, whether or not the server serves by then; with both
\* channels ready select takes either.
ListenWaitOver ==
    /\ At("listening")
    /\ Goto("validate")
    /\ UNCHANGED <<serverVars, queueVars, requestVars>>

BeginValidation ==
    /\ At("validate")
    /\ Goto("validating")
    /\ status' = "starting"
    /\ UNCHANGED <<server, queueVars, requestVars>>

\* ValidateStartup finds no error.
ValidationPasses ==
    /\ At("validating") /\ verdict = "unknown"
    /\ main' = "components" /\ verdict' = "valid"
    /\ UNCHANGED <<exit, serverVars, queueVars, requestVars>>

\* Mutant: the errors are logged and the start goes on.
ValidationOnlyLogs ==
    /\ At("validating") /\ verdict = "unknown"
    /\ main' = "components" /\ verdict' = "invalid"
    /\ UNCHANGED <<exit, serverVars, queueVars, requestVars>>

\* It finds one: SetStatus, then main is fatal.
ValidationFails ==
    /\ At("validating") /\ verdict = "unknown"
    /\ verdict' = "invalid" /\ status' = "failed"
    /\ UNCHANGED <<main, exit, server, queueVars, requestVars>>

Fatal ==
    /\ At("validating") /\ verdict = "invalid"
    /\ Exit("1")
    /\ UNCHANGED <<serverVars, queueVars, requestVars>>

\* Mutant: the status says running before the queue does.
StartComponentsRunning ==
    /\ At("components")
    /\ Goto("startQueue")
    /\ status' = "running"
    /\ UNCHANGED <<server, queueVars, requestVars>>

StartComponents ==
    /\ At("components")
    /\ Goto("startQueue")
    /\ status' = "starting"
    /\ UNCHANGED <<server, queueVars, requestVars>>

\* queue.Start: first the flag, under q.mu, then the workers.
StartQueue ==
    /\ At("startQueue") /\ mu = Free
    /\ Goto("spawn")
    /\ running' = TRUE
    /\ UNCHANGED <<serverVars, mu, stopped, worker, jobs, accepted, open, requestVars>>

SpawnWorkers ==
    /\ At("spawn")
    /\ Goto("markRunning")
    /\ worker' = [w \in Workers |-> "idle"]
    /\ UNCHANGED <<serverVars, mu, running, stopped, jobs, accepted, open, requestVars>>

MarkRunning ==
    /\ At("markRunning")
    /\ Goto("notify")
    /\ status' = "running"
    /\ UNCHANGED <<server, queueVars, requestVars>>

\* signal.Notify: from here on SIGINT and SIGTERM arrive in quit.
Notify ==
    /\ At("notify")
    /\ Goto("awaitSignal")
    /\ UNCHANGED <<serverVars, queueVars, requestVars>>

\* Before that a signal ends the process at once, without Stop.
Signal ==
    /\ Alive
    /\ \/ main \in StartPlaces /\ Exit("killed")
       \/ main = "awaitSignal" /\ Goto("save")
    /\ UNCHANGED <<serverVars, queueVars, requestVars>>

\* Stop: the final save and Close of the counters (MetricsStore.tla).
FinalSave ==
    /\ At("save")
    /\ Goto("stopQueue")
    /\ UNCHANGED <<serverVars, queueVars, requestVars>>

\* Mutant: q.running is reset without q.mu.
StopQueueUnlocked ==
    /\ At("stopQueue")
    /\ Goto("closeStopCh")
    /\ running' = FALSE
    /\ UNCHANGED <<serverVars, mu, stopped, worker, jobs, accepted, open, requestVars>>

\* queue.Stop: the lock is waited for without the 30 s of main's context.
StopQueue ==
    /\ At("stopQueue") /\ mu = Free
    /\ Goto("closeStopCh")
    /\ running' = FALSE
    /\ UNCHANGED <<serverVars, mu, stopped, worker, jobs, accepted, open, requestVars>>

CloseStopCh ==
    /\ At("closeStopCh")
    /\ Goto("waitWorkers")
    /\ stopped' = TRUE
    /\ UNCHANGED <<serverVars, mu, running, worker, jobs, accepted, open, requestVars>>

\* Mutant: no time limit on the wait for the workers.
WorkersGoneOnly ==
    /\ At("waitWorkers") /\ \A w \in Workers : worker[w] = "gone"
    /\ Goto("shutdown")
    /\ UNCHANGED <<serverVars, queueVars, requestVars>>

\* The wait group is at zero, or one second is over.
WorkersWaitOver ==
    /\ At("waitWorkers")
    /\ Goto("shutdown")
    /\ UNCHANGED <<serverVars, queueVars, requestVars>>

\* server.Shutdown: no new request, wait for those that are running.
Shutdown ==
    /\ At("shutdown")
    /\ Goto("draining")
    /\ server' = "closed"
    /\ UNCHANGED <<status, queueVars, requestVars>>

InFlight == {r \in Webhooks : webhook[r] \notin {"none", "done"}}
Probing  == {p \in Probes : probe[p] \notin {"none", "answered"}}

ShutdownDone ==
    /\ At("draining") /\ InFlight \union Probing = {}
    /\ Exit("0")
    /\ UNCHANGED <<serverVars, queueVars, requestVars>>

\* The 30 s of main's context are over: Stop returns the error.
ShutdownTimeout ==
    /\ At("draining")
    /\ Exit("1")
    /\ UNCHANGED <<serverVars, queueVars, requestVars>>

MainStep ==
    \/ StartHTTPServer
    \/ ListenError
    \/ ListenWaitOver
    \/ BeginValidation
    \/ ValidationPasses
    \/ ValidationFails
    \/ Fatal
    \/ StartComponents
    \/ StartQueue
    \/ SpawnWorkers
    \/ MarkRunning
    \/ Notify
    \/ FinalSave
    \/ StopQueue
    \/ CloseStopCh
    \/ WorkersWaitOver
    \/ Shutdown
    \/ ShutdownDone
    \/ ShutdownTimeout
-----------------------------------------------------------------------------
(* The server's goroutine *)

Serve ==
    /\ Alive /\ server = "starting"
    /\ server' = "serving"
    /\ UNCHANGED <<status, mainVars, queueVars, requestVars>>

\* ListenAndServe returns an error, at the start or later.
ServerFails ==
    /\ Alive
    /\ \/ server = "starting" /\ server' = "failed"
       \/ server = "serving" /\ server' = "lost"
    /\ status' = "failed"
    /\ UNCHANGED <<mainVars, queueVars, requestVars>>
-----------------------------------------------------------------------------
(* Webhooks, from the call of Enqueue on *)

\* Connections that are open outlive the listener.
Reachable == server \in {"serving", "lost"}

WebhookAt(r, place) == Alive /\ webhook[r] = place

WebhookGoto(r, place) == webhook' = [webhook EXCEPT ![r] = place]

WebhookArrives(r) ==
    /\ WebhookAt(r, "none") /\ Reachable
    /\ WebhookGoto(r, "arrived")
    /\ UNCHANGED <<mainVars, serverVars, queueVars, probe, seen>>

\* Enqueue takes q.mu and sets the emoji with the lock held.
Lock(r) ==
    /\ WebhookAt(r, "arrived") /\ mu = Free
    /\ mu' = r
    /\ WebhookGoto(r, "locked")
    /\ UNCHANGED <<mainVars, serverVars, running, stopped, worker, jobs, accepted,
                   open, probe, seen>>

\* The queue runs and is not full: the item goes to the channel.
Append(r) ==
    /\ WebhookAt(r, "locked") /\ running
    /\ WebhookGoto(r, "sending")
    /\ UNCHANGED <<mainVars, serverVars, queueVars, probe, seen>>

Send(r) ==
    /\ WebhookAt(r, "sending")
    /\ jobs' = jobs \union {r} /\ accepted' = accepted \union {r}
    /\ mu' = Free
    /\ WebhookGoto(r, "result")
    /\ UNCHANGED <<mainVars, serverVars, running, stopped, worker, open, probe, seen>>

\* Mutant: the time limit is met after the item was sent.
RefuseButQueued(r) ==
    /\ WebhookAt(r, "locked") \/ WebhookAt(r, "sending")
    /\ mu' = Free
    /\ jobs' = IF webhook[r] = "sending" THEN jobs \union {r} ELSE jobs
    /\ WebhookGoto(r, "result")
    /\ UNCHANGED <<mainVars, serverVars, running, stopped, worker, accepted,
                   open, probe, seen>>

\* Closed or full, or the 5 s of the handler's context are over.
Refuse(r) ==
    /\ WebhookAt(r, "locked") \/ WebhookAt(r, "sending")
    /\ mu' = Free
    /\ WebhookGoto(r, "result")
    /\ UNCHANGED <<mainVars, serverVars, running, stopped, worker, jobs, accepted,
                   open, probe, seen>>

Respond(r) ==
    /\ WebhookAt(r, "result")
    /\ WebhookGoto(r, "done")
    /\ UNCHANGED <<mainVars, serverVars, queueVars, probe, seen>>
-----------------------------------------------------------------------------
(* Health probes: HandleHealth reads four things, each under its own lock *)

ProbeAt(p, place) == Alive /\ probe[p] = place

ProbeGoto(p, place) == probe' = [probe EXCEPT ![p] = place]

\* Mutant: HTTP 200 is taken for healthy.
HealthyWhenOK(state, up, circuitOpen) ==
    state = "starting" \/ (state = "running" /\ up /\ ~circuitOpen)

\* The answer is "healthy" only in the running state.
Healthy(state, up, circuitOpen) == state = "running" /\ up /\ ~circuitOpen

ProbeArrives(p) ==
    /\ ProbeAt(p, "none") \/ ProbeAt(p, "answered")
    /\ Reachable
    /\ ProbeGoto(p, "arrived")
    /\ seen' = [seen EXCEPT ![p] = Unseen]
    /\ UNCHANGED <<mainVars, serverVars, queueVars, webhook>>

ReadStatus(p) ==
    /\ ProbeAt(p, "arrived")
    /\ ProbeGoto(p, "status")
    /\ seen' = [seen EXCEPT ![p].state = status]
    /\ UNCHANGED <<mainVars, serverVars, queueVars, webhook>>

\* GetSize and IsRunning wait for q.mu.
ReadQueue(p) ==
    /\ ProbeAt(p, "status") /\ mu = Free
    /\ ProbeGoto(p, "queue")
    /\ seen' = [seen EXCEPT ![p].running = running]
    /\ UNCHANGED <<mainVars, serverVars, queueVars, webhook>>

ReadBreaker(p) ==
    /\ ProbeAt(p, "queue")
    /\ ProbeGoto(p, "answered")
    /\ seen' = [seen EXCEPT ![p] =
           [state |-> seen[p].state, running |-> seen[p].running, open |-> open,
            healthy |-> Healthy(seen[p].state, seen[p].running, open)]]
    /\ UNCHANGED <<mainVars, serverVars, queueVars, webhook>>
-----------------------------------------------------------------------------
(* Workers *)

\* With an item and a closed stopCh select takes either.
Take(w) ==
    /\ Alive /\ worker[w] = "idle"
    /\ \E r \in jobs : jobs' = jobs \ {r}
    /\ worker' = [worker EXCEPT ![w] = "busy"]
    /\ UNCHANGED <<mainVars, serverVars, mu, running, stopped, accepted, open, requestVars>>

\* A review ends, or hangs; the breaker opens or closes with its result.
EndReview(w) ==
    /\ Alive /\ worker[w] = "busy" /\ mu = Free
    /\ worker' = [worker EXCEPT ![w] = "idle"]
    /\ open' \in BOOLEAN
    /\ UNCHANGED <<mainVars, serverVars, mu, running, stopped, jobs, accepted, requestVars>>

Leave(w) ==
    /\ Alive /\ worker[w] = "idle" /\ stopped
    /\ worker' = [worker EXCEPT ![w] = "gone"]
    /\ UNCHANGED <<mainVars, serverVars, mu, running, stopped, jobs, accepted, open, requestVars>>

Unlocks(r) == Append(r) \/ Send(r) \/ Refuse(r)

Next ==
    \/ MainStep \/ Signal
    \/ Serve \/ ServerFails
    \/ \E r \in Webhooks : WebhookArrives(r) \/ Lock(r) \/ Unlocks(r) \/ Respond(r)
    \/ \E p \in Probes : ProbeArrives(p) \/ ReadStatus(p) \/ ReadQueue(p) \/ ReadBreaker(p)
    \/ \E w \in Workers : Take(w) \/ EndReview(w) \/ Leave(w)

Spec == Init /\ [][Next]_vars

\* Main is scheduled and its timers fire; whoever holds q.mu releases it,
\* because the emoji is a request with a timeout and the send has 5 s.
\* Reviews, handlers, clients and the server may hang for ever.
Fairness == WF_vars(MainStep) /\ \A r \in Webhooks : WF_vars(Unlocks(r))

FairSpec == Spec /\ Fairness
-----------------------------------------------------------------------------
(* Properties *)

\* docs/architecture-explained.md:525, validation comes "before accepting
\* any webhooks": the server is up before, but no webhook gets a job, and no
\* worker runs, in a process whose validation has not passed.
NothingUnvalidated ==
    verdict # "valid" => accepted = {} /\ \A w \in Workers : worker[w] = "none"

\* The variables keep their types, and nothing is accepted before validation.
Sound == TypeOK /\ NothingUnvalidated

\* A probe that overlaps the start answers "healthy" only when the workers
\* exist, although it reads the status, the queue and the breaker one after
\* the other while the main goroutine writes them.
HealthyMeansWorking ==
    \A p \in Probes :
        probe[p] = "answered" /\ seen[p].healthy =>
            verdict = "valid" /\ \A w \in Workers : worker[w] # "none"

\* A probe that has read "running" answers unhealthy (503) only because it
\* found the circuit open or because the queue is being stopped: neither the
\* order of the start nor that of the reads raises a false alarm.
NoFalseAlarm ==
    \A p \in Probes :
        /\ probe[p] = "answered" /\ seen[p].state = "running" /\ ~seen[p].healthy
        => seen[p].open \/ main \in StopPlaces

\* Both: /health tells the truth while the process starts.
HealthTellsTruth == HealthyMeansWorking /\ NoFalseAlarm

\* Once q.running is reset no webhook is told that its review was queued:
\* an Enqueue that has seen the queue running finishes before Stop.
NoneAcceptedAfterStop ==
    [][(main \in StopPlaces) => (accepted' = accepted)]_vars

\* After a signal the process ends, whatever hangs: reviews, handlers, the
\* wait group.
StopTerminates == main \notin StartPlaces \union {"awaitSignal"} ~> exit # "none"
=============================================================================

-------------------------- MODULE ApplicationProofs --------------------------
(***************************************************************************)
(* What holds of the life of the process for any number of workers,        *)
(* webhooks and health probes.                                             *)
(***************************************************************************)
EXTENDS Application, TLAPS

Unvalidated == {"listen", "listening", "validate", "validating"}
BeforeQueue == Unvalidated \union {"components", "startQueue"}
BeforeWorkers == BeforeQueue \union {"spawn"}
BeforeRunning == BeforeWorkers \union {"markRunning"}

\* The main goroutine brings things up in order: validation, q.running, the
\* workers, the status; it resets q.running before it does anything else that
\* StopPlaces name.
StartOrder ==
    /\ main \notin Unvalidated => verdict = "valid"
    /\ main \in BeforeQueue \union StopPlaces <=> ~running
    /\ main \in BeforeQueue => accepted = {}
    /\ \A w \in Workers : worker[w] = "none" <=> main \in BeforeWorkers
    /\ status = "running" => main \notin BeforeRunning

\* q.mu is held by a webhook between Lock and the end of Enqueue, and one
\* that is sending has seen the queue running, which nobody has reset since.
LockHeld ==
    \A r \in Webhooks :
        /\ webhook[r] \in {"locked", "sending"} <=> mu = r
        /\ webhook[r] = "sending" => running

\* What a probe has read was true when it read it, and what follows from it
\* stays true: the start never goes back.
ProbeTruth ==
    \A p \in Probes :
        /\ seen[p].state = "running" => main \notin BeforeRunning
        /\ probe[p] \in {"queue", "answered"} /\ seen[p].state = "running" =>
               seen[p].running \/ main \in StopPlaces
        /\ probe[p] = "answered" =>
               seen[p].healthy = Healthy(seen[p].state, seen[p].running, seen[p].open)

Inv == TypeOK /\ StartOrder /\ LockHeld /\ ProbeTruth
-----------------------------------------------------------------------------
LEMMA InitInv == Init => Inv
<1>. SUFFICES ASSUME Init PROVE Inv
  OBVIOUS
<1>. USE ApplicationAssumption
     DEF Init, StopPlaces, Unvalidated, BeforeQueue, BeforeWorkers, BeforeRunning
<1>1. TypeOK
  BY DEF TypeOK, MainPlaces, StartPlaces, States, Unseen
<1>2. StartOrder
  BY DEF StartOrder
<1>3. LockHeld
  BY DEF LockHeld
<1>4. ProbeTruth
  BY DEF ProbeTruth, Unseen
<1>. QED  BY <1>1, <1>2, <1>3, <1>4 DEF Inv

LEMMA MainInv == Inv /\ MainStep => Inv'
<1>. SUFFICES ASSUME Inv, MainStep PROVE Inv'
  OBVIOUS
<1>. USE ApplicationAssumption
     DEF Inv, TypeOK, StartOrder, LockHeld, ProbeTruth, MainPlaces, StartPlaces,
         StopPlaces, States, Healthy, Unvalidated, BeforeQueue, BeforeWorkers,
         BeforeRunning, At, Goto, Exit, mainVars, serverVars, queueVars, requestVars
<1>1. CASE StartHTTPServer  BY <1>1 DEF StartHTTPServer
<1>2. CASE ListenError  BY <1>2 DEF ListenError
<1>3. CASE ListenWaitOver  BY <1>3 DEF ListenWaitOver
<1>4. CASE BeginValidation  BY <1>4 DEF BeginValidation
<1>5. CASE ValidationPasses  BY <1>5 DEF ValidationPasses
<1>6. CASE ValidationFails  BY <1>6 DEF ValidationFails
<1>7. CASE Fatal  BY <1>7 DEF Fatal
<1>8. CASE StartComponents  BY <1>8 DEF StartComponents
<1>9. CASE StartQueue  BY <1>9 DEF StartQueue
<1>10. CASE SpawnWorkers  BY <1>10 DEF SpawnWorkers
<1>11. CASE MarkRunning  BY <1>11 DEF MarkRunning
<1>12. CASE Notify  BY <1>12 DEF Notify
<1>13. CASE FinalSave  BY <1>13 DEF FinalSave
<1>14. CASE StopQueue  BY <1>14 DEF StopQueue
<1>15. CASE CloseStopCh  BY <1>15 DEF CloseStopCh
<1>16. CASE WorkersWaitOver  BY <1>16 DEF WorkersWaitOver
<1>17. CASE Shutdown  BY <1>17 DEF Shutdown
<1>18. CASE ShutdownDone  BY <1>18 DEF ShutdownDone
<1>19. CASE ShutdownTimeout  BY <1>19 DEF ShutdownTimeout
<1>. QED
  BY <1>1, <1>2, <1>3, <1>4, <1>5, <1>6, <1>7, <1>8, <1>9, <1>10, <1>11, <1>12,
     <1>13, <1>14, <1>15, <1>16, <1>17, <1>18, <1>19 DEF MainStep

\* The other goroutines.
LEMMA RestInv == Inv /\ [Next]_vars /\ ~MainStep => Inv'
<1>. SUFFICES ASSUME Inv, [Next]_vars, ~MainStep PROVE Inv'
  OBVIOUS
<1>. USE ApplicationAssumption
     DEF Inv, TypeOK, StartOrder, LockHeld, ProbeTruth, MainPlaces, StartPlaces,
         StopPlaces, States, Unvalidated, BeforeQueue, BeforeWorkers, BeforeRunning,
         mainVars, serverVars, queueVars, requestVars
<1>1. CASE Signal  BY <1>1 DEF Signal, Goto, Exit, Healthy
<1>2. CASE Serve  BY <1>2 DEF Serve, Healthy
<1>3. CASE ServerFails  BY <1>3 DEF ServerFails, Healthy
<1>4. ASSUME NEW r \in Webhooks, WebhookArrives(r) PROVE Inv'
  BY <1>4 DEF WebhookArrives, WebhookAt, WebhookGoto, Healthy
<1>5. ASSUME NEW r \in Webhooks, Lock(r) PROVE Inv'
  BY <1>5 DEF Lock, WebhookAt, WebhookGoto, Healthy
<1>6. ASSUME NEW r \in Webhooks, Append(r) PROVE Inv'
  BY <1>6 DEF Append, WebhookAt, WebhookGoto, Healthy
<1>7. ASSUME NEW r \in Webhooks, Send(r) PROVE Inv'
  BY <1>7 DEF Send, WebhookAt, WebhookGoto, Healthy
<1>8. ASSUME NEW r \in Webhooks, Refuse(r) PROVE Inv'
  BY <1>8 DEF Refuse, WebhookAt, WebhookGoto, Healthy
<1>9. ASSUME NEW r \in Webhooks, Respond(r) PROVE Inv'
  BY <1>9 DEF Respond, WebhookAt, WebhookGoto, Healthy
<1>10. ASSUME NEW p \in Probes, ProbeArrives(p) PROVE Inv'
  BY <1>10 DEF ProbeArrives, ProbeAt, ProbeGoto, Unseen, Healthy
<1>11. ASSUME NEW p \in Probes, ReadStatus(p) PROVE Inv'
  BY <1>11 DEF ReadStatus, ProbeAt, ProbeGoto, Healthy
<1>12. ASSUME NEW p \in Probes, ReadQueue(p) PROVE Inv'
  BY <1>12 DEF ReadQueue, ProbeAt, ProbeGoto, Healthy
<1>13. ASSUME NEW p \in Probes, ReadBreaker(p) PROVE Inv'
  <2>. DEFINE read == [state |-> seen[p].state, running |-> seen[p].running,
                       open |-> open,
                       healthy |-> Healthy(seen[p].state, seen[p].running, open)]
  <2>1. Healthy(seen[p].state, seen[p].running, open) \in BOOLEAN
    BY DEF Healthy
  <2>2. read \in [state : States, running : BOOLEAN, open : BOOLEAN, healthy : BOOLEAN]
    BY <2>1
  <2>3. seen' = [seen EXCEPT ![p] = read]
    BY <1>13 DEF ReadBreaker
  <2>4. TypeOK' /\ StartOrder' /\ LockHeld'
    <3>. HIDE DEF read
    <3>. QED  BY <1>13, <2>2, <2>3 DEF ReadBreaker, ProbeAt, ProbeGoto
  <2>5. ProbeTruth'
    BY <1>13, <2>2, <2>3 DEF ReadBreaker, ProbeAt, ProbeGoto
  <2>. QED  BY <2>4, <2>5
<1>14. ASSUME NEW w \in Workers, Take(w) PROVE Inv'
  BY <1>14 DEF Take, Healthy
<1>15. ASSUME NEW w \in Workers, EndReview(w) PROVE Inv'
  BY <1>15 DEF EndReview, Healthy
<1>16. ASSUME NEW w \in Workers, Leave(w) PROVE Inv'
  BY <1>16 DEF Leave, Healthy
<1>17. CASE UNCHANGED vars  BY <1>17 DEF vars, Healthy
<1>. HIDE DEF Inv
<1>. QED
  BY <1>1, <1>2, <1>3, <1>4, <1>5, <1>6, <1>7, <1>8, <1>9, <1>10, <1>11, <1>12,
     <1>13, <1>14, <1>15, <1>16, <1>17 DEF Next, Unlocks

THEOREM ApplicationInv == Spec => []Inv
<1>1. Inv /\ [Next]_vars => Inv'
  BY MainInv, RestInv
<1>. QED  BY InitInv, <1>1, PTL DEF Spec

\* The variables keep their types; in particular only accepted webhooks have
\* an item in the channel.
THEOREM ApplicationTypeCorrect == Spec => []TypeOK
BY ApplicationInv, PTL DEF Inv

\* No job and no worker before validation has passed.
THEOREM ApplicationNothingUnvalidated == Spec => []NothingUnvalidated
<1>1. Inv => NothingUnvalidated
  BY DEF Inv, StartOrder, NothingUnvalidated, BeforeQueue, BeforeWorkers
<1>. QED  BY <1>1, ApplicationInv, PTL

\* /health tells the truth: a "healthy" answer is given only when validation
\* passed and the workers exist, and an unhealthy one in the running state
\* has one of two causes.
THEOREM ApplicationHealthTellsTruth == Spec => []HealthTellsTruth
<1>1. Inv => HealthyMeansWorking
  BY DEF Inv, StartOrder, ProbeTruth, HealthyMeansWorking, Healthy, Unvalidated,
         BeforeQueue, BeforeWorkers, BeforeRunning
<1>2. Inv => NoFalseAlarm
  BY DEF Inv, TypeOK, ProbeTruth, NoFalseAlarm, Healthy
<1>. QED  BY <1>1, <1>2, ApplicationInv, PTL DEF HealthTellsTruth

\* After Stop has reset q.running no webhook is accepted.
THEOREM ApplicationNoneAcceptedAfterStop == Spec => NoneAcceptedAfterStop
<1>1. Inv /\ [Next]_vars => [(main \in StopPlaces) => (accepted' = accepted)]_vars
  <2>. SUFFICES ASSUME Inv, Next, main \in StopPlaces PROVE accepted' = accepted
    OBVIOUS
  <2>1. ~running /\ \A r \in Webhooks : webhook[r] # "sending"
    BY DEF Inv, StartOrder, LockHeld
  <2>2. CASE MainStep
    BY <2>2 DEF MainStep, StartHTTPServer, ListenError, ListenWaitOver,
        BeginValidation, ValidationPasses, ValidationFails, Fatal, StartComponents,
        StartQueue, SpawnWorkers, MarkRunning, Notify, FinalSave, StopQueue,
        CloseStopCh, WorkersWaitOver, Shutdown, ShutdownDone, ShutdownTimeout,
        queueVars
  <2>3. CASE Signal \/ Serve \/ ServerFails
    BY <2>3 DEF Signal, Serve, ServerFails, queueVars
  <2>4. ASSUME NEW r \in Webhooks,
               WebhookArrives(r) \/ Lock(r) \/ Unlocks(r) \/ Respond(r)
        PROVE  accepted' = accepted
    BY <2>1, <2>4 DEF WebhookArrives, Lock, Unlocks, Append, Send, Refuse, Respond,
        WebhookAt, queueVars
  <2>5. ASSUME NEW p \in Probes,
               ProbeArrives(p) \/ ReadStatus(p) \/ ReadQueue(p) \/ ReadBreaker(p)
        PROVE  accepted' = accepted
    BY <2>5 DEF ProbeArrives, ReadStatus, ReadQueue, ReadBreaker, queueVars
  <2>6. ASSUME NEW w \in Workers, Take(w) \/ EndReview(w) \/ Leave(w)
        PROVE  accepted' = accepted
    BY <2>6 DEF Take, EndReview, Leave
  <2>. QED  BY <2>2, <2>3, <2>4, <2>5, <2>6 DEF Next
<1>. QED  BY <1>1, ApplicationInv, PTL DEF Spec, NoneAcceptedAfterStop

\* Nothing is accepted, and nobody works, before validation has passed.
THEOREM ApplicationSound == Spec => []Sound
BY ApplicationTypeCorrect, ApplicationNothingUnvalidated, PTL DEF Sound
==============================================================================

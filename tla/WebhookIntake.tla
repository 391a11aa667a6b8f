--------------------------- MODULE WebhookIntake ----------------------------
(***************************************************************************)
(* The webhook endpoint: HandleWebhook and its filters in                  *)
(* internal/app/handlers/webhook.go, the parser's refusals in              *)
(* internal/adapters/bitbucket-dc/webhook.go and the triggering events of  *)
(* internal/config/events.go.                                              *)
(*                                                                         *)
(* Every request has a goroutine of its own.  The bot's failure comments   *)
(* and the comments of its agent come back as webhooks, with any text.     *)
(* The rate limiter (RateLimiter.tla) may refuse any request; the queue    *)
(* (ReviewQueue.tla) is the set of its jobs.                               *)
(***************************************************************************)
EXTENDS Naturals, FiniteSets, Sequences, SequencesExt

CONSTANTS
    MaxRequests,   \* bound on the requests
    QueueSize,
    Texts,         \* the comments: what the filters find in them
    Requests       \* the requests that are sent

EventTypes == {"pr_opened", "comment_added"}

\* A request as far as the handler tells requests apart; "other" stands for
\* an event type the bot does not know.  named says that the author of the
\* comment is where the parser looks, at comment.author.user; the example of
\* Bitbucket Data Center has the name at comment.author, and GetComment then
\* leaves it empty.
Request == [
    body    : {"unreadable", "test", "malformed", "incomplete", "event"},
    post    : BOOLEAN, signed : BOOLEAN, listed : BOOLEAN,
    type    : EventTypes \union {"other"},
    author  : {"user", "bot"}, named : BOOLEAN,
    text    : SUBSET {"mention", "keyword", "reviewed"}]

ASSUME WebhookIntakeAssumption ==
    /\ MaxRequests \in Nat /\ QueueSize \in Nat \ {0}
    /\ Texts \subseteq SUBSET {"mention", "keyword", "reviewed"}
    /\ Requests \subseteq Request

VARIABLES
    (* the configuration, fixed *)
    events,       \* Bitbucket.Events: the types that trigger
    disabled,     \* the types the environment switches off
    secret,       \* a webhook secret is configured
    restricted,   \* a list of allowed projects is configured
    keyword,      \* the keyword is not empty
    byName,       \* Bitbucket.User is the user name, not the e-mail address
    (* the requests *)
    pc,           \* each request: "none", "received", "admitted", "enqueue", "done"
    request, response,
    jobs,         \* the requests whose review is queued or running
    received      \* the counter webhook_received_total

configVars == <<events, disabled, secret, restricted, keyword, byName>>
intakeVars == <<configVars, pc, request, response, jobs, received>>

Ids == 1..MaxRequests
Labels == EventTypes \union {"rate_limited"}
NoRequest == [body |-> "none"]

IntakeTypeOK ==
    /\ events \subseteq EventTypes /\ disabled \subseteq EventTypes
    /\ {secret, restricted, keyword, byName} \subseteq BOOLEAN
    /\ pc \in [Ids -> {"none", "received", "admitted", "enqueue", "done"}]
    /\ DOMAIN request = Ids
    /\ \A i \in Ids : IF pc[i] = "none" THEN request[i] = NoRequest
                                         ELSE request[i] \in Request
    /\ response \in [Ids -> {0, 200, 202, 400, 401, 403, 405, 429, 500, 503}]
    /\ jobs \subseteq Ids
    /\ received \in [Labels -> 0..MaxRequests]
-----------------------------------------------------------------------------
(* The configuration *)

\* Mutant: a type is switched off only if the file does not name it.
OverriddenFileWins(file, env) ==
    {t \in EventTypes : env[t] = "on" \/ t \in file}

\* applyEventOverridesFromEnv: the file's types, then the environment.
Overridden(file, env) ==
    {t \in EventTypes : env[t] = "on" \/ (env[t] = "unset" /\ t \in file)}

\* processTriggeringEvents: no types at all means the default.
Triggering(file, env) ==
    IF Overridden(file, env) = {} THEN {"comment_added"} ELSE Overridden(file, env)

IntakeInit ==
    /\ \E file \in SUBSET EventTypes, env \in [EventTypes -> {"unset", "on", "off"}] :
          /\ events = Triggering(file, env)
          /\ disabled = {t \in EventTypes : env[t] = "off"}
    /\ secret \in BOOLEAN /\ restricted \in BOOLEAN
    /\ keyword \in BOOLEAN /\ byName \in BOOLEAN
    /\ pc = [i \in Ids |-> "none"]
    /\ request = [i \in Ids |-> NoRequest]
    /\ response = [i \in Ids |-> 0]
    /\ jobs = {}
    /\ received = [label \in Labels |-> 0]
-----------------------------------------------------------------------------
(* The filters *)

\* shouldProcessComment; the author is the bot to it only if the parser found
\* a name and the configuration has the same.
ShouldProcessComment(r) ==
    /\ ~(r.author = "bot" /\ r.named /\ byName)
    /\ "reviewed" \notin r.text
    /\ "mention" \in r.text
    /\ keyword => "keyword" \in r.text

IsProjectAllowed(r) == restricted => r.listed

\* The checks before the counter, each with the response when it hits.
Checks(r) == <<
    <<r.body = "unreadable", 400>>,
    <<r.body = "test", 200>>,
    <<secret /\ ~r.signed, 401>>,
    <<r.body = "malformed", 400>>,
    <<r.type \notin events, 200>>,
    <<r.body = "incomplete", 400>>,
    <<r.type = "comment_added" /\ ~ShouldProcessComment(r), 200>> >>

FirstHit(r) == SelectInSeq(Checks(r), LAMBDA c : c[1])
-----------------------------------------------------------------------------
(* The handler *)

Respond(i, status) ==
    /\ response' = [response EXCEPT ![i] = status]
    /\ pc' = [pc EXCEPT ![i] = "done"]

\* Mutant: the handler and a helper both count.
CountReceivedTwice(label) == received' = [received EXCEPT ![label] = @ + 2]

CountReceived(label) == received' = [received EXCEPT ![label] = @ + 1]

\* Bitbucket, or anybody, sends the next request.
Send(i, r) ==
    /\ pc[i] = "none" /\ \A j \in 1..(i - 1) : pc[j] # "none"
    /\ request' = [request EXCEPT ![i] = r]
    /\ pc' = [pc EXCEPT ![i] = "received"]
    /\ UNCHANGED <<configVars, response, jobs, received>>

SendFromUser(i) == \E r \in Requests : Send(i, r)

\* The bot comments the reviews it works on, by its agent or by the queue.
SendFromBot(i) ==
    /\ jobs # {}
    /\ \E text \in Texts, listed \in BOOLEAN, named \in BOOLEAN :
          Send(i, [body |-> "event", post |-> TRUE, signed |-> TRUE, listed |-> listed,
                   type |-> "comment_added", author |-> "bot", named |-> named,
                   text |-> text])

\* The method, then the rate limiter.
NotAllowed(i) ==
    /\ pc[i] = "received" /\ ~request[i].post
    /\ Respond(i, 405)
    /\ UNCHANGED <<configVars, request, jobs, received>>

RateLimited(i) ==
    /\ pc[i] = "received" /\ request[i].post
    /\ Respond(i, 429) /\ CountReceived("rate_limited")
    /\ UNCHANGED <<configVars, request, jobs>>

AdmitRequest(i) ==
    /\ pc[i] = "received" /\ request[i].post
    /\ pc' = [pc EXCEPT ![i] = "admitted"]
    /\ UNCHANGED <<configVars, request, response, jobs, received>>

TurnDown(i) ==
    /\ pc[i] = "admitted" /\ FirstHit(request[i]) # 0
    /\ Respond(i, Checks(request[i])[FirstHit(request[i])][2])
    /\ UNCHANGED <<configVars, request, jobs, received>>

\* Mutants: only requests for allowed projects are counted; projects are
\* not looked at.
PassCountsLate(i) ==
    /\ pc[i] = "admitted" /\ FirstHit(request[i]) = 0
    /\ IF IsProjectAllowed(request[i])
       THEN /\ pc' = [pc EXCEPT ![i] = "enqueue"] /\ UNCHANGED response
            /\ CountReceived(request[i].type)
       ELSE Respond(i, 403) /\ UNCHANGED received
    /\ UNCHANGED <<configVars, request, jobs>>
PassUnchecked(i) ==
    /\ pc[i] = "admitted" /\ FirstHit(request[i]) = 0
    /\ CountReceived(request[i].type)
    /\ pc' = [pc EXCEPT ![i] = "enqueue"]
    /\ UNCHANGED <<configVars, request, response, jobs>>

\* The counter, then the project.
Pass(i) ==
    /\ pc[i] = "admitted" /\ FirstHit(request[i]) = 0
    /\ CountReceived(request[i].type)
    /\ IF IsProjectAllowed(request[i])
       THEN pc' = [pc EXCEPT ![i] = "enqueue"] /\ UNCHANGED response
       ELSE Respond(i, 403)
    /\ UNCHANGED <<configVars, request, jobs>>

\* queue.Enqueue: accepted, full, or closed or out of time.
Enqueue(i) ==
    /\ pc[i] = "enqueue" /\ Cardinality(jobs) < QueueSize
    /\ jobs' = jobs \union {i}
    /\ Respond(i, 202)
    /\ UNCHANGED <<configVars, request, received>>

EnqueueFull(i) ==
    /\ pc[i] = "enqueue" /\ Cardinality(jobs) = QueueSize
    /\ Respond(i, 503)
    /\ UNCHANGED <<configVars, request, jobs, received>>

EnqueueFails(i) ==
    /\ pc[i] = "enqueue"
    /\ Respond(i, 500)
    /\ UNCHANGED <<configVars, request, jobs, received>>

ReviewEnds(i) ==
    /\ i \in jobs
    /\ jobs' = jobs \ {i}
    /\ UNCHANGED <<configVars, pc, request, response, received>>

HandleWebhook(i) ==
    \/ NotAllowed(i)
    \/ RateLimited(i)
    \/ AdmitRequest(i)
    \/ TurnDown(i)
    \/ Pass(i)
    \/ Enqueue(i)
    \/ EnqueueFull(i)
    \/ EnqueueFails(i)

IntakeNext == \E i \in Ids :
    \/ SendFromUser(i)
    \/ SendFromBot(i)
    \/ HandleWebhook(i)
    \/ ReviewEnds(i)

IntakeSpec == IntakeInit /\ [][IntakeNext]_intakeVars
-----------------------------------------------------------------------------
(* Properties *)

\* webhook.go:258, "Ignore comments from the bot itself to prevent infinite
\* loops": no comment of the bot starts a review.  It does, unless one of the
\* text filters happens to stop it, when the payload has the name where Data
\* Center puts it.  (byName: with the e-mail address as Bitbucket.User, which
\* docs/configuration.md allows, the author is not looked for at all.)
NoReviewOfOwnComments ==
    \A i \in Ids : response[i] = 202 /\ request[i].type = "comment_added" /\ byName =>
        request[i].author # "bot"

\* A type that the environment switches off starts no review unless no type
\* is left, when the default comes back.
DisabledStaysOff ==
    \A i \in Ids : response[i] = 202 =>
        \/ request[i].type \notin disabled
        \/ events = {"comment_added"} /\ disabled # {}

\* Only signed requests for allowed projects and for types that are switched
\* on get a review; a request that was refused has none.
AcceptedIsAuthorised ==
    /\ DisabledStaysOff
    /\ \A i \in Ids :
            /\ response[i] = 202 => (secret => request[i].signed) /\ IsProjectAllowed(request[i])
            /\ response[i] # 202 => i \notin jobs

Counted == {i \in Ids : pc[i] = "enqueue" \/ response[i] \in {202, 403, 500, 503}}

CountedAs(label) ==
    IF label = "rate_limited" THEN {i \in Ids : response[i] = 429}
                              ELSE {i \in Counted : request[i].type = label}

\* webhook_received_total counts the requests that passed every filter,
\* whatever the project check and the queue say of them, those that the
\* limiter refused under a label of their own, and nothing else.
ReceivedAddsUp ==
    \A label \in Labels : received[label] = Cardinality(CountedAs(label))

\* The variables keep their types, and the counter of the webhooks adds up.
IntakeSound == IntakeTypeOK /\ ReceivedAddsUp
=============================================================================

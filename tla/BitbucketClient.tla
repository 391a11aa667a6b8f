-------------------------- MODULE BitbucketClient ---------------------------
(***************************************************************************)
(* The reactions and comments of internal/adapters/bitbucket-dc/client.go: *)
(* one HTTP request each, with a time limit and no retry.  A request can   *)
(* fail before it reaches Bitbucket, its reply can be lost, and a request  *)
(* that the client has given up can still be carried out later.            *)
(***************************************************************************)
EXTENDS Naturals

CONSTANTS
    Comments,   \* the comments that reactions are put on
    MaxFaults   \* bound on the requests that go wrong

VARIABLES
    reactions,  \* the emojis a comment carries on Bitbucket
    tracker,    \* emojiTracker: the emoji the client believes it carries
    late,       \* requests that were given up and are still under way
    faults,     \* the number of requests that went wrong
    (* history *)
    broken      \* <<comment, emoji>> of the requests that went wrong

clientVars == <<reactions, tracker, late, faults, broken>>

Emojis   == {"QUEUED", "PROCESSING", "SUCCESS", "FAILED"}
NoEmoji  == "none"
Requests == [method : {"PUT", "DELETE"}, comment : Comments, emoji : Emojis]

ClientTypeOK ==
    /\ reactions \in [Comments -> SUBSET Emojis]
    /\ tracker \in [Comments -> Emojis \union {NoEmoji}]
    /\ late \subseteq Requests
    /\ faults \in 0..MaxFaults
    /\ broken \subseteq Comments \X Emojis

ClientInit ==
    /\ reactions = [c \in Comments |-> {}]
    /\ tracker = [c \in Comments |-> NoEmoji]
    /\ late = {} /\ faults = 0 /\ broken = {}
-----------------------------------------------------------------------------
\* Bitbucket carries the request out; both methods are idempotent.
Applied(request) ==
    [reactions EXCEPT ![request.comment] =
        IF request.method = "PUT" THEN @ \union {request.emoji}
                                  ELSE @ \ {request.emoji}]

\* handleResponse and delete turn anything but a 2xx answer into an error.
\* Carried out without an answer, refused, or left under way.
GoesWrong(request) ==
    /\ faults < MaxFaults
    /\ faults' = faults + 1
    /\ broken' = broken \union {<<request.comment, request.emoji>>}
    /\ \/ reactions' = Applied(request) /\ UNCHANGED late
       \/ UNCHANGED <<reactions, late>>
       \/ late' = late \union {request} /\ UNCHANGED reactions

GoesWell(request) ==
    /\ reactions' = Applied(request)
    /\ UNCHANGED <<late, faults, broken>>

Put(c, e)    == [method |-> "PUT", comment |-> c, emoji |-> e]
Delete(c, e) == [method |-> "DELETE", comment |-> c, emoji |-> e]

\* The emoji is tracked only when Bitbucket confirmed it.
AddCommentReaction(c, e) ==
    \/ /\ GoesWell(Put(c, e))
       /\ tracker' = [tracker EXCEPT ![c] = e]
    \/ /\ GoesWrong(Put(c, e))
       /\ UNCHANGED tracker

\* Mutant: the removal forgets to send the request.
RemoveNothing(c, e) ==
    /\ tracker' = [tracker EXCEPT ![c] = NoEmoji]
    /\ UNCHANGED <<reactions, late, faults, broken>>

\* A 404 is a success, and so is every other error whose text happens to
\* contain "404": the identifier of the comment in a failed request's URL is
\* enough.  Such a removal is reported and untracked as done.
RemoveCommentReaction(c, e) ==
    \/ /\ GoesWell(Delete(c, e)) \/ GoesWrong(Delete(c, e))
       /\ tracker' = [tracker EXCEPT ![c] = NoEmoji]
    \/ /\ GoesWrong(Delete(c, e))
       /\ UNCHANGED tracker

\* PostComment tells whether the comment is on the pull request.
PostComment(posted) ==
    /\ \/ posted /\ UNCHANGED <<faults>>
       \/ faults < MaxFaults /\ faults' = faults + 1
    /\ UNCHANGED <<reactions, tracker, late, broken>>

\* Bitbucket carries out a request that the client has given up.
CarriedOutLate(request) ==
    /\ request \in late
    /\ late' = late \ {request}
    /\ reactions' = Applied(request)
    /\ UNCHANGED <<tracker, faults, broken>>

ClientNext ==
    \/ \E c \in Comments, e \in Emojis :
          AddCommentReaction(c, e) \/ RemoveCommentReaction(c, e)
    \/ \E posted \in BOOLEAN : PostComment(posted)
    \/ \E request \in late : CarriedOutLate(request)

ClientSpec == ClientInit /\ [][ClientNext]_clientVars
=============================================================================

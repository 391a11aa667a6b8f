--------------------------- MODULE ReviewService ----------------------------
(***************************************************************************)
(* One review: internal/domain/services/review_service.go with the clone   *)
(* directories of internal/adapters/git/repository.go and the errors of    *)
(* internal/adapters/claude/reviewer.go.                                   *)
(*                                                                         *)
(* Every pull request has one directory for its clone, shared by all its   *)
(* reviews and kept on disk across a crash.  Workers review concurrently.  *)
(* git, the agent and the profile file are the environment: they succeed   *)
(* or fail at any time.  PRs are pull requests whose source branch is not  *)
(* the default branch of the remote.                                       *)
(***************************************************************************)
EXTENDS Naturals, FiniteSets

CONSTANTS
    Workers, PRs, NoPR,
    MaxReviews,   \* bound on the reviews begun
    MaxPushes     \* bound on the commits pushed to a pull request

ErrorCodes == {"GIT_CLONE_FAILED", "PROFILE_NOT_FOUND", "REVIEWER_FAILED",
               "REVIEWER_TIMEOUT"}

ASSUME ReviewServiceAssumption ==
    /\ IsFiniteSet(Workers) /\ NoPR \notin PRs
    /\ MaxReviews \in Nat /\ MaxPushes \in Nat

VARIABLES
    (* the world *)
    head,      \* how many commits were pushed to the source branch
    tree,      \* the clone: "absent", "rubble" (files without .git),
               \* "partial" (with a .git) or "whole"
    branch,    \* the branch it shows
    version,   \* the value of head it shows, when that is the source branch
    (* the reviews in progress *)
    pc, pr,
    (* the counters of the process *)
    started, succeeded, failed,
    (* history *)
    begun,     \* the number of reviews begun
    panics,    \* the reviews of this process that panicked
    began,     \* the value of head when the worker's review began
    stale,     \* the worker's update failed, it goes on with the old clone
    shared,    \* another review of the same pull request overlapped it
    leftover   \* pull requests whose clone a crash or a failed Clean left

worldVars   == <<head, tree, branch, version>>
counterVars == <<started, succeeded, failed>>
historyVars == <<begun, panics, began, stale, shared, leftover>>
vars == <<worldVars, pc, pr, counterVars, historyVars>>

TypeOK ==
    /\ head \in [PRs -> 0..MaxPushes] /\ version \in [PRs -> 0..MaxPushes]
    /\ tree \in [PRs -> {"absent", "rubble", "partial", "whole"}]
    /\ branch \in [PRs -> {"default", "source"}]
    /\ pc \in [Workers -> {"idle", "lookup", "clone", "cloning", "update",
                           "profile", "reviewing", "clean"}]
    /\ pr \in [Workers -> PRs \union {NoPR}]
    /\ started \in 0..MaxReviews /\ succeeded \in 0..MaxReviews
    /\ failed \in [ErrorCodes -> 0..MaxReviews]
    /\ begun \in 0..MaxReviews /\ panics \in 0..MaxReviews
    /\ began \in [Workers -> 0..MaxPushes]
    /\ stale \in [Workers -> BOOLEAN] /\ shared \in [Workers -> BOOLEAN]
    /\ leftover \subseteq PRs

ProcessInit ==
    /\ pc = [w \in Workers |-> "idle"]
    /\ pr = [w \in Workers |-> NoPR]
    /\ started = 0 /\ succeeded = 0 /\ panics = 0
    /\ failed = [c \in ErrorCodes |-> 0]
    /\ began = [w \in Workers |-> 0]
    /\ stale = [w \in Workers |-> FALSE]
    /\ shared = [w \in Workers |-> FALSE]

Init ==
    /\ head = [p \in PRs |-> 0] /\ version = [p \in PRs |-> 0]
    /\ tree = [p \in PRs |-> "absent"]
    /\ branch = [p \in PRs |-> "default"]
    /\ begun = 0 /\ leftover = {}
    /\ ProcessInit
-----------------------------------------------------------------------------
Goto(w, label) == pc' = [pc EXCEPT ![w] = label]

Peers(w, p) == {v \in Workers \ {w} : pr[v] = p}

\* git completes the tree, on branch b at commit v of it.
CheckOut(w, b, v) ==
    /\ tree' = [tree EXCEPT ![pr[w]] = "whole"]
    /\ branch' = [branch EXCEPT ![pr[w]] = b]
    /\ version' = [version EXCEPT ![pr[w]] = v]

\* ReviewPullRequest up to getRepository.
Begin(w, p) ==
    /\ pc[w] = "idle" /\ begun < MaxReviews
    /\ Goto(w, "lookup")
    /\ pr' = [pr EXCEPT ![w] = p]
    /\ started' = started + 1
    /\ begun' = begun + 1
    /\ began' = [began EXCEPT ![w] = head[p]]
    /\ stale' = [stale EXCEPT ![w] = FALSE]
    /\ shared' = [v \in Workers |->
                    IF v = w THEN Peers(w, p) # {}
                    ELSE shared[v] \/ v \in Peers(w, p)]
    /\ UNCHANGED <<worldVars, succeeded, failed, panics, leftover>>

\* Mutants: the failure is counted twice; it is not counted.
FailTwice(w, code) ==
    /\ failed' = [failed EXCEPT ![code] = @ + 2]
    /\ Goto(w, "clean")
    /\ UNCHANGED <<pr, started, succeeded>>
FailUncounted(w, code) ==
    /\ Goto(w, "clean")
    /\ UNCHANGED <<pr, counterVars>>

\* handleReviewError, on the way out to the deferred Clean.
FailWith(w, code) ==
    /\ failed' = [failed EXCEPT ![code] = @ + 1]
    /\ Goto(w, "clean")
    /\ UNCHANGED <<pr, started, succeeded>>

\* GetOrUpdate: Exists looks for the .git directory.
LookUp(w) ==
    /\ pc[w] = "lookup"
    /\ Goto(w, IF tree[pr[w]] \in {"absent", "rubble"} THEN "clone" ELSE "update")
    /\ UNCHANGED <<worldVars, pr, counterVars, historyVars>>

\* git clone makes the directory, or refuses one that is there by now.
CloneBegin(w) ==
    /\ pc[w] = "clone" /\ tree[pr[w]] = "absent"
    /\ tree' = [tree EXCEPT ![pr[w]] = "partial"]
    /\ Goto(w, "cloning")
    /\ UNCHANGED <<head, branch, version, pr, counterVars, historyVars>>

CloneRefused(w) ==
    /\ pc[w] = "clone" /\ tree[pr[w]] # "absent"
    /\ FailWith(w, "GIT_CLONE_FAILED")
    /\ UNCHANGED <<worldVars, historyVars>>

\* git clone without a branch checks out the default branch of the remote, and
\* GetOrUpdate returns that clone: nothing resets it to the source branch.
CloneEnd(w) ==
    /\ pc[w] = "cloning" /\ tree[pr[w]] # "absent"
    /\ CheckOut(w, "default", 0)
    /\ Goto(w, "profile")
    /\ UNCHANGED <<head, pr, counterVars, historyVars>>

\* A git clone that fails removes the directory it made.
CloneFails(w) ==
    /\ pc[w] = "cloning"
    /\ tree' = [tree EXCEPT ![pr[w]] = "absent"]
    /\ FailWith(w, "GIT_CLONE_FAILED")
    /\ UNCHANGED <<head, branch, version, historyVars>>

\* Mutant: fetch without reset.
UpdateFetchOnly(w) ==
    /\ pc[w] = "update" /\ tree[pr[w]] # "absent"
    /\ Goto(w, "profile")
    /\ UNCHANGED <<worldVars, pr, counterVars, historyVars>>

\* Update: fetch and reset --hard to the source branch, as it was at some moment
\* since the review began.
UpdateEnd(w) ==
    /\ pc[w] = "update" /\ tree[pr[w]] # "absent"
    /\ \E v \in began[w]..head[pr[w]] : CheckOut(w, "source", v)
    /\ Goto(w, "profile")
    /\ UNCHANGED <<head, pr, counterVars, historyVars>>

\* An error of Update is logged and the clone used as it is.
UpdateFails(w) ==
    /\ pc[w] = "update"
    /\ stale' = [stale EXCEPT ![w] = TRUE]
    /\ Goto(w, "profile")
    /\ UNCHANGED <<worldVars, pr, counterVars, begun, panics, began, shared,
                   leftover>>

GetProfile(w) ==
    /\ pc[w] = "profile"
    /\ \/ Goto(w, "reviewing") /\ UNCHANGED <<pr, counterVars>>
       \/ FailWith(w, "PROFILE_NOT_FOUND")
    /\ UNCHANGED <<worldVars, historyVars>>

ReviewSucceeds(w) ==
    /\ pc[w] = "reviewing"
    /\ succeeded' = succeeded + 1
    /\ Goto(w, "clean")
    /\ UNCHANGED <<worldVars, pr, started, failed, historyVars>>

\* Review tells a timeout from the other failures of the agent.
ReviewFails(w) ==
    /\ pc[w] = "reviewing"
    /\ \E code \in {"REVIEWER_FAILED", "REVIEWER_TIMEOUT"} : FailWith(w, code)
    /\ UNCHANGED <<worldVars, historyVars>>

\* A panic skips handleReviewError, the deferred Clean runs.
Panic(w) ==
    /\ pc[w] \in {"profile", "reviewing"}
    /\ panics' = panics + 1
    /\ Goto(w, "clean")
    /\ UNCHANGED <<worldVars, pr, counterVars, begun, began, stale, shared,
                   leftover>>

Leave(w) ==
    /\ pc[w] = "clean"
    /\ Goto(w, "idle")
    /\ pr' = [pr EXCEPT ![w] = NoPR]
    /\ UNCHANGED <<head, branch, version, counterVars, begun, panics, began, stale,
                   shared>>

\* Mutants: the clone is kept for the next review; all clones are removed.
CleanNothing(w) ==
    /\ Leave(w)
    /\ UNCHANGED <<tree, leftover>>
CleanEverything(w) ==
    /\ Leave(w)
    /\ tree' = [p \in PRs |-> "absent"]
    /\ leftover' = {}

\* The deferred Clean: os.RemoveAll of the directory.
Clean(w) ==
    /\ Leave(w)
    /\ tree' = [tree EXCEPT ![pr[w]] = "absent"]
    /\ leftover' = leftover \ {pr[w]}

\* A failed removal is logged; it may leave the directory or a part of it.
CleanFails(w) ==
    /\ Leave(w)
    /\ tree[pr[w]] # "absent"
    /\ \E t \in {"rubble", "partial", tree[pr[w]]} : tree' = [tree EXCEPT ![pr[w]] = t]
    /\ leftover' = leftover \union {pr[w]}

Push(p) ==
    /\ head[p] < MaxPushes
    /\ head' = [head EXCEPT ![p] = @ + 1]
    /\ UNCHANGED <<tree, branch, version, pc, pr, counterVars, historyVars>>

\* The process dies: the clones stay on disk, counters start from zero.
Crash ==
    /\ leftover' = {p \in PRs : tree[p] # "absent"}
    /\ pc' = [w \in Workers |-> "idle"]
    /\ pr' = [w \in Workers |-> NoPR]
    /\ started' = 0 /\ succeeded' = 0 /\ panics' = 0
    /\ failed' = [c \in ErrorCodes |-> 0]
    /\ began' = [w \in Workers |-> 0]
    /\ stale' = [w \in Workers |-> FALSE]
    /\ shared' = [w \in Workers |-> FALSE]
    /\ UNCHANGED <<worldVars, begun>>

Step(w) ==
    \/ LookUp(w)
    \/ CloneBegin(w)
    \/ CloneRefused(w)
    \/ CloneEnd(w)
    \/ CloneFails(w)
    \/ UpdateEnd(w)
    \/ UpdateFails(w)
    \/ GetProfile(w)
    \/ ReviewSucceeds(w)
    \/ ReviewFails(w)
    \/ Panic(w)
    \/ Clean(w)
    \/ CleanFails(w)

Next ==
    \/ \E w \in Workers : Step(w) \/ \E p \in PRs : Begin(w, p)
    \/ \E p \in PRs : Push(p)
    \/ Crash

Spec == Init /\ [][Next]_vars
-----------------------------------------------------------------------------
(* Properties *)

\* What the agent of a review works on, when no other review of the pull request
\* overlaps and no update failed: a complete tree, prepared by this very review.
\* If a crash or a failed removal left a clone, it shows at least the commits
\* pushed to the source branch before the review began; otherwise, which is the
\* ordinary case, it shows the default branch, whatever was pushed.
ReviewsPreparedTree ==
    \A w \in Workers :
        pc[w] = "reviewing" /\ ~shared[w] /\ ~stale[w] =>
            /\ tree[pr[w]] = "whole"
            /\ IF pr[w] \in leftover
               THEN branch[pr[w]] = "source" /\ version[pr[w]] >= began[w]
               ELSE branch[pr[w]] = "default"

\* Nobody but the agent itself changes the directory under it, unless reviews of
\* the pull request overlap (Clean of the first to end takes it from the other).
TreeStableUnderReview ==
    [][\A w \in Workers :
          pc[w] = "reviewing" /\ pc'[w] = "reviewing" /\ ~shared'[w] =>
              /\ tree'[pr[w]] = tree[pr[w]]
              /\ branch'[pr[w]] = branch[pr[w]]
              /\ version'[pr[w]] = version[pr[w]]]_vars

\* Every way out of a review removes its clone: without a crash and without
\* a failed removal, only pull requests under review have a directory.
NothingLeftBehind ==
    \A p \in PRs : tree[p] # "absent" =>
        p \in leftover \/ \E w \in Workers : pr[w] = p

Running == {w \in Workers : pc[w] \notin {"idle", "clean"}}

FailedReviews ==
    failed["GIT_CLONE_FAILED"] + failed["PROFILE_NOT_FOUND"]
        + failed["REVIEWER_FAILED"] + failed["REVIEWER_TIMEOUT"]

\* review_started_total is the sum of the reviews that completed, failed,
\* panicked or are running; "clean" is after the result was counted.
StartedAddsUp ==
    started = succeeded + panics + FailedReviews + Cardinality(Running)

\* The variables keep their types, and the counters of the reviews add up.
Sound == TypeOK /\ StartedAddsUp
=============================================================================

------------------------ MODULE ReviewServiceProofs -------------------------
(***************************************************************************)
(* Theorems about ReviewService, for any finite set of workers, any pull   *)
(* requests and any bounds.                                                *)
(***************************************************************************)
EXTENDS ReviewService, FiniteSetTheorems, TLAPS

\* A worker has a pull request as long as it has a review.
Occupied == \A w \in Workers : pr[w] = NoPR <=> pc[w] = "idle"

\* A review that is not marked as shared has its pull request to itself.
AloneUnlessShared ==
    \A w \in Workers : pr[w] # NoPR /\ ~shared[w] => Peers(w, pr[w]) = {}

\* What a review finds and makes of the directory, from place to place: it
\* updates what was left over and clones where nothing was.
Stage(w) ==
    /\ pc[w] \in {"lookup", "clone"} => (tree[pr[w]] # "absent" <=> pr[w] \in leftover)
    /\ pc[w] = "cloning" => pr[w] \notin leftover
    /\ pc[w] = "update" => pr[w] \in leftover
    /\ pc[w] \in {"profile", "reviewing"} /\ ~stale[w] =>
          /\ tree[pr[w]] = "whole"
          /\ pr[w] \in leftover => branch[pr[w]] = "source" /\ version[pr[w]] >= began[w]
          /\ pr[w] \notin leftover => branch[pr[w]] = "default"

\* Every review that has its pull request to itself is at such a stage.
TreeInv == \A w \in Workers : pr[w] # NoPR /\ ~shared[w] => Stage(w)

\* What a crash or a failed removal left is on disk until the next review.
LeftoverIsThere ==
    \A p \in leftover : tree[p] # "absent" \/ \E w \in Workers : pr[w] = p

ServiceInv ==
    /\ TypeOK /\ Occupied /\ AloneUnlessShared /\ TreeInv /\ NothingLeftBehind
    /\ LeftoverIsThere /\ StartedAddsUp /\ started <= begun
-----------------------------------------------------------------------------
(* The counters *)

\* The running reviews can be counted.
LEMMA RunningType == IsFiniteSet(Running) /\ Cardinality(Running) \in Nat
<1>1. IsFiniteSet(Running)
  BY ReviewServiceAssumption, FS_Subset DEF Running
<1> QED BY <1>1, FS_CardinalityType

\* What the typing says of the counters, one by one.
LEMMA CountersAreNumbers ==
    ASSUME TypeOK
    PROVE  /\ started \in Nat /\ succeeded \in Nat /\ panics \in Nat /\ begun \in Nat
           /\ \A c \in ErrorCodes : failed[c] \in Nat
           /\ FailedReviews \in Nat /\ MaxReviews \in Nat
<1>1. \A c \in ErrorCodes : failed[c] \in Nat
  BY ReviewServiceAssumption DEF TypeOK
<1>2. FailedReviews \in Nat
  BY <1>1 DEF FailedReviews, ErrorCodes
<1> QED BY <1>1, <1>2, ReviewServiceAssumption DEF TypeOK

\* A worker that goes from one place to another is counted accordingly.
LEMMA RunningMoves ==
    ASSUME TypeOK, NEW w \in Workers, NEW label, Goto(w, label)
    PROVE  /\ pc[w] \in {"idle", "clean"} /\ label \notin {"idle", "clean"}
                => Cardinality(Running)' = Cardinality(Running) + 1
           /\ pc[w] \notin {"idle", "clean"} /\ label \in {"idle", "clean"}
                => Cardinality(Running)' = Cardinality(Running) - 1
           /\ (pc[w] \in {"idle", "clean"} <=> label \in {"idle", "clean"})
                => Cardinality(Running)' = Cardinality(Running)
<1>1. pc' = [pc EXCEPT ![w] = label] /\ DOMAIN pc = Workers
  BY DEF Goto, TypeOK
<1>2. ASSUME pc[w] \in {"idle", "clean"}, label \notin {"idle", "clean"}
      PROVE  Cardinality(Running)' = Cardinality(Running) + 1
  <2>1. Running' = Running \union {w} /\ w \notin Running
    BY <1>1, <1>2 DEF Running
  <2> QED BY <2>1, RunningType, FS_AddElement
<1>3. ASSUME pc[w] \notin {"idle", "clean"}, label \in {"idle", "clean"}
      PROVE  Cardinality(Running)' = Cardinality(Running) - 1
  <2>1. Running' = Running \ {w} /\ w \in Running
    BY <1>1, <1>3 DEF Running
  <2> QED BY <2>1, RunningType, FS_RemoveElement
<1>4. ASSUME pc[w] \in {"idle", "clean"} <=> label \in {"idle", "clean"}
      PROVE  Cardinality(Running)' = Cardinality(Running)
  <2>1. Running' = Running
    BY <1>1, <1>4 DEF Running
  <2> QED BY <2>1
<1> QED BY <1>2, <1>3, <1>4

\* One failure more, of whatever code.
LEMMA FailureCounted ==
    ASSUME TypeOK, NEW w \in Workers, NEW code \in ErrorCodes, FailWith(w, code),
           FailedReviews < MaxReviews
    PROVE  /\ FailedReviews' = FailedReviews + 1
           /\ failed' \in [ErrorCodes -> 0..MaxReviews]
<1>1. failed' = [failed EXCEPT ![code] = failed[code] + 1]
  BY DEF FailWith
<1>2. \A c \in ErrorCodes : failed[c] \in Nat /\ failed[c] <= FailedReviews
  BY CountersAreNumbers DEF FailedReviews, ErrorCodes
<1>3. failed[code] + 1 \in 0..MaxReviews
  BY <1>2, CountersAreNumbers
<1>4. failed' \in [ErrorCodes -> 0..MaxReviews]
  BY <1>1, <1>3 DEF TypeOK
<1>5. \A c \in ErrorCodes : failed'[c] = IF c = code THEN failed[c] + 1 ELSE failed[c]
  BY <1>1 DEF TypeOK
<1>6. FailedReviews' = FailedReviews + 1
  BY <1>2, <1>5 DEF FailedReviews, ErrorCodes
<1> QED BY <1>4, <1>6
-----------------------------------------------------------------------------
(* The directories *)

\* A step of one worker: it stays on its pull request, touches no other
\* directory, and goes from one stage to the next.
OwnStep(w) ==
    /\ pr' = pr /\ began' = began /\ shared' = shared
    /\ head' = head /\ leftover' = leftover /\ begun' = begun
    /\ pc[w] # "idle" /\ pc'[w] # "idle"
    /\ pc[w] = "reviewing" => pc'[w] # "reviewing"
    /\ \A v \in Workers \ {w} : pc'[v] = pc[v] /\ stale'[v] = stale[v]
    /\ \A p \in PRs \ {pr[w]} :
          tree'[p] = tree[p] /\ branch'[p] = branch[p] /\ version'[p] = version[p]
    /\ Stage(w) => Stage(w)'

\* Such a step keeps what is said of the directories.
LEMMA OwnStepKeeps ==
    ASSUME TypeOK, Occupied, AloneUnlessShared, TreeInv, NothingLeftBehind,
           LeftoverIsThere, NEW w \in Workers, OwnStep(w)
    PROVE  /\ Occupied' /\ AloneUnlessShared' /\ TreeInv' /\ NothingLeftBehind'
           /\ LeftoverIsThere'
<1>1. pr[w] \in PRs
  BY DEF TypeOK, Occupied, OwnStep
<1>2. Occupied'
  BY DEF Occupied, OwnStep
<1>3. AloneUnlessShared'
  BY DEF AloneUnlessShared, OwnStep, Peers
<1>4. TreeInv'
  <2> SUFFICES ASSUME NEW v \in Workers, pr[v] # NoPR, ~shared[v]
               PROVE  Stage(v)'
    BY DEF TreeInv, OwnStep
  <2>1. CASE v = w
    BY <2>1 DEF OwnStep, TreeInv
  <2>2. CASE v # w
    <3>1. pc[v] = pc'[v] /\ stale[v] = stale'[v]
      BY <2>2 DEF OwnStep
    <3>2. pr[v] \in PRs /\ w \notin Peers(v, pr[v])
      BY DEF TypeOK, AloneUnlessShared
    <3>3. pr[v] # pr[w]
      BY <2>2, <3>2 DEF Peers
    <3>4. /\ tree'[pr[v]] = tree[pr[v]] /\ branch'[pr[v]] = branch[pr[v]]
          /\ version'[pr[v]] = version[pr[v]]
          /\ pr' = pr /\ began' = began /\ leftover' = leftover
      BY <3>2, <3>3 DEF OwnStep
    <3> QED BY <3>1, <3>4 DEF TreeInv, Stage
  <2> QED BY <2>1, <2>2
<1>5. NothingLeftBehind'
  <2> SUFFICES ASSUME NEW p \in PRs, tree'[p] # "absent"
               PROVE  p \in leftover \/ \E v \in Workers : pr[v] = p
    BY DEF NothingLeftBehind, OwnStep
  <2>1. CASE p = pr[w]
    BY <2>1
  <2>2. CASE p # pr[w]
    BY <2>2 DEF OwnStep, NothingLeftBehind
  <2> QED BY <2>1, <2>2
<1>6. LeftoverIsThere'
  <2> SUFFICES ASSUME NEW p \in leftover
               PROVE  tree'[p] # "absent" \/ \E v \in Workers : pr[v] = p
    BY DEF LeftoverIsThere, OwnStep
  <2>1. CASE p = pr[w]
    BY <2>1
  <2>2. CASE p # pr[w]
    BY <2>2 DEF OwnStep, LeftoverIsThere, TypeOK
  <2> QED BY <2>1, <2>2
<1> QED BY <1>2, <1>3, <1>4, <1>5, <1>6
-----------------------------------------------------------------------------
(* The initial states *)

LEMMA ServiceInit == Init => ServiceInv
<1> SUFFICES ASSUME Init PROVE ServiceInv
  OBVIOUS
<1>1. TypeOK
  <2>1. /\ head \in [PRs -> 0..MaxPushes] /\ version \in [PRs -> 0..MaxPushes]
        /\ began \in [Workers -> 0..MaxPushes]
        /\ tree \in [PRs -> {"absent", "rubble", "partial", "whole"}]
        /\ branch \in [PRs -> {"default", "source"}]
    BY ReviewServiceAssumption DEF Init, ProcessInit
  <2>2. /\ failed \in [ErrorCodes -> 0..MaxReviews]
        /\ started \in 0..MaxReviews /\ succeeded \in 0..MaxReviews
        /\ begun \in 0..MaxReviews /\ panics \in 0..MaxReviews
    BY ReviewServiceAssumption DEF Init, ProcessInit
  <2>3. /\ pc = [w \in Workers |-> "idle"] /\ pr = [w \in Workers |-> NoPR]
        /\ stale \in [Workers -> BOOLEAN] /\ shared \in [Workers -> BOOLEAN]
        /\ leftover \subseteq PRs
    BY DEF Init, ProcessInit
  <2> QED BY <2>1, <2>2, <2>3 DEF TypeOK
<1>2. /\ Occupied /\ AloneUnlessShared /\ TreeInv /\ NothingLeftBehind
      /\ LeftoverIsThere
  BY DEF Init, ProcessInit, Occupied, AloneUnlessShared, TreeInv, NothingLeftBehind,
         LeftoverIsThere
<1>3. StartedAddsUp /\ started <= begun
  <2>1. Running = {}
    BY DEF Init, ProcessInit, Running
  <2>2. FailedReviews = 0
    BY DEF Init, ProcessInit, FailedReviews, ErrorCodes
  <2> QED BY <2>1, <2>2, FS_EmptySet DEF Init, ProcessInit, StartedAddsUp
<1> QED BY <1>1, <1>2, <1>3 DEF ServiceInv
-----------------------------------------------------------------------------
(* Steps of a worker on its pull request *)

\* Before the result is counted: the counters stay as they are.
Uncounted(w) ==
    /\ UNCHANGED <<started, succeeded, failed, panics, begun>>
    /\ pc[w] \notin {"idle", "clean"} /\ pc'[w] \notin {"idle", "clean"}

\* The result is counted, on the way to the clean-up.
CountedOnce(w) ==
    /\ pc[w] \notin {"idle", "clean"} /\ Goto(w, "clean")
    /\ UNCHANGED <<started, begun>>
    /\ \/ succeeded' = succeeded + 1 /\ UNCHANGED <<failed, panics>>
       \/ panics' = panics + 1 /\ UNCHANGED <<failed, succeeded>>
       \/ /\ \E code \in ErrorCodes : FailWith(w, code)
          /\ UNCHANGED <<succeeded, panics>>

LEMMA UncountedKeeps ==
    ASSUME TypeOK, StartedAddsUp, started <= begun, NEW w \in Workers,
           NEW label, Goto(w, label), Uncounted(w)
    PROVE  StartedAddsUp' /\ started' <= begun'
<1>1. Cardinality(Running)' = Cardinality(Running)
  BY RunningMoves DEF Uncounted, Goto, TypeOK
<1>2. FailedReviews' = FailedReviews
  BY DEF Uncounted, FailedReviews
<1> QED BY <1>1, <1>2 DEF Uncounted, StartedAddsUp

LEMMA CountedOnceKeeps ==
    ASSUME TypeOK, StartedAddsUp, started <= begun, NEW w \in Workers,
           CountedOnce(w)
    PROVE  /\ StartedAddsUp' /\ started' <= begun'
           /\ succeeded' \in 0..MaxReviews /\ panics' \in 0..MaxReviews
           /\ failed' \in [ErrorCodes -> 0..MaxReviews]
<1>1. /\ Cardinality(Running)' = Cardinality(Running) - 1
      /\ Cardinality(Running) \in Nat /\ Cardinality(Running)' \in Nat
  <2>1. w \in Running
    BY DEF Running, CountedOnce
  <2>2. Cardinality(Running) # 0
    BY <2>1, RunningType, FS_EmptySet
  <2> QED BY <2>2, RunningMoves, RunningType DEF CountedOnce
<1>2. /\ started = succeeded + panics + FailedReviews + Cardinality(Running)
      /\ started <= MaxReviews
  BY DEF StartedAddsUp, TypeOK
<1>3. /\ succeeded + 1 <= MaxReviews /\ panics + 1 <= MaxReviews
      /\ FailedReviews < MaxReviews
  BY <1>1, <1>2, CountersAreNumbers
<1>4. CASE succeeded' = succeeded + 1 /\ UNCHANGED <<failed, panics>>
  <2>1. FailedReviews' = FailedReviews
    BY <1>4 DEF FailedReviews
  <2> QED BY <1>1, <1>2, <1>3, <1>4, <2>1, CountersAreNumbers
          DEF CountedOnce, StartedAddsUp, TypeOK
<1>5. CASE panics' = panics + 1 /\ UNCHANGED <<failed, succeeded>>
  <2>1. FailedReviews' = FailedReviews
    BY <1>5 DEF FailedReviews
  <2> QED BY <1>1, <1>2, <1>3, <1>5, <2>1, CountersAreNumbers
          DEF CountedOnce, StartedAddsUp, TypeOK
<1>6. CASE /\ \E code \in ErrorCodes : FailWith(w, code)
           /\ UNCHANGED <<succeeded, panics>>
  <2>1. /\ FailedReviews' = FailedReviews + 1
        /\ failed' \in [ErrorCodes -> 0..MaxReviews]
    BY <1>3, <1>6, FailureCounted
  <2> QED BY <1>1, <1>2, <1>3, <1>6, <2>1, CountersAreNumbers
          DEF CountedOnce, StartedAddsUp, TypeOK
<1> QED BY <1>4, <1>5, <1>6 DEF CountedOnce

\* Everything a worker does between the beginning and the clean-up.
Works(w) ==
    \/ LookUp(w) \/ CloneBegin(w) \/ CloneRefused(w) \/ CloneEnd(w)
    \/ CloneFails(w) \/ UpdateEnd(w) \/ UpdateFails(w) \/ GetProfile(w)
    \/ ReviewSucceeds(w) \/ ReviewFails(w) \/ Panic(w)

Labels == {"idle", "lookup", "clone", "cloning", "update", "profile",
           "reviewing", "clean"}

\* The check-out changes one directory, to a complete clone.
LEMMA CheckOutWhole ==
    ASSUME TypeOK, NEW w \in Workers, pr[w] \in PRs,
           NEW b \in {"default", "source"}, NEW v \in 0..MaxPushes, CheckOut(w, b, v)
    PROVE  /\ tree' \in [PRs -> {"absent", "rubble", "partial", "whole"}]
           /\ branch' \in [PRs -> {"default", "source"}]
           /\ version' \in [PRs -> 0..MaxPushes]
           /\ tree'[pr[w]] = "whole" /\ branch'[pr[w]] = b /\ version'[pr[w]] = v
           /\ \A p \in PRs \ {pr[w]} :
                 tree'[p] = tree[p] /\ branch'[p] = branch[p] /\ version'[p] = version[p]
BY DEF CheckOut, TypeOK

LEMMA WorksIsOwnStep ==
    ASSUME TypeOK, Occupied, NEW w \in Workers, Works(w)
    PROVE  /\ OwnStep(w)
           /\ \E label \in Labels : Goto(w, label)
           /\ Uncounted(w) \/ CountedOnce(w)
           /\ tree' \in [PRs -> {"absent", "rubble", "partial", "whole"}]
           /\ branch' \in [PRs -> {"default", "source"}]
           /\ version' \in [PRs -> 0..MaxPushes]
           /\ stale' \in [Workers -> BOOLEAN]
<1> USE DEF Goto, Labels, worldVars, counterVars, historyVars
<1>0. /\ pc \in [Workers -> Labels] /\ pr \in [Workers -> PRs \union {NoPR}]
      /\ tree \in [PRs -> {"absent", "rubble", "partial", "whole"}]
      /\ branch \in [PRs -> {"default", "source"}]
      /\ version \in [PRs -> 0..MaxPushes]
      /\ stale \in [Workers -> BOOLEAN]
  BY DEF TypeOK
<1>p. pc[w] # "idle" => pr[w] \in PRs
  BY <1>0 DEF Occupied
<1>1. CASE LookUp(w)
  BY <1>0, <1>p, <1>1 DEF LookUp, OwnStep, Stage, Uncounted
<1>2. CASE CloneBegin(w)
  BY <1>0, <1>p, <1>2 DEF CloneBegin, OwnStep, Stage, Uncounted
<1>3. CASE CloneRefused(w)
  <2>1. FailWith(w, "GIT_CLONE_FAILED") /\ "GIT_CLONE_FAILED" \in ErrorCodes
    BY <1>3 DEF CloneRefused, ErrorCodes
  <2> QED BY <1>0, <1>p, <1>3, <2>1 DEF CloneRefused, FailWith, OwnStep, Stage, CountedOnce
<1>4. CASE CloneEnd(w)
  <2>1. /\ pc[w] = "cloning" /\ CheckOut(w, "default", 0) /\ Goto(w, "profile")
        /\ UNCHANGED <<head, pr, counterVars, historyVars>>
    BY <1>4 DEF CloneEnd
  <2>2. 0 \in 0..MaxPushes
    BY ReviewServiceAssumption
  <2> QED BY <1>0, <1>p, <2>1, <2>2, CheckOutWhole DEF OwnStep, Stage, Uncounted
<1>5. CASE CloneFails(w)
  <2>1. FailWith(w, "GIT_CLONE_FAILED") /\ "GIT_CLONE_FAILED" \in ErrorCodes
    BY <1>5 DEF CloneFails, ErrorCodes
  <2> QED BY <1>0, <1>p, <1>5, <2>1 DEF CloneFails, FailWith, OwnStep, Stage, CountedOnce
<1>6. CASE UpdateEnd(w)
  <2>1. PICK v \in began[w]..head[pr[w]] : CheckOut(w, "source", v)
    BY <1>6 DEF UpdateEnd
  <2>2. /\ pc[w] = "update" /\ Goto(w, "profile")
        /\ UNCHANGED <<head, pr, counterVars, historyVars>>
    BY <1>6 DEF UpdateEnd
  <2>3. /\ began[w] \in 0..MaxPushes /\ head[pr[w]] \in 0..MaxPushes
        /\ MaxPushes \in Nat
    BY <1>p, <2>2, ReviewServiceAssumption DEF TypeOK
  <2>4. v \in 0..MaxPushes /\ v >= began[w]
    BY <2>1, <2>3
  <2> QED BY <1>0, <1>p, <2>1, <2>2, <2>4, CheckOutWhole DEF OwnStep, Stage, Uncounted
<1>7. CASE UpdateFails(w)
  BY <1>0, <1>p, <1>7 DEF UpdateFails, OwnStep, Stage, Uncounted
<1>8. CASE GetProfile(w)
  <2>1. CASE Goto(w, "reviewing") /\ UNCHANGED <<pr, counterVars>>
    BY <1>0, <1>p, <1>8, <2>1 DEF GetProfile, OwnStep, Stage, Uncounted
  <2>2. CASE FailWith(w, "PROFILE_NOT_FOUND")
    <3>1. "PROFILE_NOT_FOUND" \in ErrorCodes
      BY DEF ErrorCodes
    <3> QED BY <1>0, <1>p, <1>8, <2>2, <3>1
            DEF GetProfile, FailWith, OwnStep, Stage, CountedOnce
  <2> QED BY <1>8, <2>1, <2>2 DEF GetProfile
<1>9. CASE ReviewSucceeds(w)
  BY <1>0, <1>p, <1>9 DEF ReviewSucceeds, OwnStep, Stage, CountedOnce
<1>10. CASE ReviewFails(w)
  <2>1. PICK code \in ErrorCodes : FailWith(w, code)
    BY <1>10 DEF ReviewFails, ErrorCodes
  <2> QED BY <1>0, <1>p, <1>10, <2>1 DEF ReviewFails, FailWith, OwnStep, Stage, CountedOnce
<1>11. CASE Panic(w)
  BY <1>0, <1>p, <1>11 DEF Panic, OwnStep, Stage, CountedOnce
<1> QED BY <1>1, <1>2, <1>3, <1>4, <1>5, <1>6, <1>7, <1>8, <1>9, <1>10, <1>11
        DEF Works

LEMMA WorksStep ==
    ASSUME ServiceInv, NEW w \in Workers, Works(w)
    PROVE  ServiceInv'
<1>1. /\ TypeOK /\ Occupied /\ AloneUnlessShared /\ TreeInv /\ NothingLeftBehind
      /\ LeftoverIsThere /\ StartedAddsUp /\ started <= begun
  BY DEF ServiceInv
<1>2. /\ OwnStep(w)
      /\ Uncounted(w) \/ CountedOnce(w)
      /\ tree' \in [PRs -> {"absent", "rubble", "partial", "whole"}]
      /\ branch' \in [PRs -> {"default", "source"}]
      /\ version' \in [PRs -> 0..MaxPushes]
      /\ stale' \in [Workers -> BOOLEAN]
  BY <1>1, WorksIsOwnStep
<1>3. PICK label \in Labels : Goto(w, label)
  BY <1>1, WorksIsOwnStep
<1>4. /\ Occupied' /\ AloneUnlessShared' /\ TreeInv' /\ NothingLeftBehind'
      /\ LeftoverIsThere'
  BY <1>1, <1>2, OwnStepKeeps
<1>5. /\ StartedAddsUp' /\ started' <= begun'
      /\ succeeded' \in 0..MaxReviews /\ panics' \in 0..MaxReviews
      /\ failed' \in [ErrorCodes -> 0..MaxReviews]
      /\ started' = started /\ begun' = begun
  <2>1. CASE Uncounted(w)
    BY <1>1, <1>3, <2>1, UncountedKeeps DEF Uncounted, TypeOK
  <2>2. CASE CountedOnce(w)
    BY <1>1, <2>2, CountedOnceKeeps DEF CountedOnce
  <2> QED BY <1>2, <2>1, <2>2
<1>6. TypeOK'
  BY <1>1, <1>2, <1>3, <1>5 DEF TypeOK, OwnStep, Goto, Labels
<1> QED BY <1>4, <1>5, <1>6 DEF ServiceInv
-----------------------------------------------------------------------------
(* Beginning and end of a review, pushes and crashes *)

LEMMA BeginStep ==
    ASSUME ServiceInv, NEW w \in Workers, NEW p \in PRs, Begin(w, p)
    PROVE  ServiceInv'
<1>1. /\ TypeOK /\ Occupied /\ AloneUnlessShared /\ TreeInv /\ NothingLeftBehind
      /\ LeftoverIsThere /\ StartedAddsUp /\ started <= begun
      /\ pc[w] = "idle" /\ begun < MaxReviews /\ Goto(w, "lookup")
      /\ pr' = [pr EXCEPT ![w] = p]
      /\ started' = started + 1 /\ begun' = begun + 1
      /\ began' = [began EXCEPT ![w] = head[p]]
      /\ stale' = [stale EXCEPT ![w] = FALSE]
      /\ shared' = [v \in Workers |-> IF v = w THEN Peers(w, p) # {}
                                      ELSE shared[v] \/ v \in Peers(w, p)]
      /\ UNCHANGED <<head, tree, branch, version, succeeded, failed, panics, leftover>>
  BY DEF ServiceInv, Begin, worldVars
<1>2. /\ pc'[w] = "lookup" /\ pr'[w] = p /\ pr[w] = NoPR
      /\ \A v \in Workers \ {w} :
            pc'[v] = pc[v] /\ pr'[v] = pr[v] /\ began'[v] = began[v] /\ stale'[v] = stale[v]
      /\ NoPR # p
  BY <1>1, ReviewServiceAssumption DEF Goto, TypeOK, Occupied
<1>3. TypeOK'
  <2>1. shared' \in [Workers -> BOOLEAN] /\ stale' \in [Workers -> BOOLEAN]
    BY <1>1 DEF TypeOK
  <2>2. began' \in [Workers -> 0..MaxPushes] /\ pr' \in [Workers -> PRs \union {NoPR}]
    BY <1>1 DEF TypeOK
  <2>3. started' \in 0..MaxReviews /\ begun' \in 0..MaxReviews
    BY <1>1, ReviewServiceAssumption DEF TypeOK
  <2> QED BY <1>1, <2>1, <2>2, <2>3 DEF TypeOK, Goto
<1>4. Occupied'
  BY <1>1, <1>2 DEF Occupied
<1>5. ASSUME NEW v \in Workers, pr'[v] # NoPR, ~shared'[v],
             NEW u \in Workers \ {v}
      PROVE  pr'[u] # pr'[v]
  <2>1. CASE v = w
    BY <1>1, <1>2, <1>5, <2>1 DEF Peers
  <2>2. CASE v # w /\ u = w
    BY <1>1, <1>2, <1>5, <2>2 DEF Peers
  <2>3. CASE v # w /\ u # w
    <3>1. pr'[v] = pr[v] /\ pr'[u] = pr[u] /\ u \in Workers \ {v}
      BY <1>2, <1>5, <2>3
    <3>2. ~shared[v]
      BY <1>1, <1>5, <2>3
    <3>3. Peers(v, pr[v]) = {}
      BY <1>1, <1>5, <3>1, <3>2 DEF AloneUnlessShared
    <3> QED BY <3>1, <3>3 DEF Peers
  <2> QED BY <2>1, <2>2, <2>3
<1>6. TreeInv'
  <2> SUFFICES ASSUME NEW v \in Workers, pr'[v] # NoPR, ~shared'[v]
               PROVE  Stage(v)'
    BY DEF TreeInv
  <2>1. CASE v = w
    <3>1. ~\E u \in Workers : pr[u] = p
      BY <1>1, <1>2, <2>1 DEF Peers
    <3>2. tree[p] # "absent" <=> p \in leftover
      BY <1>1, <3>1 DEF NothingLeftBehind, LeftoverIsThere
    <3> QED BY <1>1, <1>2, <2>1, <3>2 DEF Stage
  <2>2. CASE v # w
    <3>1. pr[v] # NoPR /\ ~shared[v]
      BY <1>1, <1>2, <2>2
    <3> QED BY <1>1, <1>2, <2>2, <3>1 DEF TreeInv, Stage
  <2> QED BY <2>1, <2>2
<1>l. LeftoverIsThere'
  <2> SUFFICES ASSUME NEW q \in leftover, tree[q] = "absent"
               PROVE  \E v \in Workers : pr'[v] = q
    BY <1>1 DEF LeftoverIsThere
  <2>1. PICK v \in Workers : pr[v] = q
    BY <1>1 DEF LeftoverIsThere
  <2>2. q \in PRs
    BY <1>1 DEF TypeOK
  <2> QED BY <1>2, <2>1, <2>2, ReviewServiceAssumption
<1>7. ASSUME NEW q \in PRs, tree[q] # "absent", q \notin leftover
      PROVE  \E v \in Workers : pr'[v] = q
  <2>1. PICK v \in Workers : pr[v] = q
    BY <1>1, <1>7 DEF NothingLeftBehind
  <2> QED BY <1>2, <2>1, ReviewServiceAssumption
<1>8. NothingLeftBehind'
  BY <1>1, <1>7 DEF NothingLeftBehind
<1>9. AloneUnlessShared'
  BY <1>5 DEF AloneUnlessShared, Peers
<1>10. StartedAddsUp' /\ started' <= begun'
  <2>1. Cardinality(Running)' = Cardinality(Running) + 1
    BY <1>1, RunningMoves
  <2>2. FailedReviews' = FailedReviews
    BY <1>1 DEF FailedReviews
  <2> QED BY <1>1, <2>1, <2>2, CountersAreNumbers, RunningType DEF StartedAddsUp
<1> QED BY <1>3, <1>4, <1>6, <1>l, <1>8, <1>9, <1>10 DEF ServiceInv

LEMMA LeaveStep ==
    ASSUME ServiceInv, NEW w \in Workers, Clean(w) \/ CleanFails(w)
    PROVE  ServiceInv'
<1>1. /\ TypeOK /\ Occupied /\ AloneUnlessShared /\ TreeInv /\ NothingLeftBehind
      /\ LeftoverIsThere /\ StartedAddsUp /\ started <= begun
      /\ pc[w] = "clean" /\ Goto(w, "idle")
      /\ pr' = [pr EXCEPT ![w] = NoPR]
      /\ UNCHANGED <<head, branch, version, started, succeeded, failed, begun,
                     panics, began, stale, shared>>
  BY DEF ServiceInv, Clean, CleanFails, Leave, counterVars
<1>2. /\ pc'[w] = "idle" /\ pr'[w] = NoPR /\ pr[w] \in PRs
      /\ \A v \in Workers \ {w} : pc'[v] = pc[v] /\ pr'[v] = pr[v]
  BY <1>1 DEF Goto, TypeOK, Occupied
<1>3. /\ tree' \in [PRs -> {"absent", "rubble", "partial", "whole"}]
      /\ leftover' \subseteq PRs
      /\ \A p \in PRs \ {pr[w]} : tree'[p] = tree[p] /\ (p \in leftover' <=> p \in leftover)
      /\ tree'[pr[w]] # "absent" <=> pr[w] \in leftover'
  <2>1. CASE Clean(w)
    BY <1>1, <1>2, <2>1 DEF Clean, TypeOK
  <2>2. CASE CleanFails(w)
    <3>1. PICK t \in {"rubble", "partial", tree[pr[w]]} : tree' = [tree EXCEPT ![pr[w]] = t]
      BY <2>2 DEF CleanFails
    <3> QED BY <1>1, <1>2, <2>2, <3>1 DEF CleanFails, TypeOK
  <2> QED BY <2>1, <2>2
<1>4. TypeOK'
  BY <1>1, <1>3 DEF TypeOK, Goto
<1>5. Occupied' /\ AloneUnlessShared'
  BY <1>1, <1>2 DEF Occupied, AloneUnlessShared, Peers
<1>6. TreeInv'
  <2> SUFFICES ASSUME NEW v \in Workers, pr'[v] # NoPR, ~shared[v]
               PROVE  Stage(v)'
    BY <1>1 DEF TreeInv
  <2>1. v # w /\ pc[v] = pc'[v] /\ pr'[v] = pr[v]
    BY <1>2
  <2>2. pr[v] \in PRs /\ w \notin Peers(v, pr[v])
    BY <1>1, <2>1 DEF TypeOK, AloneUnlessShared
  <2>3. pr[v] # pr[w]
    BY <2>1, <2>2 DEF Peers
  <2> QED BY <1>1, <1>3, <2>1, <2>2, <2>3 DEF TreeInv, Stage
<1>7. NothingLeftBehind'
  <2> SUFFICES ASSUME NEW p \in PRs, tree'[p] # "absent"
               PROVE  p \in leftover' \/ \E v \in Workers : pr'[v] = p
    BY DEF NothingLeftBehind
  <2>1. CASE p = pr[w]
    BY <1>3, <2>1
  <2>2. CASE p # pr[w]
    <3>1. p \in leftover \/ \E v \in Workers : pr[v] = p
      BY <1>1, <1>3, <2>2 DEF NothingLeftBehind
    <3> QED BY <1>2, <1>3, <2>2, <3>1
  <2> QED BY <2>1, <2>2
<1>l. LeftoverIsThere'
  <2> SUFFICES ASSUME NEW p \in leftover', tree'[p] = "absent"
               PROVE  \E v \in Workers : pr'[v] = p
    BY DEF LeftoverIsThere
  <2>1. p \in PRs /\ p # pr[w] /\ p \in leftover /\ tree[p] = "absent"
    BY <1>3
  <2>2. PICK v \in Workers : pr[v] = p
    BY <1>1, <2>1 DEF LeftoverIsThere
  <2> QED BY <1>2, <2>1, <2>2
<1>8. StartedAddsUp' /\ started' <= begun'
  <2>1. Cardinality(Running)' = Cardinality(Running)
    BY <1>1, RunningMoves
  <2>2. FailedReviews' = FailedReviews
    BY <1>1 DEF FailedReviews
  <2> QED BY <1>1, <2>1, <2>2 DEF StartedAddsUp
<1> QED BY <1>4, <1>5, <1>6, <1>7, <1>l, <1>8 DEF ServiceInv

LEMMA PushStep ==
    ASSUME ServiceInv, NEW p \in PRs, Push(p)
    PROVE  ServiceInv'
<1>1. /\ TypeOK /\ head[p] < MaxPushes /\ head' = [head EXCEPT ![p] = head[p] + 1]
      /\ UNCHANGED <<tree, branch, version, pc, pr, counterVars, historyVars>>
  BY DEF ServiceInv, Push
<1>2. head' \in [PRs -> 0..MaxPushes]
  <2>1. head[p] + 1 \in 0..MaxPushes
    BY <1>1, ReviewServiceAssumption DEF TypeOK
  <2> QED BY <1>1, <2>1 DEF TypeOK
<1>3. TypeOK'
  BY <1>1, <1>2 DEF TypeOK, counterVars, historyVars
<1>4. /\ Occupied' /\ AloneUnlessShared' /\ TreeInv' /\ NothingLeftBehind'
      /\ LeftoverIsThere' /\ StartedAddsUp' /\ started' <= begun'
  BY <1>1 DEF ServiceInv, Occupied, AloneUnlessShared, TreeInv, Stage,
              NothingLeftBehind, LeftoverIsThere, StartedAddsUp, Running, FailedReviews, Peers, counterVars, historyVars
<1> QED BY <1>3, <1>4 DEF ServiceInv

LEMMA CrashStep ==
    ASSUME ServiceInv, Crash
    PROVE  ServiceInv'
<1>1. /\ TypeOK /\ started <= begun
      /\ leftover' = {p \in PRs : tree[p] # "absent"}
      /\ pc' = [w \in Workers |-> "idle"] /\ pr' = [w \in Workers |-> NoPR]
      /\ started' = 0 /\ succeeded' = 0 /\ panics' = 0
      /\ failed' = [c \in ErrorCodes |-> 0]
      /\ began' = [w \in Workers |-> 0]
      /\ stale' = [w \in Workers |-> FALSE] /\ shared' = [w \in Workers |-> FALSE]
      /\ UNCHANGED <<head, tree, branch, version, begun>>
  BY DEF ServiceInv, Crash, worldVars
<1>2. TypeOK'
  <2>1. /\ failed' \in [ErrorCodes -> 0..MaxReviews]
        /\ began' \in [Workers -> 0..MaxPushes]
    BY <1>1, ReviewServiceAssumption
  <2>2. started' \in 0..MaxReviews /\ succeeded' \in 0..MaxReviews /\ panics' \in 0..MaxReviews
    BY <1>1, ReviewServiceAssumption
  <2>3. /\ stale' \in [Workers -> BOOLEAN] /\ shared' \in [Workers -> BOOLEAN]
        /\ leftover' \subseteq PRs
    BY <1>1
  <2> QED BY <1>1, <2>1, <2>2, <2>3 DEF TypeOK
<1>3. /\ Occupied' /\ AloneUnlessShared' /\ TreeInv' /\ NothingLeftBehind'
      /\ LeftoverIsThere'
  BY <1>1 DEF Occupied, AloneUnlessShared, TreeInv, NothingLeftBehind, LeftoverIsThere
<1>4. StartedAddsUp' /\ started' <= begun'
  <2>1. Running' = {}
    BY <1>1 DEF Running
  <2>2. Cardinality(Running)' = 0
    BY <2>1, FS_EmptySet
  <2>3. FailedReviews' = 0
    BY <1>1 DEF FailedReviews, ErrorCodes
  <2> QED BY <1>1, <2>2, <2>3, CountersAreNumbers DEF StartedAddsUp
<1> QED BY <1>2, <1>3, <1>4 DEF ServiceInv
-----------------------------------------------------------------------------
(* The theorems *)

LEMMA ServiceStep ==
    ASSUME ServiceInv, [Next]_vars
    PROVE  ServiceInv'
<1>1. ASSUME NEW w \in Workers, Step(w) PROVE ServiceInv'
  BY <1>1, WorksStep, LeaveStep DEF Step, Works
<1>2. ASSUME NEW w \in Workers, NEW p \in PRs, Begin(w, p) PROVE ServiceInv'
  BY <1>2, BeginStep
<1>3. ASSUME NEW p \in PRs, Push(p) PROVE ServiceInv'
  BY <1>3, PushStep
<1>4. CASE Crash
  BY <1>4, CrashStep
<1>5. CASE UNCHANGED vars
  BY <1>5 DEF ServiceInv, vars, worldVars, counterVars, historyVars, TypeOK,
              Occupied, AloneUnlessShared, TreeInv, Stage, NothingLeftBehind,
              LeftoverIsThere, StartedAddsUp, Running, FailedReviews, Peers
<1> QED BY <1>1, <1>2, <1>3, <1>4, <1>5 DEF Next

\* The reviews, their directories and the counters stay as ServiceInv relates
\* them (review_service.go and repository.go), over overlaps and crashes.
THEOREM ServiceInvariant == Spec => []ServiceInv
<1>1. Init => ServiceInv
  BY ServiceInit
<1>2. ServiceInv /\ [Next]_vars => ServiceInv'
  BY ServiceStep
<1> QED BY <1>1, <1>2, PTL DEF Spec

\* The types, and review_started_total as the sum of what becomes of reviews
\* (handleReviewError and the counters of ReviewPullRequest).
THEOREM ServiceSound == Spec => []Sound
<1>1. ServiceInv => Sound
  BY DEF ServiceInv, Sound
<1> QED BY <1>1, ServiceInvariant, PTL

\* Every way out of a review removes its clone (the deferred Clean).
THEOREM ServiceNothingLeftBehind == Spec => []NothingLeftBehind
<1>1. ServiceInv => NothingLeftBehind
  BY DEF ServiceInv
<1> QED BY <1>1, ServiceInvariant, PTL

\* The agent works on a complete tree that its own review prepared, unless
\* reviews of the pull request overlap or an update failed (GetOrUpdate): the
\* default branch, or the source branch where a clone was left over.
THEOREM ServiceReviewsPreparedTree == Spec => []ReviewsPreparedTree
<1>1. ServiceInv => ReviewsPreparedTree
  BY ReviewServiceAssumption
     DEF ServiceInv, TypeOK, Occupied, TreeInv, Stage, ReviewsPreparedTree
<1> QED BY <1>1, ServiceInvariant, PTL

\* And the clone stays as it is until that review ends, on the same condition.
THEOREM ServiceTreeStable == Spec => TreeStableUnderReview
<1> DEFINE Stable ==
      \A w \in Workers :
          pc[w] = "reviewing" /\ pc'[w] = "reviewing" /\ ~shared'[w] =>
              /\ tree'[pr[w]] = tree[pr[w]]
              /\ branch'[pr[w]] = branch[pr[w]]
              /\ version'[pr[w]] = version[pr[w]]
<1>1. ServiceInv /\ [Next]_vars => [Stable]_vars
  <2> SUFFICES ASSUME ServiceInv, [Next]_vars, NEW w \in Workers,
                      pc[w] = "reviewing", pc'[w] = "reviewing", ~shared'[w]
               PROVE  /\ tree'[pr[w]] = tree[pr[w]]
                      /\ branch'[pr[w]] = branch[pr[w]]
                      /\ version'[pr[w]] = version[pr[w]]
    OBVIOUS
  <2>1. TypeOK /\ Occupied /\ AloneUnlessShared /\ pr[w] \in PRs
    BY DEF ServiceInv, TypeOK, Occupied
  <2>2. ASSUME NEW v \in Workers, v # w, ~shared[w] PROVE pr[v] # pr[w]
    BY <2>1, <2>2, ReviewServiceAssumption DEF AloneUnlessShared, Peers
  <2>3. ASSUME NEW v \in Workers, Works(v)
        PROVE  /\ tree'[pr[w]] = tree[pr[w]] /\ branch'[pr[w]] = branch[pr[w]]
               /\ version'[pr[w]] = version[pr[w]]
    <3>1. OwnStep(v)
      BY <2>1, <2>3, WorksIsOwnStep
    <3>2. v # w /\ ~shared[w]
      BY <3>1 DEF OwnStep
    <3> QED BY <2>1, <2>2, <3>1, <3>2 DEF OwnStep
  <2>4. ASSUME NEW v \in Workers, Clean(v) \/ CleanFails(v)
        PROVE  /\ tree'[pr[w]] = tree[pr[w]] /\ branch'[pr[w]] = branch[pr[w]]
               /\ version'[pr[w]] = version[pr[w]]
    <3>1. v # w /\ shared' = shared /\ branch' = branch /\ version' = version
      BY <2>4 DEF Clean, CleanFails, Leave
    <3>2. pr[v] # pr[w]
      BY <2>2, <3>1
    <3> QED BY <2>1, <2>4, <3>1, <3>2 DEF Clean, CleanFails, TypeOK
  <2>5. CASE (\E v \in Workers, p \in PRs : Begin(v, p)) \/ (\E p \in PRs : Push(p))
    BY <2>5 DEF Begin, Push, worldVars
  <2>6. CASE Crash \/ UNCHANGED vars
    BY <2>6 DEF Crash, vars, worldVars
  <2> QED BY <2>3, <2>4, <2>5, <2>6 DEF Next, Step, Works
<1> QED BY <1>1, ServiceInvariant, PTL DEF Spec, TreeStableUnderReview
=============================================================================

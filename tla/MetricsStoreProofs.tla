------------------------- MODULE MetricsStoreProofs -------------------------
(***************************************************************************)
(* Proofs about MetricsStore, for any finite set of workers and bounds.    *)
(*                                                                         *)
(* CountInv relates the tracked values to what Prometheus shows, to what   *)
(* ever happened and to the workers in the middle of a review.  SaveInv is *)
(* about the saves under way, StoreInv about what they leave behind.       *)
(***************************************************************************)
EXTENDS MetricsStore, FiniteSetTheorems, TLAPS

At(place)  == {w \in Workers : review[w] = place}
Num(place) == Cardinality(At(place))

\* Saves do not mix the rows of two histories.
Trusted == ~(forgot /\ kind = "sqlite")

Below(f, g) == \A c \in Counters : f[c] <= g[c]
Ordered(f)  == f["cost"] <= f["started"]

CountInv ==
    /\ exposed["started"] + Num("starting") = values["started"]
    /\ exposed["cost"] + Num("ending") = values["cost"]
    /\ happened["cost"] + Num("starting") + Num("running") <= happened["started"]
    /\ Below(values, happened)
    /\ Trusted =>
          values["cost"] + Num("starting") + Num("running") <= values["started"]

\* p.mu, or the one writer of the database.
OneSaver ==
    \A s, t \in Savers :
        saver[s] \in {"writing", "written"} /\ saver[t] \in {"writing", "written"}
            => s = t

SaveInv ==
    /\ OneSaver
    /\ \A s \in Savers : kind = "file" /\ saver[s] = "written" => tmp = snap[s]
    /\ \A s \in Savers : saver[s] # "idle" =>
          Below(snap[s], values) /\ (Trusted => Ordered(snap[s]))
    /\ saver["final"] # "idle" => cancelled
    /\ main = "down" => \A s \in Savers : saver[s] = "idle"

\* Saves that no other one can overtake.
Alone(s) == ~CtxDone(s) /\ (kind = "sqlite" \/ ~cancelled)

StoreInv ==
    /\ store # Torn
    /\ Below(Content(store), happened)
    /\ Trusted => Ordered(Content(store))
    /\ ~forgot => Below(Content(store), values)
    /\ ~forgot => \A s \in Savers :
          saver[s] # "idle" /\ Alone(s) => Below(Content(store), snap[s])

StoreIInv == StoreTypeOK /\ CountInv /\ SaveInv /\ StoreInv
-----------------------------------------------------------------------------
(* Workers *)

\* The number of workers at a place is a number, positive if one is there.
LEMMA NumType ==
    ASSUME NEW place
    PROVE  /\ IsFiniteSet(At(place)) /\ Num(place) \in Nat
           /\ \A w \in At(place) : Num(place) >= 1
<1>1. IsFiniteSet(At(place))
  BY MetricsStoreAssumption, FS_Subset DEF At
<1>2. Num(place) \in Nat
  BY <1>1, FS_CardinalityType DEF Num
<1>3. ASSUME NEW w \in At(place) PROVE Num(place) >= 1
  <2>1. Cardinality(At(place)) # 0
    BY <1>1, <1>3, FS_EmptySet
  <2> QED BY <2>1, <1>2 DEF Num
<1> QED BY <1>1, <1>2, <1>3

\* A worker that goes on is counted at its new place instead of its old one.
LEMMA EnterMoves ==
    ASSUME StoreTypeOK, NEW w \in Workers, NEW from, NEW to, from # to,
           to \in {"idle", "starting", "running", "ending"},
           Enter(w, from, to)
    PROVE  /\ Num(from) \in Nat /\ Num(to) \in Nat
           /\ Num(from) >= 1
           /\ Num(from)' = Num(from) - 1
           /\ Num(to)' = Num(to) + 1
           /\ \A place : place # from /\ place # to => Num(place)' = Num(place)
           /\ review' \in [Workers -> {"idle", "starting", "running", "ending"}]
<1>1. /\ review[w] = from
      /\ review' = [review EXCEPT ![w] = to]
      /\ review \in [Workers -> {"idle", "starting", "running", "ending"}]
  BY DEF Enter, StoreTypeOK
<1>2. w \in At(from) /\ w \notin At(to)
  BY <1>1 DEF At
<1>3. At(from)' = At(from) \ {w}
  BY <1>1 DEF At
<1>4. At(to)' = At(to) \union {w}
  BY <1>1 DEF At
<1>5. ASSUME NEW place, place # from, place # to PROVE At(place)' = At(place)
  BY <1>1, <1>5 DEF At
<1>6. Num(from) \in Nat /\ Num(to) \in Nat /\ Num(from) >= 1
  BY <1>2, NumType
<1>7. Num(from)' = Num(from) - 1
  BY <1>2, <1>3, NumType, FS_RemoveElement DEF Num
<1>8. Num(to)' = Num(to) + 1
  BY <1>2, <1>4, NumType, FS_AddElement DEF Num
<1>9. review' \in [Workers -> {"idle", "starting", "running", "ending"}]
  BY <1>1
<1> QED BY <1>5, <1>6, <1>7, <1>8, <1>9 DEF Num

\* With every worker idle nobody is at another place.
LEMMA NobodyThere ==
    ASSUME NEW place, place # "idle", review = [w \in Workers |-> "idle"]
    PROVE  Num(place) = 0
<1>1. At(place) = {}
  BY DEF At
<1> QED BY <1>1, FS_EmptySet DEF Num

\* The same of the next state, for a restart.
LEMMA NobodyThereNext ==
    ASSUME NEW place, place # "idle", review' = [w \in Workers |-> "idle"]
    PROVE  Num(place)' = 0
<1>1. At(place)' = {}
  BY DEF At
<1> QED BY <1>1, FS_EmptySet DEF Num
-----------------------------------------------------------------------------
(* The store *)

\* Whatever is stored reads as counts.
LEMMA ContentCounts ==
    ASSUME NEW st \in Counts \union {None, Torn}
    PROVE  Content(st) \in Counts /\ (st \in Counts => Content(st) = st)
BY MetricsStoreAssumption DEF Content, Counts, Zero, Counters

\* An upsert takes each row from the old table or from the snapshot, and has
\* just the snapshot if no row of the table was higher.
LEMMA UpsertRows ==
    ASSUME NEW old \in Counts \union {None}, NEW new \in Counts
    PROVE  /\ Upsert(old, new) \in Counts
           /\ \A c \in Counters :
                 \/ Upsert(old, new)[c] = new[c]
                 \/ Upsert(old, new)[c] = Content(old)[c]
           /\ Below(Content(old), new) =>
                 \A c \in Counters : Upsert(old, new)[c] = new[c]
<1>1. CASE old = None
  BY <1>1 DEF Upsert
<1>2. CASE old \in Counts
  <2>1. old # None /\ Content(old) = old
    BY <1>2, ContentCounts, MetricsStoreAssumption
  <2>2. Upsert(old, new) =
            [c \in Counters |-> IF new[c] > 0 THEN new[c] ELSE old[c]]
    BY <2>1 DEF Upsert
  <2>3. \A c \in Counters : new[c] \in 0..MaxReviews /\ old[c] \in 0..MaxReviews
    BY <1>2 DEF Counts
  <2> QED BY <2>1, <2>2, <2>3, MetricsStoreAssumption DEF Counts, Below
<1> QED BY <1>1, <1>2
-----------------------------------------------------------------------------
(* The initial states *)

LEMMA StoreInitInv == StoreInit => StoreIInv
<1> SUFFICES ASSUME StoreInit PROVE StoreIInv
  OBVIOUS
<1> USE MetricsStoreAssumption DEF StoreInit
<1>1. StoreTypeOK
  <2>1. Zero \in Counts
    BY DEF Counts, Zero
  <2>2. review \in [Workers -> {"idle", "starting", "running", "ending"}]
    OBVIOUS
  <2>3. /\ saver \in [Savers -> {"idle", "snapped", "writing", "written"}]
        /\ snap \in [Savers -> Counts]
    BY <2>1
  <2>4. starts \in 0..MaxStarts
    OBVIOUS
  <2>5. main = "up" /\ cancelled = FALSE /\ forgot = FALSE /\ saved = FALSE
    OBVIOUS
  <2>6. /\ values \in Counts /\ exposed \in Counts /\ happened \in Counts
        /\ tmp = None /\ store = None /\ kind \in {"file", "sqlite"}
    BY <2>1
  <2> HIDE DEF StoreInit
  <2> QED BY <2>2, <2>3, <2>4, <2>5, <2>6 DEF StoreTypeOK
<1>2. Num("starting") = 0 /\ Num("running") = 0 /\ Num("ending") = 0
  BY NobodyThere
<1>3. CountInv
  BY <1>2 DEF CountInv, Zero, Counters, Below
<1>4. SaveInv
  BY DEF SaveInv, OneSaver, Savers
<1>5. StoreInv
  BY DEF StoreInv, Content, Zero, Counters, Below, Ordered, Savers
<1> QED BY <1>1, <1>3, <1>4, <1>5 DEF StoreIInv
-----------------------------------------------------------------------------
(* Counting *)

\* What the typing of the counters says of one of them.
LEMMA CountsAreNumbers ==
    ASSUME StoreTypeOK
    PROVE  /\ MaxReviews \in Nat
           /\ \A c \in Counters :
                 /\ values[c] \in 0..MaxReviews
                 /\ exposed[c] \in 0..MaxReviews
                 /\ happened[c] \in 0..MaxReviews
           /\ values \in Counts /\ exposed \in Counts /\ happened \in Counts
           /\ "started" \in Counters /\ "cost" \in Counters
BY MetricsStoreAssumption DEF StoreTypeOK, Counts, Counters

\* One tracked counter goes up, if there is room.
LEMMA TrackAdds ==
    ASSUME StoreTypeOK, NEW c \in Counters, Track(c),
           happened[c] < MaxReviews, values[c] < MaxReviews
    PROVE  /\ values' \in Counts /\ happened' \in Counts /\ exposed' = exposed
           /\ values'[c] = values[c] + 1
           /\ happened'[c] = happened[c] + 1
           /\ \A d \in Counters : d # c =>
                 values'[d] = values[d] /\ happened'[d] = happened[d]
<1>1. /\ values' = [values EXCEPT ![c] = values[c] + 1]
      /\ happened' = [happened EXCEPT ![c] = happened[c] + 1]
      /\ exposed' = exposed
  BY DEF Track
<1>2. values[c] + 1 \in 0..MaxReviews /\ happened[c] + 1 \in 0..MaxReviews
  BY CountsAreNumbers
<1>3. values \in [Counters -> 0..MaxReviews] /\ happened \in [Counters -> 0..MaxReviews]
  BY CountsAreNumbers DEF Counts
<1>4. values' \in Counts /\ happened' \in Counts
  BY <1>1, <1>2, <1>3 DEF Counts
<1>5. \A d \in Counters :
         /\ values'[d] = IF d = c THEN values[c] + 1 ELSE values[d]
         /\ happened'[d] = IF d = c THEN happened[c] + 1 ELSE happened[d]
  BY <1>1, <1>3
<1> QED BY <1>1, <1>4, <1>5

\* One exposed counter goes up, if there is room.
LEMMA ExposeAdds ==
    ASSUME StoreTypeOK, NEW c \in Counters, Expose(c), exposed[c] < MaxReviews
    PROVE  /\ exposed' \in Counts /\ values' = values /\ happened' = happened
           /\ exposed'[c] = exposed[c] + 1
           /\ \A d \in Counters : d # c => exposed'[d] = exposed[d]
<1>1. /\ exposed' = [exposed EXCEPT ![c] = exposed[c] + 1]
      /\ values' = values /\ happened' = happened
  BY DEF Expose
<1>2. exposed[c] + 1 \in 0..MaxReviews
  BY CountsAreNumbers
<1>3. exposed \in [Counters -> 0..MaxReviews]
  BY CountsAreNumbers DEF Counts
<1>4. exposed' \in Counts
  BY <1>1, <1>2, <1>3 DEF Counts
<1>5. \A d \in Counters : exposed'[d] = IF d = c THEN exposed[c] + 1 ELSE exposed[d]
  BY <1>1, <1>3
<1> QED BY <1>1, <1>4, <1>5

\* Counting more disturbs neither the saves under way nor the store.
LEMMA CountsGrow ==
    ASSUME StoreIInv, Below(values, values'), Below(happened, happened'),
           values' \in Counts, happened' \in Counts,
           UNCHANGED <<kind, processVars, saveVars>>
    PROVE  SaveInv' /\ StoreInv'
<1>1. /\ kind' = kind /\ main' = main /\ cancelled' = cancelled
      /\ forgot' = forgot /\ saver' = saver /\ snap' = snap /\ tmp' = tmp
      /\ store' = store
  BY DEF processVars, saveVars
<1>2. \A c \in Counters :
         /\ values[c] \in Nat /\ happened[c] \in Nat
         /\ values'[c] \in Nat /\ happened'[c] \in Nat
         /\ values[c] <= values'[c] /\ happened[c] <= happened'[c]
         /\ Content(store)[c] \in Nat
  <2>1. Content(store) \in Counts
    BY ContentCounts DEF StoreIInv, StoreTypeOK
  <2> QED BY <2>1, MetricsStoreAssumption DEF Below, StoreIInv, StoreTypeOK, Counts
<1>3. \A s \in Savers, c \in Counters : snap[s][c] \in Nat
  BY MetricsStoreAssumption DEF StoreIInv, StoreTypeOK, Counts
<1>4. SaveInv'
  <2>1. OneSaver'
    BY <1>1 DEF StoreIInv, SaveInv, OneSaver
  <2>2. ASSUME NEW s \in Savers, saver[s] # "idle"
        PROVE  Below(snap[s], values') /\ (Trusted => Ordered(snap[s]))
    BY <2>2, <1>2, <1>3 DEF StoreIInv, SaveInv, Below
  <2> QED BY <1>1, <2>1, <2>2 DEF StoreIInv, SaveInv, Trusted, Below, Ordered
<1>5. StoreInv'
  <2>1. Content(store') = Content(store)
    BY <1>1
  <2>2. Below(Content(store), happened')
    BY <1>2 DEF StoreIInv, StoreInv, Below
  <2>3. ~forgot => Below(Content(store), values')
    BY <1>2 DEF StoreIInv, StoreInv, Below
  <2> QED BY <1>1, <2>1, <2>2, <2>3
          DEF StoreIInv, StoreInv, Trusted, Below, Ordered, Alone, CtxDone
<1> QED BY <1>4, <1>5

\* Every counting step keeps the invariant.  A worker in a review has begun
\* one, so there is room to count its end.
LEMMA CountStep ==
    ASSUME StoreIInv, NEW w \in Workers, Count(w)
    PROVE  StoreIInv'
<1>0. StoreTypeOK /\ CountInv
  BY DEF StoreIInv
<1>n. /\ Num("starting") \in Nat /\ Num("running") \in Nat /\ Num("ending") \in Nat
  BY NumType
<1>c. /\ \A c \in Counters : values[c] <= happened[c]
      /\ exposed["started"] + Num("starting") = values["started"]
      /\ exposed["cost"] + Num("ending") = values["cost"]
      /\ happened["cost"] + Num("starting") + Num("running") <= happened["started"]
      /\ Trusted =>
            values["cost"] + Num("starting") + Num("running") <= values["started"]
  BY <1>0 DEF CountInv, Below
<1>1. CASE BeginReview(w)
  <2>1. /\ Enter(w, "idle", "starting") /\ Track("started")
        /\ happened["started"] < MaxReviews
        /\ UNCHANGED <<kind, processVars, saveVars>>
    BY <1>1 DEF BeginReview
  <2>2. /\ Num("starting")' = Num("starting") + 1
        /\ Num("running")' = Num("running") /\ Num("ending")' = Num("ending")
        /\ review' \in [Workers -> {"idle", "starting", "running", "ending"}]
    BY <1>0, <2>1, EnterMoves
  <2>3. /\ values' \in Counts /\ happened' \in Counts /\ exposed' = exposed
        /\ values'["started"] = values["started"] + 1
        /\ happened'["started"] = happened["started"] + 1
        /\ values'["cost"] = values["cost"] /\ happened'["cost"] = happened["cost"]
    BY <1>0, <1>c, <2>1, CountsAreNumbers, TrackAdds DEF Counters
  <2>4. StoreTypeOK'
    BY <1>0, <2>1, <2>2, <2>3 DEF StoreTypeOK, processVars, saveVars
  <2>5. CountInv'
    BY <1>0, <1>n, <1>c, <2>1, <2>2, <2>3, CountsAreNumbers
       DEF CountInv, Below, Trusted, processVars, Counters
  <2>6. Below(values, values') /\ Below(happened, happened')
    BY <1>0, <2>3, CountsAreNumbers DEF Below, Counters
  <2> QED BY <2>1, <2>3, <2>4, <2>5, <2>6, CountsGrow DEF StoreIInv
<1>2. CASE BegunExposed(w)
  <2>1. /\ Enter(w, "starting", "running") /\ Expose("started")
        /\ UNCHANGED <<kind, processVars, saveVars>>
    BY <1>2 DEF BegunExposed
  <2>2. /\ Num("starting")' = Num("starting") - 1
        /\ Num("starting") >= 1
        /\ Num("running")' = Num("running") + 1 /\ Num("ending")' = Num("ending")
        /\ review' \in [Workers -> {"idle", "starting", "running", "ending"}]
    BY <1>0, <2>1, EnterMoves
  <2>3. /\ exposed' \in Counts /\ values' = values /\ happened' = happened
        /\ exposed'["started"] = exposed["started"] + 1
        /\ exposed'["cost"] = exposed["cost"]
    BY <1>0, <1>n, <1>c, <2>1, <2>2, CountsAreNumbers, ExposeAdds DEF Counters
  <2>4. StoreTypeOK'
    BY <1>0, <2>1, <2>2, <2>3 DEF StoreTypeOK, processVars, saveVars
  <2>5. CountInv'
    BY <1>0, <1>n, <1>c, <2>1, <2>2, <2>3, CountsAreNumbers
       DEF CountInv, Below, Trusted, processVars, Counters
  <2>6. Below(values, values') /\ Below(happened, happened')
    BY <1>0, <2>3, CountsAreNumbers DEF Below
  <2>7. values' \in Counts /\ happened' \in Counts
    BY <1>0, <2>3, CountsAreNumbers
  <2> QED BY <2>1, <2>4, <2>5, <2>6, <2>7, CountsGrow DEF StoreIInv
<1>3. CASE EndReview(w)
  <2>1. /\ Enter(w, "running", "ending") /\ Track("cost")
        /\ UNCHANGED <<kind, processVars, saveVars>>
    BY <1>3 DEF EndReview
  <2>2. /\ Num("running")' = Num("running") - 1
        /\ Num("running") >= 1
        /\ Num("ending")' = Num("ending") + 1
        /\ Num("starting")' = Num("starting")
        /\ review' \in [Workers -> {"idle", "starting", "running", "ending"}]
    BY <1>0, <2>1, EnterMoves
  <2>3. /\ values' \in Counts /\ happened' \in Counts /\ exposed' = exposed
        /\ values'["cost"] = values["cost"] + 1
        /\ happened'["cost"] = happened["cost"] + 1
        /\ values'["started"] = values["started"]
        /\ happened'["started"] = happened["started"]
    BY <1>0, <1>n, <1>c, <2>1, <2>2, CountsAreNumbers, TrackAdds DEF Counters
  <2>4. StoreTypeOK'
    BY <1>0, <2>1, <2>2, <2>3 DEF StoreTypeOK, processVars, saveVars
  <2>5. CountInv'
    BY <1>0, <1>n, <1>c, <2>1, <2>2, <2>3, CountsAreNumbers
       DEF CountInv, Below, Trusted, processVars, Counters
  <2>6. Below(values, values') /\ Below(happened, happened')
    BY <1>0, <2>3, CountsAreNumbers DEF Below, Counters
  <2> QED BY <2>1, <2>3, <2>4, <2>5, <2>6, CountsGrow DEF StoreIInv
<1>4. CASE FailReview(w)
  <2>1. /\ Enter(w, "running", "idle")
        /\ values' = values /\ exposed' = exposed /\ happened' = happened
        /\ UNCHANGED <<kind, processVars, saveVars>>
    BY <1>4 DEF FailReview
  <2>2. /\ Num("running")' = Num("running") - 1
        /\ Num("ending")' = Num("ending")
        /\ Num("starting")' = Num("starting")
        /\ review' \in [Workers -> {"idle", "starting", "running", "ending"}]
    BY <1>0, <2>1, EnterMoves
  <2>4. StoreTypeOK'
    BY <1>0, <2>1, <2>2 DEF StoreTypeOK, processVars, saveVars
  <2>5. CountInv'
    BY <1>0, <1>n, <1>c, <2>1, <2>2, CountsAreNumbers
       DEF CountInv, Below, Trusted, processVars, Counters
  <2>6. Below(values, values') /\ Below(happened, happened')
    BY <1>0, <2>1, CountsAreNumbers DEF Below
  <2>7. values' \in Counts /\ happened' \in Counts
    BY <1>0, <2>1, CountsAreNumbers
  <2> QED BY <2>1, <2>4, <2>5, <2>6, <2>7, CountsGrow DEF StoreIInv
<1>5. CASE EndedExposed(w)
  <2>1. /\ Enter(w, "ending", "idle") /\ Expose("cost")
        /\ UNCHANGED <<kind, processVars, saveVars>>
    BY <1>5 DEF EndedExposed
  <2>2. /\ Num("ending")' = Num("ending") - 1
        /\ Num("ending") >= 1
        /\ Num("running")' = Num("running") /\ Num("starting")' = Num("starting")
        /\ review' \in [Workers -> {"idle", "starting", "running", "ending"}]
    BY <1>0, <2>1, EnterMoves
  <2>3. /\ exposed' \in Counts /\ values' = values /\ happened' = happened
        /\ exposed'["cost"] = exposed["cost"] + 1
        /\ exposed'["started"] = exposed["started"]
    BY <1>0, <1>n, <1>c, <2>1, <2>2, CountsAreNumbers, ExposeAdds DEF Counters
  <2>4. StoreTypeOK'
    BY <1>0, <2>1, <2>2, <2>3 DEF StoreTypeOK, processVars, saveVars
  <2>5. CountInv'
    BY <1>0, <1>n, <1>c, <2>1, <2>2, <2>3, CountsAreNumbers
       DEF CountInv, Below, Trusted, processVars, Counters
  <2>6. Below(values, values') /\ Below(happened, happened')
    BY <1>0, <2>3, CountsAreNumbers DEF Below
  <2>7. values' \in Counts /\ happened' \in Counts
    BY <1>0, <2>3, CountsAreNumbers
  <2> QED BY <2>1, <2>4, <2>5, <2>6, <2>7, CountsGrow DEF StoreIInv
<1> QED BY <1>1, <1>2, <1>3, <1>4, <1>5 DEF Count
-----------------------------------------------------------------------------
(* Steps that count nothing *)

\* They keep CountInv, if they do not forget more or less than before.
LEMMA CountInvKept ==
    ASSUME CountInv, UNCHANGED <<kind, forgot, countVars>>
    PROVE  CountInv'
BY DEF CountInv, countVars, Num, At, Below, Trusted

\* Nor do they disturb StoreInv, if they leave the store and the snapshots of
\* the saves under way alone and no save becomes one that nothing overtakes.
LEMMA StoreInvKept ==
    ASSUME StoreInv, UNCHANGED <<kind, forgot, countVars, store>>,
           \A s \in Savers : saver'[s] # "idle" /\ Alone(s)' =>
                saver[s] # "idle" /\ Alone(s) /\ snap'[s] = snap[s]
    PROVE  StoreInv'
BY DEF StoreInv, countVars, Below, Trusted, Ordered

\* A snapshot is what is tracked at this moment.
LEMMA SnapshotTaken ==
    ASSUME StoreTypeOK, CountInv, SaveInv, StoreInv, NEW s \in Savers, Snapshot(s),
           UNCHANGED <<kind, forgot, countVars, tmp, store>>,
           main # "down", main' # "down",
           cancelled => cancelled', s = "final" => cancelled'
    PROVE  SaveInv' /\ StoreInv'
<1>1. /\ saver[s] = "idle"
      /\ saver' = [saver EXCEPT ![s] = "snapped"]
      /\ snap' = [snap EXCEPT ![s] = values]
  BY DEF Snapshot, Move
<1>2. /\ kind' = kind /\ forgot' = forgot /\ values' = values
      /\ happened' = happened /\ tmp' = tmp /\ store' = store
  BY DEF countVars
<1>3. /\ saver'[s] = "snapped" /\ snap'[s] = values
      /\ \A t \in Savers : t # s => saver'[t] = saver[t] /\ snap'[t] = snap[t]
  BY <1>1 DEF StoreTypeOK
<1>4. \A c \in Counters : values[c] \in Nat
  BY CountsAreNumbers
<1>5. Num("starting") \in Nat /\ Num("running") \in Nat
  BY NumType
<1>6. Below(values, values) /\ (Trusted => Ordered(values))
  <2>1. values["cost"] \in Nat /\ values["started"] \in Nat
    BY <1>4 DEF Counters
  <2> QED BY <1>4, <1>5, <2>1 DEF CountInv, Below, Ordered
<1>7. SaveInv'
  <2>1. OneSaver'
    BY <1>3 DEF SaveInv, OneSaver
  <2>2. \A t \in Savers : kind' = "file" /\ saver'[t] = "written" => tmp' = snap'[t]
    BY <1>2, <1>3 DEF SaveInv
  <2>3. \A t \in Savers : saver'[t] # "idle" =>
            Below(snap'[t], values') /\ (Trusted' => Ordered(snap'[t]))
    BY <1>2, <1>3, <1>6 DEF SaveInv, Trusted
  <2>4. saver'["final"] # "idle" => cancelled'
    BY <1>3 DEF SaveInv, Savers
  <2> QED BY <2>1, <2>2, <2>3, <2>4 DEF SaveInv, Below, Ordered
<1>8. StoreInv'
  <2>1. ASSUME NEW t \in Savers, ~forgot', saver'[t] # "idle", Alone(t)'
        PROVE  Below(Content(store), snap'[t])
    <3>1. CASE t = s
      BY <3>1, <2>1, <1>2, <1>3 DEF StoreInv
    <3>2. CASE t # s
      <4>1. saver[t] # "idle" /\ snap'[t] = snap[t]
        BY <3>2, <2>1, <1>3
      <4>2. Alone(t)
        BY <2>1, <1>2 DEF Alone, CtxDone
      <4> QED BY <4>1, <4>2, <2>1, <1>2 DEF StoreInv
    <3> QED BY <3>1, <3>2
  <2> QED BY <2>1, <1>2 DEF StoreInv, Trusted, Below, Ordered
<1> QED BY <1>7, <1>8

LEMMA TickStep ==
    ASSUME StoreIInv, PeriodicSave
    PROVE  StoreIInv'
<1>1. /\ StoreTypeOK /\ CountInv /\ SaveInv /\ StoreInv
      /\ main # "down" /\ Snapshot("periodic")
      /\ UNCHANGED <<kind, processVars, countVars, tmp, store, saved>>
  BY DEF StoreIInv, PeriodicSave
<1>2. StoreTypeOK'
  BY <1>1 DEF StoreTypeOK, Snapshot, Move, Savers, processVars, countVars
<1>3. CountInv'
  BY <1>1, CountInvKept DEF processVars
<1>4. SaveInv' /\ StoreInv'
  BY <1>1, SnapshotTaken DEF processVars, Savers
<1> QED BY <1>2, <1>3, <1>4 DEF StoreIInv

LEMMA StopStep ==
    ASSUME StoreIInv, Stop
    PROVE  StoreIInv'
<1>1. /\ StoreTypeOK /\ CountInv /\ SaveInv /\ StoreInv
      /\ main = "up" /\ main' = "saving" /\ cancelled' = TRUE
      /\ Snapshot("final")
      /\ UNCHANGED <<kind, starts, forgot, countVars, tmp, store, saved>>
  BY DEF StoreIInv, Stop
<1>2. StoreTypeOK'
  BY <1>1 DEF StoreTypeOK, Snapshot, Move, Savers, countVars
<1>3. CountInv'
  BY <1>1, CountInvKept
<1>4. SaveInv' /\ StoreInv'
  BY <1>1, SnapshotTaken DEF Savers
<1> QED BY <1>2, <1>3, <1>4 DEF StoreIInv

\* A save gets the lock, or the transaction.
LEMMA PersistStep ==
    ASSUME StoreIInv, NEW s \in Savers, Persist(s)
    PROVE  StoreIInv'
<1>1. /\ StoreTypeOK /\ CountInv /\ SaveInv /\ StoreInv
      /\ saver[s] = "snapped" /\ ~Locked
      /\ tmp' = IF kind = "file" THEN Torn ELSE tmp
      /\ saver' = [saver EXCEPT ![s] = "writing"]
      /\ UNCHANGED <<kind, processVars, countVars, snap, store, saved>>
  BY DEF StoreIInv, Persist, Move
<1>2. StoreTypeOK'
  BY <1>1 DEF StoreTypeOK, processVars, countVars
<1>3. CountInv'
  BY <1>1, CountInvKept DEF processVars
<1>4. /\ saver'[s] = "writing"
      /\ \A t \in Savers : t # s => saver'[t] = saver[t]
      /\ \A t \in Savers : saver[t] \notin {"writing", "written"}
  BY <1>1 DEF StoreTypeOK, Locked
<1>5. SaveInv'
  <2>1. OneSaver'
    BY <1>4 DEF OneSaver
  <2>2. \A t \in Savers : saver'[t] # "written"
    BY <1>4
  <2>3. \A t \in Savers : saver'[t] # "idle" => saver[t] # "idle"
    BY <1>1, <1>4
  <2>4. main # "down" /\ main' = main /\ "final" \in Savers
    BY <1>1 DEF SaveInv, processVars, Savers
  <2> QED BY <1>1, <2>1, <2>2, <2>3, <2>4
          DEF SaveInv, processVars, countVars, Below, Trusted, Ordered
<1>6. StoreInv'
  BY <1>1, <1>4, StoreInvKept DEF processVars, Alone, CtxDone
<1> QED BY <1>2, <1>3, <1>5, <1>6 DEF StoreIInv

LEMMA WriteDoneStep ==
    ASSUME StoreIInv, NEW s \in Savers, WriteDone(s)
    PROVE  StoreIInv'
<1>1. /\ StoreTypeOK /\ CountInv /\ SaveInv /\ StoreInv
      /\ saver[s] = "writing"
      /\ tmp' = IF kind = "file" THEN snap[s] ELSE tmp
      /\ saver' = [saver EXCEPT ![s] = "written"]
      /\ UNCHANGED <<kind, processVars, countVars, snap, store, saved>>
  BY DEF StoreIInv, WriteDone, Move
<1>2. StoreTypeOK'
  BY <1>1 DEF StoreTypeOK, processVars, countVars
<1>3. CountInv'
  BY <1>1, CountInvKept DEF processVars
<1>4. /\ saver'[s] = "written"
      /\ \A t \in Savers : t # s => saver'[t] = saver[t]
      /\ \A t \in Savers : t # s => saver[t] \notin {"writing", "written"}
  BY <1>1 DEF StoreTypeOK, SaveInv, OneSaver
<1>5. SaveInv'
  <2>1. OneSaver'
    BY <1>4 DEF OneSaver
  <2>2. \A t \in Savers : kind' = "file" /\ saver'[t] = "written" => tmp' = snap'[t]
    BY <1>1, <1>4
  <2>3. \A t \in Savers : saver'[t] # "idle" => saver[t] # "idle"
    BY <1>1, <1>4
  <2>4. main # "down" /\ main' = main /\ "final" \in Savers
    BY <1>1 DEF SaveInv, processVars, Savers
  <2> QED BY <1>1, <2>1, <2>2, <2>3, <2>4
          DEF SaveInv, processVars, countVars, Below, Trusted, Ordered
<1>6. StoreInv'
  BY <1>1, <1>4, StoreInvKept DEF processVars, Alone, CtxDone
<1> QED BY <1>2, <1>3, <1>5, <1>6 DEF StoreIInv

\* What SaveReturns leaves of SaveInv: one save less is under way, and the
\* temporary file is that of another save only if this one was not writing.
LEMMA SaveEnds ==
    ASSUME StoreTypeOK, SaveInv, NEW s \in Savers, NEW ok \in BOOLEAN,
           SaveReturns(s, ok), UNCHANGED kind, saver[s] # "idle",
           saver[s] = "written" \/ tmp' = tmp
    PROVE  /\ SaveInv'
           /\ saver'[s] = "idle"
           /\ \A t \in Savers : t # s => saver'[t] = saver[t]
           /\ saver' \in [Savers -> {"idle", "snapped", "writing", "written"}]
           /\ main' \in {"up", "saving", "closed", "draining", "down"}
           /\ saved' \in BOOLEAN
<1>1. /\ saver' = [saver EXCEPT ![s] = "idle"]
      /\ main' = IF s = "final" THEN "closed" ELSE main
      /\ saved' = (saved \/ (s = "final" /\ ok))
      /\ UNCHANGED <<cancelled, starts, forgot, countVars, snap>>
  BY DEF SaveReturns, Move
<1>2. /\ saver'[s] = "idle"
      /\ \A t \in Savers : t # s => saver'[t] = saver[t]
      /\ saver' \in [Savers -> {"idle", "snapped", "writing", "written"}]
  BY <1>1 DEF StoreTypeOK
<1>3. saved' \in BOOLEAN /\ main' \in {"up", "saving", "closed", "draining", "down"}
  BY <1>1 DEF StoreTypeOK
<1>4. OneSaver'
  BY <1>2 DEF SaveInv, OneSaver
<1>5. \A t \in Savers : kind' = "file" /\ saver'[t] = "written" => tmp' = snap'[t]
  <2> SUFFICES ASSUME NEW t \in Savers, kind = "file", saver'[t] = "written"
               PROVE  tmp' = snap[t]
    BY <1>1
  <2>1. t # s /\ saver[t] = "written"
    BY <1>2
  <2>2. saver[s] # "written"
    BY <2>1 DEF SaveInv, OneSaver
  <2> QED BY <2>1, <2>2 DEF SaveInv
<1>6. \A t \in Savers : saver'[t] # "idle" => saver[t] # "idle"
  BY <1>2
<1>7. main # "down" /\ main' # "down" /\ "final" \in Savers
  BY <1>1 DEF SaveInv, Savers
<1>8. SaveInv'
  BY <1>1, <1>4, <1>5, <1>6, <1>7
     DEF SaveInv, countVars, Below, Trusted, Ordered
<1> QED BY <1>2, <1>3, <1>8

LEMMA SaveFailsStep ==
    ASSUME StoreIInv, NEW s \in Savers, SaveFails(s)
    PROVE  StoreIInv'
<1>1. /\ StoreTypeOK /\ CountInv /\ SaveInv /\ StoreInv
      /\ saver[s] # "idle"
      /\ tmp' = IF kind = "file" /\ saver[s] = "written" THEN None ELSE tmp
      /\ store' = store
      /\ SaveReturns(s, FALSE)
  BY DEF StoreIInv, SaveFails
<1>2. UNCHANGED <<kind, cancelled, starts, forgot, countVars, snap>>
  BY <1>1 DEF SaveReturns
<1>3. /\ SaveInv'
      /\ saver'[s] = "idle"
      /\ \A t \in Savers : t # s => saver'[t] = saver[t]
      /\ saver' \in [Savers -> {"idle", "snapped", "writing", "written"}]
      /\ main' \in {"up", "saving", "closed", "draining", "down"}
      /\ saved' \in BOOLEAN
  BY <1>1, <1>2, SaveEnds
<1>4. StoreTypeOK'
  BY <1>1, <1>2, <1>3 DEF StoreTypeOK, countVars
<1>5. CountInv'
  BY <1>1, <1>2, CountInvKept
<1>6. StoreInv'
  BY <1>1, <1>2, <1>3, StoreInvKept DEF Alone, CtxDone
<1> QED BY <1>3, <1>4, <1>5, <1>6 DEF StoreIInv

\* What a save that nothing overtakes leaves in the store: its snapshot.
\* Otherwise a row is the snapshot's or the one that was there.
LEMMA Committed ==
    ASSUME StoreTypeOK, CountInv, SaveInv, StoreInv, NEW s \in Savers, Commit(s)
    PROVE  /\ store' \in Counts
           /\ \A c \in Counters :
                 \/ store'[c] = snap[s][c]
                 \/ store'[c] = Content(store)[c]
           /\ kind = "file" \/ (~forgot /\ Alone(s)) =>
                 \A c \in Counters : store'[c] = snap[s][c]
<1>1. snap[s] \in Counts /\ saver[s] = "written" /\ ~CtxDone(s)
  BY DEF StoreTypeOK, Commit
<1>2. CASE kind = "file"
  <2>1. store' = tmp /\ tmp = snap[s]
    BY <1>1, <1>2 DEF Commit, SaveInv
  <2> QED BY <1>1, <2>1
<1>3. CASE kind # "file"
  <2>1. store' = Upsert(store, snap[s]) /\ kind = "sqlite"
    BY <1>3 DEF Commit, StoreTypeOK
  <2>2. store \in Counts \union {None}
    BY DEF StoreTypeOK, StoreInv
  <2>3. ~forgot /\ Alone(s) => Below(Content(store), snap[s])
    BY <1>1 DEF StoreInv
  <2> QED BY <1>1, <1>3, <2>1, <2>2, <2>3, UpsertRows
<1> QED BY <1>2, <1>3

\* Two saves that nothing overtakes are the same one: before Stop only the
\* ticker saves, and after it the ticker's context is done.
LEMMA OneAlone ==
    ASSUME SaveInv, NEW s \in Savers, NEW t \in Savers, saver[s] # "idle",
           saver[t] # "idle", Alone(t), ~CtxDone(s), StoreTypeOK
    PROVE  s = t
<1>1. CASE cancelled
  <2>1. kind = "sqlite" /\ s # "periodic" /\ t # "periodic"
    BY <1>1 DEF Alone, CtxDone
  <2> QED BY <2>1 DEF Savers
<1>2. CASE ~cancelled
  BY <1>2 DEF SaveInv, Savers
<1> QED BY <1>1, <1>2

LEMMA CommitStep ==
    ASSUME StoreIInv, NEW s \in Savers, Commit(s)
    PROVE  StoreIInv'
<1>1. /\ StoreTypeOK /\ CountInv /\ SaveInv /\ StoreInv
      /\ saver[s] = "written" /\ ~CtxDone(s)
      /\ SaveReturns(s, TRUE)
      /\ tmp' = tmp \/ tmp' = None
  BY DEF StoreIInv, Commit
<1>2. UNCHANGED <<kind, cancelled, starts, forgot, countVars, snap>>
  BY <1>1 DEF SaveReturns
<1>3. /\ SaveInv'
      /\ saver'[s] = "idle"
      /\ \A t \in Savers : t # s => saver'[t] = saver[t]
      /\ saver' \in [Savers -> {"idle", "snapped", "writing", "written"}]
      /\ main' \in {"up", "saving", "closed", "draining", "down"}
      /\ saved' \in BOOLEAN
  BY <1>1, <1>2, SaveEnds
<1>4. /\ store' \in Counts
      /\ \A c \in Counters :
            \/ store'[c] = snap[s][c]
            \/ store'[c] = Content(store)[c]
      /\ kind = "file" \/ (~forgot /\ Alone(s)) =>
            \A c \in Counters : store'[c] = snap[s][c]
  BY <1>1, Committed
<1>5. StoreTypeOK'
  BY <1>1, <1>2, <1>3, <1>4 DEF StoreTypeOK, countVars
<1>6. CountInv'
  BY <1>1, <1>2, CountInvKept
<1>7. Content(store') = store' /\ store' # Torn
  BY <1>4, ContentCounts, MetricsStoreAssumption
<1>8. \A c \in Counters :
         /\ values[c] \in Nat /\ happened[c] \in Nat /\ snap[s][c] \in Nat
         /\ snap[s][c] <= values[c] /\ values[c] <= happened[c]
         /\ Content(store)[c] \in Nat /\ Content(store)[c] <= happened[c]
         /\ ~forgot => Content(store)[c] <= values[c]
  <2>1. Content(store) \in Counts /\ snap[s] \in Counts
    BY <1>1, ContentCounts DEF StoreTypeOK
  <2>2. Below(snap[s], values) /\ Below(values, happened)
    BY <1>1 DEF SaveInv, CountInv
  <2>3. Below(Content(store), happened) /\ (~forgot => Below(Content(store), values))
    BY <1>1 DEF StoreInv
  <2>4. MaxReviews \in Nat /\ (\A c \in Counters :
           values[c] \in 0..MaxReviews /\ happened[c] \in 0..MaxReviews)
    BY <1>1, CountsAreNumbers
  <2> QED BY <2>1, <2>2, <2>3, <2>4 DEF Below, Counts
<1>9. StoreInv'
  <2>1. Below(store', happened')
    BY <1>2, <1>4, <1>8 DEF Below, countVars
  <2>2. ~forgot' => Below(store', values')
    BY <1>2, <1>4, <1>8 DEF Below, countVars
  <2>3. Trusted' => Ordered(store')
    <3> SUFFICES ASSUME Trusted PROVE Ordered(store')
      BY <1>2 DEF Trusted
    <3>1. kind = "file" \/ (~forgot /\ Alone(s))
      BY <1>1 DEF Trusted, Alone, StoreTypeOK
    <3>2. Ordered(snap[s])
      BY <1>1 DEF SaveInv
    <3> QED BY <1>4, <3>1, <3>2 DEF Ordered, Counters
  <2>4. ASSUME NEW t \in Savers, saver'[t] # "idle", Alone(t)' PROVE FALSE
    <3>1. t # s /\ saver[t] # "idle"
      BY <1>3, <2>4
    <3>2. Alone(t)
      BY <1>2, <2>4 DEF Alone, CtxDone
    <3> QED BY <1>1, <3>1, <3>2, OneAlone
  <2> QED BY <1>7, <2>1, <2>2, <2>3, <2>4 DEF StoreInv
<1> QED BY <1>3, <1>5, <1>6, <1>9 DEF StoreIInv
-----------------------------------------------------------------------------
(* The process *)

LEMMA StopQueueStep ==
    ASSUME StoreIInv, StopQueue
    PROVE  StoreIInv'
<1>1. /\ StoreTypeOK /\ CountInv /\ SaveInv /\ StoreInv
      /\ main = "closed" /\ main' = "draining"
      /\ UNCHANGED <<kind, cancelled, starts, forgot, countVars, saveVars>>
  BY DEF StoreIInv, StopQueue
<1>2. StoreTypeOK'
  BY <1>1 DEF StoreTypeOK, countVars, saveVars
<1>3. CountInv'
  BY <1>1, CountInvKept
<1>4. SaveInv'
  BY <1>1 DEF SaveInv, OneSaver, countVars, saveVars, Below, Trusted, Ordered
<1>5. StoreInv'
  BY <1>1, StoreInvKept DEF saveVars, Alone, CtxDone
<1> QED BY <1>2, <1>3, <1>4, <1>5 DEF StoreIInv

\* The end of a process, in order or not, ends its saves.
LEMMA EndStep ==
    ASSUME StoreIInv, Exit \/ Crash
    PROVE  StoreIInv'
<1>1. /\ StoreTypeOK /\ CountInv /\ SaveInv /\ StoreInv
      /\ main' = "down"
      /\ saver' = [s \in Savers |-> "idle"]
      /\ saved' \in BOOLEAN
      /\ UNCHANGED <<kind, cancelled, starts, forgot, countVars, snap, tmp, store>>
  BY DEF StoreIInv, Exit, Crash, StoreTypeOK
<1>2. \A s \in Savers : saver'[s] = "idle"
  BY <1>1
<1>3. StoreTypeOK'
  BY <1>1 DEF StoreTypeOK, countVars
<1>4. CountInv'
  BY <1>1, CountInvKept
<1>5. SaveInv'
  BY <1>2 DEF SaveInv, OneSaver, Savers
<1>6. StoreInv'
  BY <1>1, <1>2, StoreInvKept
<1> QED BY <1>3, <1>4, <1>5, <1>6 DEF StoreIInv

\* A process counts on from the store or, if it cannot be read, from zero.
LEMMA RestartStep ==
    ASSUME StoreIInv, Restart
    PROVE  StoreIInv'
<1>1. /\ StoreTypeOK /\ CountInv /\ SaveInv /\ StoreInv
      /\ main = "down" /\ main' = "up" /\ starts < MaxStarts
      /\ cancelled' = FALSE /\ saved' = FALSE
      /\ review' = [w \in Workers |-> "idle"]
      /\ snap' = [s \in Savers |-> Zero]
      /\ starts' = starts + 1
      /\ UNCHANGED <<kind, happened, saver, tmp, store>>
  BY DEF StoreIInv, Restart
<1>2. PICK st \in Counts \union {None, Torn} :
         /\ values' = Content(st) /\ exposed' = Content(st)
         /\ \/ st = store /\ forgot' = forgot
            \/ Content(st) = Zero /\ forgot' = TRUE
  <2>1. CASE Restore(store) /\ UNCHANGED forgot
    BY <1>1, <2>1 DEF StoreTypeOK, Restore
  <2>2. CASE Restore(None) /\ forgot' = TRUE
    BY <2>2 DEF Restore, Content
  <2> QED BY <2>1, <2>2 DEF Restart
<1>3. Content(st) \in Counts /\ Zero \in Counts
  BY ContentCounts, MetricsStoreAssumption DEF Counts, Zero
<1>4. \A s \in Savers : saver'[s] = "idle"
  BY <1>1 DEF SaveInv
<1>5. Num("starting")' = 0 /\ Num("running")' = 0 /\ Num("ending")' = 0
  BY <1>1, NobodyThereNext
<1>6. \A c \in Counters : Content(st)[c] \in Nat /\ happened[c] \in Nat
  BY <1>1, <1>3, CountsAreNumbers DEF Counts
<1>7. Below(Content(st), happened)
  <2>1. CASE st = store
    BY <1>1, <2>1 DEF StoreInv
  <2>2. CASE Content(st) = Zero
    BY <1>6, <2>2 DEF Below, Zero
  <2> QED BY <1>2, <2>1, <2>2
<1>8. Trusted' => Trusted /\ Ordered(Content(st))
  <2>1. Trusted' => Trusted
    BY <1>1, <1>2 DEF Trusted
  <2>2. CASE st = store
    BY <1>1, <2>1, <2>2 DEF StoreInv
  <2>3. CASE Content(st) = Zero
    BY <2>1, <2>3 DEF Ordered, Zero, Counters
  <2> QED BY <1>2, <2>1, <2>2, <2>3
<1>9. StoreTypeOK'
  <2>1. review' \in [Workers -> {"idle", "starting", "running", "ending"}]
    BY <1>1
  <2>2. snap' \in [Savers -> Counts]
    BY <1>1, <1>3
  <2>3. starts' \in 0..MaxStarts
    BY <1>1, MetricsStoreAssumption DEF StoreTypeOK
  <2>4. forgot' \in BOOLEAN
    BY <1>1, <1>2 DEF StoreTypeOK
  <2> QED BY <1>1, <1>2, <1>3, <2>1, <2>2, <2>3, <2>4 DEF StoreTypeOK
<1>10. CountInv'
  <2>1. happened'["cost"] <= happened'["started"]
    <3>1. Num("starting") \in Nat /\ Num("running") \in Nat
      BY NumType
    <3>2. happened["cost"] \in Nat /\ happened["started"] \in Nat
      BY <1>6 DEF Counters
    <3> QED BY <1>1, <3>1, <3>2 DEF CountInv
  <2>2. /\ Content(st)["cost"] \in Nat /\ Content(st)["started"] \in Nat
        /\ happened'["cost"] \in Nat /\ happened'["started"] \in Nat
    BY <1>1, <1>6 DEF Counters
  <2>3. Below(values', happened')
    BY <1>1, <1>2, <1>7 DEF Below
  <2> QED BY <1>2, <1>5, <1>8, <2>1, <2>2, <2>3 DEF CountInv, Ordered
<1>11. SaveInv'
  BY <1>1, <1>4 DEF SaveInv, OneSaver, Savers
<1>12. StoreInv'
  <2>1. ~forgot' => Below(Content(store), values')
    <3> SUFFICES ASSUME ~forgot' PROVE Below(Content(store), Content(st))
      BY <1>2
    <3> QED BY <1>2, <1>6 DEF Below
  <2> QED BY <1>1, <1>4, <1>8, <2>1 DEF StoreInv, Below, Ordered
<1> QED BY <1>9, <1>10, <1>11, <1>12 DEF StoreIInv
-----------------------------------------------------------------------------
(* The theorems *)

LEMMA StoreStep ==
    ASSUME StoreIInv, [StoreNext]_storeVars
    PROVE  StoreIInv'
<1>1. ASSUME NEW w \in Workers, Count(w) PROVE StoreIInv'
  BY <1>1, CountStep
<1>2. CASE PeriodicSave
  BY <1>2, TickStep
<1>3. ASSUME NEW s \in Savers, Save(s) PROVE StoreIInv'
  BY <1>3, PersistStep, WriteDoneStep, CommitStep, SaveFailsStep DEF Save
<1>4. CASE Stop
  BY <1>4, StopStep
<1>5. CASE StopQueue
  BY <1>5, StopQueueStep
<1>6. CASE Exit \/ Crash
  BY <1>6, EndStep
<1>7. CASE Restart
  BY <1>7, RestartStep
<1>8. CASE UNCHANGED storeVars
  <2>1. UNCHANGED <<kind, processVars, countVars, saveVars>>
    BY <1>8 DEF storeVars
  <2>2. CountInv' /\ StoreInv'
    BY <2>1, CountInvKept, StoreInvKept
       DEF StoreIInv, processVars, saveVars, Alone, CtxDone
  <2>3. SaveInv'
    BY <2>1 DEF StoreIInv, SaveInv, OneSaver, processVars, countVars, saveVars,
                Below, Trusted, Ordered
  <2>4. StoreTypeOK'
    BY <2>1 DEF StoreIInv, StoreTypeOK, processVars, countVars, saveVars
  <2> QED BY <2>2, <2>3, <2>4 DEF StoreIInv
<1> QED BY <1>1, <1>2, <1>3, <1>4, <1>5, <1>6, <1>7, <1>8 DEF StoreNext

\* The counts of all processes, the saves under way and the store stay in the
\* relations of CountInv, SaveInv and StoreInv (collector.go and both
\* persisters), over overlapping saves, crashes and restarts.
THEOREM StoreInvariant == StoreSpec => []StoreIInv
<1>1. StoreInit => StoreIInv
  BY StoreInitInv
<1>2. StoreIInv /\ [StoreNext]_storeVars => StoreIInv'
  BY StoreStep
<1> QED BY <1>1, <1>2, PTL DEF StoreSpec

\* The types, a store that can be read, and neither Prometheus nor the store
\* saying more than has happened, nor Prometheus something else than what is
\* tracked (Save, Restore and trackValue of collector.go).
THEOREM StoreSoundness == StoreSpec => []StoreSound
<1>1. ASSUME StoreIInv PROVE StoreSound
  <2>1. StoreTypeOK /\ StoreReadable
    BY <1>1 DEF StoreIInv, StoreInv, StoreReadable
  <2>2. /\ \A c \in Counters :
              exposed[c] \in Nat /\ values[c] \in Nat /\ happened[c] \in Nat
        /\ Num("starting") \in Nat /\ Num("ending") \in Nat
    BY <2>1, CountsAreNumbers, NumType
  <2>3. /\ Cardinality(Between("started")) = Num("starting")
        /\ Cardinality(Between("cost")) = Num("ending")
    BY DEF Between, Num, At
  <2>4. \A c \in Counters :
           /\ exposed[c] + Cardinality(Between(c)) = values[c]
           /\ Cardinality(Between(c)) \in Nat
           /\ values[c] <= happened[c]
    BY <1>1, <2>2, <2>3 DEF StoreIInv, CountInv, Counters, Below
  <2>5. ExposedFollowsTracked
    BY <2>2, <2>4, FS_EmptySet DEF ExposedFollowsTracked
  <2>6. NeverOverstates
    <3>1. \A c \in Counters : exposed[c] <= happened[c]
      BY <2>2, <2>4
    <3> QED BY <1>1, <3>1 DEF StoreIInv, StoreInv, Below, NeverOverstates
  <2> QED BY <2>1, <2>5, <2>6 DEF StoreSound, CountsAreTrue
<1> QED BY <1>1, StoreInvariant, PTL

\* No stored review has a cost without having begun, except for SQLite after a
\* failed restore (the upsert of persistence_sqlite.go).
THEOREM StoreConsistent == StoreSpec => []StoredInOrder
<1>1. StoreIInv => StoredInOrder
  BY DEF StoreIInv, StoreInv, StoredInOrder, Trusted, Ordered
<1> QED BY <1>1, StoreInvariant, PTL

\* No save lowers a stored count, with the exceptions StoreNeverGoesBack names
\* (the order of periodic and final save in application.go).
THEOREM StoreMonotone == StoreSpec => StoreNeverGoesBack
<1> DEFINE Kept == \A c \in Counters :
                      \/ Content(store')[c] >= Content(store)[c]
                      \/ forgot
                      \/ kind = "file" /\ cancelled
<1>1. StoreIInv /\ [StoreNext]_storeVars => [Kept]_storeVars
  <2> SUFFICES ASSUME StoreIInv, [StoreNext]_storeVars PROVE [Kept]_storeVars
    OBVIOUS
  <2>1. Content(store) \in Counts
    BY ContentCounts DEF StoreIInv, StoreTypeOK
  <2>2. \A c \in Counters : Content(store)[c] \in Nat
    BY <2>1, MetricsStoreAssumption DEF Counts
  <2>3. ASSUME NEW s \in Savers, Commit(s), ~forgot,
               ~(kind = "file" /\ cancelled), NEW c \in Counters
        PROVE  Content(store')[c] >= Content(store)[c]
    <3>1. Alone(s) /\ saver[s] # "idle"
      BY <2>3 DEF Commit, Alone, StoreIInv, StoreTypeOK
    <3>2. Below(Content(store), snap[s])
      BY <2>3, <3>1 DEF StoreIInv, StoreInv
    <3>3. store' \in Counts /\ store'[c] = snap[s][c]
      BY <2>3, <3>1, Committed DEF StoreIInv
    <3>4. Content(store') = store'
      BY <3>3, ContentCounts
    <3>5. snap[s][c] \in Nat
      BY MetricsStoreAssumption DEF StoreIInv, StoreTypeOK, Counts
    <3> QED BY <2>2, <3>2, <3>3, <3>4, <3>5 DEF Below
  <2>4. (\E s \in Savers : Commit(s)) \/ store' = store \/ UNCHANGED storeVars
    BY DEF StoreNext, Count, BeginReview, BegunExposed, EndReview, FailReview,
                EndedExposed, PeriodicSave, Save, Persist, WriteDone, SaveFails, Stop,
                StopQueue, Exit, Crash, Restart, saveVars
  <2> QED BY <2>2, <2>3, <2>4
<1> QED BY <1>1, StoreInvariant, PTL DEF StoreSpec, StoreNeverGoesBack
=============================================================================

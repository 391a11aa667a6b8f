-------------------------- MODULE ReviewRunProofs ---------------------------
(***************************************************************************)
(* Theorems about ReviewRun, for all jobs, retry limits and numbers of     *)
(* requests that go wrong: how the worker, the agent and Bitbucket stand   *)
(* to each other.                                                          *)
(***************************************************************************)
EXTENDS ReviewRun, FiniteSetTheorems, TLAPS

Emojis == Client!Emojis

\* The places at which an emoji is on the comment, and those at which it is
\* not, if its own requests went well.  Around a retry PROCESSING may be either.
InProgress == {"check", "repository", "profile", "review", "agent", "backoff",
               "clear", "giveUp", "panicked", "panicClear"}

ShownAt ==
    ({"PROCESSING"} \X InProgress) \union ({"SUCCESS"} \X {"succeeded"})
        \union ({"FAILED"} \X {"comment", "failed"})

HiddenAt ==
    ({"QUEUED"} \X (Labels \ {"unqueue"}))
        \union ({"PROCESSING"} \X (Labels \ (InProgress \union {"unqueue", "mark"})))
        \union ({"SUCCESS"} \X (Labels \ {"succeeded"}))
        \union ({"FAILED"} \X (Labels \ {"comment", "failed"}))

EmojiInv ==
    \A j \in Manual, e \in Emojis :
        \/ <<j, e>> \in broken
        \/ /\ <<e, pc[j]>> \in ShownAt => e \in reactions[j]
           /\ <<e, pc[j]>> \in HiddenAt => e \notin reactions[j]

\* A request under way is one that went wrong.
LateIsBroken == \A r \in late : <<r.comment, r.emoji>> \in broken

\* Jobs that failed and whose comment went wrong.
Untold ==
    {j \in Jobs : pc[j] \in {"panicClear", "panicBlame", "failed"} /\ j \notin told}

\* Each of these took a request of its own that went wrong.
Blamed == broken \union {<<j, "comment">> : j \in Untold}

FaultInv == IsFiniteSet(Blamed) /\ Cardinality(Blamed) <= faults

\* A job that waits was reviewed no more often than requeued, and not at all
\* if it has met no time limit; one under review, once more than that.
TriesInv ==
    \A j \in Jobs :
        /\ Stage(pc[j]) \in {"absent", "waiting"} =>
              reviews[j] <= retryCount[j] /\ (reviews[j] > 0 => j \in timedOut)
        /\ Stage(pc[j]) = "reviewing" => reviews[j] <= retryCount[j] + 1

RunInv ==
    /\ TypeOK /\ NoAgentLeftBehind /\ RetriesAreTimeouts /\ TriesInv
    /\ EmojiInv /\ LateIsBroken /\ FaultInv
-----------------------------------------------------------------------------
(* Bitbucket *)

\* What a request about one emoji of one comment can do.
RequestEffect(j, emoji) ==
    /\ Client!ClientTypeOK' /\ LateIsBroken'
    /\ \A c \in Manual, e \in Emojis : c # j \/ e # emoji =>
          (e \in reactions'[c] <=> e \in reactions[c])
    /\ \/ broken' = broken /\ faults' = faults
       \/ /\ broken' = broken \union {<<j, emoji>>} /\ faults' = faults + 1
          /\ j \in Manual

\* Either way the request has the effect of a PUT or a DELETE, or is broken.
LEMMA AddEffect ==
    ASSUME TypeOK, LateIsBroken, NEW j \in Jobs, NEW emoji \in Emojis,
           Add(j, emoji)
    PROVE  /\ RequestEffect(j, emoji)
           /\ j \in Manual /\ <<j, emoji>> \notin broken' => emoji \in reactions'[j]
<1>1. CASE j \notin Manual
  <2>1. UNCHANGED clientVars
    BY <1>1 DEF Add
  <2> QED BY <1>1, <2>1
          DEF TypeOK, LateIsBroken, RequestEffect, clientVars, Client!ClientTypeOK
<1>2. CASE j \in Manual
  <2> DEFINE r == Client!Put(j, emoji)
  <2>1. Client!AddCommentReaction(j, emoji)
    BY <1>2 DEF Add
  <2>2. /\ r.method = "PUT" /\ r.comment = j /\ r.emoji = emoji
        /\ r \in Client!Requests
    BY <1>2 DEF Client!Put, Client!Requests, Emojis
  <2>3. /\ Client!Applied(r) = [reactions EXCEPT ![j] = @ \union {emoji}]
        /\ Client!Applied(r) \in [Manual -> SUBSET Emojis]
        /\ emoji \in Client!Applied(r)[j]
        /\ \A c \in Manual, e \in Emojis : c # j \/ e # emoji =>
              (e \in Client!Applied(r)[c] <=> e \in reactions[c])
    BY <1>2, <2>2 DEF Client!Applied, TypeOK, Client!ClientTypeOK, Emojis
  <2> HIDE DEF r
  <2>4. CASE Client!GoesWell(r) /\ tracker' = [tracker EXCEPT ![j] = emoji]
    <3>1. /\ reactions' = Client!Applied(r) /\ late' = late
          /\ faults' = faults /\ broken' = broken
      BY <2>4 DEF Client!GoesWell
    <3>2. Client!ClientTypeOK'
      BY <2>3, <2>4, <3>1, <1>2 DEF TypeOK, Client!ClientTypeOK, Emojis
    <3> QED BY <2>3, <3>1, <3>2 DEF RequestEffect, LateIsBroken
  <2>5. CASE Client!GoesWrong(r) /\ UNCHANGED tracker
    <3>1. /\ faults < MaxFaults /\ faults' = faults + 1
          /\ broken' = broken \union {<<j, emoji>>}
          /\ \/ reactions' = Client!Applied(r) /\ late' = late
             \/ reactions' = reactions /\ late' = late
             \/ reactions' = reactions /\ late' = late \union {r}
      BY <2>2, <2>5 DEF Client!GoesWrong
    <3>2. faults' \in 0..MaxFaults
      BY <3>1, ReviewRunAssumption DEF TypeOK, Client!ClientTypeOK
    <3>3. broken' \subseteq Manual \X Emojis
      BY <3>1, <1>2 DEF TypeOK, Client!ClientTypeOK, Emojis
    <3>4. Client!ClientTypeOK'
      BY <2>2, <2>3, <2>5, <3>1, <3>2, <3>3 DEF TypeOK, Client!ClientTypeOK, Emojis
    <3>5. LateIsBroken'
      BY <2>2, <3>1 DEF LateIsBroken
    <3>6. <<j, emoji>> \in broken'
      BY <3>1
    <3> QED BY <1>2, <2>3, <3>1, <3>4, <3>5, <3>6 DEF RequestEffect
  <2> QED BY <2>1, <2>4, <2>5 DEF Client!AddCommentReaction, r
<1> QED BY <1>1, <1>2

LEMMA RemoveEffect ==
    ASSUME TypeOK, LateIsBroken, NEW j \in Jobs, NEW emoji \in Emojis,
           Remove(j, emoji)
    PROVE  /\ RequestEffect(j, emoji)
           /\ j \in Manual /\ <<j, emoji>> \notin broken' => emoji \notin reactions'[j]
<1>1. CASE j \notin Manual
  <2>1. UNCHANGED clientVars
    BY <1>1 DEF Remove
  <2> QED BY <1>1, <2>1
          DEF TypeOK, LateIsBroken, RequestEffect, clientVars, Client!ClientTypeOK
<1>2. CASE j \in Manual
  <2> DEFINE r == Client!Delete(j, emoji)
  <2>1. Client!RemoveCommentReaction(j, emoji)
    BY <1>2 DEF Remove
  <2>2. /\ r.method = "DELETE" /\ r.comment = j /\ r.emoji = emoji
        /\ r \in Client!Requests
    BY <1>2 DEF Client!Delete, Client!Requests, Emojis
  <2>3. /\ Client!Applied(r) = [reactions EXCEPT ![j] = @ \ {emoji}]
        /\ Client!Applied(r) \in [Manual -> SUBSET Emojis]
        /\ emoji \notin Client!Applied(r)[j]
        /\ \A c \in Manual, e \in Emojis : c # j \/ e # emoji =>
              (e \in Client!Applied(r)[c] <=> e \in reactions[c])
    BY <1>2, <2>2 DEF Client!Applied, TypeOK, Client!ClientTypeOK, Emojis
  <2>0. tracker' \in [Manual -> Emojis \union {Client!NoEmoji}]
    BY <2>1, <1>2 DEF Client!RemoveCommentReaction, TypeOK, Client!ClientTypeOK, Emojis
  <2>6. Client!GoesWell(r) \/ Client!GoesWrong(r)
    BY <2>1 DEF Client!RemoveCommentReaction
  <2> HIDE DEF r
  <2>4. CASE Client!GoesWell(r)
    <3>1. /\ reactions' = Client!Applied(r) /\ late' = late
          /\ faults' = faults /\ broken' = broken
      BY <2>4 DEF Client!GoesWell
    <3>2. Client!ClientTypeOK'
      BY <2>0, <2>3, <3>1, <1>2 DEF TypeOK, Client!ClientTypeOK, Emojis
    <3> QED BY <2>3, <3>1, <3>2 DEF RequestEffect, LateIsBroken
  <2>5. CASE Client!GoesWrong(r)
    <3>1. /\ faults < MaxFaults /\ faults' = faults + 1
          /\ broken' = broken \union {<<j, emoji>>}
          /\ \/ reactions' = Client!Applied(r) /\ late' = late
             \/ reactions' = reactions /\ late' = late
             \/ reactions' = reactions /\ late' = late \union {r}
      BY <2>2, <2>5 DEF Client!GoesWrong
    <3>2. faults' \in 0..MaxFaults
      BY <3>1, ReviewRunAssumption DEF TypeOK, Client!ClientTypeOK
    <3>3. broken' \subseteq Manual \X Emojis
      BY <3>1, <1>2 DEF TypeOK, Client!ClientTypeOK, Emojis
    <3>4. Client!ClientTypeOK'
      BY <2>0, <2>2, <2>3, <3>1, <3>2, <3>3 DEF TypeOK, Client!ClientTypeOK, Emojis
    <3>5. LateIsBroken'
      BY <2>2, <3>1 DEF LateIsBroken
    <3>6. <<j, emoji>> \in broken'
      BY <3>1
    <3> QED BY <1>2, <2>3, <3>1, <3>4, <3>5, <3>6 DEF RequestEffect
  <2> QED BY <2>6, <2>4, <2>5
<1> QED BY <1>1, <1>2

\* A comment is posted, or took a request that went wrong.
LEMMA CommentEffect ==
    ASSUME TypeOK, LateIsBroken, NEW posted \in BOOLEAN, Client!PostComment(posted)
    PROVE  /\ Client!ClientTypeOK' /\ LateIsBroken'
           /\ reactions' = reactions /\ broken' = broken
           /\ \/ posted /\ faults' = faults
              \/ faults' = faults + 1
<1>1. /\ reactions' = reactions /\ tracker' = tracker /\ late' = late
      /\ broken' = broken
      /\ \/ posted /\ faults' = faults
         \/ faults < MaxFaults /\ faults' = faults + 1
  BY DEF Client!PostComment
<1>2. faults' \in 0..MaxFaults
  BY <1>1, ReviewRunAssumption DEF TypeOK, Client!ClientTypeOK
<1> QED BY <1>1, <1>2 DEF TypeOK, Client!ClientTypeOK, LateIsBroken
-----------------------------------------------------------------------------
(* Emojis and faults over a step of a worker *)

\* A job goes from one place to another without a lie about any emoji but one.
Carries(place, next, emoji) ==
    \A e \in Emojis : e # emoji =>
        /\ <<e, next>> \in ShownAt => <<e, place>> \in ShownAt
        /\ <<e, next>> \in HiddenAt => <<e, place>> \in HiddenAt

LEMMA EmojisAfterRequest ==
    ASSUME TypeOK, EmojiInv, NEW j \in Jobs, NEW emoji \in Emojis,
           NEW place, NEW next, pc[j] = place, Goto(j, next),
           Carries(place, next, emoji), RequestEffect(j, emoji),
           j \in Manual /\ <<j, emoji>> \notin broken' =>
              /\ <<emoji, next>> \in ShownAt => emoji \in reactions'[j]
              /\ <<emoji, next>> \in HiddenAt => emoji \notin reactions'[j]
    PROVE  EmojiInv'
<1> SUFFICES ASSUME NEW c \in Manual, NEW e \in Emojis, <<c, e>> \notin broken'
             PROVE  /\ <<e, pc'[c]>> \in ShownAt => e \in reactions'[c]
                    /\ <<e, pc'[c]>> \in HiddenAt => e \notin reactions'[c]
  BY DEF EmojiInv
<1>1. pc'[j] = next /\ (\A k \in Jobs : k # j => pc'[k] = pc[k]) /\ c \in Jobs
  BY ReviewRunAssumption DEF Goto, TypeOK
<1>2. <<c, e>> \notin broken
  BY DEF RequestEffect
<1>3. CASE c = j /\ e = emoji
  BY <1>1, <1>3
<1>4. CASE c # j \/ e # emoji
  <2>1. e \in reactions'[c] <=> e \in reactions[c]
    BY <1>4 DEF RequestEffect
  <2>2. /\ <<e, pc'[c]>> \in ShownAt => <<e, pc[c]>> \in ShownAt
        /\ <<e, pc'[c]>> \in HiddenAt => <<e, pc[c]>> \in HiddenAt
    BY <1>1, <1>4 DEF Carries
  <2> QED BY <1>2, <2>1, <2>2 DEF EmojiInv
<1> QED BY <1>3, <1>4

\* Without a request: the places must agree about every emoji.
LEMMA EmojisAfterMove ==
    ASSUME TypeOK, EmojiInv, NEW j \in Jobs, NEW place, NEW next,
           pc[j] = place, Goto(j, next), Carries(place, next, "none"),
           UNCHANGED <<reactions, broken>>
    PROVE  EmojiInv'
<1> SUFFICES ASSUME NEW c \in Manual, NEW e \in Emojis, <<c, e>> \notin broken
             PROVE  /\ <<e, pc'[c]>> \in ShownAt => e \in reactions[c]
                    /\ <<e, pc'[c]>> \in HiddenAt => e \notin reactions[c]
  BY DEF EmojiInv
<1>1. pc'[j] = next /\ (\A k \in Jobs : k # j => pc'[k] = pc[k]) /\ c \in Jobs
  BY ReviewRunAssumption DEF Goto, TypeOK
<1>2. e # "none"
  BY DEF Emojis, Client!Emojis
<1> QED BY <1>1, <1>2 DEF Carries, EmojiInv

\* A finite set and at most one element.
LEMMA AtMostOneMore ==
    ASSUME NEW S, IsFiniteSet(S), NEW x, NEW T, T \subseteq S \union {x}
    PROVE  /\ IsFiniteSet(T) /\ Cardinality(T) \in Nat
           /\ Cardinality(T) <= Cardinality(S) + 1
<1>1. CASE x \in S
  <2>1. T \subseteq S
    BY <1>1
  <2> QED BY <2>1, FS_Subset, FS_CardinalityType
<1>2. CASE x \notin S
  <2>1. /\ IsFiniteSet(S \union {x})
        /\ Cardinality(S \union {x}) = Cardinality(S) + 1
    BY <1>2, FS_AddElement
  <2> QED BY <2>1, FS_Subset, FS_CardinalityType
<1> QED BY <1>1, <1>2

\* A fault more pays for one member of Blamed more.
LEMMA FaultsPaid ==
    ASSUME FaultInv, faults \in Nat, NEW x,
           \/ Blamed' \subseteq Blamed /\ faults' = faults
           \/ Blamed' \subseteq Blamed \union {x} /\ faults' = faults + 1
    PROVE  FaultInv'
<1>1. IsFiniteSet(Blamed) /\ Cardinality(Blamed) \in Nat /\ Cardinality(Blamed) <= faults
  BY FS_CardinalityType DEF FaultInv
<1>2. CASE Blamed' \subseteq Blamed /\ faults' = faults
  <2>1. IsFiniteSet(Blamed') /\ Cardinality(Blamed') <= Cardinality(Blamed)
    BY <1>1, <1>2, FS_Subset
  <2>2. Cardinality(Blamed') \in Nat
    BY <2>1, FS_CardinalityType
  <2> QED BY <1>1, <1>2, <2>1, <2>2 DEF FaultInv
<1>3. CASE Blamed' \subseteq Blamed \union {x} /\ faults' = faults + 1
  <2>1. /\ IsFiniteSet(Blamed') /\ Cardinality(Blamed') \in Nat
        /\ Cardinality(Blamed') <= Cardinality(Blamed) + 1
    BY <1>1, <1>3, AtMostOneMore
  <2> QED BY <1>1, <1>3, <2>1 DEF FaultInv
<1> QED BY <1>2, <1>3

\* A step that tells nobody less and makes no job one whose comment went wrong
\* (it may be one already) keeps the account.
LEMMA FaultsAfterStep ==
    ASSUME TypeOK, FaultInv, NEW j \in Jobs, NEW emoji, NEW next, Goto(j, next),
           told \subseteq told',
           next \in {"panicClear", "panicBlame", "failed"} =>
              pc[j] \in {"panicClear", "panicBlame", "failed"},
           \/ broken' = broken /\ faults' = faults
           \/ broken' = broken \union {<<j, emoji>>} /\ faults' = faults + 1
    PROVE  FaultInv'
<1>1. pc'[j] = next /\ (\A k \in Jobs : k # j => pc'[k] = pc[k])
  BY DEF Goto, TypeOK
<1>2. Untold' \subseteq Untold
  BY <1>1 DEF Untold
<1>3. \/ Blamed' \subseteq Blamed /\ faults' = faults
      \/ Blamed' \subseteq Blamed \union {<<j, emoji>>} /\ faults' = faults + 1
  BY <1>2 DEF Blamed
<1>4. faults \in Nat
  BY ReviewRunAssumption DEF TypeOK, Client!ClientTypeOK
<1> QED BY <1>3, <1>4, FaultsPaid
-----------------------------------------------------------------------------
(* The steps *)

\* The initial states.
LEMMA RunInit == Init => RunInv
<1> SUFFICES ASSUME Init PROVE RunInv
  OBVIOUS
<1>1. TypeOK
  <2>1. pc \in [Jobs -> Labels]
    BY DEF Init, Labels
  <2>2. retryCount \in [Jobs -> 0..MaxRetries]
    BY ReviewRunAssumption DEF Init
  <2>3. Agent!AgentTypeOK
    BY DEF Init, Agent!AgentInit, Agent!AgentTypeOK
  <2>4. Client!ClientTypeOK
    BY ReviewRunAssumption DEF Init, Client!ClientInit, Client!ClientTypeOK
  <2>5. told \subseteq Jobs /\ timedOut \subseteq Jobs
        /\ reviews \in [Jobs -> 0..MaxRetries + 1]
    BY ReviewRunAssumption DEF Init
  <2> QED BY <2>1, <2>2, <2>3, <2>4, <2>5 DEF TypeOK
<1>2. NoAgentLeftBehind
  BY DEF Init, Agent!AgentInit, NoAgentLeftBehind
<1>3. RetriesAreTimeouts
  BY DEF Init, RetriesAreTimeouts
<1>4. EmojiInv
  BY ReviewRunAssumption
     DEF Init, Client!ClientInit, EmojiInv, ShownAt, InProgress
<1>5. LateIsBroken
  BY DEF Init, Client!ClientInit, LateIsBroken
<1>7. TriesInv
  BY DEF Init, TriesInv, Stage
<1>6. FaultInv
  <2>1. Blamed = {}
    BY DEF Init, Client!ClientInit, Blamed, Untold
  <2>2. faults = 0
    BY DEF Init, Client!ClientInit
  <2> QED BY <2>1, <2>2, FS_EmptySet DEF FaultInv
<1> QED BY <1>1, <1>2, <1>3, <1>4, <1>5, <1>6, <1>7 DEF RunInv

\* Away from the agent a worker's step leaves it alone.
LEMMA AwayFromAgent ==
    ASSUME TypeOK, NoAgentLeftBehind, NEW j \in Jobs, NEW next,
           Goto(j, next), pc[j] # "agent", UNCHANGED agentVars
    PROVE  NoAgentLeftBehind'
BY DEF TypeOK, NoAgentLeftBehind, Goto, agentVars

\* Where a worker goes without beginning or repeating a review.
Keeps(place, next) ==
    \/ Stage(next) = Stage(place)
    \/ Stage(place) = "absent" /\ Stage(next) = "waiting"
    \/ Stage(next) \in {"succeeded", "failed"}

LEMMA TriesKept ==
    ASSUME TypeOK, RetriesAreTimeouts, TriesInv, NEW j \in Jobs, NEW next,
           Goto(j, next), Keeps(pc[j], next),
           UNCHANGED <<retryCount, reviews>>, timedOut \subseteq timedOut'
    PROVE  RetriesAreTimeouts' /\ TriesInv'
<1>1. RetriesAreTimeouts'
  BY DEF RetriesAreTimeouts
<1>2. ASSUME NEW k \in Jobs
      PROVE  /\ Stage(pc'[k]) \in {"absent", "waiting"} =>
                   reviews[k] <= retryCount[k] /\ (reviews[k] > 0 => k \in timedOut')
             /\ Stage(pc'[k]) = "reviewing" => reviews[k] <= retryCount[k] + 1
  <2>1. CASE k = j
    <3>1. pc'[k] = next
      BY <2>1 DEF Goto, TypeOK
    <3> QED BY <2>1, <3>1 DEF Keeps, TriesInv
  <2>2. CASE k # j
    <3>1. pc'[k] = pc[k]
      BY <2>2 DEF Goto, TypeOK
    <3> QED BY <3>1 DEF TriesInv
  <2> QED BY <2>1, <2>2
<1> QED BY <1>1, <1>2 DEF TriesInv

\* updateReaction with an emoji to put on.
LEMMA AddingStep ==
    ASSUME RunInv, NEW j \in Jobs, NEW place \in Labels, NEW next \in Labels,
           NEW emoji \in Emojis, Adding(j, place, emoji, next),
           place # "agent", Carries(place, next, emoji), Keeps(place, next),
           <<emoji, next>> \notin HiddenAt,
           next \in {"panicClear", "panicBlame", "failed"} =>
              place \in {"panicClear", "panicBlame", "failed"}
    PROVE  RunInv'
<1>1. /\ TypeOK /\ NoAgentLeftBehind /\ RetriesAreTimeouts /\ TriesInv
      /\ EmojiInv /\ LateIsBroken /\ FaultInv
      /\ pc[j] = place /\ Goto(j, next) /\ Add(j, emoji)
      /\ UNCHANGED <<retryCount, reviews, told, timedOut, agentVars>>
  BY DEF RunInv, Adding
<1>2. /\ RequestEffect(j, emoji)
      /\ j \in Manual /\ <<j, emoji>> \notin broken' => emoji \in reactions'[j]
  BY <1>1, AddEffect
<1>3. TypeOK'
  BY <1>1, <1>2 DEF TypeOK, RequestEffect, Goto, agentVars, Agent!AgentTypeOK
<1>4. NoAgentLeftBehind'
  BY <1>1, AwayFromAgent
<1>5. RetriesAreTimeouts' /\ TriesInv'
  BY <1>1, TriesKept
<1>6. EmojiInv'
  BY <1>1, <1>2, EmojisAfterRequest
<1>7. LateIsBroken'
  BY <1>2 DEF RequestEffect
<1>8. FaultInv'
  BY <1>1, <1>2, FaultsAfterStep DEF RequestEffect
<1> QED BY <1>3, <1>4, <1>5, <1>6, <1>7, <1>8 DEF RunInv

\* updateReaction with an emoji to take away.
LEMMA RemovingStep ==
    ASSUME RunInv, NEW j \in Jobs, NEW place \in Labels, NEW next \in Labels,
           NEW emoji \in Emojis, Removing(j, place, emoji, next),
           place # "agent", Carries(place, next, emoji), Keeps(place, next),
           <<emoji, next>> \notin ShownAt,
           next \in {"panicClear", "panicBlame", "failed"} =>
              place \in {"panicClear", "panicBlame", "failed"}
    PROVE  RunInv'
<1>1. /\ TypeOK /\ NoAgentLeftBehind /\ RetriesAreTimeouts /\ TriesInv
      /\ EmojiInv /\ LateIsBroken /\ FaultInv
      /\ pc[j] = place /\ Goto(j, next) /\ Remove(j, emoji)
      /\ UNCHANGED <<retryCount, reviews, told, timedOut, agentVars>>
  BY DEF RunInv, Removing
<1>2. /\ RequestEffect(j, emoji)
      /\ j \in Manual /\ <<j, emoji>> \notin broken' => emoji \notin reactions'[j]
  BY <1>1, RemoveEffect
<1>3. TypeOK'
  BY <1>1, <1>2 DEF TypeOK, RequestEffect, Goto, agentVars, Agent!AgentTypeOK
<1>4. NoAgentLeftBehind'
  BY <1>1, AwayFromAgent
<1>5. RetriesAreTimeouts' /\ TriesInv'
  BY <1>1, TriesKept
<1>6. EmojiInv'
  BY <1>1, <1>2, EmojisAfterRequest
<1>7. LateIsBroken'
  BY <1>2 DEF RequestEffect
<1>8. FaultInv'
  BY <1>1, <1>2, FaultsAfterStep DEF RequestEffect
<1> QED BY <1>3, <1>4, <1>5, <1>6, <1>7, <1>8 DEF RunInv

\* Where an emoji may be put on or taken away.
Place(place, emoji, next) ==
    /\ place \in Labels /\ next \in Labels /\ emoji \in Emojis
    /\ place # "agent" /\ Carries(place, next, emoji) /\ Keeps(place, next)
    /\ next \in {"panicClear", "panicBlame", "failed"} =>
          place \in {"panicClear", "panicBlame", "failed"}

AddPlace(place, emoji, next) ==
    Place(place, emoji, next) /\ <<emoji, next>> \notin HiddenAt

RemovePlace(place, emoji, next) ==
    Place(place, emoji, next) /\ <<emoji, next>> \notin ShownAt

LEMMA AddingPlaces ==
    /\ AddPlace("enqueue", "QUEUED", "unqueue")
    /\ AddPlace("mark", "PROCESSING", "check")
    /\ AddPlace("praise", "SUCCESS", "succeeded")
    /\ AddPlace("blame", "FAILED", "comment")
    /\ AddPlace("panicBlame", "FAILED", "failed")
BY DEF AddPlace, Place, Keeps, Stage, Carries, ShownAt, HiddenAt, InProgress, Labels, Settled,
       Emojis, Client!Emojis

LEMMA RemovingPlaces ==
    /\ RemovePlace("unqueue", "QUEUED", "mark")
    /\ RemovePlace("clear", "PROCESSING", "praise")
    /\ RemovePlace("giveUp", "PROCESSING", "blame")
    /\ RemovePlace("panicClear", "PROCESSING", "panicBlame")
BY DEF RemovePlace, Place, Keeps, Stage, Carries, ShownAt, HiddenAt, InProgress, Labels,
       Settled, Emojis, Client!Emojis

LEMMA EmojiStep ==
    ASSUME RunInv, NEW j \in Jobs,
           \/ Enqueue(j) \/ Unqueue(j) \/ MarkProcessing(j)
           \/ ClearProcessing(j) \/ ShowSuccess(j) \/ ClearFailed(j)
           \/ ShowFailure(j) \/ ClearPanicked(j) \/ ShowPanic(j)
    PROVE  RunInv'
<1>1. CASE Enqueue(j)
  <2>1. Adding(j, "enqueue", "QUEUED", "unqueue")
    BY <1>1 DEF Enqueue
  <2> QED BY <2>1, AddingPlaces, AddingStep DEF AddPlace, Place
<1>2. CASE Unqueue(j)
  <2>1. Removing(j, "unqueue", "QUEUED", "mark")
    BY <1>2 DEF Unqueue
  <2> QED BY <2>1, RemovingPlaces, RemovingStep DEF RemovePlace, Place
<1>3. CASE MarkProcessing(j)
  <2>1. Adding(j, "mark", "PROCESSING", "check")
    BY <1>3 DEF MarkProcessing
  <2> QED BY <2>1, AddingPlaces, AddingStep DEF AddPlace, Place
<1>4. CASE ClearProcessing(j)
  <2>1. Removing(j, "clear", "PROCESSING", "praise")
    BY <1>4 DEF ClearProcessing
  <2> QED BY <2>1, RemovingPlaces, RemovingStep DEF RemovePlace, Place
<1>5. CASE ShowSuccess(j)
  <2>1. Adding(j, "praise", "SUCCESS", "succeeded")
    BY <1>5 DEF ShowSuccess
  <2> QED BY <2>1, AddingPlaces, AddingStep DEF AddPlace, Place
<1>6. CASE ClearFailed(j)
  <2>1. Removing(j, "giveUp", "PROCESSING", "blame")
    BY <1>6 DEF ClearFailed
  <2> QED BY <2>1, RemovingPlaces, RemovingStep DEF RemovePlace, Place
<1>7. CASE ShowFailure(j)
  <2>1. Adding(j, "blame", "FAILED", "comment")
    BY <1>7 DEF ShowFailure
  <2> QED BY <2>1, AddingPlaces, AddingStep DEF AddPlace, Place
<1>8. CASE ClearPanicked(j)
  <2>1. Removing(j, "panicClear", "PROCESSING", "panicBlame")
    BY <1>8 DEF ClearPanicked
  <2> QED BY <2>1, RemovingPlaces, RemovingStep DEF RemovePlace, Place
<1>9. CASE ShowPanic(j)
  <2>1. Adding(j, "panicBlame", "FAILED", "failed")
    BY <1>9 DEF ShowPanic
  <2> QED BY <2>1, AddingPlaces, AddingStep DEF AddPlace, Place
<1> QED BY <1>1, <1>2, <1>3, <1>4, <1>5, <1>6, <1>7, <1>8, <1>9
-----------------------------------------------------------------------------
(* Errors *)

\* Neither a failed clone nor a missing profile is tried again, whatever the
\* code it hides; of the agent's errors only the time limit is.
LEMMA RetryableErrors ==
    /\ ~IsRetryable(Wrap("GIT_CLONE_FAILED", New("GIT_CLONE_FAILED")))
    /\ ~IsRetryable(Wrap("PROFILE_NOT_FOUND", New("PROFILE_INVALID")))
    /\ ~IsRetryable(New("CIRCUIT_OPEN")) /\ ~IsRetryable(New("REVIEWER_FAILED"))
    /\ Agent!Classify(TRUE, FALSE) = New("REVIEWER_FAILED")
    /\ \A overdue \in BOOLEAN : Agent!Classify(FALSE, overdue) = NoError
<1>1. \A a, b : /\ Head(<<a>> \o <<b>>) = a
               /\ Head(<<a>>) = a
  OBVIOUS
<1> QED BY <1>1 DEF IsRetryable, Wrap, New, RetryableCodes, Agent!Classify,
                    Agent!New, Agent!NoError, NoError

\* handleProcessingError: on to a retry that is left, or to the end.
LEMMA ErrorHandled ==
    ASSUME TypeOK, NEW j \in Jobs, NEW err, HandleProcessingError(j, err)
    PROVE  \/ /\ IsRetryable(err) /\ retryCount[j] < MaxRetries
              /\ retryCount' = [retryCount EXCEPT ![j] = retryCount[j] + 1]
              /\ Goto(j, "backoff") /\ UNCHANGED <<told, clientVars>>
           \/ Goto(j, "giveUp") /\ UNCHANGED <<retryCount, told, clientVars>>
<1>1. CASE IsRetryable(err) /\ retryCount[j] < MaxRetries
  <2>1. retryCount[j] # MaxRetries
    BY <1>1, ReviewRunAssumption DEF TypeOK
  <2> QED BY <1>1, <2>1 DEF HandleProcessingError, RequeueItem
<1>2. CASE ~(IsRetryable(err) /\ retryCount[j] < MaxRetries)
  BY <1>2 DEF HandleProcessingError
<1> QED BY <1>1, <1>2

\* A step that neither asks Bitbucket nor ends anything, between places where
\* PROCESSING is on the comment (or, at the end of a backoff, may be).
LEMMA WorkingStep ==
    ASSUME TypeOK, EmojiInv, LateIsBroken, FaultInv, NEW j \in Jobs,
           pc[j] \in InProgress,
           NEW next \in (InProgress \ {"panicClear"}) \union {"unqueue"}, Goto(j, next),
           UNCHANGED <<told, clientVars>>
    PROVE  /\ EmojiInv' /\ LateIsBroken' /\ FaultInv'
           /\ Client!ClientTypeOK' /\ pc' \in [Jobs -> Labels]
           /\ told' \subseteq Jobs
           /\ pc'[j] = next /\ \A k \in Jobs : k # j => pc'[k] = pc[k]
<1>1. /\ pc'[j] = next /\ (\A k \in Jobs : k # j => pc'[k] = pc[k])
      /\ pc' \in [Jobs -> Labels]
  BY DEF Goto, TypeOK, InProgress, Labels
<1>2. UNCHANGED <<reactions, tracker, late, faults, broken>>
  BY DEF clientVars
<1>3. Carries(pc[j], next, "none")
  BY DEF Carries, ShownAt, HiddenAt, InProgress, Labels, Settled, Emojis, Client!Emojis
<1>4. EmojiInv'
  BY <1>2, <1>3, EmojisAfterMove
<1>5. FaultInv'
  BY <1>2, FaultsAfterStep DEF InProgress
<1> QED BY <1>1, <1>2, <1>4, <1>5
        DEF LateIsBroken, TypeOK, Client!ClientTypeOK

\* Nothing but the place of one worker changes.
LEMMA PlainStep ==
    ASSUME RunInv, NEW j \in Jobs, pc[j] \in InProgress \ {"agent"},
           NEW next \in (InProgress \ {"panicClear"}) \union {"unqueue"},
           Goto(j, next), Keeps(pc[j], next),
           UNCHANGED <<retryCount, reviews, told, timedOut, agentVars, clientVars>>
    PROVE  RunInv'
<1>1. /\ TypeOK /\ NoAgentLeftBehind /\ RetriesAreTimeouts /\ TriesInv
      /\ EmojiInv /\ LateIsBroken /\ FaultInv
  BY DEF RunInv
<1>2. /\ EmojiInv' /\ LateIsBroken' /\ FaultInv'
      /\ Client!ClientTypeOK' /\ pc' \in [Jobs -> Labels] /\ told' \subseteq Jobs
  BY <1>1, WorkingStep
<1>3. TypeOK'
  BY <1>1, <1>2 DEF TypeOK, agentVars, Agent!AgentTypeOK
<1>4. NoAgentLeftBehind'
  BY <1>1, AwayFromAgent
<1>5. RetriesAreTimeouts' /\ TriesInv'
  BY <1>1, TriesKept
<1> QED BY <1>2, <1>3, <1>4, <1>5 DEF RunInv

LEMMA WorkStep ==
    ASSUME RunInv, NEW j \in Jobs,
           GetRepository(j) \/ GetProfile(j) \/ BackoffEnds(j) \/ Panic(j)
    PROVE  RunInv'
<1>1. TypeOK
  BY DEF RunInv
<1>2. /\ UNCHANGED <<retryCount, reviews, told, timedOut, agentVars, clientVars>>
      /\ \/ pc[j] = "repository" /\ Goto(j, "profile")
         \/ pc[j] \in {"repository", "profile"} /\ Goto(j, "giveUp")
         \/ pc[j] = "profile" /\ Goto(j, "review")
         \/ pc[j] = "backoff" /\ Goto(j, "unqueue")
         \/ pc[j] \in {"repository", "profile", "review"} /\ Goto(j, "panicked")
  <2>1. CASE GetRepository(j)
    BY <1>1, <2>1, ErrorHandled, RetryableErrors DEF GetRepository
  <2>2. CASE GetProfile(j)
    BY <1>1, <2>2, ErrorHandled, RetryableErrors DEF GetProfile
  <2>3. CASE BackoffEnds(j)
    BY <2>3 DEF BackoffEnds
  <2>4. CASE Panic(j)
    BY <2>4 DEF Panic
  <2> QED BY <2>1, <2>2, <2>3, <2>4
<1>3. \E next \in {"profile", "giveUp", "review", "unqueue", "panicked"} :
         Goto(j, next) /\ Keeps(pc[j], next)
  BY <1>2 DEF Keeps, Stage
<1>4. pc[j] \in InProgress \ {"agent"}
  BY <1>2 DEF InProgress
<1>5. {"profile", "giveUp", "review", "unqueue", "panicked"}
         \subseteq (InProgress \ {"panicClear"}) \union {"unqueue"}
  BY DEF InProgress
<1> QED BY <1>2, <1>3, <1>4, <1>5, PlainStep

\* The two looks at the breaker.  A requeue counts, and so does a review.
LEMMA BreakerStep ==
    ASSUME RunInv, NEW j \in Jobs, PutOff(j) \/ Execute(j)
    PROVE  RunInv'
<1>1. /\ TypeOK /\ NoAgentLeftBehind /\ RetriesAreTimeouts /\ TriesInv
      /\ EmojiInv /\ LateIsBroken /\ FaultInv /\ pc[j] = "check"
      /\ UNCHANGED <<told, timedOut, agentVars, clientVars>>
  BY ErrorHandled DEF RunInv, PutOff, Execute
<1>2. "check" \in InProgress \ {"agent"} /\ Stage("check") = "waiting"
      /\ {"backoff", "repository", "giveUp"} \subseteq InProgress \ {"panicClear"}
  BY DEF InProgress, Stage
<1>3. ASSUME NEW next \in {"backoff", "repository"}, Goto(j, next)
      PROVE  /\ EmojiInv' /\ LateIsBroken' /\ FaultInv' /\ NoAgentLeftBehind'
             /\ Client!ClientTypeOK' /\ Agent!AgentTypeOK'
             /\ pc' \in [Jobs -> Labels] /\ told' \subseteq Jobs /\ timedOut' \subseteq Jobs
             /\ pc'[j] = next /\ \A k \in Jobs : k # j => pc'[k] = pc[k]
  <2>1. /\ EmojiInv' /\ LateIsBroken' /\ FaultInv'
        /\ Client!ClientTypeOK' /\ pc' \in [Jobs -> Labels] /\ told' \subseteq Jobs
        /\ pc'[j] = next /\ \A k \in Jobs : k # j => pc'[k] = pc[k]
    BY <1>1, <1>2, <1>3, WorkingStep
  <2>2. NoAgentLeftBehind'
    BY <1>1, <1>3, AwayFromAgent
  <2> QED BY <1>1, <2>1, <2>2 DEF TypeOK, agentVars, Agent!AgentTypeOK
<1>4. /\ reviews[j] \in 0..MaxRetries + 1 /\ retryCount[j] \in 0..MaxRetries
      /\ reviews[j] <= retryCount[j] /\ (reviews[j] > 0 => j \in timedOut)
  BY <1>1, <1>2 DEF TypeOK, TriesInv
<1>5. CASE PutOff(j)
  <2>1. /\ Goto(j, "backoff") /\ reviews' = reviews
        /\ retryCount' = [retryCount EXCEPT ![j] =
                             IF retryCount[j] = MaxRetries THEN retryCount[j]
                             ELSE retryCount[j] + 1]
    BY <1>5 DEF PutOff, RequeueItem
  <2>2. /\ retryCount' \in [Jobs -> 0..MaxRetries]
        /\ \A k \in Jobs : retryCount[k] <= retryCount'[k]
    BY <1>1, <2>1, ReviewRunAssumption DEF TypeOK
  <2>3. TypeOK'
    BY <1>1, <1>3, <2>1, <2>2 DEF TypeOK
  <2>4. RetriesAreTimeouts'
    BY <1>1, <2>1 DEF RetriesAreTimeouts
  <2>5. TriesInv'
    <3> SUFFICES ASSUME NEW k \in Jobs
                 PROVE  /\ Stage(pc'[k]) \in {"absent", "waiting"} =>
                              /\ reviews[k] <= retryCount'[k]
                              /\ reviews[k] > 0 => k \in timedOut
                        /\ Stage(pc'[k]) = "reviewing" => reviews[k] <= retryCount'[k] + 1
      BY <1>1, <2>1 DEF TriesInv
    <3>1. /\ reviews[k] \in Nat /\ retryCount[k] \in Nat /\ retryCount'[k] \in Nat
          /\ retryCount[k] <= retryCount'[k]
      BY <1>1, <2>2, ReviewRunAssumption DEF TypeOK
    <3>2. CASE k = j
      <4>1. Stage(pc'[k]) = "waiting"
        BY <1>3, <2>1, <3>2 DEF Stage
      <4> QED BY <1>4, <3>1, <3>2, <4>1
    <3>3. CASE k # j
      <4>1. pc'[k] = pc[k]
        BY <1>3, <2>1, <3>3
      <4> QED BY <1>1, <3>1, <4>1 DEF TriesInv
    <3> QED BY <3>2, <3>3
  <2> QED BY <1>3, <2>1, <2>3, <2>4, <2>5 DEF RunInv
<1>6. CASE /\ Goto(j, "repository") /\ reviews' = [reviews EXCEPT ![j] = @ + 1]
           /\ retryCount' = retryCount
  <2>1. /\ reviews' \in [Jobs -> 0..MaxRetries + 1] /\ reviews'[j] = reviews[j] + 1
        /\ \A k \in Jobs : k # j => reviews'[k] = reviews[k]
    BY <1>1, <1>4, <1>6, ReviewRunAssumption DEF TypeOK
  <2>2. TypeOK'
    BY <1>1, <1>3, <1>6, <2>1 DEF TypeOK
  <2>3. RetriesAreTimeouts'
    <3> SUFFICES ASSUME NEW k \in Jobs, reviews'[k] > 1 PROVE k \in timedOut
      BY <1>1 DEF RetriesAreTimeouts
    <3> QED BY <1>1, <1>4, <2>1 DEF RetriesAreTimeouts
  <2>4. TriesInv'
    <3>1. Stage("repository") = "reviewing"
      BY DEF Stage
    <3> SUFFICES ASSUME NEW k \in Jobs
                 PROVE  /\ Stage(pc'[k]) \in {"absent", "waiting"} =>
                              /\ reviews'[k] <= retryCount[k]
                              /\ reviews'[k] > 0 => k \in timedOut
                        /\ Stage(pc'[k]) = "reviewing" => reviews'[k] <= retryCount[k] + 1
      BY <1>1, <1>6 DEF TriesInv
    <3>2. CASE k = j
      BY <1>3, <1>4, <1>6, <2>1, <3>1, <3>2
    <3>3. CASE k # j
      <4>1. pc'[k] = pc[k] /\ reviews'[k] = reviews[k]
        BY <1>3, <1>6, <2>1, <3>3
      <4> QED BY <1>1, <4>1 DEF TriesInv
    <3> QED BY <3>2, <3>3
  <2> QED BY <1>3, <1>6, <2>2, <2>3, <2>4 DEF RunInv
<1>7. CASE Goto(j, "giveUp") /\ UNCHANGED <<retryCount, reviews>>
  <2>1. Keeps(pc[j], "giveUp")
    BY DEF Keeps, Stage
  <2> QED BY <1>1, <1>2, <1>7, <2>1, PlainStep
<1>8. Execute(j) =>
         \/ /\ Goto(j, "repository") /\ reviews' = [reviews EXCEPT ![j] = @ + 1]
            /\ retryCount' = retryCount
         \/ Goto(j, "giveUp") /\ UNCHANGED <<retryCount, reviews>>
  BY <1>1, ErrorHandled, RetryableErrors DEF Execute
<1> QED BY <1>5, <1>6, <1>7, <1>8
-----------------------------------------------------------------------------
(* The agent *)

LEMMA StartStep ==
    ASSUME RunInv, NEW j \in Jobs, StartReview(j)
    PROVE  RunInv'
<1>1. /\ TypeOK /\ NoAgentLeftBehind /\ RetriesAreTimeouts /\ TriesInv
      /\ EmojiInv /\ LateIsBroken /\ FaultInv
      /\ pc[j] = "review" /\ Goto(j, "agent") /\ Agent!Start(j)
      /\ UNCHANGED <<retryCount, reviews, told, timedOut, clientVars>>
  BY DEF RunInv, StartReview
<1>2. /\ EmojiInv' /\ LateIsBroken' /\ FaultInv' /\ Client!ClientTypeOK'
      /\ pc' \in [Jobs -> Labels] /\ told' \subseteq Jobs
      /\ pc'[j] = "agent" /\ \A k \in Jobs : k # j => pc'[k] = pc[k]
  <2>1. "review" \in InProgress /\ "agent" \in (InProgress \ {"panicClear"}) \union {"unqueue"}
    BY DEF InProgress
  <2> QED BY <1>1, <2>1, WorkingStep
<1>3. /\ Agent!AgentTypeOK'
      /\ \A k \in Jobs : k # j => child'[k] = child[k] /\ pipeHeld'[k] = pipeHeld[k]
  BY <1>1 DEF TypeOK, Agent!AgentTypeOK, Agent!Start, Agent!Ended
<1>4. TypeOK'
  BY <1>1, <1>2, <1>3 DEF TypeOK
<1>5. NoAgentLeftBehind'
  BY <1>1, <1>2, <1>3 DEF NoAgentLeftBehind
<1>6. RetriesAreTimeouts' /\ TriesInv'
  <2>1. Keeps("review", "agent")
    BY DEF Keeps, Stage
  <2> QED BY <1>1, <2>1, TriesKept
<1> QED BY <1>2, <1>4, <1>5, <1>6 DEF RunInv

\* The worker gets the answer: the agent is gone, and if it counts as another
\* try its time limit had passed.
LEMMA ReturnStep ==
    ASSUME RunInv, NEW j \in Jobs, ReviewReturns(j)
    PROVE  RunInv'
<1>1. /\ TypeOK /\ NoAgentLeftBehind /\ RetriesAreTimeouts /\ TriesInv
      /\ EmojiInv /\ LateIsBroken /\ FaultInv /\ pc[j] = "agent"
      /\ timedOut' = (IF deadline[j] THEN timedOut \union {j} ELSE timedOut)
      /\ reviews' = reviews
  BY DEF RunInv, ReviewReturns
<1>2. PICK result \in Agent!ReviewResults :
         /\ Agent!Return(j, result)
         /\ \/ /\ \/ Goto(j, "clear") \/ Goto(j, "panicked")
               /\ UNCHANGED <<retryCount, told, clientVars>>
            \/ HandleProcessingError(j, result)
  BY DEF ReviewReturns
<1>3. IsRetryable(result) => deadline[j]
  <2> SUFFICES ASSUME ~deadline[j] PROVE ~IsRetryable(result)
    OBVIOUS
  <2>1. result = Agent!Classify(child[j] # "answered", FALSE)
    BY <1>1, <1>2 DEF Agent!Return, TypeOK, Agent!AgentTypeOK
  <2>2. result = NoError \/ result = New("REVIEWER_FAILED")
    BY <2>1, RetryableErrors
  <2>3. ~IsRetryable(NoError)
    BY DEF IsRetryable, NoError, RetryableCodes
  <2> QED BY <2>2, <2>3, RetryableErrors
<1>4. /\ UNCHANGED <<told, clientVars>>
      /\ \/ Goto(j, "clear") /\ retryCount' = retryCount
         \/ Goto(j, "panicked") /\ retryCount' = retryCount
         \/ Goto(j, "giveUp") /\ retryCount' = retryCount
         \/ /\ Goto(j, "backoff") /\ deadline[j] /\ retryCount[j] < MaxRetries
            /\ retryCount' = [retryCount EXCEPT ![j] = retryCount[j] + 1]
  <2>1. CASE HandleProcessingError(j, result)
    BY <1>1, <1>3, <2>1, ErrorHandled
  <2> QED BY <1>2, <2>1
<1>5. PICK next \in {"clear", "panicked", "backoff", "giveUp"} : Goto(j, next)
  BY <1>4
<1>6. /\ EmojiInv' /\ LateIsBroken' /\ FaultInv' /\ Client!ClientTypeOK'
      /\ pc' \in [Jobs -> Labels] /\ told' \subseteq Jobs
      /\ pc'[j] = next /\ \A k \in Jobs : k # j => pc'[k] = pc[k]
  <2>1. "agent" \in InProgress /\ next \in (InProgress \ {"panicClear"}) \union {"unqueue"}
    BY DEF InProgress
  <2> QED BY <1>1, <1>4, <1>5, <2>1, WorkingStep
<1>7. /\ Agent!AgentTypeOK' /\ child'[j] = "none" /\ pipeHeld' = pipeHeld
      /\ ~pipeHeld[j]
      /\ \A k \in Jobs : k # j => child'[k] = child[k]
  BY <1>1, <1>2 DEF TypeOK, Agent!AgentTypeOK, Agent!Return, Agent!Ended
<1>8. retryCount' \in [Jobs -> 0..MaxRetries]
  BY <1>1, <1>4, ReviewRunAssumption DEF TypeOK
<1>9. TypeOK'
  <2>1. timedOut' \subseteq Jobs
    BY <1>1 DEF TypeOK
  <2> QED BY <1>1, <1>6, <1>7, <1>8, <2>1 DEF TypeOK
<1>10. NoAgentLeftBehind'
  BY <1>1, <1>6, <1>7 DEF NoAgentLeftBehind
<1>11. RetriesAreTimeouts' /\ TriesInv'
  <2>1. CASE retryCount' = retryCount /\ ~Goto(j, "backoff")
    <3>1. next # "backoff"
      BY <1>5, <2>1
    <3>2. Keeps(pc[j], next)
      BY <1>1, <3>1 DEF Keeps, Stage
    <3> QED BY <1>1, <1>5, <2>1, <3>2, TriesKept
  <2>2. CASE /\ Goto(j, "backoff") /\ deadline[j] /\ retryCount[j] < MaxRetries
             /\ retryCount' = [retryCount EXCEPT ![j] = retryCount[j] + 1]
    <3>1. /\ reviews[j] <= retryCount[j] + 1
          /\ retryCount'[j] = retryCount[j] + 1
          /\ \A k \in Jobs : k # j => retryCount'[k] = retryCount[k]
      BY <1>1, <2>2 DEF TriesInv, Stage, TypeOK
    <3>2. timedOut' = timedOut \union {j}
      BY <1>1, <2>2
    <3>3. RetriesAreTimeouts'
      BY <1>1, <3>2 DEF RetriesAreTimeouts
    <3>4. pc'[j] = "backoff" /\ Stage("backoff") = "waiting"
      BY <1>1, <2>2 DEF Stage, Goto, TypeOK
    <3>5. TriesInv'
      <4> SUFFICES ASSUME NEW k \in Jobs
                   PROVE  /\ Stage(pc'[k]) \in {"absent", "waiting"} =>
                                /\ reviews[k] <= retryCount'[k]
                                /\ reviews[k] > 0 => k \in timedOut'
                          /\ Stage(pc'[k]) = "reviewing" => reviews[k] <= retryCount'[k] + 1
        BY <1>1 DEF TriesInv
      <4>1. CASE k = j
        BY <3>1, <3>2, <3>4, <4>1
      <4>2. CASE k # j
        <5>1. pc'[k] = pc[k] /\ retryCount'[k] = retryCount[k]
          BY <1>6, <3>1, <4>2
        <5> QED BY <1>1, <3>2, <5>1 DEF TriesInv
      <4> QED BY <4>1, <4>2
    <3> QED BY <3>3, <3>5
  <2>3. ASSUME NEW a, NEW b, Goto(j, a), Goto(j, b) PROVE a = b
    BY <1>1, <2>3 DEF Goto, TypeOK
  <2> QED BY <1>4, <2>1, <2>2, <2>3
<1> QED BY <1>6, <1>9, <1>10, <1>11 DEF RunInv

\* What happens to the command and its clock touches a running agent only.
LEMMA AgentStep ==
    ASSUME RunInv, NEW j \in Jobs,
           AgentWorks(j) \/ TimeLimitPasses(j) \/ Kill(j)
    PROVE  RunInv'
<1>1. /\ TypeOK /\ NoAgentLeftBehind /\ RetriesAreTimeouts /\ TriesInv
      /\ EmojiInv /\ LateIsBroken /\ FaultInv
      /\ UNCHANGED <<runVars, clientVars>>
      /\ \/ Agent!Spawn(j) \/ Agent!LetGo(j) \/ Agent!Exit(j)
         \/ Agent!DeadlinePasses(j) \/ Agent!Kill(j)
  BY DEF RunInv, AgentWorks, TimeLimitPasses, Kill
<1>2. /\ Agent!AgentTypeOK'
      /\ child[j] # "none" \/ pipeHeld[j]
      /\ \A k \in Jobs : k # j => child'[k] = child[k] /\ pipeHeld'[k] = pipeHeld[k]
  BY <1>1 DEF TypeOK, Agent!AgentTypeOK, Agent!Spawn, Agent!LetGo, Agent!Exit,
              Agent!DeadlinePasses, Agent!Kill, Agent!Ended
<1>3. /\ UNCHANGED <<pc, retryCount, reviews, told, timedOut>>
      /\ UNCHANGED <<reactions, tracker, late, faults, broken>>
  BY <1>1 DEF runVars, clientVars
<1>4. TypeOK'
  BY <1>1, <1>2, <1>3 DEF TypeOK, Client!ClientTypeOK
<1>5. NoAgentLeftBehind'
  BY <1>1, <1>2, <1>3 DEF NoAgentLeftBehind
<1>6. RetriesAreTimeouts' /\ TriesInv' /\ EmojiInv' /\ LateIsBroken'
  BY <1>1, <1>3 DEF RetriesAreTimeouts, TriesInv, EmojiInv, LateIsBroken
<1>7. FaultInv'
  BY <1>1, <1>3 DEF FaultInv, Blamed, Untold
<1> QED BY <1>4, <1>5, <1>6, <1>7 DEF RunInv
-----------------------------------------------------------------------------
(* The comment, and requests carried out late *)

LEMMA CommentStep ==
    ASSUME RunInv, NEW j \in Jobs, PostFailureComment(j)
    PROVE  RunInv'
<1>1. /\ TypeOK /\ NoAgentLeftBehind /\ RetriesAreTimeouts /\ TriesInv
      /\ EmojiInv /\ LateIsBroken /\ FaultInv
      /\ UNCHANGED <<retryCount, reviews, timedOut, agentVars>>
  BY DEF RunInv, PostFailureComment
<1>2. PICK posted \in BOOLEAN :
         /\ Client!PostComment(posted)
         /\ told' = IF posted THEN told \union {j} ELSE told
  BY DEF PostFailureComment
<1>3. /\ Client!ClientTypeOK' /\ LateIsBroken'
      /\ reactions' = reactions /\ broken' = broken
      /\ \/ posted /\ faults' = faults
         \/ faults' = faults + 1
  BY <1>1, <1>2, CommentEffect
<1>4. PICK next \in {"failed", "panicClear"} :
         /\ Goto(j, next)
         /\ \/ pc[j] = "comment" /\ next = "failed"
            \/ pc[j] = "panicked" /\ next = "panicClear"
  BY DEF PostFailureComment
<1>5. /\ pc'[j] = next /\ (\A k \in Jobs : k # j => pc'[k] = pc[k])
      /\ pc' \in [Jobs -> Labels]
  BY <1>1, <1>4 DEF Goto, TypeOK, Labels, Settled
<1>6. TypeOK'
  BY <1>1, <1>2, <1>3, <1>5 DEF TypeOK, agentVars, Agent!AgentTypeOK
<1>7. NoAgentLeftBehind'
  BY <1>1, <1>4, AwayFromAgent
<1>8. RetriesAreTimeouts' /\ TriesInv'
  <2>1. Keeps(pc[j], next)
    BY <1>4 DEF Keeps, Stage
  <2> QED BY <1>1, <1>4, <2>1, TriesKept
<1>9. EmojiInv'
  <2>1. Carries(pc[j], next, "none")
    BY <1>4 DEF Carries, ShownAt, HiddenAt, InProgress, Labels, Settled,
                Emojis, Client!Emojis
  <2> QED BY <1>1, <1>3, <1>4, <2>1, EmojisAfterMove
<1>10. FaultInv'
  <2>1. Untold' \subseteq Untold \union {j} /\ (posted => Untold' \subseteq Untold)
    BY <1>2, <1>5 DEF Untold
  <2>2. \/ Blamed' \subseteq Blamed /\ faults' = faults
        \/ Blamed' \subseteq Blamed \union {<<j, "comment">>} /\ faults' = faults + 1
    BY <1>3, <2>1 DEF Blamed
  <2>3. faults \in Nat
    BY <1>1, ReviewRunAssumption DEF TypeOK, Client!ClientTypeOK
  <2> QED BY <1>1, <2>2, <2>3, FaultsPaid
<1> QED BY <1>3, <1>6, <1>7, <1>8, <1>9, <1>10 DEF RunInv

\* A request carried out late changes an emoji that is accounted for already.
LEMMA LateStep ==
    ASSUME RunInv, CarriedOutLate
    PROVE  RunInv'
<1>1. /\ TypeOK /\ NoAgentLeftBehind /\ RetriesAreTimeouts /\ TriesInv
      /\ EmojiInv /\ LateIsBroken /\ FaultInv
      /\ UNCHANGED <<pc, retryCount, reviews, told, timedOut>>
      /\ UNCHANGED <<child, pipeHeld, deadline>>
  BY DEF RunInv, CarriedOutLate, runVars, agentVars
<1>2. PICK r \in late : Client!CarriedOutLate(r)
  BY DEF CarriedOutLate
<1>3. /\ late' = late \ {r} /\ reactions' = Client!Applied(r)
      /\ UNCHANGED <<tracker, faults, broken>>
  BY <1>2 DEF Client!CarriedOutLate
<1>4. /\ r.comment \in Manual /\ r.emoji \in Emojis
      /\ <<r.comment, r.emoji>> \in broken
  BY <1>1 DEF TypeOK, Client!ClientTypeOK, Client!Requests, LateIsBroken, Emojis
<1>5. /\ reactions' \in [Manual -> SUBSET Emojis]
      /\ \A c \in Manual, e \in Emojis : c # r.comment \/ e # r.emoji =>
            (e \in reactions'[c] <=> e \in reactions[c])
  BY <1>1, <1>3, <1>4 DEF Client!Applied, TypeOK, Client!ClientTypeOK, Emojis
<1>6. TypeOK'
  BY <1>1, <1>3, <1>5 DEF TypeOK, Client!ClientTypeOK, Agent!AgentTypeOK, Emojis
<1>7. NoAgentLeftBehind' /\ RetriesAreTimeouts' /\ TriesInv'
  BY <1>1 DEF NoAgentLeftBehind, RetriesAreTimeouts, TriesInv
<1>8. EmojiInv'
  <2> SUFFICES ASSUME NEW c \in Manual, NEW e \in Emojis, <<c, e>> \notin broken
               PROVE  /\ <<e, pc[c]>> \in ShownAt => e \in reactions'[c]
                      /\ <<e, pc[c]>> \in HiddenAt => e \notin reactions'[c]
    BY <1>1, <1>3 DEF EmojiInv
  <2>1. e \in reactions'[c] <=> e \in reactions[c]
    BY <1>4, <1>5
  <2> QED BY <1>1, <2>1 DEF EmojiInv
<1>9. LateIsBroken' /\ FaultInv'
  BY <1>1, <1>3 DEF LateIsBroken, FaultInv, Blamed, Untold
<1> QED BY <1>6, <1>7, <1>8, <1>9 DEF RunInv
-----------------------------------------------------------------------------
(* The theorems *)

LEMMA RunStep ==
    ASSUME RunInv, [Next]_vars
    PROVE  RunInv'
<1>1. ASSUME NEW j \in Jobs, WorkerStep(j) PROVE RunInv'
  BY <1>1, EmojiStep, BreakerStep, WorkStep, StartStep, ReturnStep, CommentStep
     DEF WorkerStep, BeforeReview, AfterReview
<1>2. ASSUME NEW j \in Jobs, Panic(j) PROVE RunInv'
  BY <1>2, WorkStep
<1>3. ASSUME NEW j \in Jobs, AgentWorks(j) \/ TimeLimitPasses(j) \/ Kill(j)
      PROVE  RunInv'
  BY <1>3, AgentStep
<1>4. CASE CarriedOutLate
  BY <1>4, LateStep
<1>5. CASE AllSettled \/ UNCHANGED vars
  <2>1. /\ UNCHANGED <<pc, retryCount, reviews, told, timedOut>>
        /\ UNCHANGED <<child, pipeHeld, deadline>>
        /\ UNCHANGED <<reactions, tracker, late, faults, broken>>
    BY <1>5 DEF AllSettled, vars, runVars, agentVars, clientVars
  <2>2. TypeOK' /\ NoAgentLeftBehind' /\ RetriesAreTimeouts' /\ TriesInv'
    BY <2>1 DEF RunInv, TypeOK, Client!ClientTypeOK, Agent!AgentTypeOK,
                NoAgentLeftBehind, RetriesAreTimeouts, TriesInv
  <2>3. EmojiInv' /\ LateIsBroken' /\ FaultInv'
    BY <2>1 DEF RunInv, EmojiInv, LateIsBroken, FaultInv, Blamed, Untold
  <2> QED BY <2>2, <2>3 DEF RunInv
<1> QED BY <1>1, <1>2, <1>3, <1>4, <1>5 DEF Next

\* RunInv holds for ever: emojis, faults, retries and agents stay in step with
\* the place of the worker (processItem, client.go and reviewer.go together).
THEOREM RunInvariant == Spec => []RunInv
<1>1. Init => RunInv
  BY RunInit
<1>2. RunInv /\ [Next]_vars => RunInv'
  BY RunStep
<1> QED BY <1>1, <1>2, PTL DEF Spec

\* The types, the number of retries among them, and no agent beside its worker
\* (cmd.Run in executeClaude waits for the command and its pipes).
THEOREM RunSound == Spec => []Sound
<1>1. RunInv => Sound
  BY DEF RunInv, Sound
<1> QED BY <1>1, RunInvariant, PTL

\* Only the time limit of the agent leads to another review, however often an
\* open breaker has the job requeued (handleProcessingError with the codes that
\* review_service.go wraps around the causes).
THEOREM RunRetriesAreTimeouts == Spec => []RetriesAreTimeouts
<1>1. RunInv => RetriesAreTimeouts
  BY DEF RunInv
<1> QED BY <1>1, RunInvariant, PTL

\* The emojis of a settled job tell its fate, but for those whose own request
\* went wrong (updateReaction of queue.go and the two requests of client.go).
THEOREM RunEmojisExplained == Spec => []EmojisExplained
<1>1. RunInv => EmojisExplained
  <2> SUFFICES ASSUME RunInv, NEW j \in Manual, pc[j] \in Settled,
                      NEW e \in Emojis, <<j, e>> \notin broken
               PROVE  (e \in reactions[j]) <=>
                        (e = IF pc[j] = "succeeded" THEN "SUCCESS" ELSE "FAILED")
    BY DEF EmojisExplained, Emojis
  <2>1. /\ <<e, pc[j]>> \in ShownAt => e \in reactions[j]
        /\ <<e, pc[j]>> \in HiddenAt => e \notin reactions[j]
    BY DEF RunInv, EmojiInv
  <2>2. CASE pc[j] = "succeeded"
    BY <2>1, <2>2 DEF ShownAt, HiddenAt, InProgress, Labels, Settled, Emojis, Client!Emojis
  <2>3. CASE pc[j] = "failed"
    BY <2>1, <2>3 DEF ShownAt, HiddenAt, InProgress, Labels, Settled, Emojis, Client!Emojis
  <2> QED BY <2>2, <2>3 DEF Settled
<1> QED BY <1>1, RunInvariant, PTL

\* A set with two members has two of them.
LEMMA TwoMembers ==
    ASSUME NEW S, IsFiniteSet(S), NEW x \in S, NEW y \in S, x # y
    PROVE  Cardinality(S) >= 2
<1>1. /\ IsFiniteSet(S \ {x}) /\ Cardinality(S \ {x}) = Cardinality(S) - 1
  BY FS_RemoveElement
<1>2. Cardinality(S \ {x}) # 0
  BY <1>1, FS_EmptySet
<1>3. Cardinality(S \ {x}) \in Nat /\ Cardinality(S) \in Nat
  BY <1>1, FS_CardinalityType
<1> QED BY <1>1, <1>2, <1>3

\* The user of a review that failed is told, unless as many requests went wrong
\* as there are ways of telling (postFailureComment and the emoji).
THEOREM RunFailureIsTold == Spec => []FailureIsTold
<1>1. RunInv => FailureIsTold
  <2> SUFFICES ASSUME RunInv, NEW j \in Jobs, pc[j] = "failed", j \notin told,
                      j \in Manual => "FAILED" \notin reactions[j]
               PROVE  faults >= (IF j \in Manual THEN 2 ELSE 1)
    BY DEF FailureIsTold
  <2>1. <<j, "comment">> \in Blamed
    BY DEF Blamed, Untold
  <2>2. /\ IsFiniteSet(Blamed) /\ Cardinality(Blamed) <= faults
        /\ Cardinality(Blamed) \in Nat /\ faults \in Nat
    BY FS_CardinalityType, ReviewRunAssumption
       DEF RunInv, FaultInv, TypeOK, Client!ClientTypeOK
  <2>3. CASE j \in Manual
    <3>1. <<"FAILED", "failed">> \in ShownAt /\ "FAILED" \in Emojis
      BY DEF ShownAt, Emojis, Client!Emojis
    <3>2. <<j, "FAILED">> \in Blamed
      BY <2>3, <3>1 DEF RunInv, EmojiInv, Blamed
    <3>3. <<j, "FAILED">> # <<j, "comment">>
      OBVIOUS
    <3>4. Cardinality(Blamed) >= 2
      BY <2>1, <2>2, <3>2, <3>3, TwoMembers
    <3> QED BY <2>2, <2>3, <3>4
  <2>4. CASE j \notin Manual
    <3>1. Cardinality(Blamed) # 0
      BY <2>1, <2>2, FS_EmptySet
    <3> QED BY <2>2, <2>4, <3>1
  <2> QED BY <2>3, <2>4
<1> QED BY <1>1, RunInvariant, PTL
-----------------------------------------------------------------------------
(* The refinements *)

\* Every step of the run is a step of the agent's module or leaves it alone.
LEMMA AgentRefined ==
    ASSUME [Next]_vars
    PROVE  [Agent!AgentNext]_(Agent!agentVars)
<1>1. ASSUME NEW j \in Jobs, WorkerStep(j) \/ Panic(j)
      PROVE  [Agent!AgentNext]_(Agent!agentVars)
  <2>1. CASE StartReview(j)
    BY <2>1 DEF StartReview, Agent!AgentNext
  <2>2. CASE ReviewReturns(j)
    BY <2>2 DEF ReviewReturns, Agent!AgentNext
  <2>3. CASE ~StartReview(j) /\ ~ReviewReturns(j)
    <3>1. UNCHANGED agentVars
      BY <1>1, <2>3
         DEF WorkerStep, BeforeReview, AfterReview, Enqueue, Unqueue, MarkProcessing,
             PutOff, Execute, GetRepository, GetProfile, BackoffEnds, ClearProcessing, ShowSuccess,
             ClearFailed, ShowFailure, PostFailureComment, ClearPanicked, ShowPanic,
             Panic, Adding, Removing
    <3> QED BY <3>1 DEF agentVars, Agent!agentVars
  <2> QED BY <2>1, <2>2, <2>3
<1>2. ASSUME NEW j \in Jobs, AgentWorks(j) \/ TimeLimitPasses(j) \/ Kill(j)
      PROVE  Agent!AgentNext
  BY <1>2 DEF AgentWorks, TimeLimitPasses, Kill, Agent!AgentNext, Agent!AgentWorld
<1>3. CASE CarriedOutLate \/ AllSettled \/ UNCHANGED vars
  BY <1>3 DEF CarriedOutLate, AllSettled, vars, agentVars, Agent!agentVars
<1> QED BY <1>1, <1>2, <1>3 DEF Next

\* An emoji is put on or taken off by the two operations of the client.
LEMMA RequestRefined ==
    ASSUME NEW j \in Jobs, NEW emoji \in Emojis, Add(j, emoji) \/ Remove(j, emoji)
    PROVE  [Client!ClientNext]_(Client!clientVars)
<1>1. CASE j \in Manual
  BY <1>1 DEF Add, Remove, Client!ClientNext, Emojis
<1>2. CASE j \notin Manual
  BY <1>2 DEF Add, Remove, clientVars, Client!clientVars
<1> QED BY <1>1, <1>2

\* Every step of the run is a step of the client's module or leaves it alone.
LEMMA ClientRefined ==
    ASSUME [Next]_vars
    PROVE  [Client!ClientNext]_(Client!clientVars)
<1>1. ASSUME NEW j \in Jobs, WorkerStep(j) \/ Panic(j)
      PROVE  [Client!ClientNext]_(Client!clientVars)
  <2>1. {"QUEUED", "PROCESSING", "SUCCESS", "FAILED"} \subseteq Emojis
    BY DEF Emojis, Client!Emojis
  <2>2. CASE \/ Enqueue(j) \/ Unqueue(j) \/ MarkProcessing(j) \/ ClearProcessing(j)
             \/ ShowSuccess(j) \/ ClearFailed(j) \/ ShowFailure(j)
             \/ ClearPanicked(j) \/ ShowPanic(j)
    <3>1. \E emoji \in Emojis : Add(j, emoji) \/ Remove(j, emoji)
      BY <2>1, <2>2
         DEF Enqueue, Unqueue, MarkProcessing, ClearProcessing, ShowSuccess, ClearFailed,
             ShowFailure, ClearPanicked, ShowPanic, Adding, Removing
    <3> QED BY <3>1, RequestRefined
  <2>3. CASE PostFailureComment(j)
    BY <2>3 DEF PostFailureComment, Client!ClientNext
  <2>4. CASE \/ PutOff(j) \/ Execute(j) \/ GetRepository(j) \/ GetProfile(j)
             \/ StartReview(j) \/ BackoffEnds(j) \/ ReviewReturns(j) \/ Panic(j)
    <3>1. UNCHANGED clientVars
      BY <2>4 DEF PutOff, Execute, GetRepository, GetProfile, StartReview, BackoffEnds, ReviewReturns,
                  Panic, HandleProcessingError
    <3> QED BY <3>1 DEF clientVars, Client!clientVars
  <2> QED BY <1>1, <2>2, <2>3, <2>4 DEF WorkerStep, BeforeReview, AfterReview
<1>2. ASSUME NEW j \in Jobs, AgentWorks(j) \/ TimeLimitPasses(j) \/ Kill(j)
      PROVE  [Client!ClientNext]_(Client!clientVars)
  BY <1>2 DEF AgentWorks, TimeLimitPasses, Kill, clientVars, Client!clientVars
<1>3. CASE CarriedOutLate
  BY <1>3 DEF CarriedOutLate, Client!ClientNext
<1>4. CASE AllSettled \/ UNCHANGED vars
  BY <1>4 DEF AllSettled, vars, clientVars, Client!clientVars
<1> QED BY <1>1, <1>2, <1>3, <1>4 DEF Next

\* A worker that goes on moves its job from stage to stage.
LEMMA StageMoves ==
    ASSUME TypeOK, NEW j \in Jobs, NEW to, Goto(j, to)
    PROVE  Abstract!Move(j, Stage(pc[j]), Stage(to))
BY DEF TypeOK, Goto, Abstract!Move

\* The longest way from a place to the end of the job without another retry.
Distance(place) ==
    CASE place \in {"enqueue", "backoff"} -> 11
      [] place = "unqueue" -> 10
      [] place = "mark" -> 9
      [] place = "check" -> 8
      [] place = "repository" -> 7
      [] place = "profile" -> 6
      [] place = "review" -> 5
      [] place = "agent" -> 4
      [] place \in {"giveUp", "panicked"} -> 3
      [] place \in {"clear", "blame", "panicClear"} -> 2
      [] place \in {"praise", "comment", "panicBlame"} -> 1
      [] OTHER -> 0

\* Where a worker goes without counting a try: nearer to the end, and from
\* one stage of ReviewJobs to the next.
Leads(from, to) ==
    /\ Distance(to) < Distance(from)
    /\ \/ Stage(from) = Stage(to)
       \/ Stage(from) = "absent" /\ Stage(to) = "waiting"
       \/ Stage(from) = "waiting" /\ Stage(to) = "failed"
       \/ Stage(from) = "reviewing" /\ Stage(to) \in {"succeeded", "failed"}

\* A step that goes on, one that begins a review, and one that ends a review
\* to repeat it; PutOff is the fourth.
GoesOn(j) ==
    \E to \in Labels :
        Leads(pc[j], to) /\ Goto(j, to) /\ UNCHANGED <<retryCount, reviews>>

Begins(j) ==
    /\ pc[j] = "check" /\ Goto(j, "repository") /\ UNCHANGED retryCount
    /\ reviews' = [reviews EXCEPT ![j] = @ + 1]

Repeats(j) ==
    /\ Stage(pc[j]) = "reviewing" /\ Distance(pc[j]) >= 4
    /\ retryCount[j] < MaxRetries
    /\ Goto(j, "backoff") /\ retryCount' = [retryCount EXCEPT ![j] = retryCount[j] + 1]
    /\ UNCHANGED reviews

\* Every error of a review leads to one or the other.
LEMMA ErrorLeads ==
    ASSUME TypeOK, NEW j \in Jobs, NEW err, HandleProcessingError(j, err),
           UNCHANGED reviews,
           Stage(pc[j]) = "reviewing", Distance(pc[j]) \in 4..7
    PROVE  GoesOn(j) \/ Repeats(j)
<1>1. Stage("giveUp") = "failed" /\ "giveUp" \in Labels /\ Distance("giveUp") = 3
  BY DEF Stage, Labels, Distance
<1>2. CASE Goto(j, "giveUp") /\ UNCHANGED <<retryCount, told, clientVars>>
  BY <1>1, <1>2 DEF GoesOn, Leads
<1>3. CASE /\ retryCount[j] < MaxRetries /\ Goto(j, "backoff")
           /\ retryCount' = [retryCount EXCEPT ![j] = retryCount[j] + 1]
  BY <1>3 DEF Repeats
<1> QED BY <1>2, <1>3, ErrorHandled

LEMMA WorkerLeads ==
    ASSUME TypeOK, NEW j \in Jobs, WorkerStep(j) \/ Panic(j)
    PROVE  GoesOn(j) \/ Begins(j) \/ Repeats(j) \/ PutOff(j)
<1>1. CASE \/ Enqueue(j) \/ Unqueue(j) \/ MarkProcessing(j) \/ ClearProcessing(j)
           \/ ShowSuccess(j) \/ ClearFailed(j) \/ ShowFailure(j)
           \/ ClearPanicked(j) \/ ShowPanic(j)
  BY <1>1 DEF Enqueue, Unqueue, MarkProcessing, ClearProcessing, ShowSuccess, ClearFailed,
              ShowFailure, ClearPanicked, ShowPanic, Adding, Removing, GoesOn, Leads,
              Stage, Distance, Labels, Settled
<1>2. CASE StartReview(j) \/ BackoffEnds(j) \/ PostFailureComment(j) \/ Panic(j)
  BY <1>2 DEF StartReview, BackoffEnds, PostFailureComment, Panic, GoesOn, Leads,
              Stage, Distance, Labels, Settled
<1>3. CASE Execute(j)
  <2>1. CASE Goto(j, "giveUp") /\ UNCHANGED <<retryCount, reviews>>
    <3>1. Leads("check", "giveUp") /\ "giveUp" \in Labels /\ pc[j] = "check"
      BY <1>3 DEF Execute, Leads, Stage, Distance, Labels
    <3> QED BY <2>1, <3>1 DEF GoesOn
  <2>2. \/ Begins(j)
        \/ Goto(j, "giveUp") /\ UNCHANGED <<retryCount, reviews>>
    BY <1>3, ErrorHandled, RetryableErrors DEF Execute, Begins
  <2> QED BY <2>1, <2>2
<1>4. CASE GetRepository(j) \/ GetProfile(j) \/ ReviewReturns(j)
  <2>1. /\ pc[j] \in {"repository", "profile", "agent"} /\ Stage(pc[j]) = "reviewing"
        /\ Distance(pc[j]) \in 4..7 /\ UNCHANGED reviews
    BY <1>4 DEF GetRepository, GetProfile, ReviewReturns, Stage, Distance
  <2>2. \/ pc[j] = "repository" /\ Goto(j, "profile") /\ UNCHANGED retryCount
        \/ pc[j] = "profile" /\ Goto(j, "review") /\ UNCHANGED retryCount
        \/ /\ pc[j] = "agent" /\ UNCHANGED retryCount
           /\ \/ Goto(j, "clear") \/ Goto(j, "panicked")
        \/ \E err : HandleProcessingError(j, err)
    BY <1>4 DEF GetRepository, GetProfile, ReviewReturns
  <2>3. CASE \E err : HandleProcessingError(j, err)
    BY <2>1, <2>3, ErrorLeads
  <2>4. CASE \/ pc[j] = "repository" /\ Goto(j, "profile") /\ UNCHANGED retryCount
             \/ pc[j] = "profile" /\ Goto(j, "review") /\ UNCHANGED retryCount
             \/ /\ pc[j] = "agent" /\ UNCHANGED retryCount
                /\ \/ Goto(j, "clear") \/ Goto(j, "panicked")
    <3>1. /\ Leads("repository", "profile") /\ Leads("profile", "review")
          /\ Leads("agent", "clear") /\ Leads("agent", "panicked")
          /\ {"profile", "review", "clear", "panicked"} \subseteq Labels
      BY DEF Leads, Stage, Distance, Labels
    <3> QED BY <2>1, <2>4, <3>1 DEF GoesOn
  <2> QED BY <2>2, <2>3, <2>4
<1> QED BY <1>1, <1>2, <1>3, <1>4 DEF WorkerStep, BeforeReview, AfterReview

\* Every step of the run is a step of ReviewJobs or none at all.
LEMMA JobsRefined ==
    ASSUME TypeOK, TriesInv, [Next]_vars
    PROVE  [Abstract!Next]_(Abstract!jobVars)
<1> USE ReviewRunAssumption
<1>1. ASSUME NEW j \in Jobs, GoesOn(j)
      PROVE  [Abstract!Next]_(Abstract!jobVars)
  <2>1. PICK to \in Labels : /\ Leads(pc[j], to) /\ Goto(j, to)
                             /\ UNCHANGED <<retryCount, reviews>>
    BY <1>1 DEF GoesOn
  <2>2. Abstract!Move(j, Stage(pc[j]), Stage(to))
    BY <2>1, StageMoves
  <2>3. CASE Stage(pc[j]) = Stage(to)
    <3>1. \A k \in Jobs : Stage(pc'[k]) = Stage(pc[k])
      BY <2>1, <2>3 DEF TypeOK, Goto
    <3> QED BY <2>1, <3>1 DEF Abstract!jobVars
  <2>4. CASE Stage(pc[j]) = "absent" /\ Stage(to) = "waiting"
    BY <2>1, <2>2, <2>4 DEF Abstract!Accept, Abstract!Next
  <2>5. CASE Stage(pc[j]) = "waiting" /\ Stage(to) = "failed"
    BY <2>1, <2>2, <2>5 DEF Abstract!FailUntried, Abstract!Next
  <2>6. CASE Stage(pc[j]) = "reviewing" /\ Stage(to) \in {"succeeded", "failed"}
    BY <2>1, <2>2, <2>6 DEF Abstract!Finish, Abstract!Next
  <2> QED BY <2>1, <2>3, <2>4, <2>5, <2>6 DEF Leads
<1>2. ASSUME NEW j \in Jobs, Begins(j)
      PROVE  Abstract!Next
  <2>1. Stage("check") = "waiting" /\ Stage("repository") = "reviewing"
    BY DEF Stage
  <2>2. Abstract!Move(j, "waiting", "reviewing")
    BY <1>2, <2>1, StageMoves DEF Begins
  <2>3. reviews[j] <= MaxRetries
    BY <1>2, <2>1 DEF Begins, TypeOK, TriesInv
  <2>4. Abstract!Attempt(j)
    BY <1>2, <2>2, <2>3 DEF Begins, Abstract!Attempt
  <2> QED BY <2>4 DEF Abstract!Next
<1>3. ASSUME NEW j \in Jobs, Repeats(j)
      PROVE  Abstract!Next
  <2>1. Stage("backoff") = "waiting"
    BY DEF Stage
  <2>2. Abstract!Move(j, "reviewing", "waiting")
    BY <1>3, <2>1, StageMoves DEF Repeats
  <2>3. reviews[j] <= MaxRetries
    BY <1>3 DEF Repeats, TypeOK, TriesInv
  <2>4. Abstract!TryAgain(j)
    BY <1>3, <2>2, <2>3 DEF Repeats, Abstract!TryAgain
  <2> QED BY <2>4 DEF Abstract!Next
<1>4. ASSUME NEW j \in Jobs, PutOff(j)
      PROVE  UNCHANGED Abstract!jobVars
  <2>1. \A k \in Jobs : Stage(pc'[k]) = Stage(pc[k])
    BY <1>4 DEF PutOff, RequeueItem, Goto, TypeOK, Stage
  <2> QED BY <1>4, <2>1 DEF PutOff, Abstract!jobVars
<1>5. CASE UNCHANGED <<pc, retryCount, reviews>>
  BY <1>5 DEF Abstract!jobVars
<1>6. \/ \E j \in Jobs : WorkerStep(j) \/ Panic(j)
      \/ UNCHANGED <<pc, retryCount, reviews>>
  BY DEF Next, AgentWorks, TimeLimitPasses, Kill, CarriedOutLate, AllSettled, vars, runVars
<1> QED BY <1>1, <1>2, <1>3, <1>4, <1>5, <1>6, WorkerLeads

\* The worker, the agent and Bitbucket together keep what ReviewJobs promises
\* of a job, for any number of jobs, retries and requests that go wrong, and
\* the adapters are used only as their own modules allow.
THEOREM RunImplementsSpecs == Spec => ImplementsSpecs
<1>1. Init => Abstract!Init /\ Agent!AgentInit /\ Client!ClientInit
  <2> SUFFICES ASSUME Init PROVE Abstract!Init
    BY DEF Init
  <2>1. \A j \in Jobs : Stage(pc[j]) = "absent"
    BY DEF Init, Stage
  <2> QED BY <2>1 DEF Init, Abstract!Init
<1>2. RunInv /\ [Next]_vars => [Abstract!Next]_(Abstract!jobVars)
  BY JobsRefined DEF RunInv
<1>3. [Next]_vars => [Agent!AgentNext]_(Agent!agentVars)
  BY AgentRefined
<1>4. [Next]_vars => [Client!ClientNext]_(Client!clientVars)
  BY ClientRefined
<1> QED
  BY <1>1, <1>2, <1>3, <1>4, RunInvariant, PTL
  DEF Spec, ImplementsSpecs, Abstract!Spec, Agent!AgentSpec, Client!ClientSpec
-----------------------------------------------------------------------------
(* The work a job can make *)

\* The steps that the worker of a job has before it, at most, if the breaker
\* does not put the job off once its retries are used up.
Remaining(j) == 8 * (MaxRetries - retryCount[j]) + Distance(pc[j])

LEMMA DistanceType == \A place : Distance(place) \in 0..11
BY DEF Distance

\* handleProcessingError and the places of processItem have no loop but the
\* counted one, and Bitbucket, the agent and git give a worker no new work:
\* whatever fails, times out or panics, each of the worker's steps brings the
\* job nearer to its end.  The one exception is the requeue that nothing
\* limits, by an open breaker after the last retry (queue.go:339-345).
THEOREM RunAlwaysForward ==
    Spec => [][\A j \in Jobs : pc'[j] # pc[j] =>
                 \/ Remaining(j)' < Remaining(j)
                 \/ pc[j] = "check" /\ pc'[j] = "backoff" /\ retryCount[j] = MaxRetries]_vars
<1>1. RunInv /\ [Next]_vars
        => [\A j \in Jobs : pc'[j] # pc[j] =>
              \/ Remaining(j)' < Remaining(j)
              \/ pc[j] = "check" /\ pc'[j] = "backoff" /\ retryCount[j] = MaxRetries]_vars
  <2> USE ReviewRunAssumption
  <2> SUFFICES ASSUME TypeOK, Next, NEW j \in Jobs, pc'[j] # pc[j]
               PROVE  \/ Remaining(j)' < Remaining(j)
                      \/ /\ pc[j] = "check" /\ pc'[j] = "backoff"
                         /\ retryCount[j] = MaxRetries
    BY DEF RunInv
  <2>1. \/ \E k \in Jobs : WorkerStep(k) \/ Panic(k)
        \/ UNCHANGED <<pc, retryCount>>
    BY DEF Next, AgentWorks, TimeLimitPasses, Kill, CarriedOutLate, AllSettled, vars, runVars
  <2>2. PICK k \in Jobs : GoesOn(k) \/ Begins(k) \/ Repeats(k) \/ PutOff(k)
    BY <2>1, WorkerLeads
  <2>3. k = j
    BY <2>2 DEF GoesOn, Begins, Repeats, PutOff, RequeueItem, Goto, TypeOK
  <2>4. retryCount[j] \in 0..MaxRetries /\ Distance(pc[j]) \in 0..11
    BY DistanceType DEF TypeOK
  <2>5. CASE GoesOn(j)
    <3>1. PICK to \in Labels : Leads(pc[j], to) /\ Goto(j, to) /\ UNCHANGED retryCount
      BY <2>5 DEF GoesOn
    <3>2. pc'[j] = to /\ Distance(to) < Distance(pc[j]) /\ Distance(to) \in 0..11
      BY <3>1, DistanceType DEF Leads, Goto, TypeOK
    <3> QED BY <2>4, <3>1, <3>2 DEF Remaining
  <2>6. CASE Begins(j)
    <3>1. pc[j] = "check" /\ pc'[j] = "repository" /\ retryCount' = retryCount
      BY <2>6 DEF Begins, Goto, TypeOK
    <3>2. Distance("check") = 8 /\ Distance("repository") = 7
      BY DEF Distance
    <3> QED BY <2>4, <3>1, <3>2 DEF Remaining
  <2>7. CASE Repeats(j)
    <3>1. /\ pc'[j] = "backoff" /\ retryCount'[j] = retryCount[j] + 1
          /\ Distance(pc[j]) >= 4
      BY <2>7 DEF Repeats, Goto, TypeOK
    <3>2. Distance("backoff") = 11
      BY DEF Distance
    <3> QED BY <2>4, <3>1, <3>2 DEF Remaining
  <2>8. CASE PutOff(j) /\ retryCount[j] # MaxRetries
    <3>1. /\ pc[j] = "check" /\ pc'[j] = "backoff"
          /\ retryCount'[j] = retryCount[j] + 1
      BY <2>8 DEF PutOff, RequeueItem, Goto, TypeOK
    <3>2. Distance("backoff") = 11 /\ Distance("check") = 8
      BY DEF Distance
    <3> QED BY <2>4, <3>1, <3>2 DEF Remaining
  <2>9. CASE PutOff(j) /\ retryCount[j] = MaxRetries
    BY <2>9 DEF PutOff, RequeueItem, Goto, TypeOK
  <2> QED BY <2>2, <2>3, <2>5, <2>6, <2>7, <2>8, <2>9
<1> QED BY <1>1, RunInvariant, PTL DEF Spec

\* So, that requeue apart, no job makes more than 8 * MaxRetries + 11 of them,
\* and one without any is settled: every other place has a step before it.
THEOREM RunBounded ==
    Spec => [](\A j \in Jobs :
                 /\ Remaining(j) \in 0..8 * MaxRetries + 11
                 /\ Remaining(j) = 0 => pc[j] \in Settled)
<1>1. ASSUME RunInv, NEW j \in Jobs
      PROVE  /\ Remaining(j) \in 0..8 * MaxRetries + 11
             /\ Remaining(j) = 0 => pc[j] \in Settled
  <2>1. retryCount[j] \in 0..MaxRetries /\ Distance(pc[j]) \in 0..11 /\ pc[j] \in Labels
    BY <1>1, DistanceType DEF RunInv, TypeOK
  <2>2. MaxRetries \in Nat
    BY ReviewRunAssumption
  <2>3. pc[j] \notin Settled => Distance(pc[j]) # 0
    BY <2>1 DEF Labels, Distance
  <2> QED BY <2>1, <2>2, <2>3 DEF Remaining
<1>2. RunInv => \A j \in Jobs :
                  /\ Remaining(j) \in 0..8 * MaxRetries + 11
                  /\ Remaining(j) = 0 => pc[j] \in Settled
  BY <1>1
<1> QED BY <1>2, RunInvariant, PTL

\* A worker that waits for its agent has one to wait for: the command was
\* started, and it is gone only when cmd.Run has returned.
THEOREM RunAgentUnderWay ==
    Spec => [](\A j \in Jobs : pc[j] = "agent" => child[j] # "none")
<1> DEFINE UnderWay == \A j \in Jobs : pc[j] = "agent" => child[j] # "none"
<1>1. Init => UnderWay
  BY DEF Init
<1>2. RunInv /\ UnderWay /\ [Next]_vars => UnderWay'
  <2> SUFFICES ASSUME TypeOK, UnderWay, [Next]_vars, NEW j \in Jobs, pc'[j] = "agent"
               PROVE  child'[j] # "none"
    BY DEF RunInv
  <2>1. ASSUME NEW k \in Jobs, WorkerStep(k) \/ Panic(k)
        PROVE  child'[j] # "none"
    <3>1. CASE StartReview(k)
      BY <3>1 DEF StartReview, Agent!Start, Goto, TypeOK, Agent!AgentTypeOK
    <3>2. CASE ReviewReturns(k)
      <4>1. /\ child' = [child EXCEPT ![k] = "none"]
            /\ \E to \in {"clear", "panicked", "backoff", "giveUp"} : Goto(k, to)
        BY <3>2 DEF ReviewReturns, Agent!Return, HandleProcessingError, RequeueItem
      <4> QED BY <4>1 DEF Goto, TypeOK, Agent!AgentTypeOK
    <3>3. CASE ~StartReview(k) /\ ~ReviewReturns(k)
      <4>1. UNCHANGED child /\ \E to \in Labels \ {"agent"} : Goto(k, to)
        BY <2>1, <3>3
           DEF WorkerStep, BeforeReview, AfterReview, Enqueue, Unqueue, MarkProcessing,
               PutOff, Execute, RequeueItem, GetRepository, GetProfile, BackoffEnds, ClearProcessing, ShowSuccess,
               ClearFailed, ShowFailure, PostFailureComment, ClearPanicked, ShowPanic,
               Panic, Adding, Removing, HandleProcessingError, agentVars, Labels, Settled
      <4> QED BY <4>1 DEF Goto, TypeOK
    <3> QED BY <3>1, <3>2, <3>3
  <2>2. ASSUME NEW k \in Jobs, AgentWorks(k) \/ TimeLimitPasses(k) \/ Kill(k)
        PROVE  child'[j] # "none"
    BY <2>2 DEF AgentWorks, TimeLimitPasses, Kill, Agent!Spawn, Agent!LetGo, Agent!Exit,
                Agent!DeadlinePasses, Agent!Kill, runVars, TypeOK, Agent!AgentTypeOK
  <2>3. CASE CarriedOutLate \/ AllSettled \/ UNCHANGED vars
    BY <2>3 DEF CarriedOutLate, AllSettled, vars, runVars, agentVars
  <2> QED BY <2>1, <2>2, <2>3 DEF Next
<1> QED BY <1>1, <1>2, RunInvariant, PTL DEF Spec
=============================================================================

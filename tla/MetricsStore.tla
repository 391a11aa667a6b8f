---------------------------- MODULE MetricsStore ----------------------------
(***************************************************************************)
(* The counters that survive restarts: trackValue, Save and Restore of     *)
(* internal/adapters/metrics/collector.go, the persisters for a file and   *)
(* for SQLite, the periodic save and the order of Stop in                  *)
(* internal/app/application.go.                                            *)
(*                                                                         *)
(* Workers count a review twice: "started" when it begins and "cost" when  *)
(* it has succeeded.  Each count is tracked for persistence and then added *)
(* to the Prometheus counter.  Two goroutines save: the ticker's and, when *)
(* the application stops, the main one.  The process may die at any time.  *)
(***************************************************************************)
EXTENDS FiniteSets, Naturals

CONSTANTS
    Workers,
    None,          \* no file, an empty table
    Torn,          \* a file that was not written to its end
    MaxReviews,    \* bound on the reviews begun in all processes
    MaxStarts      \* bound on the restarts

Counters == {"started", "cost"}
Counts   == [Counters -> 0..MaxReviews]
Zero     == [c \in Counters |-> 0]
Savers   == {"periodic", "final"}

ASSUME MetricsStoreAssumption ==
    /\ IsFiniteSet(Workers)
    /\ MaxReviews \in Nat /\ MaxStarts \in Nat
    /\ None \notin Counts /\ Torn \notin Counts /\ None # Torn

VARIABLES
    kind,       \* the configured persister: "file" or "sqlite"
    main,       \* the main goroutine: "up", "saving", "closed", "draining", "down"
    cancelled,  \* the context of the periodic save
    review,     \* each worker: "idle", "starting", "running", "ending"
    values,     \* Collector.values
    exposed,    \* the Prometheus counters
    saver,      \* each Save: "idle", "snapped", "writing", "written"
    snap,       \* its snapshot
    tmp,        \* the temporary file
    store,      \* the file, or the rows of the table
    (* history *)
    happened,   \* what was ever counted
    starts,     \* the number of restarts
    forgot,     \* a restore has failed
    saved       \* the final save of this process succeeded

processVars == <<main, cancelled, starts, forgot>>
countVars   == <<review, values, exposed, happened>>
saveVars    == <<saver, snap, tmp, store, saved>>
storeVars == <<kind, processVars, countVars, saveVars>>

StoreTypeOK ==
    /\ kind \in {"file", "sqlite"}
    /\ main \in {"up", "saving", "closed", "draining", "down"}
    /\ cancelled \in BOOLEAN /\ forgot \in BOOLEAN /\ saved \in BOOLEAN
    /\ review \in [Workers -> {"idle", "starting", "running", "ending"}]
    /\ values \in Counts /\ exposed \in Counts /\ happened \in Counts
    /\ saver \in [Savers -> {"idle", "snapped", "writing", "written"}]
    /\ snap \in [Savers -> Counts]
    /\ tmp \in Counts \union {None, Torn} /\ store \in Counts \union {None, Torn}
    /\ starts \in 0..MaxStarts

StoreInit ==
    /\ kind \in {"file", "sqlite"}
    /\ main = "up" /\ cancelled = FALSE
    /\ review = [w \in Workers |-> "idle"]
    /\ values = Zero /\ exposed = Zero /\ happened = Zero
    /\ saver = [s \in Savers |-> "idle"]
    /\ snap = [s \in Savers |-> Zero]
    /\ tmp = None /\ store = None
    /\ starts = 0 /\ forgot = FALSE /\ saved = FALSE
-----------------------------------------------------------------------------
(* The counters *)

Enter(w, from, to) == review[w] = from /\ review' = [review EXCEPT ![w] = to]

Track(c) ==
    /\ values' = [values EXCEPT ![c] = @ + 1]
    /\ happened' = [happened EXCEPT ![c] = @ + 1]
    /\ UNCHANGED exposed

Expose(c) ==
    /\ exposed' = [exposed EXCEPT ![c] = @ + 1]
    /\ UNCHANGED <<values, happened>>

\* A worker goes on with its queue until Stop closes it.
BeginReview(w) ==
    /\ main \in {"up", "saving", "closed"} /\ happened["started"] < MaxReviews
    /\ Enter(w, "idle", "starting") /\ Track("started")
    /\ UNCHANGED <<kind, processVars, saveVars>>

BegunExposed(w) ==
    /\ Enter(w, "starting", "running") /\ Expose("started")
    /\ UNCHANGED <<kind, processVars, saveVars>>

EndReview(w) ==
    /\ Enter(w, "running", "ending") /\ Track("cost")
    /\ UNCHANGED <<kind, processVars, saveVars>>

FailReview(w) ==
    /\ Enter(w, "running", "idle")
    /\ UNCHANGED <<kind, processVars, values, exposed, happened, saveVars>>

EndedExposed(w) ==
    /\ Enter(w, "ending", "idle") /\ Expose("cost")
    /\ UNCHANGED <<kind, processVars, saveVars>>
-----------------------------------------------------------------------------
(* Saving *)

Move(s, to) == saver' = [saver EXCEPT ![s] = to]

Locked == \E s \in Savers : saver[s] \in {"writing", "written"}

\* The file persister does not look at the context of a Save.
CtxDone(s) == kind = "sqlite" /\ s = "periodic" /\ cancelled

\* Mutant: rows that exist are kept (ON CONFLICT DO NOTHING).
InsertOnly(old, new) ==
    IF old = None THEN new
    ELSE [c \in Counters |-> IF old[c] > 0 THEN old[c] ELSE new[c]]

\* SQLite keeps the rows of counters that the snapshot does not have.
Upsert(old, new) ==
    IF old = None THEN new
    ELSE [c \in Counters |-> IF new[c] > 0 THEN new[c] ELSE old[c]]

\* Collector.Save copies the values under the read lock ...
Snapshot(s) ==
    /\ saver[s] = "idle"
    /\ snap' = [snap EXCEPT ![s] = values]
    /\ Move(s, "snapped")

PeriodicSave ==
    /\ main # "down" /\ Snapshot("periodic")
    /\ UNCHANGED <<kind, processVars, countVars, tmp, store, saved>>

\* Mutant: no p.mu around the temporary file.
PersistUnlocked(s) ==
    /\ saver[s] = "snapped" /\ ~CtxDone(s)
    /\ tmp' = IF kind = "file" THEN Torn ELSE tmp
    /\ Move(s, "writing")
    /\ UNCHANGED <<kind, processVars, countVars, snap, store, saved>>

\* ... and hands them to the persister without it: p.mu and the temporary
\* file, or a transaction.
Persist(s) ==
    /\ saver[s] = "snapped" /\ ~Locked /\ ~CtxDone(s)
    /\ tmp' = IF kind = "file" THEN Torn ELSE tmp
    /\ Move(s, "writing")
    /\ UNCHANGED <<kind, processVars, countVars, snap, store, saved>>

WriteDone(s) ==
    /\ saver[s] = "writing"
    /\ tmp' = IF kind = "file" THEN snap[s] ELSE tmp
    /\ Move(s, "written")
    /\ UNCHANGED <<kind, processVars, countVars, snap, store, saved>>

\* The main goroutine closes the persister and goes on to the queue.
SaveReturns(s, ok) ==
    /\ Move(s, "idle")
    /\ main' = IF s = "final" THEN "closed" ELSE main
    /\ saved' = (saved \/ (s = "final" /\ ok))
    /\ UNCHANGED <<kind, cancelled, starts, forgot, countVars, snap>>

\* os.Rename, or the commit of the transaction.
Commit(s) ==
    /\ saver[s] = "written" /\ ~CtxDone(s)
    /\ IF kind = "file" THEN store' = tmp /\ tmp' = None
       ELSE store' = Upsert(store, snap[s]) /\ UNCHANGED tmp
    /\ SaveReturns(s, TRUE)

\* An error, of the disk or of a busy database; a failed rename removes the
\* temporary file.
SaveFails(s) ==
    /\ saver[s] # "idle"
    /\ tmp' = IF kind = "file" /\ saver[s] = "written" THEN None ELSE tmp
    /\ UNCHANGED store
    /\ SaveReturns(s, FALSE)
-----------------------------------------------------------------------------
(* The process *)

\* Application.Stop: cancel the ticker and save, before the workers end.
Stop ==
    /\ main = "up"
    /\ main' = "saving" /\ cancelled' = TRUE
    /\ Snapshot("final")
    /\ UNCHANGED <<kind, starts, forgot, countVars, tmp, store, saved>>

StopQueue ==
    /\ main = "closed"
    /\ main' = "draining"
    /\ UNCHANGED <<kind, cancelled, starts, forgot, countVars, saveVars>>

\* queue.Stop has waited for the workers, or for one second; Shutdown and
\* the end of main.
Exit ==
    /\ main = "draining"
    /\ main' = "down"
    /\ saver' = [s \in Savers |-> "idle"]
    /\ UNCHANGED <<kind, cancelled, starts, forgot, countVars, snap, tmp, store, saved>>

Crash ==
    /\ main # "down"
    /\ main' = "down" /\ saved' = FALSE
    /\ saver' = [s \in Savers |-> "idle"]
    /\ UNCHANGED <<kind, cancelled, starts, forgot, countVars, snap, tmp, store>>

Content(st) == IF st \in {None, Torn} THEN Zero ELSE st

\* Mutants: the Prometheus counters are restored twice, not at all; the
\* tracked values are not restored.
RestoreExposesTwice(st) ==
    /\ values' = Content(st)
    /\ exposed' = [c \in Counters |-> 2 * Content(st)[c]]
RestoreUnexposed(st) == values' = Content(st) /\ exposed' = Zero
RestoreUntracked(st) == values' = Zero /\ exposed' = Content(st)

\* Collector.Restore.
Restore(st) == values' = Content(st) /\ exposed' = Content(st)

\* A new process; after an error of Restore it counts from zero.
Restart ==
    /\ main = "down" /\ starts < MaxStarts
    /\ \/ store # Torn /\ Restore(store) /\ UNCHANGED forgot
       \/ store # None /\ Restore(None) /\ forgot' = TRUE
    /\ main' = "up" /\ cancelled' = FALSE /\ saved' = FALSE
    /\ review' = [w \in Workers |-> "idle"]
    /\ snap' = [s \in Savers |-> Zero]
    /\ starts' = starts + 1
    /\ UNCHANGED <<kind, happened, saver, tmp, store>>

Count(w) ==
    /\ main # "down"
    /\ \/ BeginReview(w)
       \/ BegunExposed(w)
       \/ EndReview(w)
       \/ FailReview(w)
       \/ EndedExposed(w)

Save(s) ==
    \/ Persist(s)
    \/ WriteDone(s)
    \/ Commit(s)
    \/ SaveFails(s)

StoreNext ==
    \/ \E w \in Workers : Count(w)
    \/ PeriodicSave
    \/ \E s \in Savers : Save(s)
    \/ Stop
    \/ StopQueue
    \/ Exit
    \/ Crash
    \/ Restart

StoreSpec == StoreInit /\ [][StoreNext]_storeVars
-----------------------------------------------------------------------------
(* Properties *)

\* No crash and no pair of overlapping saves leaves a file that the next
\* process cannot read (docs/metrics.md, "Atomic writes").
StoreReadable == store # Torn

\* Restoring never counts anything twice: neither Prometheus nor the store
\* shows more than has happened.
NeverOverstates ==
    \A c \in Counters :
        /\ exposed[c] <= happened[c]
        /\ Content(store)[c] <= happened[c]

\* What is stored was true at some moment: no review has a cost in it that
\* has not begun in it.  Not so once a restore has failed with SQLite, where
\* a save mixes new rows with old ones.
StoredInOrder ==
    \/ forgot /\ kind = "sqlite"
    \/ Content(store)["cost"] <= Content(store)["started"]

Between(c) ==
    {w \in Workers : review[w] = IF c = "started" THEN "starting" ELSE "ending"}

\* Prometheus shows the tracked values, restarts included, but for the
\* workers between trackValue and Inc.
ExposedFollowsTracked ==
    main # "down" =>
        \A c \in Counters :
            /\ exposed[c] <= values[c]
            /\ Between(c) = {} => exposed[c] = values[c]

\* Both: what is counted is shown, once, across restarts.
CountsAreTrue == NeverOverstates /\ ExposedFollowsTracked

\* The variables keep their types, the store is readable and no counter in it
\* or on the metrics page says more than was counted.
StoreSound == StoreTypeOK /\ StoreReadable /\ CountsAreTrue

\* A save never replaces the stored counts by lower ones, across crashes and
\* restarts, except after a failed restore and except while a process with
\* the file persister stops: a periodic save that ignores its cancellation
\* and the final save may replace each other's file.
StoreNeverGoesBack ==
    [][\A c \in Counters :
          \/ Content(store')[c] >= Content(store)[c]
          \/ forgot
          \/ kind = "file" /\ cancelled]_storeVars

\* docs/metrics.md:469, "This ensures cumulative counters (tokens, costs,
\* issues) survive restarts": after an orderly stop, with a successful final
\* save and every review ended, the store has the cost of all of them.
SurvivesRestart ==
    main = "down" /\ saved /\ (\A w \in Workers : review[w] = "idle") =>
        Content(store)["cost"] = values["cost"]
=============================================================================

------------------------------ MODULE Startup -------------------------------
(***************************************************************************)
(* The way of the process to work, over crashes and restarts: Load of      *)
(* internal/config, New of internal/app/application.go, ValidateStartup of *)
(* internal/app/validator/validator.go, and then the reviews that ask the  *)
(* profile provider for their profile.                                     *)
(*                                                                         *)
(* What the checks look at (the network, the installed commands) answers   *)
(* either way.  The servers and the status are Application's.              *)
(***************************************************************************)
EXTENDS Configuration, ProfileProvider

CONSTANT MaxStarts     \* bound on the starts of the process

ASSUME StartupAssumption == MaxStarts \in Nat

VARIABLES
    phase,      \* where main stands
    starts,     \* the number of starts
    config,     \* a limit as configured and in force, and the persistence
    errors,     \* ValidationResult.Errors is not empty
    (* the metrics table *)
    testRow,    \* it holds the row "_storage_validation_test"
    loaded,     \* Restore took that row for a counter
    (* history *)
    passed,     \* the checks that this start passed
    leaked,     \* a start ended, or a statement failed, before the DELETE
    checkedEdit   \* the edit of the default profile that was checked

storageVars  == <<testRow, loaded, leaked>>
startVars    == <<phase, starts, config, errors, passed, checkedEdit>>
vars == <<startVars, storageVars, providerVars>>

Checks == {"config", "vcs", "claude", "auth", "mcp", "git", "profiles",
           "directories", "storage"}
Phases == {"down", "load", "new", "readRow", "deleteRow", "verdict", "running"}
            \union Checks

\* Checks that run a command without a time limit, or (auth) with one that
\* kills the command but not a process holding its output.
Untimed == {"claude", "auth", "mcp", "git"}

\* The checks of a start that gets to its end without an error.
AllChecks == IF config.storage = "none" THEN Checks \ {"storage"} ELSE Checks

NoConfig == [limit |-> "queueSize", given |-> 100, inForce |-> 100,
             storage |-> "none"]

TypeOK ==
    /\ phase \in Phases
    /\ starts \in 0..MaxStarts
    /\ config.limit \in Limits
    /\ config.storage \in {"none", "filesystem", "sqlite"}
    /\ errors \in BOOLEAN /\ testRow \in BOOLEAN /\ loaded \in BOOLEAN
    /\ leaked \in BOOLEAN
    /\ passed \subseteq Checks
    /\ checkedEdit \in 0..MaxEdits
    /\ ProviderTypeOK

Init ==
    /\ phase = "down" /\ starts = 0 /\ config = NoConfig /\ errors = FALSE
    /\ testRow = FALSE /\ loaded = FALSE /\ leaked = FALSE
    /\ passed = {} /\ checkedEdit = 0
    /\ ProviderInit
-----------------------------------------------------------------------------
(* Load and New *)

Start ==
    /\ phase = "down" /\ starts < MaxStarts
    /\ phase' = "load" /\ starts' = starts + 1
    /\ UNCHANGED <<config, errors, passed, checkedEdit, storageVars, providerVars>>

\* log.Fatalf, and a panic in a constructor: the process is gone.
Exit ==
    /\ phase' = "down" /\ loaded' = FALSE /\ errors' = FALSE
    /\ passed' = {} /\ checkedEdit' = 0 /\ config' = NoConfig
    /\ Restart
    /\ UNCHANGED <<starts, testRow>>

\* Limits do not depend on each other: one of them is set, in the file, in the
\* environment or in both.
Load ==
    /\ phase = "load" /\ phase' = "new"
    /\ \E limit \in Limits, yaml \in {{}, {-1}, {0}, {1}}, env \in {-1, 0, 1},
          storage \in {"none", "filesystem", "sqlite"} :
           LET given == Effective(Default[limit], yaml, env) IN
           config' = [limit |-> limit, given |-> given,
                      inForce |-> InForce(limit, given), storage |-> storage]
    /\ UNCHANGED <<starts, errors, passed, checkedEdit, storageVars, providerVars>>

\* Missing credentials, an unknown event type or an empty keyword.
LoadFails ==
    /\ phase = "load"
    /\ Exit /\ UNCHANGED leaked

\* Restore reads every row of the table, the test row too.
New ==
    /\ phase = "new" /\ phase' = "config"
    /\ config.limit = "queueSize" => config.inForce >= 0
    /\ loaded' \in {FALSE, config.storage = "sqlite" /\ testRow}
    /\ UNCHANGED <<starts, config, errors, passed, checkedEdit, testRow, leaked,
                   providerVars>>

\* make(chan) with a negative size.
NewPanics ==
    /\ phase = "new" /\ config.limit = "queueSize" /\ config.inForce < 0
    /\ Exit /\ UNCHANGED leaked
-----------------------------------------------------------------------------
(* ValidateStartup *)

Passes(check) ==
    /\ phase = check /\ passed' = passed \union {check}
    /\ UNCHANGED <<starts, config, errors>>

\* Mutant: the error is not remembered.
FailsUnnoticed(check) ==
    /\ phase = check
    /\ UNCHANGED <<starts, config, errors, passed>>

\* result.AddError
Fails(check) ==
    /\ phase = check /\ errors' = TRUE
    /\ UNCHANGED <<starts, config, passed>>

Unstored == UNCHANGED <<storageVars, providerVars>>

\* validateConfiguration and validateVCSCredentials end the validation.
CheckConfig ==
    /\ \/ Passes("config") /\ phase' = "vcs"
       \/ Fails("config") /\ phase' = "verdict"
    /\ UNCHANGED checkedEdit /\ Unstored

CheckVCS ==
    /\ \/ Passes("vcs") /\ phase' = "claude"
       \/ Fails("vcs") /\ phase' = "verdict"
    /\ UNCHANGED checkedEdit /\ Unstored

\* validateClaudeCLI: without a working claude the other two are skipped.
CheckClaude ==
    /\ \/ Passes("claude") /\ phase' = "auth"
       \/ Fails("claude") /\ phase' = "git"
    /\ UNCHANGED checkedEdit /\ Unstored

CheckAuth ==
    /\ (Passes("auth") \/ Fails("auth")) /\ phase' = "mcp"
    /\ UNCHANGED checkedEdit /\ Unstored

CheckMCP ==
    /\ (Passes("mcp") \/ Fails("mcp")) /\ phase' = "git"
    /\ UNCHANGED checkedEdit /\ Unstored

CheckGit ==
    /\ (Passes("git") \/ Fails("git")) /\ phase' = "profiles"
    /\ UNCHANGED checkedEdit /\ Unstored

\* validateProfiles looks at the size of the default profile, not at what
\* ValidateProfile will look at.
CheckProfiles ==
    /\ IF disk[DefaultProfile].kind \in {"valid", "invalid"}
       THEN Passes("profiles") ELSE Fails("profiles")
    /\ phase' = "directories"
    /\ checkedEdit' = disk[DefaultProfile].edit
    /\ Unstored

CheckDirectories ==
    /\ Passes("directories") \/ Fails("directories")
    /\ phase' = IF config.storage = "none" THEN "verdict" ELSE "storage"
    /\ UNCHANGED checkedEdit /\ Unstored

\* validateFilesystemStorage, and the unknown type, which fails.
CheckFileStorage ==
    /\ config.storage = "filesystem"
    /\ Passes("storage") \/ Fails("storage")
    /\ phase' = "verdict"
    /\ UNCHANGED checkedEdit /\ Unstored

\* validateSQLiteStorage: INSERT, SELECT, DELETE, each a transaction.
InsertRow ==
    /\ config.storage = "sqlite"
    /\ \/ /\ phase = "storage" /\ phase' = "readRow" /\ testRow' = TRUE
          /\ UNCHANGED <<starts, config, errors, passed>>
       \/ Fails("storage") /\ phase' = "verdict" /\ UNCHANGED testRow
    /\ UNCHANGED <<checkedEdit, loaded, leaked, providerVars>>

ReadRow ==
    /\ phase = "readRow"
    /\ \/ phase' = "deleteRow" /\ UNCHANGED <<errors, leaked>>
       \/ phase' = "verdict" /\ errors' = TRUE /\ leaked' = TRUE
    /\ UNCHANGED <<starts, config, passed, checkedEdit, testRow, loaded,
                   providerVars>>

\* Mutant: the row is left where it is.
DeleteNothing ==
    /\ phase = "deleteRow" /\ phase' = "verdict"
    /\ passed' = passed \union {"storage"}
    /\ UNCHANGED <<starts, config, errors, checkedEdit, storageVars, providerVars>>

\* An error of the DELETE is ignored.
DeleteRow ==
    /\ phase = "deleteRow" /\ phase' = "verdict"
    /\ passed' = passed \union {"storage"}
    /\ \/ testRow' = FALSE /\ UNCHANGED leaked
       \/ leaked' = TRUE /\ UNCHANGED testRow
    /\ UNCHANGED <<starts, config, errors, checkedEdit, loaded, providerVars>>

\* LogResults and IsValid; logger.Fatal in main.
Verdict ==
    /\ phase = "verdict" /\ ~errors /\ phase' = "running"
    /\ UNCHANGED <<starts, config, errors, passed, checkedEdit, storageVars,
                   providerVars>>

\* Mutant: the errors are logged, and that is all.
RefusedStays == phase = "verdict" /\ errors /\ UNCHANGED vars

Refused ==
    /\ phase = "verdict" /\ errors
    /\ Exit /\ UNCHANGED leaked
-----------------------------------------------------------------------------
(* At work *)

\* Save writes every counter, and Stop and the ticker call it.
SaveMetrics ==
    /\ phase = "running" /\ config.storage = "sqlite"
    /\ testRow' = (testRow \/ loaded)
    /\ UNCHANGED <<startVars, loaded, leaked, providerVars>>

GetProfile(r) ==
    /\ phase = "running"
    /\ GetProfileStep(r)
    /\ UNCHANGED <<startVars, storageVars>>

\* Nothing in the application calls ReloadProfiles yet.
Reload ==
    /\ phase = "running"
    /\ ReloadProfiles
    /\ UNCHANGED <<startVars, storageVars>>

EditProfile ==
    /\ \E f \in Names : Edit(f)
    /\ UNCHANGED <<startVars, storageVars>>

\* The process dies, or is stopped, anywhere.
Crash ==
    /\ phase # "down"
    /\ Exit
    /\ leaked' = (leaked \/ phase \in {"readRow", "deleteRow"})

ValidationStep ==
    \/ CheckConfig \/ CheckVCS \/ CheckClaude \/ CheckAuth \/ CheckMCP
    \/ CheckGit \/ CheckProfiles \/ CheckDirectories
    \/ CheckFileStorage \/ InsertRow \/ ReadRow \/ DeleteRow \/ Verdict \/ Refused

StartupStep == Load \/ LoadFails \/ New \/ NewPanics \/ ValidationStep

\* No more starts within the bound.
Down == phase = "down" /\ starts = MaxStarts /\ UNCHANGED vars

Next ==
    \/ Start \/ StartupStep
    \/ SaveMetrics \/ Reload \/ EditProfile
    \/ \E r \in Readers : GetProfile(r)
    \/ Crash
    \/ Down

Spec == Init /\ [][Next]_vars

\* The commands of the untimed checks may take for ever.
Fairness == WF_vars(phase \notin Untimed /\ StartupStep)

FairSpec == Spec /\ Fairness
-----------------------------------------------------------------------------
\* A process at work passed every check of its start, in whatever order the
\* failures came, and runs under limits that the other modules assume
\* (CircuitBreakerAssumption, ReviewQueueAssumption, RateLimiterAssumption),
\* unless a negative number was configured: a missing, unreadable or zero
\* setting never gets through to a component.
StartedSound ==
    phase = "running" =>
        /\ passed = AllChecks
        /\ config.inForce > 0 \/ config.given < 0
        /\ config.limit = "requestsPerMinute" => config.inForce > 0

\* The row of the storage check is a counter to everything else that reads the
\* table.  It stays there only after a start that ended between INSERT and
\* DELETE or whose statement failed; then Restore and Save keep it alive.
TestRowExplained ==
    (testRow /\ phase \notin {"readRow", "deleteRow"}) \/ loaded => leaked

\* What a review is given was validated, and a reload is outlived only by what
\* a concurrent miss had read (see ProfileProvider): over the reads, stores,
\* edits, reloads, crashes and restarts of the process around the provider.
ProfilesSound == OnlyValidated /\ StaleOnlyByOverlap

\* "Profile contains required sections (Role, Goal, PR)" and "Profile meets
\* minimum length (100 characters)" are validated on startup, and "missing or
\* invalid profiles result in errors and prevent startup"
\* (docs/profiles.md:469-475): a process at work has a default profile that
\* ValidateProfile accepts, if nobody edited it since the check.  The check
\* (validator.go:302) asks for its size only.
DefaultProfileValidated ==
    phase = "running" /\ disk[DefaultProfile].edit = checkedEdit
        => disk[DefaultProfile].kind = "valid"

Sound == TypeOK /\ StartedSound

\* A start gets to work or ends, unless a command without a time limit hangs.
StartupEnds ==
    \/ []<>(phase \in {"down", "running"})
    \/ <>[](phase \in Untimed)
=============================================================================

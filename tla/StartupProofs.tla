---------------------------- MODULE StartupProofs ---------------------------
(***************************************************************************)
(* Theorems about Startup and the profile provider in it, for all profiles *)
(* and readers and any number of starts, edits and reloads.                *)
(***************************************************************************)
EXTENDS Startup, TLAPS

(* The profile provider *)

LEMMA NameType == ASSUME NEW r PROVE Name(r) \in Files
<1>1. ASSUME NEW p \in DOMAIN ProjectProfiles, NEW slug
      PROVE  ResolveProfileName(p, slug) \in Files
  BY ProfileProviderAssumption DEF ResolveProfileName, Files
<1>2. ASSUME NEW p, NEW slug, p \notin DOMAIN ProjectProfiles
      PROVE  ResolveProfileName(p, slug) \in Files
  BY <1>2, ProfileProviderAssumption DEF ResolveProfileName, Files
<1>. QED  BY <1>1, <1>2 DEF Name

\* What a reader has read and not stored yet, and what a reload knew of.
Reading ==
    \A r \in Readers : at[r] = "read" => got[r] \in Contents /\ got[r].kind = "valid"

FloorIsPast == \A f \in Files : floor[f] <= disk[f].edit

ReadBefore ==
    \A r \in Readers :
        at[r] = "read" /\ got[r].edit < floor[Name(r)] => Name(r) \in overlapped

ProviderInv ==
    /\ ProviderTypeOK /\ OnlyValidated /\ StaleOnlyByOverlap
    /\ Reading /\ FloorIsPast /\ ReadBefore

LEMMA ContentsType ==
    /\ NotCached \notin Contents
    /\ NotCached.edit = 0
    /\ \A c \in Contents : c.edit \in 0..MaxEdits /\ c.kind \in Kinds
BY DEF Contents, NotCached, Kinds

LEMMA ProviderInitially == ProviderInit => ProviderInv
<1>. SUFFICES ASSUME ProviderInit PROVE ProviderInv
  OBVIOUS
<1>1. [edit : {0}, kind : Kinds] \subseteq Contents
  BY ProfileProviderAssumption DEF Contents
<1>2. /\ ProviderTypeOK
      /\ \A f \in Files : disk[f].edit = 0 /\ floor[f] = 0 /\ cache[f] = NotCached
      /\ \A r \in Readers : at[r] = "out" /\ got[r] = NotCached
  BY <1>1, ProfileProviderAssumption DEF ProviderInit, ProviderTypeOK, Contents
<1>. QED
  BY <1>2
  DEF ProviderInv, OnlyValidated, StaleOnlyByOverlap, Reading, FloorIsPast, ReadBefore

LEMMA ReaderStep ==
    ASSUME ProviderInv, NEW r \in Readers, GetProfileStep(r) PROVE ProviderInv'
<1>0. /\ Name(r) \in Files /\ ProviderTypeOK
      /\ disk[Name(r)] \in Contents /\ disk[Name(r)].edit \in 0..MaxEdits
      /\ floor[Name(r)] \in 0..MaxEdits /\ MaxEdits \in Nat
  BY NameType, ContentsType, ProfileProviderAssumption
  DEF ProviderInv, ProviderTypeOK
<1>. USE DEF ProviderInv, OnlyValidated, StaleOnlyByOverlap, Reading, FloorIsPast,
             ReadBefore
<1>n. \A s \in Readers : Name(s)' = Name(s)
  BY DEF Name, ResolveProfileName
<1>1. CASE CacheHit(r) \/ CacheMiss(r) \/ ReadFileFails(r)
  <2>1. UNCHANGED <<disk, cache, floor, overlapped, reloads>>
    BY <1>1 DEF CacheHit, CacheMiss, ReadFileFails
  <2>2. \A s \in Readers :
           /\ at'[s] = "read" => at[s] = "read" /\ got'[s] = got[s]
           /\ got'[s] \in {got[s], NotCached, cache[Name(s)]}
    BY <1>0, <1>1 DEF CacheHit, CacheMiss, ReadFileFails, ProviderTypeOK
  <2>3. ProviderTypeOK'
    BY <1>0, <1>1 DEF CacheHit, CacheMiss, ReadFileFails, ProviderTypeOK
  <2>4. OnlyValidated'
    BY <2>1, <2>2, NameType
  <2>. QED  BY <2>1, <2>2, <2>3, <2>4, <1>n
<1>2. CASE ReadFile(r)
  <2>1. /\ UNCHANGED <<disk, cache, floor, overlapped, reloads>>
        /\ disk[Name(r)].kind = "valid"
        /\ at' = [at EXCEPT ![r] = "read"] /\ got' = [got EXCEPT ![r] = disk[Name(r)]]
    BY <1>2 DEF ReadFile
  <2>2. ProviderTypeOK'
    BY <1>0, <2>1 DEF ProviderTypeOK
  <2>3. \A s \in Readers :
           \/ s = r /\ got'[s] = disk[Name(r)]
           \/ s # r /\ at'[s] = at[s] /\ got'[s] = got[s]
    BY <1>0, <2>1 DEF ProviderTypeOK
  <2>4. OnlyValidated' /\ Reading' /\ StaleOnlyByOverlap' /\ FloorIsPast'
    BY <1>0, <2>1, <2>3
  <2>5. ReadBefore'
    BY <1>0, <1>n, <2>1, <2>3
  <2>. QED  BY <2>2, <2>4, <2>5
<1>3. CASE Store(r)
  <2>1. /\ UNCHANGED <<disk, got, floor, overlapped, reloads>> /\ at[r] = "read"
        /\ cache' = [cache EXCEPT ![Name(r)] = got[r]]
        /\ at' = [at EXCEPT ![r] = "out"]
    BY <1>3 DEF Store
  <2>2. ProviderTypeOK'
    BY <1>0, <2>1 DEF ProviderTypeOK
  <2>3. \A s \in Readers : at'[s] = "read" => at[s] = "read"
    BY <1>0, <2>1 DEF ProviderTypeOK
  <2>4. \A f \in Files : cache'[f] = IF f = Name(r) THEN got[r] ELSE cache[f]
    BY <1>0, <2>1 DEF ProviderTypeOK
  <2>. QED  BY <1>0, <1>n, <2>1, <2>2, <2>3, <2>4
<1>. QED  BY <1>1, <1>2, <1>3 DEF GetProfileStep

LEMMA ReloadStep == ASSUME ProviderInv, ReloadProfiles PROVE ProviderInv'
<1>. USE DEF ProviderInv, OnlyValidated, StaleOnlyByOverlap, Reading, FloorIsPast,
             ReadBefore
<1>1. /\ UNCHANGED <<disk, at, got>> /\ reloads' \in 0..MaxReloads
      /\ cache' = [f \in Files |-> NotCached]
      /\ floor' = [f \in Files |-> disk[f].edit]
      /\ overlapped' = {Name(r) : r \in {s \in Readers : at[s] = "read"}}
  BY ProfileProviderAssumption DEF ReloadProfiles, ProviderTypeOK
<1>2. ProviderTypeOK'
  BY <1>1, ContentsType, NameType DEF ProviderTypeOK
<1>3. \A f \in Files : disk[f].edit \in Nat
  BY ContentsType, ProfileProviderAssumption DEF ProviderTypeOK
<1>n. \A s \in Readers : Name(s)' = Name(s)
  BY DEF Name, ResolveProfileName
<1>. QED  BY <1>1, <1>2, <1>3, <1>n

LEMMA EditStep ==
    ASSUME ProviderInv, NEW f \in Names, Edit(f)
    PROVE  /\ ProviderInv' /\ f \in Files
           /\ disk[f].edit \in Nat /\ disk'[f].edit = disk[f].edit + 1
           /\ \A g \in Files \ {f} : disk'[g] = disk[g]
<1>. USE DEF ProviderInv, OnlyValidated, StaleOnlyByOverlap, Reading, FloorIsPast,
             ReadBefore
<1>1. UNCHANGED <<cache, at, got, reloads, floor, overlapped>> /\ f \in Files
  BY DEF Edit, Files
<1>2. PICK kind \in Kinds :
         disk' = [disk EXCEPT ![f] = [edit |-> @.edit + 1, kind |-> kind]]
  BY DEF Edit
<1>3. disk[f].edit \in 0..MaxEdits /\ disk[f].edit < MaxEdits /\ MaxEdits \in Nat
  BY <1>1, ContentsType, ProfileProviderAssumption DEF Edit, ProviderTypeOK
<1>4. [edit |-> disk[f].edit + 1, kind |-> kind] \in Contents
  BY <1>3 DEF Contents
<1>5. ProviderTypeOK'
  BY <1>1, <1>2, <1>4 DEF ProviderTypeOK
<1>6. /\ disk'[f].edit = disk[f].edit + 1
      /\ \A g \in Files \ {f} : disk'[g] = disk[g]
  BY <1>1, <1>2 DEF ProviderTypeOK
<1>7. \A g \in Files : floor[g] \in 0..MaxEdits /\ disk[g].edit \in 0..MaxEdits
  BY ContentsType DEF ProviderTypeOK
<1>8. FloorIsPast'
  BY <1>1, <1>3, <1>6, <1>7
<1>n. \A s \in Readers : Name(s)' = Name(s)
  BY DEF Name, ResolveProfileName
<1>. QED  BY <1>1, <1>3, <1>5, <1>6, <1>8, <1>n

LEMMA RestartStep == ASSUME ProviderInv, Restart PROVE ProviderInv'
<1>. USE DEF ProviderInv, OnlyValidated, StaleOnlyByOverlap, Reading, FloorIsPast,
             ReadBefore
<1>1. ProviderTypeOK'
  BY ProfileProviderAssumption DEF Restart, ProviderTypeOK
<1>2. \A f \in Files : disk[f].edit \in Nat
  BY ContentsType, ProfileProviderAssumption DEF ProviderTypeOK
<1>. QED  BY <1>1, <1>2 DEF Restart
LEMMA ProviderUntouched ==
    ASSUME ProviderInv, UNCHANGED providerVars PROVE ProviderInv'
BY DEF ProviderInv, ProviderTypeOK, OnlyValidated, StaleOnlyByOverlap, Reading,
       FloorIsPast, ReadBefore, providerVars, Name, ResolveProfileName

\* The inductive invariant of the provider by itself.
THEOREM ProviderInvariant == ProviderSpec => []ProviderInv
<1>1. ProviderInv /\ [ProviderNext]_providerVars => ProviderInv'
  BY ReaderStep, ReloadStep, EditStep, RestartStep, ProviderUntouched DEF ProviderNext
<1>. QED  BY <1>1, ProviderInitially, PTL DEF ProviderSpec

\* The provider by itself, whatever the reviews, edits, reloads and restarts
\* around it: it caches and hands out only what ValidateProfile accepted, and
\* only a read that overlaps a reload brings back an older text.
THEOREM ProviderSound == ProviderSpec => [](OnlyValidated /\ StaleOnlyByOverlap)
<1>1. ProviderInv => OnlyValidated /\ StaleOnlyByOverlap
  BY DEF ProviderInv
<1>. QED  BY <1>1, ProviderInvariant, PTL
-----------------------------------------------------------------------------
(* The start *)

\* The checks that a start without an error has passed before each phase.
PassedBefore(p) ==
    CASE p \in {"down", "load", "new", "config"} -> {}
      [] p = "vcs"    -> {"config"}
      [] p = "claude" -> {"config", "vcs"}
      [] p = "auth"   -> {"config", "vcs", "claude"}
      [] p = "mcp"    -> {"config", "vcs", "claude", "auth"}
      [] p = "git"    -> {"config", "vcs", "claude", "auth", "mcp"}
      [] p = "profiles" -> {"config", "vcs", "claude", "auth", "mcp", "git"}
      [] p = "directories" ->
            {"config", "vcs", "claude", "auth", "mcp", "git", "profiles"}
      [] p \in {"storage", "readRow", "deleteRow"} -> Checks \ {"storage"}
      [] p \in {"verdict", "running"} -> AllChecks

PassedInv ==
    /\ errors \/ passed = PassedBefore(phase)
    /\ phase \in {"down", "load", "new", "config", "running"} => ~errors
    /\ phase \in {"storage", "readRow", "deleteRow"} => config.storage # "none"

ConfigInv ==
    phase \notin {"down", "load"} =>
        /\ config.inForce > 0 \/ config.given < 0
        /\ config.limit = "requestsPerMinute" => config.inForce > 0

AfterProfiles ==
    {"directories", "storage", "readRow", "deleteRow", "verdict", "running"}

\* A file that has been edited since the check has a higher edit number, and
\* one that has not is as the check found it.
CheckedInv ==
    /\ checkedEdit <= disk[DefaultProfile].edit
    /\ phase \in AfterProfiles /\ ~errors /\ disk[DefaultProfile].edit = checkedEdit
         => disk[DefaultProfile].kind \in {"valid", "invalid"}

StartupInv ==
    /\ TypeOK /\ ProviderInv /\ PassedInv /\ ConfigInv /\ CheckedInv
    /\ TestRowExplained

\* A configured number, from the file or the environment, after defaults.
LEMMA LimitInForce ==
    ASSUME NEW limit \in Limits, NEW given \in Int
    PROVE  /\ InForce(limit, given) > 0 \/ given < 0
           /\ limit = "requestsPerMinute" => InForce(limit, given) > 0
BY DEF Limits, Default, InForce

LEMMA EffectiveType ==
    ASSUME NEW limit \in Limits, NEW yaml \in {{}, {-1}, {0}, {1}}, NEW env \in {-1, 0, 1}
    PROVE  Effective(Default[limit], yaml, env) \in Int
<1>1. Default[limit] \in Int
  BY DEF Limits, Default
<1>2. yaml # {} => (CHOOSE n \in yaml : TRUE) \in {-1, 0, 1}
  OBVIOUS
<1>. QED  BY <1>1, <1>2 DEF Effective, FromEnv, FromYAML

LEMMA NoConfigType ==
    /\ NoConfig.limit \in Limits /\ NoConfig.storage \in {"none", "filesystem", "sqlite"}
BY DEF NoConfig, Limits

LEMMA DefaultIsFile == DefaultProfile \in Files /\ DefaultProfile \in Names
BY ProfileProviderAssumption DEF Files

\* A step that leaves the files alone and does not go back to work.
LEMMA CheckedStays ==
    ASSUME CheckedInv, UNCHANGED <<disk, checkedEdit>>,
           errors => errors', phase' \in AfterProfiles => phase \in AfterProfiles
    PROVE  CheckedInv'
BY DEF CheckedInv

\* The process ends.
LEMMA ExitStep ==
    ASSUME StartupInv, Exit, leaked' \in BOOLEAN,
           leaked => leaked', phase \in {"readRow", "deleteRow"} => leaked'
    PROVE  StartupInv'
<1>1. ProviderInv'
  BY RestartStep DEF StartupInv, Exit
<1>2. /\ phase' = "down" /\ loaded' = FALSE /\ errors' = FALSE /\ passed' = {}
      /\ checkedEdit' = 0 /\ config' = NoConfig /\ UNCHANGED <<starts, testRow, disk>>
  BY DEF Exit, Restart
<1>b. MaxEdits \in Nat
  BY ProfileProviderAssumption
<1>3. TypeOK'
  <2>1. phase' \in Phases /\ passed' \subseteq Checks
    BY <1>2 DEF Phases
  <2>2. checkedEdit' \in 0..MaxEdits
    BY <1>2, <1>b
  <2>3. config'.limit \in Limits /\ config'.storage \in {"none", "filesystem", "sqlite"}
    BY <1>2, NoConfigType
  <2>. QED  BY <1>1, <1>2, <2>1, <2>2, <2>3 DEF StartupInv, TypeOK, ProviderInv
<1>4. PassedInv' /\ ConfigInv'
  BY <1>2 DEF PassedInv, PassedBefore, ConfigInv
<1>5. CheckedInv'
  <2>1. disk[DefaultProfile].edit \in 0..MaxEdits
    BY DefaultIsFile, ContentsType DEF StartupInv, TypeOK, ProviderTypeOK
  <2>. QED  BY <1>2, <2>1, ProfileProviderAssumption DEF CheckedInv, AfterProfiles
<1>6. TestRowExplained'
  BY <1>2 DEF StartupInv, TestRowExplained
<1>. QED  BY <1>1, <1>3, <1>4, <1>5, <1>6 DEF StartupInv

LEMMA StartupInitially == Init => StartupInv
<1>. SUFFICES ASSUME Init PROVE StartupInv
  OBVIOUS
<1>1. ProviderInv
  BY ProviderInitially DEF Init
<1>b. MaxEdits \in Nat /\ MaxStarts \in Nat
  BY StartupAssumption, ProfileProviderAssumption
<1>2. TypeOK
  <2>1. phase \in Phases /\ passed \subseteq Checks
    BY DEF Init, Phases
  <2>2. checkedEdit \in 0..MaxEdits /\ starts \in 0..MaxStarts
    BY <1>b DEF Init
  <2>3. config.limit \in Limits /\ config.storage \in {"none", "filesystem", "sqlite"}
    BY NoConfigType DEF Init
  <2>. QED  BY <1>1, <2>1, <2>2, <2>3 DEF Init, TypeOK, ProviderInv
<1>3. disk[DefaultProfile].edit \in 0..MaxEdits
  BY <1>2, DefaultIsFile, ContentsType DEF TypeOK, ProviderTypeOK
<1>. QED
  BY <1>1, <1>2, <1>3, <1>b
  DEF Init, StartupInv, PassedInv, PassedBefore, ConfigInv, CheckedInv,
      AfterProfiles, TestRowExplained

LEMMA StartupInductive ==
    ASSUME StartupInv, [Next]_vars PROVE StartupInv'
<1>0. /\ TypeOK /\ ProviderInv /\ PassedInv /\ ConfigInv /\ CheckedInv
      /\ TestRowExplained
      /\ disk[DefaultProfile].edit \in 0..MaxEdits /\ MaxEdits \in Nat
  BY DefaultIsFile, ContentsType, ProfileProviderAssumption
  DEF StartupInv, TypeOK, ProviderTypeOK
<1>1. CASE Start
  <2>1. ProviderInv' /\ UNCHANGED <<disk, checkedEdit, testRow, loaded, leaked>>
    BY <1>0, <1>1, ProviderUntouched DEF Start, storageVars, providerVars
  <2>2. TypeOK'
    BY <1>0, <1>1, <2>1, StartupAssumption
    DEF Start, TypeOK, Phases, ProviderInv, storageVars
  <2>3. PassedInv' /\ ConfigInv' /\ TestRowExplained'
    BY <1>0, <1>1, <2>1
    DEF Start, PassedInv, PassedBefore, ConfigInv, TestRowExplained
  <2>4. CheckedInv'
    BY <1>0, <1>1, <2>1, CheckedStays DEF Start, AfterProfiles
  <2>. QED  BY <2>1, <2>2, <2>3, <2>4 DEF StartupInv
<1>2. CASE Load
  <2>1. ProviderInv' /\ UNCHANGED <<disk, checkedEdit, testRow, loaded, leaked>>
    BY <1>0, <1>2, ProviderUntouched DEF Load, storageVars, providerVars
  <2>2. PICK limit \in Limits, given \in Int, storage \in {"none", "filesystem", "sqlite"} :
           config' = [limit |-> limit, given |-> given,
                      inForce |-> InForce(limit, given), storage |-> storage]
    BY <1>2, EffectiveType DEF Load
  <2>3. TypeOK'
    BY <1>0, <1>2, <2>1, <2>2 DEF Load, TypeOK, Phases, ProviderInv, storageVars
  <2>4. PassedInv' /\ ConfigInv' /\ TestRowExplained'
    BY <1>0, <1>2, <2>1, <2>2, LimitInForce
    DEF Load, PassedInv, PassedBefore, ConfigInv, TestRowExplained
  <2>5. CheckedInv'
    BY <1>0, <1>2, <2>1, CheckedStays DEF Load, AfterProfiles
  <2>. QED  BY <2>1, <2>3, <2>4, <2>5 DEF StartupInv
<1>3. CASE LoadFails \/ NewPanics \/ Refused \/ Crash
  <2>1. Exit /\ leaked' \in BOOLEAN /\ (leaked => leaked')
        /\ (phase \in {"readRow", "deleteRow"} => leaked')
    BY <1>0, <1>3 DEF LoadFails, NewPanics, Refused, Crash, TypeOK
  <2>. QED  BY <2>1, ExitStep
<1>4. CASE New
  <2>1. ProviderInv' /\ UNCHANGED <<disk, checkedEdit, testRow, leaked>>
    BY <1>0, <1>4, ProviderUntouched DEF New, providerVars
  <2>a. loaded' \in BOOLEAN /\ (loaded' => testRow)
    <3>1. CASE loaded' = FALSE
      BY <3>1
    <3>2. CASE loaded' = (config.storage = "sqlite" /\ testRow)
      BY <3>2, Zenon
    <3>. QED  BY <1>4, <3>1, <3>2 DEF New
  <2>b. /\ phase = "new" /\ phase' = "config"
        /\ UNCHANGED <<starts, config, errors, passed>>
    BY <1>4 DEF New
  <2>2. TypeOK'
    BY <1>0, <2>1, <2>a, <2>b DEF TypeOK, Phases, Checks, ProviderInv
  <2>3. PassedInv' /\ ConfigInv' /\ TestRowExplained'
    BY <1>0, <2>1, <2>a, <2>b
    DEF PassedInv, PassedBefore, ConfigInv, TestRowExplained
  <2>4. CheckedInv'
    BY <1>0, <1>4, <2>1, CheckedStays DEF New, AfterProfiles
  <2>. QED  BY <2>1, <2>2, <2>3, <2>4 DEF StartupInv
<1>5. CASE \/ CheckConfig \/ CheckVCS \/ CheckClaude \/ CheckAuth \/ CheckMCP
           \/ CheckGit
  <2>1. /\ ProviderInv' /\ UNCHANGED <<disk, checkedEdit, testRow, loaded, leaked>>
        /\ UNCHANGED <<starts, config>>
    BY <1>0, <1>5, ProviderUntouched
    DEF CheckConfig, CheckVCS, CheckClaude, CheckAuth, CheckMCP, CheckGit, Unstored,
        Passes, Fails, storageVars, providerVars
  <2>2. /\ phase \in {"config", "vcs", "claude", "auth", "mcp", "git"}
        /\ phase' \in {"vcs", "claude", "auth", "mcp", "git", "profiles", "verdict"}
        /\ errors' \in BOOLEAN /\ passed' \subseteq Checks
        /\ phase' = "verdict" => errors'
    BY <1>0, <1>5
    DEF CheckConfig, CheckVCS, CheckClaude, CheckAuth, CheckMCP, CheckGit,
        Passes, Fails, TypeOK, Checks
  <2>3. TypeOK'
    BY <1>0, <2>1, <2>2 DEF TypeOK, Phases, ProviderInv, Checks
  <2>4. errors' \/ passed' = PassedBefore(phase')
    BY <1>0, <1>5
    DEF CheckConfig, CheckVCS, CheckClaude, CheckAuth, CheckMCP, CheckGit,
        Passes, Fails, PassedInv, PassedBefore
  <2>5. PassedInv' /\ ConfigInv' /\ TestRowExplained'
    BY <1>0, <2>1, <2>2, <2>4
    DEF PassedInv, PassedBefore, AllChecks, ConfigInv, TestRowExplained
  <2>6. CheckedInv'
    BY <1>0, <2>1, <2>2 DEF CheckedInv, AfterProfiles
  <2>. QED  BY <2>1, <2>3, <2>5, <2>6 DEF StartupInv
<1>6. CASE CheckProfiles
  <2>1. ProviderInv' /\ UNCHANGED <<disk, testRow, loaded, leaked, starts, config>>
    BY <1>0, <1>6, ProviderUntouched
    DEF CheckProfiles, Unstored, Passes, Fails, storageVars, providerVars
  <2>2. /\ phase = "profiles" /\ phase' = "directories"
        /\ checkedEdit' = disk[DefaultProfile].edit
    BY <1>6 DEF CheckProfiles, Passes, Fails
  <2>3. \/ /\ disk[DefaultProfile].kind \in {"valid", "invalid"}
           /\ passed' = passed \union {"profiles"} /\ UNCHANGED errors
        \/ errors' = TRUE /\ UNCHANGED passed
    BY <1>6 DEF CheckProfiles, Passes, Fails
  <2>4. TypeOK'
    BY <1>0, <2>1, <2>2, <2>3 DEF TypeOK, Phases, Checks, ProviderInv
  <2>5. PassedInv' /\ ConfigInv' /\ TestRowExplained'
    BY <1>0, <2>1, <2>2, <2>3 DEF PassedInv, PassedBefore, ConfigInv, TestRowExplained
  <2>6. CheckedInv'
    BY <1>0, <2>1, <2>2, <2>3 DEF CheckedInv
  <2>. QED  BY <2>1, <2>4, <2>5, <2>6 DEF StartupInv
<1>7. CASE CheckDirectories \/ CheckFileStorage
  <2>1. /\ ProviderInv' /\ UNCHANGED <<disk, checkedEdit, testRow, loaded, leaked>>
        /\ UNCHANGED <<starts, config>>
    BY <1>0, <1>7, ProviderUntouched
    DEF CheckDirectories, CheckFileStorage, Unstored, Passes, Fails, storageVars,
        providerVars
  <2>2. /\ phase \in AfterProfiles /\ phase' \in {"storage", "verdict"}
        /\ errors' \in BOOLEAN /\ passed' \subseteq Checks /\ (errors => errors')
    BY <1>0, <1>7
    DEF CheckDirectories, CheckFileStorage, Passes, Fails, TypeOK, AfterProfiles, Checks
  <2>3. TypeOK'
    BY <1>0, <2>1, <2>2 DEF TypeOK, Phases, Checks, ProviderInv
  <2>4. errors' \/ passed' = PassedBefore(phase')
    BY <1>0, <1>7
    DEF CheckDirectories, CheckFileStorage, Passes, Fails, PassedInv, PassedBefore,
        AllChecks, Checks
  <2>7. /\ phase' = "storage" => config.storage # "none"
        /\ phase \notin {"down", "load", "readRow", "deleteRow"}
    BY <1>7 DEF CheckDirectories, CheckFileStorage, Passes, Fails
  <2>5. PassedInv' /\ ConfigInv' /\ TestRowExplained'
    BY <1>0, <2>1, <2>2, <2>4, <2>7
    DEF PassedInv, PassedBefore, AllChecks, ConfigInv, TestRowExplained
  <2>6. CheckedInv'
    BY <1>0, <2>1, <2>2, CheckedStays
  <2>. QED  BY <2>1, <2>3, <2>5, <2>6 DEF StartupInv
<1>8. CASE InsertRow \/ ReadRow \/ DeleteRow
  <2>1. /\ ProviderInv' /\ UNCHANGED <<disk, checkedEdit, loaded, starts, config>>
    BY <1>0, <1>8, ProviderUntouched
    DEF InsertRow, ReadRow, DeleteRow, Fails, providerVars
  <2>2. /\ phase \in {"storage", "readRow", "deleteRow"}
        /\ phase' \in {"readRow", "deleteRow", "verdict"}
        /\ errors' \in BOOLEAN /\ passed' \subseteq Checks /\ (errors => errors')
        /\ testRow' \in BOOLEAN /\ leaked' \in BOOLEAN /\ (leaked => leaked')
    BY <1>0, <1>8
    DEF InsertRow, ReadRow, DeleteRow, Fails, TypeOK, Checks
  <2>3. TypeOK'
    BY <1>0, <2>1, <2>2 DEF TypeOK, Phases, Checks, ProviderInv
  <2>4. errors' \/ passed' = PassedBefore(phase')
    BY <1>0, <1>8
    DEF InsertRow, ReadRow, DeleteRow, Fails, PassedInv, PassedBefore, AllChecks, Checks
  <2>5. PassedInv' /\ ConfigInv'
    BY <1>0, <2>1, <2>2, <2>4 DEF PassedInv, PassedBefore, AllChecks, ConfigInv
  <2>6. TestRowExplained'
    BY <1>0, <1>8, <2>1 DEF InsertRow, ReadRow, DeleteRow, Fails, TestRowExplained
  <2>7. CheckedInv'
    BY <1>0, <2>1, <2>2, CheckedStays DEF AfterProfiles
  <2>. QED  BY <2>1, <2>3, <2>5, <2>6, <2>7 DEF StartupInv
<1>9. CASE Verdict \/ SaveMetrics
  <2>1. ProviderInv' /\ UNCHANGED <<disk, checkedEdit, loaded, leaked, starts, config, errors, passed>>
    BY <1>0, <1>9, ProviderUntouched
    DEF Verdict, SaveMetrics, startVars, storageVars, providerVars
  <2>2. /\ phase' = "running" /\ ~errors
        /\ phase \in AfterProfiles /\ passed = AllChecks
        /\ testRow' \in BOOLEAN /\ (testRow' => testRow \/ loaded)
        /\ phase \notin {"readRow", "deleteRow", "down", "load", "new"}
    BY <1>0, <1>9
    DEF Verdict, SaveMetrics, startVars, storageVars, PassedInv, PassedBefore,
        AfterProfiles, TypeOK
  <2>3. TypeOK'
    BY <1>0, <2>1, <2>2 DEF TypeOK, Phases, ProviderInv
  <2>4. PassedInv' /\ ConfigInv' /\ TestRowExplained'
    BY <1>0, <2>1, <2>2
    DEF PassedInv, PassedBefore, AllChecks, ConfigInv, TestRowExplained
  <2>5. CheckedInv'
    BY <1>0, <2>1, <2>2, CheckedStays
  <2>. QED  BY <2>1, <2>3, <2>4, <2>5 DEF StartupInv
<1>10. CASE EditProfile
  <2>1. PICK f \in Names : Edit(f)
    BY <1>10 DEF EditProfile
  <2>2. /\ ProviderInv' /\ f \in Files
        /\ disk[f].edit \in Nat /\ disk'[f].edit = disk[f].edit + 1
        /\ \A g \in Files \ {f} : disk'[g] = disk[g]
    BY <1>0, <2>1, EditStep
  <2>3. UNCHANGED <<phase, starts, config, errors, passed, checkedEdit, testRow,
                    loaded, leaked>>
    BY <1>10 DEF EditProfile, startVars, storageVars
  <2>4. TypeOK' /\ PassedInv' /\ ConfigInv' /\ TestRowExplained'
    BY <1>0, <2>2, <2>3
    DEF TypeOK, ProviderInv, PassedInv, PassedBefore, AllChecks, ConfigInv,
        TestRowExplained
  <2>5. CheckedInv'
    <3>1. checkedEdit \in 0..MaxEdits
      BY <1>0 DEF TypeOK
    <3>2. CASE f = DefaultProfile
      <4>1. disk'[DefaultProfile].edit > checkedEdit
        BY <1>0, <2>2, <3>1, <3>2 DEF CheckedInv
      <4>. QED  BY <1>0, <2>2, <2>3, <3>1, <3>2, <4>1 DEF CheckedInv
    <3>3. CASE f # DefaultProfile
      BY <1>0, <2>2, <2>3, <3>3, DefaultIsFile DEF CheckedInv
    <3>. QED  BY <3>2, <3>3
  <2>. QED  BY <2>2, <2>4, <2>5 DEF StartupInv
<1>11. CASE Reload \/ (\E r \in Readers : GetProfile(r)) \/ UNCHANGED vars
  <2>1. ProviderInv'
    BY <1>0, <1>11, ReloadStep, ReaderStep, ProviderUntouched DEF Reload, GetProfile, vars
  <2>2. UNCHANGED <<disk, phase, starts, config, errors, passed, checkedEdit,
                    testRow, loaded, leaked>>
    BY <1>11 DEF Reload, ReloadProfiles, GetProfile, GetProfileStep, CacheHit,
                 CacheMiss, ReadFile, ReadFileFails, Store, vars, startVars,
                 storageVars, providerVars
  <2>3. TypeOK' /\ PassedInv' /\ ConfigInv' /\ TestRowExplained'
    BY <1>0, <2>1, <2>2
    DEF TypeOK, ProviderInv, PassedInv, PassedBefore, AllChecks, ConfigInv,
        TestRowExplained
  <2>4. CheckedInv'
    BY <1>0, <2>2, CheckedStays
  <2>. QED  BY <2>1, <2>3, <2>4 DEF StartupInv
<1>. QED
  BY <1>1, <1>2, <1>3, <1>4, <1>5, <1>6, <1>7, <1>8, <1>9, <1>10, <1>11
  DEF Next, StartupStep, ValidationStep, Down

THEOREM StartupInvariant == Spec => []StartupInv
<1>1. StartupInv /\ [Next]_vars => StartupInv'
  BY StartupInductive
<1>. QED  BY <1>1, StartupInitially, PTL DEF Spec

\* A process gets to work only past every check and under usable limits.
THEOREM StartupSound == Spec => []Sound
<1>1. StartupInv => Sound
  BY DEF StartupInv, PassedInv, PassedBefore, ConfigInv, Sound, StartedSound
<1>. QED  BY <1>1, StartupInvariant, PTL

\* The row of the storage check outlives the check only after a crash in the
\* middle of it or a failed statement.
THEOREM StartupTestRowExplained == Spec => []TestRowExplained
<1>1. StartupInv => TestRowExplained
  BY DEF StartupInv
<1>. QED  BY <1>1, StartupInvariant, PTL

\* Whatever the order of misses, stores, edits and reloads: only validated
\* profiles get to a review, and only an overlapping miss outlives a reload.
THEOREM StartupProfilesSound == Spec => []ProfilesSound
<1>1. StartupInv => ProfilesSound
  BY DEF StartupInv, ProviderInv, ProfilesSound
<1>. QED  BY <1>1, StartupInvariant, PTL

\* What is left of the promise that an invalid default profile prevents the
\* start: at work it exists and is not empty, if nobody edited it since
\* validateProfiles looked (DefaultProfileValidated, which asks for more, fails).
THEOREM StartupDefaultExists ==
    Spec => [](phase = "running" /\ disk[DefaultProfile].edit = checkedEdit
                 => disk[DefaultProfile].kind \in {"valid", "invalid"})
<1>1. StartupInv => (phase = "running" /\ disk[DefaultProfile].edit = checkedEdit
                       => disk[DefaultProfile].kind \in {"valid", "invalid"})
  BY DEF StartupInv, PassedInv, CheckedInv, AfterProfiles
<1>. QED  BY <1>1, StartupInvariant, PTL

\* The process uses its provider only as the provider's module allows: what
\* holds of every ProfileProvider holds of this one.
THEOREM StartupDrivesProvider == Spec => ProviderSpec
<1>1. Init => ProviderInit
  BY DEF Init
<1>2. [Next]_vars => [ProviderNext]_providerVars
  <2>. SUFFICES ASSUME [Next]_vars PROVE [ProviderNext]_providerVars
    OBVIOUS
  <2>1. CASE LoadFails \/ NewPanics \/ Refused \/ Crash
    BY <2>1 DEF LoadFails, NewPanics, Refused, Crash, Exit, ProviderNext
  <2>2. CASE \/ Reload \/ EditProfile
             \/ \E r \in Readers : GetProfile(r)
    BY <2>2 DEF Reload, EditProfile, GetProfile, ProviderNext
  <2>3. CASE Start \/ Load \/ New \/ SaveMetrics \/ Down \/ UNCHANGED vars
    BY <2>3 DEF Start, Load, New, SaveMetrics, Down, vars
  <2>4. CASE ValidationStep /\ ~Refused
    BY <2>4 DEF ValidationStep, CheckConfig, CheckVCS, CheckClaude, CheckAuth, CheckMCP,
                CheckGit, CheckProfiles, CheckDirectories, CheckFileStorage, InsertRow,
                ReadRow, DeleteRow, Verdict, Unstored
  <2>. QED  BY <2>1, <2>2, <2>3, <2>4 DEF Next, StartupStep
<1>. QED  BY <1>1, <1>2, PTL DEF Spec, ProviderSpec
=============================================================================

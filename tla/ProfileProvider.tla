-------------------------- MODULE ProfileProvider ---------------------------
(***************************************************************************)
(* The review profiles of internal/adapters/profiles/provider.go.          *)
(*                                                                         *)
(* GetProfile looks in the cache under the lock, and on a miss reads and   *)
(* validates the file and stores it under the lock again: the file is read *)
(* with the lock free, while others read, store or reload, and while       *)
(* somebody edits it.                                                      *)
(***************************************************************************)
EXTENDS Naturals

CONSTANTS
    Readers,          \* who calls GetProfile (the reviews in progress)
    Names, NoName,    \* names of profiles; the empty string
    DefaultProfile,
    ProjectProfiles,  \* per project, its profile and those of its repositories
    Repo,             \* <<project key, repository slug>> of a reader's request
    MaxEdits,         \* bound on the edits of a profile file
    MaxReloads        \* bound on the reloads

ASSUME ProfileProviderAssumption ==
    /\ NoName \notin Names /\ DefaultProfile \in Names  \* NewProvider
    /\ MaxEdits \in Nat /\ MaxReloads \in Nat
    /\ \A project \in DOMAIN ProjectProfiles :
          LET config == ProjectProfiles[project] IN
          /\ config.profile \in Names \union {NoName}
          /\ \A slug \in DOMAIN config.repositories :
                config.repositories[slug] \in Names \union {NoName}

\* What a file holds after its n-th edit: a text ValidateProfile accepts, one
\* that it refuses, nothing, or there is no file.
Kinds == {"valid", "invalid", "empty", "missing"}
Contents == [edit : 0..MaxEdits, kind : Kinds]
NotCached == [edit |-> 0, kind |-> "none"]

VARIABLES
    disk,       \* the profile files
    cache,
    at,         \* where GetProfile stands: "out", "miss" or "read"
    got,        \* the content in the hands of a reader
    (* history *)
    reloads,    \* the number of reloads
    floor,      \* the edit each file had at the last reload
    overlapped  \* names that a reader was between read and store of, then

providerVars == <<disk, cache, at, got, reloads, floor, overlapped>>

\* Files: a name, or the empty override (the file ".md").
Files == Names \union {NoName}

ProviderTypeOK ==
    /\ disk \in [Files -> Contents]
    /\ cache \in [Files -> Contents \union {NotCached}]
    /\ at \in [Readers -> {"out", "miss", "read"}]
    /\ got \in [Readers -> Contents \union {NotCached}]
    /\ reloads \in 0..MaxReloads
    /\ floor \in [Files -> 0..MaxEdits]
    /\ overlapped \subseteq Files

\* The files are in any state; none is called ".md".  NewProvider caches none.
ProviderInit ==
    /\ disk \in [Files -> [edit : {0}, kind : Kinds]]
    /\ disk[NoName].kind = "missing"
    /\ cache = [f \in Files |-> NotCached]
    /\ at = [r \in Readers |-> "out"]
    /\ got = [r \in Readers |-> NotCached]
    /\ reloads = 0
    /\ floor = [f \in Files |-> 0]
    /\ overlapped = {}
-----------------------------------------------------------------------------
\* The repository's profile, even an empty one, then the project's, then the
\* default one.
ResolveProfileName(project, slug) ==
    IF project \notin DOMAIN ProjectProfiles THEN DefaultProfile
    ELSE LET config == ProjectProfiles[project] IN
         IF slug \in DOMAIN config.repositories THEN config.repositories[slug]
         ELSE IF config.profile # NoName THEN config.profile
         ELSE DefaultProfile

Name(r) == ResolveProfileName(Repo[r][1], Repo[r][2])

\* A hit hands out the cached text.
CacheHit(r) ==
    /\ at[r] = "out" /\ cache[Name(r)] # NotCached
    /\ got' = [got EXCEPT ![r] = cache[Name(r)]]
    /\ UNCHANGED <<disk, cache, at, reloads, floor, overlapped>>

CacheMiss(r) ==
    /\ at[r] = "out" /\ cache[Name(r)] = NotCached
    /\ at' = [at EXCEPT ![r] = "miss"]
    /\ UNCHANGED <<disk, cache, got, reloads, floor, overlapped>>

\* Mutant: the text is used without ValidateProfile.
ReadFileUnvalidated(r) ==
    /\ at[r] = "miss" /\ disk[Name(r)].kind # "missing"
    /\ at' = [at EXCEPT ![r] = "read"]
    /\ got' = [got EXCEPT ![r] = disk[Name(r)]]
    /\ UNCHANGED <<disk, cache, reloads, floor, overlapped>>

\* os.ReadFile found the file, and ValidateProfile found its sections.
ReadFile(r) ==
    /\ at[r] = "miss" /\ disk[Name(r)].kind = "valid"
    /\ at' = [at EXCEPT ![r] = "read"]
    /\ got' = [got EXCEPT ![r] = disk[Name(r)]]
    /\ UNCHANGED <<disk, cache, reloads, floor, overlapped>>

\* PROFILE_NOT_FOUND or PROFILE_INVALID: a failure is not cached.
ReadFileFails(r) ==
    /\ at[r] = "miss" /\ disk[Name(r)].kind # "valid"
    /\ at' = [at EXCEPT ![r] = "out"]
    /\ got' = [got EXCEPT ![r] = NotCached]
    /\ UNCHANGED <<disk, cache, reloads, floor, overlapped>>

Store(r) ==
    /\ at[r] = "read"
    /\ cache' = [cache EXCEPT ![Name(r)] = got[r]]
    /\ at' = [at EXCEPT ![r] = "out"]
    /\ UNCHANGED <<disk, got, reloads, floor, overlapped>>

\* Mutant: the cache survives the reload.
ReloadKeepsCache ==
    /\ reloads < MaxReloads
    /\ reloads' = reloads + 1
    /\ floor' = [f \in Files |-> disk[f].edit]
    /\ overlapped' = {Name(r) : r \in {s \in Readers : at[s] = "read"}}
    /\ UNCHANGED <<disk, cache, at, got>>

\* ReloadProfiles: the directory could be listed, the cache is dropped.
ReloadProfiles ==
    /\ reloads < MaxReloads
    /\ reloads' = reloads + 1
    /\ cache' = [f \in Files |-> NotCached]
    /\ floor' = [f \in Files |-> disk[f].edit]
    /\ overlapped' = {Name(r) : r \in {s \in Readers : at[s] = "read"}}
    /\ UNCHANGED <<disk, at, got>>

\* Somebody edits a profile; writing in place passes through a torn text.
Edit(f) ==
    /\ disk[f].edit < MaxEdits
    /\ \E kind \in Kinds :
          disk' = [disk EXCEPT ![f] = [edit |-> @.edit + 1, kind |-> kind]]
    /\ UNCHANGED <<cache, at, got, reloads, floor, overlapped>>

\* The process ends and another one begins.
Restart ==
    /\ cache' = [f \in Files |-> NotCached]
    /\ at' = [r \in Readers |-> "out"]
    /\ got' = [r \in Readers |-> NotCached]
    /\ floor' = [f \in Files |-> 0]
    /\ overlapped' = {}
    /\ UNCHANGED <<disk, reloads>>

GetProfileStep(r) ==
    CacheHit(r) \/ CacheMiss(r) \/ ReadFile(r) \/ ReadFileFails(r) \/ Store(r)

ProviderNext ==
    \/ \E r \in Readers : GetProfileStep(r)
    \/ ReloadProfiles
    \/ \E f \in Names : Edit(f)
    \/ Restart

ProviderSpec == ProviderInit /\ [][ProviderNext]_providerVars
-----------------------------------------------------------------------------
\* ValidateProfile stands between the disk and everything a review can be
\* given: no order of misses, edits and reloads caches or hands out a text it
\* would refuse.
OnlyValidated ==
    /\ \A f \in Files : cache[f] = NotCached \/ cache[f].kind = "valid"
    /\ \A r \in Readers : got[r] = NotCached \/ got[r].kind = "valid"

\* "reloads profiles from the filesystem and clears the cache"
\* (provider.go:152): a cached text older than the file was at the last reload
\* was stored by a reader that had read it before that reload, and nothing
\* else makes a reload miss an edit.
StaleOnlyByOverlap ==
    \A f \in Files :
        cache[f] # NotCached /\ cache[f].edit < floor[f] => f \in overlapped
=============================================================================

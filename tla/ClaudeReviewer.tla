--------------------------- MODULE ClaudeReviewer ---------------------------
(***************************************************************************)
(* One call of Review in internal/adapters/claude/reviewer.go per job: the *)
(* claude command under exec.CommandContext, its time limit, and how its   *)
(* end is classified.                                                      *)
(*                                                                         *)
(* The limit kills the command itself and no process it started.  cmd.Run  *)
(* also waits until nobody holds the pipes of stdout and stderr, and no    *)
(* WaitDelay bounds that wait.                                             *)
(***************************************************************************)
EXTENDS DomainErrors

CONSTANT Jobs

VARIABLES
    child,     \* the claude process: "none", "running", or how it ended:
               \* "answered", "failed" or "killed"
    pipeHeld,  \* a process it started still holds stdout or stderr
    deadline   \* the time limit of the call has passed

agentVars == <<child, pipeHeld, deadline>>

Ended == {"answered", "failed", "killed"}

AgentTypeOK ==
    /\ child \in [Jobs -> {"none", "running"} \union Ended]
    /\ pipeHeld \in [Jobs -> BOOLEAN]
    /\ deadline \in [Jobs -> BOOLEAN]

AgentInit ==
    /\ child = [j \in Jobs |-> "none"]
    /\ pipeHeld = [j \in Jobs |-> FALSE]
    /\ deadline = [j \in Jobs |-> FALSE]
-----------------------------------------------------------------------------
\* context.WithTimeout and the start of cmd.Run, which may fail (no claude in
\* the path, no clone directory).
Start(j) ==
    /\ child[j] = "none"
    /\ \E c \in {"running", "failed"} : child' = [child EXCEPT ![j] = c]
    /\ UNCHANGED <<pipeHeld, deadline>>

\* The command starts a process that inherits its stdout or stderr.
Spawn(j) ==
    /\ child[j] = "running" /\ ~pipeHeld[j]
    /\ pipeHeld' = [pipeHeld EXCEPT ![j] = TRUE]
    /\ UNCHANGED <<child, deadline>>

LetGo(j) ==
    /\ pipeHeld[j]
    /\ pipeHeld' = [pipeHeld EXCEPT ![j] = FALSE]
    /\ UNCHANGED <<child, deadline>>

\* Before the limit or in the instant between it and the signal.  An exit code
\* of 0 without is_error in the JSON answer, or without any JSON (the output is
\* the answer then), is an answer; metrics are optional.
Exit(j) ==
    /\ child[j] = "running"
    /\ \E c \in {"answered", "failed"} : child' = [child EXCEPT ![j] = c]
    /\ UNCHANGED <<pipeHeld, deadline>>

DeadlinePasses(j) ==
    /\ child[j] # "none" /\ ~deadline[j]
    /\ deadline' = [deadline EXCEPT ![j] = TRUE]
    /\ UNCHANGED <<child, pipeHeld>>

\* Mutant: the time limit is not passed to the command.
KillIgnored(j) ==
    /\ deadline[j] /\ child[j] = "running"
    /\ UNCHANGED agentVars

\* os/exec signals the command, and none of the processes it started.
Kill(j) ==
    /\ deadline[j] /\ child[j] = "running"
    /\ child' = [child EXCEPT ![j] = "killed"]
    /\ UNCHANGED <<pipeHeld, deadline>>

\* executeClaude's error, if any, and the code Review gives it.  The clock is
\* asked after the command ended, not what ended it.
Classify(failed, late) ==
    IF ~failed THEN NoError
    ELSE New(IF late THEN "REVIEWER_TIMEOUT" ELSE "REVIEWER_FAILED")

\* Mutant: Run does not wait for the command.
ReturnAtDeadline(j, result) ==
    /\ child[j] \in Ended \/ deadline[j]
    /\ result = Classify(child[j] # "answered", deadline[j])
    /\ UNCHANGED agentVars

\* cmd.Run returns, and Review with it.
Return(j, result) ==
    /\ child[j] \in Ended /\ ~pipeHeld[j]
    /\ result = Classify(child[j] # "answered", deadline[j])
    /\ child' = [child EXCEPT ![j] = "none"]
    /\ deadline' = [deadline EXCEPT ![j] = FALSE]
    /\ UNCHANGED pipeHeld

ReviewResults == {NoError, New("REVIEWER_TIMEOUT"), New("REVIEWER_FAILED")}

\* What happens in the claude process and to its clock.
AgentWorld(j) ==
    Spawn(j) \/ LetGo(j) \/ Exit(j) \/ DeadlinePasses(j) \/ Kill(j)

AgentNext ==
    \E j \in Jobs :
        Start(j) \/ AgentWorld(j) \/ \E result \in ReviewResults : Return(j, result)

AgentSpec == AgentInit /\ [][AgentNext]_agentVars
=============================================================================

--------------------------- MODULE Configuration ----------------------------
(***************************************************************************)
(* How a limit comes about: internal/config/config.go, and the defaults    *)
(* that the constructors of the components put in.  (The events that       *)
(* trigger a review are in WebhookIntake.)                                 *)
(***************************************************************************)
EXTENDS Integers

\* yaml.Unmarshal overwrites the default only with what the file names: yaml
\* is the set of its values for the setting, of one element at most.
FromYAML(default, yaml) == IF yaml = {} THEN default ELSE CHOOSE n \in yaml : TRUE

\* getEnvAsInt answers 0 for an unset and for an unreadable variable, and a 0
\* overrides nothing; a negative number does.
FromEnv(value, env) == IF env = 0 THEN value ELSE env

Effective(default, yaml, env) == FromEnv(FromYAML(default, yaml), env)

Limits  == {"queueSize", "maxRetries", "workers", "failureThreshold",
            "requestsPerMinute"}
Default == [queueSize |-> 100, maxRetries |-> 3, workers |-> 1,
            failureThreshold |-> 3, requestsPerMinute |-> 60]

\* Mutant: a limit of 0 stays 0.
InForceAsGiven(limit, value) ==
    IF limit = "requestsPerMinute" /\ value <= 0 THEN Default[limit] ELSE value

\* NewQueue and NewBreaker take 0 for "not set"; initializeRateLimiter takes
\* every number that is not positive so.
InForce(limit, value) ==
    IF value = 0 \/ (limit = "requestsPerMinute" /\ value < 0)
    THEN Default[limit]
    ELSE value
=============================================================================

---------------------------- MODULE DomainErrors ----------------------------
(***************************************************************************)
(* The errors of internal/domain/errors/errors.go.  An error is the chain  *)
(* of the codes that Wrap put around it, outermost first; an error without *)
(* a DomainError in its chain is the empty chain.                          *)
(***************************************************************************)
EXTENDS Sequences

NoError == <<"none">>

New(code) == <<code>>

Wrap(code, cause) == <<code>> \o cause

RetryableCodes ==
    {"TIMEOUT", "NETWORK_FAILURE", "RATE_LIMIT_EXCEEDED", "VCS_API_ERROR",
     "GIT_UPDATE_FAILED", "REVIEWER_TIMEOUT"}

\* errors.As stops at the outermost DomainError.
GetCode(err) == IF err = <<>> THEN "UNKNOWN" ELSE Head(err)

\* Mutant: every error with a code is worth another try.
IsRetryableAlways(err) == err # <<>>

IsRetryable(err) == err # <<>> /\ Head(err) \in RetryableCodes
=============================================================================

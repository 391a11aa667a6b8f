----------------------------- MODULE MCStartup ------------------------------
(* A small instance of Startup for TLC. *)
EXTENDS Startup, TLC

CONSTANTS r1, r2

\* Both readers end at the default profile: one by way of its repository, the
\* other because its project has no profile.
MCProjectProfiles ==
    [known |-> [profile |-> NoName, repositories |-> [api |-> "default"]]]
MCRepo == (r1 :> <<"known", "api">>) @@ (r2 :> <<"known", "web">>)
=============================================================================

--------------------------- MODULE MCWebhookIntake --------------------------
(* Small instances of WebhookIntake for TLC. *)
EXTENDS WebhookIntake

MCTexts == { {"mention"}, {"keyword"}, {"mention", "keyword"},
             {"mention", "keyword", "reviewed"} }

\* A signed event of every type with every text, from a listed project; of each
\* type one that is not listed and one that is not signed; and one request for
\* every other early return.
Opened == [body |-> "event", post |-> TRUE, signed |-> TRUE, listed |-> TRUE,
           type |-> "pr_opened", author |-> "user", named |-> FALSE,
           text |-> {}]
Comment(x) == [Opened EXCEPT !.type = "comment_added", !.text = x]
Triggers == {Opened, Comment({"mention", "keyword"})}
MCRequests ==
    Triggers
    \union {Comment(x) : x \in MCTexts}
    \union {[e EXCEPT !.listed = FALSE] : e \in Triggers}
    \union {[e EXCEPT !.signed = FALSE] : e \in Triggers}
    \union {[Opened EXCEPT !.body = b] : b \in {"unreadable", "test", "malformed", "incomplete"}}
    \union {[Opened EXCEPT !.type = "other"], [Opened EXCEPT !.post = FALSE]}
=============================================================================

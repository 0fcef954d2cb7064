------------------------- MODULE MCProjectLifecycle -------------------------
(* Small instances of ProjectLifecycle for TLC. *)
EXTENDS ProjectLifecycle, TLC

CONSTANTS c1, c2, u1, u2

TwoSlots == {c1, c2}
TwoFiles == {u1, u2}
OneFile  == {u1}

\* Handlers of the members, the admin and the scheduler, with no money moving;
\* and those that move money, with the members' ways of closing a project.
Collaboration == {"respond", "deliver", "revise", "accept_revision", "cancel",
                  "decide", "dispute", "resolve"}
MoneyHandlers == {"respond", "deliver", "cancel", "decide", "initiate", "paid",
                  "failed", "refund", "quote", "resolve"}

\* Calls and uploads are interchangeable (used by runs without liveness only).
Symmetric == Permutations({c1, c2}) \cup Permutations({u1, u2})

\* What handlers can see.  The history variables and the last history event
\* influence nothing, and the action properties read them only in the state a
\* step has just produced, so states that differ in nothing else are merged.
Visible == <<project.status, project.revisions, project.was_overdue,
             project.pre_dispute, project.cancel_by, project.paid,
             project.authorized, payment, refunded, deliveries, used, dispute,
             worker, calls>>
=============================================================================

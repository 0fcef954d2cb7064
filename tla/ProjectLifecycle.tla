-------------------------- MODULE ProjectLifecycle --------------------------
(***************************************************************************)
(* One project (a document of the collection "requests") and every handler *)
(* that moves its status.  A handler reads the document, decides, and much *)
(* later updates it with a compare-and-set on "status" alone; between the  *)
(* two any other handler, the payment gateway's callback or the scheduler  *)
(* may run.  Each call in flight is a slot holding what it has read.       *)
(***************************************************************************)
EXTENDS Integers

CONSTANTS
    Slots,          \* handler calls that may be in flight together
    Uploads,        \* safe final-delivery uploads of the assigned editor
    NoUpload,       \* the file of a call that has none
    RevisionLimit,  \* proposal_revision_limit of the agreed proposal
    MaxDeliveries,  \* bound: delivery versions explored
    Handlers,       \* bound: the operations (Ops) explored
    Crashes,        \* may a call stop where it stands (process killed)?
    Legacy          \* also start from a pre-migration AUTHORIZED project?

ASSUME LifecycleAssumption ==
    /\ NoUpload \notin Uploads
    /\ RevisionLimit \in Nat
    /\ MaxDeliveries \in Nat
    /\ Crashes \in BOOLEAN
    /\ Legacy \in BOOLEAN

Closed   == {"rejected", "cancelled", "refunded", "expired"}
Unfunded == {"pending", "accepted", "payment_failed"}
Status   == Closed \cup Unfunded \cup
            {"in_progress", "overdue", "admin_review", "revision_requested",
             "delivered", "cancel_requested", "disputed", "refund_pending",
             "completed"}

ALLOWED_TRANSITIONS ==
    [pending |-> {"accepted", "rejected", "cancelled", "expired"},
     accepted |-> {"in_progress", "cancel_requested", "cancelled",
                   "payment_failed", "expired"},
     payment_failed |-> {"accepted", "cancel_requested", "cancelled",
                         "expired"},
     in_progress |-> {"admin_review", "cancel_requested", "disputed",
                      "overdue", "refund_pending"},
     overdue |-> {"admin_review", "cancel_requested", "disputed",
                  "in_progress", "refund_pending"},
     admin_review |-> {"delivered", "completed", "revision_requested",
                       "disputed", "cancel_requested", "refund_pending"},
     revision_requested |-> {"in_progress", "admin_review",
                             "cancel_requested", "disputed",
                             "refund_pending"},
     delivered |-> {"completed", "revision_requested", "disputed",
                    "cancel_requested", "refund_pending"},
     cancel_requested |-> {"cancelled", "in_progress", "overdue", "disputed",
                           "refund_pending"},
     disputed |-> {"admin_review", "in_progress", "revision_requested",
                   "refund_pending", "cancelled", "completed"},
     refund_pending |-> {"refunded", "disputed", "cancelled"},
     completed |-> {"disputed", "refund_pending"}]

\* ALLOWED_TRANSITIONS.get(source, set())
Allowed(from) ==
    IF from \in DOMAIN ALLOWED_TRANSITIONS THEN ALLOWED_TRANSITIONS[from]
                                           ELSE {}

Members == {"user", "editor"}
Actors  == Members \cup {"admin", "system"}
Held    == {"AUTHORIZED", "CAPTURED"}      \* the gateway holds or has the money
Ops     == {"none", "respond", "revise", "accept_revision", "cancel", "decide",
            "dispute", "resolve", "deliver", "initiate", "refund", "refunded",
            "paid", "failed", "quote"}
Stages  == {"idle", "transition", "insert", "record", "close", "lock",
            "gateway", "confirm", "release", "reread", "quoted"}

VARIABLES
    project,     \* the document: status, counters, flags, last history event
    payment,     \* the order holding active_request_key, and the refund lock
    refunded,    \* some order of this project is REFUNDED
    deliveries,  \* highest version in "deliveries"
    used,        \* uploads attached to a delivery (unique index on upload_id)
    dispute,     \* the newest document of "disputes": none, open or resolved
    granted,     \* history: revisions the client's requests have obtained
    worker,      \* what the scheduler does after expiring the project
    calls        \* calls in flight

vars == <<project, payment, refunded, deliveries, used, dispute,
          granted, worker, calls>>

\* A call; one that keeps no snapshot has src = to = "pending".
NewCall(op, stage, src, to, by) ==
    [op |-> op, stage |-> stage, src |-> src, to |-> to, by |-> by, n |-> 0,
     file |-> NoUpload]

Idle == NewCall("none", "idle", "pending", "pending", "system")

Call == [op: Ops, stage: Stages, src: Status, to: Status, by: Actors, n: Nat,
         file: Uploads \cup {NoUpload}]

Project == [status: Status, revisions: Nat, was_overdue: BOOLEAN,
            pre_dispute: Status \cup {"none"}, cancel_by: Actors \cup {"none"},
            paid: BOOLEAN, authorized: BOOLEAN,
            last_from: Status \cup {"none"}, last_to: Status,
            last_actor: Actors]

TypeOK ==
    /\ project \in Project
    /\ payment \in [status: Held \cup {"none", "PENDING", "CHARGEBACK"},
                    refunding: BOOLEAN]
    /\ refunded \in BOOLEAN
    /\ deliveries \in Nat
    /\ used \subseteq Uploads
    /\ dispute \in {"none", "open", "resolved"}
    /\ granted \in Nat
    /\ worker \in {"idle", "cancel_orders"}
    /\ calls \in [Slots -> Call]

\* create_request: the document as inserted.
NewProject ==
    [status |-> "pending", revisions |-> 0, was_overdue |-> FALSE,
     pre_dispute |-> "none", cancel_by |-> "none", paid |-> FALSE,
     authorized |-> FALSE, last_from |-> "none", last_to |-> "pending",
     last_actor |-> "user"]

\* A project paid under the retired authorize-and-hold checkout, whose row the
\* startup migration keeps (payments.status = AUTHORIZED).
LegacyProject ==
    [NewProject EXCEPT !.status = "in_progress", !.paid = TRUE,
                       !.authorized = TRUE, !.last_from = "accepted",
                       !.last_to = "in_progress", !.last_actor = "system"]

Init ==
    /\ \/ /\ project = NewProject
          /\ payment = [status |-> "none", refunding |-> FALSE]
       \/ /\ Legacy
          /\ project = LegacyProject
          /\ payment = [status |-> "AUTHORIZED", refunding |-> FALSE]
    /\ refunded = FALSE
    /\ deliveries = 0
    /\ used = {}
    /\ dispute = "none"
    /\ granted = 0
    /\ worker = "idle"
    /\ calls = [s \in Slots |-> Idle]

-----------------------------------------------------------------------------
(* Reading: a handler checks the document it has read and plans its update. *)

Plan(op, to, by) == NewCall(op, "transition", project.status, to, by)

\* A call past the point where its snapshot matters.
At(op, stage, by) == NewCall(op, stage, "pending", "pending", by)

\* An illegal target is refused with 409 before anything is written.
Legal(c) == c.to \in Allowed(c.src)

Begin(s, c) ==
    /\ calls[s] = Idle
    /\ c.op \in Handlers
    /\ calls' = [calls EXCEPT ![s] = c]
    /\ UNCHANGED <<project, payment, refunded, deliveries, used, 
                   dispute, granted, worker>>

BeginTransition(s, c) == Legal(c) /\ Begin(s, c)

RespondToRequest(s) ==
    /\ project.status = "pending"
    /\ \E to \in {"accepted", "rejected"} :
          BeginTransition(s, Plan("respond", to, "editor"))

\* Mutant of DeliverVideo: the status is moved without storing the delivery.
DeliverWithoutRow(s) ==
    /\ project.status \in {"in_progress", "overdue", "revision_requested"}
    /\ BeginTransition(s, Plan("deliver", "admin_review", "editor"))

\* The upload was found, owned by the editor and scanned safe.
DeliverVideo(s) ==
    /\ project.status \in {"accepted", "in_progress", "overdue",
                           "revision_requested"}
    /\ deliveries < MaxDeliveries
    /\ LET to == IF project.status = "accepted" THEN "in_progress"
                                                ELSE "admin_review"
       IN  \E u \in Uploads :
              Begin(s, [Plan("deliver", to, "editor") EXCEPT
                            !.stage = "insert", !.n = deliveries + 1,
                            !.file = u])

RequestRevision(s) ==
    /\ project.revisions < RevisionLimit
    /\ BeginTransition(s, [Plan("revise", "revision_requested", "user")
                              EXCEPT !.n = project.revisions])

AcceptRevision(s) ==
    BeginTransition(s, Plan("accept_revision", "in_progress", "editor"))

RequestCancellation(s) ==
    LET at_once == \/ project.status = "pending"
                   \/ /\ project.status \in {"accepted", "payment_failed"}
                      /\ ~project.authorized
    IN  \E m \in Members :
           BeginTransition(s, Plan("cancel",
               IF at_once THEN "cancelled" ELSE "cancel_requested", m))

DecideCancellation(s) ==
    /\ project.status = "cancel_requested"
    /\ \E m \in Members \ {project.cancel_by} :
       \E to \in {IF payment.status = "AUTHORIZED" THEN "refund_pending"
                                                   ELSE "cancelled",
                  IF project.was_overdue THEN "overdue" ELSE "in_progress"} :
          BeginTransition(s, Plan("decide", to, m))

\* On a project that is already disputed the transition is a no-op and the
\* handler goes on to the dispute record.  The seven-day window after
\* completion is time: a completed project may or may not still be disputed.
OpenDispute(s) ==
    \E m \in Members :
       LET c == Plan("dispute", "disputed", m)
       IN  IF project.status = "disputed"
           THEN Begin(s, At("dispute", "record", "system"))
           ELSE BeginTransition(s, c)

ResolveTargets ==
    LET resumed == IF project.pre_dispute # "none" THEN project.pre_dispute
                   ELSE IF project.was_overdue THEN "overdue"
                   ELSE "in_progress"
    IN  {"refund_pending", "cancelled", "revision_requested", "completed",
         IF resumed \in {"in_progress", "overdue", "revision_requested",
                         "admin_review"}
         THEN resumed ELSE "in_progress"}

ResolveProjectLifecycle(s) ==
    \E to \in ResolveTargets :
       BeginTransition(s, Plan("resolve", to, "admin"))

\* create_project_delivery_payment: needs a delivery awaiting payment.  An
\* abandoned PENDING order older than 30 minutes is released on the way.
CreatePayment(s) ==
    /\ calls[s] = Idle
    /\ "initiate" \in Handlers
    /\ deliveries > 0
    /\ project.status \in {"accepted", "payment_failed", "in_progress",
                           "admin_review", "delivered"}
    /\ ~project.paid
    /\ payment.status \in {"none", "PENDING"}
    /\ payment' = [payment EXCEPT !.status = "none"]
    /\ calls' = [calls EXCEPT ![s] = At("initiate", "insert", "user")]
    /\ UNCHANGED <<project, refunded, deliveries, used, dispute,
                   granted, worker>>

\* The refund endpoint: owner or admin, while the gateway has the money.  The
\* order is looked up unsorted; one the gateway does not hold is refused, 409.
RefundPayment(s) ==
    /\ payment.status \in Held
    /\ \E by \in {"user", "admin"} :
       LET c == Plan("refund", "refund_pending", by)
       IN  /\ by = "user" => project.status \in
                 {"cancel_requested", "disputed", "refund_pending", "completed"}
           /\ IF project.status = "refund_pending"
              THEN Begin(s, At("refund", "lock", by))
              ELSE BeginTransition(s, c)

\* payhere_notification with status code 2 or -1/-2, past its checks.
PayhereNotification(s) ==
    /\ payment.status = "PENDING"
    /\ \/ Begin(s, [Plan("paid", "in_progress", "system")
                       EXCEPT !.stage = "confirm"])
       \/ Begin(s, At("failed", "confirm", "system"))

\* The other checkout: the editor's quote on an accepted project is sent, and
\* its payment may be confirmed at any later time.
CreateQuote(s) ==
    /\ project.status \in {"accepted", "in_progress", "overdue",
                           "revision_requested", "admin_review", "delivered"}
    /\ Begin(s, At("quote", "quoted", "user"))

-----------------------------------------------------------------------------
(* Writing: transition_project and the writes that follow it.              *)

\* The fields a handler passes as "extra".
Extra(c) ==
    CASE c.op = "revise" -> [project EXCEPT !.revisions = c.n + 1]
      [] c.op = "cancel" /\ c.to = "cancel_requested" ->
            [project EXCEPT !.cancel_by = c.by]
      [] c.op = "dispute" -> [project EXCEPT !.pre_dispute = c.src]
      [] c.op = "paid" -> [project EXCEPT !.paid = TRUE, !.authorized = TRUE]
      [] c.op = "refunded" -> [project EXCEPT !.paid = FALSE]
      [] OTHER -> project

\* What the handler does once its transition has been written.
Continuation(c) ==
    CASE c.op = "dispute" -> At("dispute", "record", "system")
      [] c.op = "resolve" /\ c.src = "disputed" ->
            At("resolve", "close", "system")
      [] c.op = "refund" -> At("refund", "lock", c.by)
      [] c.op = "paid" -> At("paid", "release", "system")
      [] OTHER -> Idle

\* The update of one call, with its history event.
Apply(s, c) ==
    /\ project' = [Extra(c) EXCEPT !.status = c.to, !.last_from = c.src,
                                   !.last_to = c.to, !.last_actor = c.by]
    /\ granted' = IF c.op = "revise" THEN granted + 1 ELSE granted
    /\ calls' = [calls EXCEPT ![s] = Continuation(c)]
    /\ UNCHANGED <<payment, refunded, deliveries, used, dispute, worker>>

\* Mutant of TransitionProject: the update filters on _id alone.
TransitionUnconditionally(s) ==
    calls[s].stage = "transition" /\ Apply(s, calls[s])

\* find_one_and_update on {_id, status: source}.
TransitionProject(s) ==
    /\ calls[s].stage = "transition"
    /\ project.status = calls[s].src
    /\ Apply(s, calls[s])

\* The document moved on: 409, and the rest of the handler is skipped.
TransitionConflict(s) ==
    /\ calls[s].stage = "transition"
    /\ project.status # calls[s].src
    /\ calls' = [calls EXCEPT ![s] = Idle]
    /\ UNCHANGED <<project, payment, refunded, deliveries, used, 
                   dispute, granted, worker>>

InsertDelivery(s) ==
    LET c == calls[s]
    IN  /\ c.op = "deliver" /\ c.stage = "insert"
        /\ IF c.n = deliveries + 1 /\ c.file \notin used
           THEN /\ deliveries' = c.n
                /\ used' = used \cup {c.file}
                /\ calls' = [calls EXCEPT ![s].stage = "transition"]
           ELSE /\ calls' = [calls EXCEPT ![s] = Idle]  \* DuplicateKeyError
                /\ UNCHANGED <<deliveries, used>>
        /\ UNCHANGED <<project, payment, refunded, dispute, granted, worker>>

\* The unique active_request_key admits one order at a time.
InsertOrder(s) ==
    /\ calls[s].op = "initiate" /\ calls[s].stage = "insert"
    /\ payment' = IF payment.status = "none"
                  THEN [payment EXCEPT !.status = "PENDING"] ELSE payment
    /\ calls' = [calls EXCEPT ![s] = Idle]
    /\ UNCHANGED <<project, refunded, deliveries, used, dispute,
                   granted, worker>>

RecordDispute(s) ==
    /\ calls[s].stage = "record"
    /\ dispute' = "open"
    /\ calls' = [calls EXCEPT ![s] = Idle]
    /\ UNCHANGED <<project, payment, refunded, deliveries, used, 
                   granted, worker>>

CloseDispute(s) ==
    /\ calls[s].stage = "close"
    /\ dispute' = IF dispute = "open" THEN "resolved" ELSE dispute
    /\ calls' = [calls EXCEPT ![s] = Idle]
    /\ UNCHANGED <<project, payment, refunded, deliveries, used, 
                   granted, worker>>

\* The order row is settled first; only then is the project touched.
ConfirmPayment(s) ==
    LET c == calls[s]
        settled == payment.status = "PENDING"
    IN  /\ c.stage = "confirm"
        /\ payment' = IF ~settled THEN payment
                      ELSE [payment EXCEPT !.status =
                               IF c.op = "paid" THEN "CAPTURED" ELSE "none"]
        /\ calls' = [calls EXCEPT ![s] =
               IF ~settled THEN Idle
               ELSE IF c.op = "failed" THEN At("failed", "reread", "system")
               ELSE IF c.src \notin {"accepted", "payment_failed"}
                    THEN At("paid", "release", "system")
               ELSE IF Legal(c) THEN [c EXCEPT !.stage = "transition"]
               ELSE Idle]                                \* 409
        /\ UNCHANGED <<project, refunded, deliveries, used, dispute,
                       granted, worker>>

\* A failed checkout reads the project again before moving it.
RereadAfterFailure(s) ==
    /\ calls[s].stage = "reread"
    /\ calls' = [calls EXCEPT ![s] =
          IF project.status = "accepted"
          THEN Plan("failed", "payment_failed", "system") ELSE Idle]
    /\ UNCHANGED <<project, payment, refunded, deliveries, used, 
                   dispute, granted, worker>>

\* The paid delivery is released and the document marked paid.
ReleaseDelivery(s) ==
    /\ calls[s].stage = "release"
    /\ project' = [project EXCEPT !.paid = TRUE]
    /\ calls' = [calls EXCEPT ![s] = Idle]
    /\ UNCHANGED <<payment, refunded, deliveries, used, dispute,
                   granted, worker>>

\* quote_payhere_notify marks the project paid whatever its status is now, and
\* leaves payment_authorized and the status alone.
QuotePaid(s) ==
    /\ calls[s].stage = "quoted"
    /\ project' = [project EXCEPT !.paid = TRUE]
    /\ calls' = [calls EXCEPT ![s] = Idle]
    /\ UNCHANGED <<payment, refunded, deliveries, used, dispute,
                   granted, worker>>

\* find_one_and_update taking the lock when the order is free.
TakeRefundLock(s, free) ==
    /\ calls[s].stage = "lock"
    /\ payment' = [payment EXCEPT !.refunding = @ \/ free]
    /\ calls' = [calls EXCEPT ![s] =
          IF free THEN [@ EXCEPT !.stage = "gateway"] ELSE Idle]
    /\ UNCHANGED <<project, refunded, deliveries, used, dispute,
                   granted, worker>>

\* Mutant of LockRefund: a lock already taken is not looked at.
LockHeldOrder(s) == TakeRefundLock(s, payment.status \in Held)

LockRefund(s) ==
    TakeRefundLock(s, payment.status \in Held /\ ~payment.refunding)

\* The call goes on to move the document from refund_pending to refunded.
Settle(c) == [c EXCEPT !.op = "refunded", !.stage = "transition",
                       !.src = "refund_pending", !.to = "refunded"]

RefundDone(s) ==
    /\ calls[s].stage = "gateway"
    /\ payment' = [status |-> "none", refunding |-> FALSE]
    /\ refunded' = TRUE
    /\ calls' = [calls EXCEPT ![s] = Settle(@)]
    /\ UNCHANGED <<project, deliveries, used, dispute, granted, worker>>

\* Mutant of RefundRefused: the gateway's answer is not looked at.
RefundAssumed(s) ==
    /\ calls[s].stage = "gateway"
    /\ payment' = [payment EXCEPT !.refunding = FALSE]
    /\ calls' = [calls EXCEPT ![s] = Settle(@)]
    /\ UNCHANGED <<project, refunded, deliveries, used, dispute,
                   granted, worker>>

\* The gateway refuses, or the escrow row is not refundable: the lock is freed.
RefundRefused(s) ==
    /\ calls[s].stage = "gateway"
    /\ payment' = [payment EXCEPT !.refunding = FALSE]
    /\ calls' = [calls EXCEPT ![s] = Idle]
    /\ UNCHANGED <<project, refunded, deliveries, used, dispute,
                   granted, worker>>

\* A video whose metadata cannot be read is refused; or the process is killed.
Stop(s) ==
    /\ calls[s] # Idle
    /\ Crashes \/ (calls[s].op = "deliver" /\ calls[s].stage = "insert")
    /\ calls' = [calls EXCEPT ![s] = Idle]
    /\ UNCHANGED <<project, payment, refunded, deliveries, used, 
                   dispute, granted, worker>>

-----------------------------------------------------------------------------
(* Writers that keep no snapshot.                                          *)

\* A chargeback callback on a captured order.
Chargeback ==
    /\ payment.status \in Held \cup {"PENDING"}
    /\ payment' = [payment EXCEPT !.status = "CHARGEBACK"]
    /\ UNCHANGED <<project, refunded, deliveries, used, dispute,
                   granted, worker, calls>>

SystemEvent(to) ==
    [project EXCEPT !.status = to, !.last_from = project.status,
                    !.last_to = to, !.last_actor = "system"]

Expire(due) ==
    /\ worker = "idle" /\ due
    /\ project' = SystemEvent("expired")
    /\ worker' = "cancel_orders"
    /\ UNCHANGED <<payment, refunded, deliveries, used, dispute,
                   granted, calls>>

\* Mutant of ExpireProject: only requests nobody answered expire.
ExpireUnanswered == Expire(project.status = "pending")

\* process_project_deadlines, first loop.
ExpireProject ==
    Expire(\/ project.status = "pending"
           \/ project.status \in {"accepted", "payment_failed"}
              /\ ~project.authorized)

CancelExpiredOrders ==
    /\ worker = "cancel_orders"
    /\ payment' = IF payment.status = "PENDING"
                  THEN [payment EXCEPT !.status = "none"] ELSE payment
    /\ worker' = "idle"
    /\ UNCHANGED <<project, refunded, deliveries, used, dispute,
                   granted, calls>>

\* process_project_deadlines, second loop: a protected legacy payment whose
\* delivery date has passed.
MarkOverdue ==
    /\ worker = "idle"
    /\ payment.status = "AUTHORIZED"
    /\ project.status \in {"in_progress", "revision_requested"}
    /\ project' = [SystemEvent("overdue") EXCEPT !.was_overdue = TRUE]
    /\ UNCHANGED <<payment, refunded, deliveries, used, dispute,
                   granted, worker, calls>>

Worker == ExpireProject \/ CancelExpiredOrders \/ MarkOverdue

Reads(s) ==
    \/ RespondToRequest(s) \/ DeliverVideo(s) \/ RequestRevision(s)
    \/ AcceptRevision(s) \/ RequestCancellation(s) \/ DecideCancellation(s)
    \/ OpenDispute(s) \/ ResolveProjectLifecycle(s) \/ CreatePayment(s)
    \/ RefundPayment(s) \/ PayhereNotification(s) \/ CreateQuote(s)

Writes(s) ==
    \/ TransitionProject(s) \/ TransitionConflict(s) \/ InsertDelivery(s)
    \/ InsertOrder(s) \/ RecordDispute(s) \/ CloseDispute(s)
    \/ ConfirmPayment(s) \/ RereadAfterFailure(s) \/ ReleaseDelivery(s)
    \/ QuotePaid(s) \/ LockRefund(s) \/ RefundDone(s) \/ RefundRefused(s) \/ Stop(s)

Next ==
    \/ \E s \in Slots : Reads(s) \/ Writes(s)
    \/ Chargeback \/ Worker

Spec == Init /\ [][Next]_vars

\* The scheduler loops for ever and every deadline passes in the end.
FairSpec == Spec /\ WF_vars(Worker)

-----------------------------------------------------------------------------
(* Properties.                                                             *)

\* Every status change, by whichever handler and however stale its snapshot,
\* follows ALLOWED_TRANSITIONS; the scheduler's overdue marking is the one
\* writer that does not go through the table.
LegalStep ==
    project.status # project'.status =>
        \/ project'.status \in Allowed(project.status)
        \/ project.status = "revision_requested" /\ project'.status = "overdue"
TransitionsAreLegal == [][LegalStep]_vars

\* A rejected, cancelled, refunded or expired project never moves again, not
\* even for a call that read it before it was closed.
ClosedStaysClosed ==
    [][project.status \in Closed => project'.status = project.status]_vars

\* The history event pushed with each update chains: it leaves the status the
\* document really had and enters the one it now has (status_history is the
\* audit trail of the project).
HistoryChains ==
    [][project'.status # project.status =>
          /\ project'.last_from = project.status
          /\ project'.last_to = project'.status]_vars

\* A project in review, or that an admin may send back to review, has a
\* delivery to look at: the delivery is inserted before the status moves.
ReviewHasDelivery ==
    project.status = "admin_review" \/ project.pre_dispute = "admin_review"
        => deliveries > 0

\* "refunded" is never shown before an order really became REFUNDED at the
\* gateway, whichever calls the refund was interleaved with.
RefundedMeansMoneyBack == project.status = "refunded" => refunded

\* At most one refund conversation with the gateway is under way.
OneRefundAtATime ==
    \A s, t \in Slots :
        calls[s].stage = "gateway" /\ calls[t].stage = "gateway" => s = t

\* A project nobody pays for does not stay open for ever: it is paid and
\* starts, or it is closed, at the latest by the scheduler.
UnfundedIsResolved ==
    project.status \in Unfunded ~> project.status \notin Unfunded

\* --- Claims of the code that its behaviours contradict. ---

\* "Payment was not completed before project expiry" (the reason recorded).
ExpiredWasUnpaid ==
    project.status = "expired" => ~project.paid /\ payment.status # "CAPTURED"

\* "An admin will review the project evidence." (sent when a dispute opens):
\* the editor cannot end a dispute.
EditorCannotEndDispute ==
    [][project.status = "disputed" /\ project'.status # "disputed"
          => project'.last_actor # "editor"]_vars

\* "The other project member must decide this request".
OtherMemberDecides ==
    [][/\ project.status = "cancel_requested"
       /\ project'.status = "cancelled"
       => project'.last_actor # project.cancel_by]_vars

\* "The agreed N-revision limit was reached; open a dispute for admin review".
RevisionLimitHolds == granted <= RevisionLimit
=============================================================================

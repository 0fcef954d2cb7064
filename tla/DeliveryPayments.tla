-------------------------- MODULE DeliveryPayments --------------------------
(***************************************************************************)
(* The checkout of a final delivery: its PayHere orders, the protection    *)
(* row of the project (payment_escrows), the append-only ledger, release   *)
(* of the delivery, refund, the editor's payout and the reconciliation     *)
(* job; and the retired capture-on-approval, for a project paid before the *)
(* migration.  A call is a slot; a stage of it is the database operation   *)
(* or the request to PayHere that comes next.  PayHere is external: it may *)
(* charge any order ever shown to the client, at any later time.           *)
(***************************************************************************)
EXTENDS Integers, FiniteSets

CONSTANTS
    Slots,     \* calls that may be in flight together
    Orders,    \* orders that may ever be created
    NoOrder,
    Handlers,  \* bound: the operations (Ops, and "reconcile") explored
    Crashes    \* may the workers be killed and restarted?

ASSUME PaymentAssumption ==
    NoOrder \notin Orders /\ Crashes \in BOOLEAN /\ IsFiniteSet(Orders)

Dropped == {"FAILED", "CANCELLED"}
Live    == {"PENDING", "AUTHORIZED", "CAPTURED"}
Status  == {"none", "REFUNDED", "CHARGEBACK"} \cup Dropped \cup Live
Keyed   == Live \cup {"CHARGEBACK"}   \* orders that keep active_request_key
Rows    == {"none", "FUNDED", "RELEASE_PENDING", "RELEASED",
            "REFUND_PENDING", "REFUNDED", "FROZEN"}
Files   == {"READY_FOR_PAYMENT", "PAYMENT_PENDING", "PAYMENT_FAILED",
            "PENDING_ADMIN_REVIEW", "REVISION_REQUESTED", "RELEASED"}
Events  == {"created", "authorized", "captured", "cancelled", "refunded",
            "chargeback"}
Places  == {"client", "held", "merchant", "returned", "reversed"}
Ops     == {"checkout", "notify", "approve", "verify", "refund"}
Stages  == {"idle", "existing", "insert", "link", "settle", "fund", "freeze",
            "append", "appended", "project", "release", "paid", "relock",
            "lock", "escrow", "ask", "undo", "reset", "commit", "close",
            "settlement"}
Doors   == {"delivery", "project", "chat"}   \* the three checkout endpoints

VARIABLES
    payment,    \* payments.status of each order
    linked,     \* orders that carry the delivery's id
    capturing,  \* orders with capture_in_progress
    refunding,  \* orders with refund_in_progress
    escrow,     \* the project's payment_escrows row: its order and status
    ledger,     \* payment_ledger: events of each order (sequence = their number)
    review,     \* orders with manual_review_required
    delivery,   \* delivery_status of the final delivery
    paid,       \* requests.paid
    payout,     \* editor_payouts.payout_status of each order
    provider,   \* external: where the money of each order is
    shown,      \* external: orders whose checkout the client has seen
    sent,       \* external: callbacks <<order, code>> PayHere has sent
    seen,       \* payment_webhooks: event keys stored
    audit,      \* what the reconciliation job has read: order and status
    calls

money == <<payment, linked, capturing, refunding, escrow>>
files == <<delivery, paid, payout>>
gateway == <<provider, shown, sent>>
vars == <<money, ledger, review, files, gateway, seen, audit, calls>>

Codes == {"2", "-1", "-2", "-3"}

Call == [op: Ops, stage: Stages, order: Orders \cup {NoOrder},
         door: Doors, code: Codes, was: Status, event: Events, n: Nat]

Idle == [op |-> "checkout", stage |-> "idle", order |-> NoOrder,
         door |-> "delivery", code |-> "2", was |-> "none", event |-> "created", n |-> 0]

TypeOK ==
    /\ payment \in [Orders -> Status]
    /\ linked \subseteq Orders
    /\ capturing \subseteq Orders
    /\ refunding \subseteq Orders
    /\ escrow \in [order: Orders \cup {NoOrder}, status: Rows]
    /\ ledger \in [Orders -> SUBSET Events]
    /\ review \subseteq Orders
    /\ delivery \in Files
    /\ paid \in BOOLEAN
    /\ payout \in [Orders -> {"none", "UNPAID", "PAID"}]
    /\ provider \in [Orders -> Places]
    /\ shown \subseteq Orders
    /\ sent \subseteq Orders \X Codes
    /\ seen \subseteq sent
    /\ audit \in [order: Orders \cup {NoOrder}, status: Status]
    /\ calls \in [Slots -> Call]

NoAudit == [order |-> NoOrder, status |-> "none"]

\* A new delivery; or a legacy project: one authorized order, a hold on the
\* client's card, and a delivery that waits for approval.
Init ==
    /\ \/ /\ payment = [o \in Orders |-> "none"]
          /\ escrow = [order |-> NoOrder, status |-> "none"]
          /\ ledger = [o \in Orders |-> {}]
          /\ delivery = "READY_FOR_PAYMENT"
          /\ paid = FALSE
       \/ \E o \in Orders :
          /\ payment = [p \in Orders |->
                           IF p = o THEN "AUTHORIZED" ELSE "none"]
          /\ escrow = [order |-> o, status |-> "FUNDED"]
          /\ ledger = [p \in Orders |->
                          IF p = o THEN {"created", "authorized"} ELSE {}]
          /\ delivery = "PENDING_ADMIN_REVIEW"
          /\ paid = TRUE
    /\ provider = [o \in Orders |->
                      IF payment[o] = "AUTHORIZED" THEN "held" ELSE "client"]
    /\ shown = {o \in Orders : payment[o] = "AUTHORIZED"}
    /\ linked = {}
    /\ capturing = {}
    /\ refunding = {}
    /\ review = {}
    /\ payout = [o \in Orders |-> "none"]
    /\ sent = {}
    /\ seen = {}
    /\ audit = NoAudit
    /\ calls = [s \in Slots |-> Idle]

Goto(s, c) == calls' = [calls EXCEPT ![s] = c]
Stage(s, stage) == Goto(s, [calls[s] EXCEPT !.stage = stage])
At(s, op, stage) == calls[s].op = op /\ calls[s].stage = stage
Start(s, op) == calls[s] = Idle /\ op \in Handlers

Set(o, status) == payment' = [payment EXCEPT ![o] = status]
SetRow(status) == escrow' = [escrow EXCEPT !.status = status]

-----------------------------------------------------------------------------
(* Checkout.                                                               *)

\* create_project_delivery_payment asks for a delivery that may be paid;
\* create_payment itself takes any delivery id, and from chat none.
CreatePayment(s) ==
    /\ Start(s, "checkout")
    /\ ~paid
    /\ \E o \in Orders : payment[o] = "none"
    /\ \E d \in Doors, o \in Orders \cup {NoOrder} :
          /\ d = "delivery" =>
                delivery \in {"READY_FOR_PAYMENT", "PAYMENT_FAILED"}
          /\ IF o = NoOrder THEN \A p \in Orders : payment[p] \notin Live
                            ELSE payment[o] = "PENDING"
          /\ Goto(s, [Idle EXCEPT
                !.stage = IF o = NoOrder THEN "insert" ELSE "existing",
                !.order = o, !.door = d])
    /\ UNCHANGED <<money, ledger, review, files, gateway, seen, audit>>

\* _cancel_stale_pending: a PENDING order older than 30 minutes gives way;
\* a younger one, or one no longer PENDING, is answered with 409.
CancelStalePending(s) ==
    LET o == calls[s].order
    IN  /\ At(s, "checkout", "existing")
        /\ \/ /\ payment[o] = "PENDING"
              /\ Set(o, "CANCELLED")
              /\ Goto(s, [calls[s] EXCEPT !.stage = "insert",
                                          !.order = NoOrder])
           \/ Goto(s, Idle) /\ UNCHANGED payment
        /\ UNCHANGED <<linked, capturing, refunding, escrow, ledger, review,
                       files, gateway, seen, audit>>

\* The unique active_request_key refuses a second order, with 409.
InsertOrder(s) ==
    /\ At(s, "checkout", "insert")
    /\ IF \E o \in Orders : payment[o] \in Keyed
       THEN Goto(s, Idle) /\ UNCHANGED <<payment, linked>>
       ELSE \E o \in Orders :
               /\ payment[o] = "none"
               /\ Set(o, "PENDING")
               /\ linked' = IF calls[s].door = "chat" THEN linked
                                                      ELSE linked \cup {o}
               /\ Goto(s, [calls[s] EXCEPT !.stage = "append", !.order = o,
                                           !.event = "created"])
    /\ UNCHANGED <<capturing, refunding, escrow, ledger, review, files,
                   gateway, seen, audit>>

\* The delivery endpoint marks its delivery; then the answer, with which the
\* client can pay, is sent.
LinkDelivery(s) ==
    /\ At(s, "checkout", "link")
    /\ delivery' = IF /\ calls[s].door = "delivery"
                      /\ delivery \in {"READY_FOR_PAYMENT", "PAYMENT_FAILED"}
                   THEN "PAYMENT_PENDING" ELSE delivery
    /\ shown' = shown \cup {calls[s].order}
    /\ Goto(s, Idle)
    /\ UNCHANGED <<money, ledger, review, paid, payout, provider, sent, seen,
                   audit>>

-----------------------------------------------------------------------------
(* append_ledger: read the newest sequence number, insert the next.        *)

\* What the handler does once the ledger has been written.
AfterAppend(c) ==
    CASE c.op = "checkout" -> "link"
      [] c.op = "notify" /\ c.event = "authorized" -> "project"
      [] c.op = "notify" /\ c.event = "cancelled" -> "relock"
      [] c.op \in {"approve", "verify", "refund"} -> "close"
      [] OTHER -> "idle"

ReadLedger(s) ==
    /\ calls[s].stage = "append"
    /\ Goto(s, [calls[s] EXCEPT !.stage = "appended",
                                !.n = Cardinality(ledger[calls[s].order])])
    /\ UNCHANGED <<money, ledger, review, files, gateway, seen, audit>>

\* The unique index on (payment_id, sequence) drops the loser of a race, and
\* no caller looks at the result.
AppendLedger(s) ==
    LET c == calls[s]
        next == AfterAppend(c)
    IN  /\ c.stage = "appended"
        /\ ledger' = IF Cardinality(ledger[c.order]) = c.n
                     THEN [ledger EXCEPT ![c.order] = @ \cup {c.event}]
                     ELSE ledger
        /\ Goto(s, IF next = "idle" THEN Idle
                   ELSE [c EXCEPT !.stage = next, !.n = 0])
        /\ UNCHANGED <<money, review, files, gateway, seen, audit>>

-----------------------------------------------------------------------------
(* PayHere (external) and its callback, payhere_notification.              *)

\* One verdict per order shown; a charge may be reversed later.
Verdict(o) ==
    /\ o \in shown /\ provider[o] = "client"
    /\ \A code \in {"-1", "-2"} : <<o, code>> \notin sent
    /\ \E code \in {"2", "-1", "-2"} :
          /\ sent' = sent \cup {<<o, code>>}
          /\ provider' = IF code = "2"
                         THEN [provider EXCEPT ![o] = "merchant"] ELSE provider
    /\ UNCHANGED <<money, ledger, review, files, shown, seen, audit, calls>>

ChargeBack(o) ==
    /\ provider[o] = "merchant"
    /\ provider' = [provider EXCEPT ![o] = "reversed"]
    /\ sent' = sent \cup {<<o, "-3">>}
    /\ UNCHANGED <<money, ledger, review, files, shown, seen, audit, calls>>

\* The event key is stored, the signature checked and the order read; a state
\* that the report cannot change is answered at once.
Receive(s) ==
    /\ Start(s, "notify")
    /\ \E n \in sent \ seen :
          LET o == n[1]
              code == n[2]
          IN  /\ seen' = seen \cup {n}
              /\ Goto(s, IF \/ payment[o] \in {"REFUNDED", "CHARGEBACK"}
                            \/ /\ payment[o] \in {"AUTHORIZED", "CAPTURED"}
                               /\ code # "-3"
                         THEN Idle
                         ELSE [Idle EXCEPT !.op = "notify", !.stage = "settle",
                                           !.order = o, !.code = code])
    /\ UNCHANGED <<money, ledger, review, files, gateway, audit>>

NewStatus(code) == CASE code = "2"  -> "CAPTURED"  [] code = "-1" -> "CANCELLED"
                     [] code = "-2" -> "FAILED"    [] OTHER -> "CHARGEBACK"

\* update_one on _id and the states this report may leave; nothing follows
\* when it matched no order.
Settles(s, from) ==
    LET c == calls[s]
        o == c.order
    IN  /\ At(s, "notify", "settle")
        /\ IF payment[o] \in from
           THEN /\ Set(o, NewStatus(c.code))
                /\ review' = IF c.code = "-3" THEN review \cup {o} ELSE review
                /\ Goto(s, CASE c.code = "2"  -> [c EXCEPT !.stage = "fund"]
                             [] c.code = "-3" -> [c EXCEPT !.stage = "freeze"]
                             [] OTHER -> [c EXCEPT !.stage = "append",
                                                   !.event = "cancelled"])
           ELSE Goto(s, Idle) /\ UNCHANGED <<payment, review>>
        /\ UNCHANGED <<linked, capturing, refunding, escrow, ledger, files,
                       gateway, seen, audit>>

\* Mutant of SettleOrder: the update filters on _id alone.
SettleAnyOrder(s) == Settles(s, Status)

SettleOrder(s) ==
    Settles(s, IF calls[s].code = "-3" THEN Live ELSE {"PENDING"})

\* Upsert by payment_id; the unique request_id refuses the row of a second
\* order, and the handler fails with 500.
FundEscrow(s) ==
    LET o == calls[s].order
    IN  /\ At(s, "notify", "fund")
        /\ escrow' = IF escrow.order = NoOrder
                     THEN [order |-> o, status |-> "FUNDED"] ELSE escrow
        /\ IF escrow.order \in {o, NoOrder}
           THEN Goto(s, [calls[s] EXCEPT !.stage = "append",
                                         !.event = "authorized"])
           ELSE Goto(s, Idle)
        /\ UNCHANGED <<payment, linked, capturing, refunding, ledger, review,
                       files, gateway, seen, audit>>

FreezeEscrow(s) ==
    /\ At(s, "notify", "freeze")
    /\ IF escrow.order = calls[s].order THEN SetRow("FROZEN")
                                        ELSE UNCHANGED escrow
    /\ Goto(s, [calls[s] EXCEPT !.stage = "append", !.event = "chargeback"])
    /\ UNCHANGED <<payment, linked, capturing, refunding, ledger, review,
                   files, gateway, seen, audit>>

\* A delivery that waits for this payment is unlocked, then the project is
\* marked paid.
ReleaseDelivery(s) ==
    /\ At(s, "notify", "release")
    /\ IF calls[s].order \in linked /\ delivery = "PAYMENT_PENDING"
       THEN delivery' = "RELEASED" /\ Stage(s, "paid")
       ELSE Goto(s, Idle) /\ UNCHANGED delivery
    /\ UNCHANGED <<money, ledger, review, paid, payout, gateway, seen, audit>>

MarkPaid(s) ==
    /\ calls[s].stage = "paid"
    /\ paid' = TRUE
    /\ Goto(s, Idle)
    /\ UNCHANGED <<money, ledger, review, delivery, payout, gateway, seen,
                   audit>>

\* After a failed checkout: the project goes to payment_failed (or answers
\* 409, which ends the handler), and the delivery is locked again.
LockDelivery(s) ==
    /\ At(s, "notify", "relock")
    /\ \/ UNCHANGED delivery
       \/ /\ calls[s].order \in linked /\ delivery = "PAYMENT_PENDING"
          /\ delivery' = "PAYMENT_FAILED"
    /\ Goto(s, Idle)
    /\ UNCHANGED <<money, ledger, review, paid, payout, gateway, seen, audit>>

\* transition_project, whose table and races are those of ProjectLifecycle:
\* here it is done, with its "paid", or refused with 409.  A confirmed order
\* moves a project that waits for it, and leaves another one alone.
TransitionProject(s) ==
    LET c == calls[s]
        next == IF c.op = "notify" THEN [c EXCEPT !.stage = "release"] ELSE Idle
    IN  /\ c.stage = "project"
        /\ \/ paid' = (c.op # "refund") /\ Goto(s, next)
           \/ c.op = "notify" /\ Goto(s, next) /\ UNCHANGED paid
           \/ Goto(s, Idle) /\ UNCHANGED paid
        /\ UNCHANGED <<money, ledger, review, delivery, payout, gateway, seen,
                       audit>>

-----------------------------------------------------------------------------
(* Capture of a held payment: the client's approval                        *)
(* (approve_work_and_capture) or the admin's (verify_delivery with         *)
(* capture_and_record_project_payment); and refund.                        *)

\* Both ask for the delivered work of a legacy project.
BeginCapture(s) ==
    /\ delivery = "PENDING_ADMIN_REVIEW"
    /\ \E op \in {"approve", "verify"}, o \in Orders :
          /\ Start(s, op)
          /\ payment[o] \in {"AUTHORIZED", "CAPTURED"}
          /\ IF payment[o] = "AUTHORIZED"
             THEN Goto(s, [Idle EXCEPT !.op = op, !.stage = "lock",
                                       !.order = o])
             ELSE /\ op = "verify"
                  /\ Goto(s, [Idle EXCEPT !.op = op, !.stage = "settlement",
                                          !.order = o])
    /\ UNCHANGED <<money, ledger, review, files, gateway, seen, audit>>

\* The admin sends the delivery back for a revision.
RejectDelivery ==
    /\ "verify" \in Handlers
    /\ delivery = "PENDING_ADMIN_REVIEW"
    /\ delivery' = "REVISION_REQUESTED"
    /\ UNCHANGED <<money, ledger, review, paid, payout, gateway, seen, audit,
                   calls>>

Capture(op) == op \in {"approve", "verify"}

\* find_one_and_update taking the capture lock.  A lock older than five
\* minutes is taken over, whatever became of the call that held it; ages are
\* not kept, so a lock that is held may be of either kind.  When the lock was
\* refused, an admin's call goes on if the order is captured by now (done).
TakeCaptureLock(s, done) ==
    LET c == calls[s]
        o == c.order
    IN  /\ c.stage = "lock" /\ Capture(c.op)
        /\ \/ /\ payment[o] = "AUTHORIZED"
              /\ capturing' = capturing \cup {o}
              /\ Stage(s, "escrow")
           \/ /\ payment[o] # "AUTHORIZED" \/ o \in capturing
              /\ UNCHANGED capturing
              /\ IF done /\ c.op = "verify"
                 THEN Stage(s, "settlement") ELSE Goto(s, Idle)
        /\ UNCHANGED <<payment, linked, refunding, escrow, ledger, review,
                       files, gateway, seen, audit>>

\* Mutant of LockCapture: whoever holds the lock will have captured it.
LockAssumed(s) == TakeCaptureLock(s, TRUE)

LockCapture(s) == TakeCaptureLock(s, payment[calls[s].order] = "CAPTURED")

\* Owner or admin.  The project goes to refund_pending first; see
\* ProjectLifecycle for its races.
BeginRefund(s) ==
    /\ Start(s, "refund")
    /\ \E o \in Orders :
          /\ payment[o] \in {"AUTHORIZED", "CAPTURED"}
          /\ Goto(s, [Idle EXCEPT !.op = "refund", !.stage = "lock",
                                  !.order = o, !.was = payment[o]])
    /\ UNCHANGED <<money, ledger, review, files, gateway, seen, audit>>

LockRefund(s) ==
    LET o == calls[s].order
    IN  /\ At(s, "refund", "lock")
        /\ IF payment[o] = calls[s].was /\ o \notin refunding \cup capturing
           THEN refunding' = refunding \cup {o} /\ Stage(s, "escrow")
           ELSE Goto(s, Idle) /\ UNCHANGED refunding
        /\ UNCHANGED <<payment, linked, capturing, escrow, ledger, review,
                       files, gateway, seen, audit>>

\* The compare-and-set on the row that keeps release and refund apart.
TakeRow(s, free) ==
    LET c == calls[s]
    IN  /\ c.stage = "escrow"
        /\ IF escrow.order = c.order /\ free
           THEN /\ SetRow(IF c.op = "refund" THEN "REFUND_PENDING"
                                             ELSE "RELEASE_PENDING")
                /\ Stage(s, "ask")
                /\ UNCHANGED <<capturing, refunding>>
           ELSE /\ IF c.op = "refund"
                   THEN refunding' = refunding \ {c.order} /\ UNCHANGED capturing
                   ELSE capturing' = capturing \ {c.order} /\ UNCHANGED refunding
                /\ Goto(s, Idle)
                /\ UNCHANGED escrow
        /\ UNCHANGED <<payment, linked, ledger, review, files, gateway, seen,
                       audit>>

\* Mutant of TakeEscrow: the lock on the order is thought to be enough.
TakeAnyRow(s) == TakeRow(s, escrow.status \in Rows)

TakeEscrow(s) ==
    TakeRow(s, escrow.status \in IF calls[s].op = "refund"
                                 THEN {"FUNDED", "RELEASED"} ELSE {"FUNDED"})

\* PayHere does it and says so; does it and the answer is lost; or refuses.
Ask(s, refused) ==
    LET c == calls[s]
        o == c.order
        from == IF c.op = "refund" THEN {"held", "merchant"} ELSE {"held"}
        to   == IF c.op = "refund" THEN "returned" ELSE "merchant"
    IN  /\ c.stage = "ask"
        /\ \/ /\ provider[o] \in from
              /\ provider' = [provider EXCEPT ![o] = to]
              /\ \E next \in {"commit", "undo"} : Stage(s, next)
           \/ Stage(s, refused) /\ UNCHANGED provider
        /\ UNCHANGED <<money, ledger, review, files, shown, sent, seen, audit>>

\* Mutant of AskPayHere: an answer is taken for a success.
AskUnread(s) == Ask(s, "commit")

AskPayHere(s) == Ask(s, "undo")

\* PayHereAPIError: the order is unlocked, then the row is set back.
Undo(s) ==
    LET c == calls[s]
    IN  /\ c.stage = "undo"
        /\ IF c.op = "refund"
           THEN refunding' = refunding \ {c.order} /\ UNCHANGED capturing
           ELSE /\ UNCHANGED refunding
                /\ capturing' = IF payment[c.order] = "AUTHORIZED"
                                THEN capturing \ {c.order} ELSE capturing
        /\ Stage(s, "reset")
        /\ UNCHANGED <<payment, linked, escrow, ledger, review, files, gateway,
                       seen, audit>>

\* The row this call has taken is set back.
SetBack(s, refunded) ==
    LET c == calls[s]
        pending == IF c.op = "refund" THEN "REFUND_PENDING"
                                      ELSE "RELEASE_PENDING"
    IN  /\ c.stage = "reset"
        /\ IF escrow = [order |-> c.order, status |-> pending]
           THEN SetRow(IF c.op = "refund" THEN refunded ELSE "FUNDED")
           ELSE UNCHANGED escrow
        /\ Goto(s, Idle)
        /\ UNCHANGED <<payment, linked, capturing, refunding, ledger, review,
                       files, gateway, seen, audit>>

\* Mutant of ResetEscrow: the row takes the status of the order.
ResetToOrder(s) == SetBack(s, calls[s].was)

\* A refused refund of a captured order leaves its row RELEASED, whatever it
\* was before: nothing ever stores status_before_refund.
ResetEscrow(s) ==
    SetBack(s, IF calls[s].was = "CAPTURED" THEN "RELEASED" ELSE "FUNDED")

\* The result is written under the lock taken before PayHere was asked.
Commit(s) ==
    LET c == calls[s]
        o == c.order
        mine == IF c.op = "refund" THEN o \in refunding
                ELSE payment[o] = "AUTHORIZED" /\ o \in capturing
    IN  /\ c.stage = "commit"
        /\ IF mine
           THEN /\ Set(o, IF c.op = "refund" THEN "REFUNDED" ELSE "CAPTURED")
                /\ refunding' = IF c.op = "refund" THEN refunding \ {o}
                                                   ELSE refunding
                /\ capturing' = IF c.op = "refund" THEN capturing
                                                   ELSE capturing \ {o}
                /\ Goto(s, [c EXCEPT !.stage = "append",
                      !.event = IF c.op = "refund" THEN "refunded"
                                                   ELSE "captured"])
           ELSE Goto(s, Idle) /\ UNCHANGED <<payment, refunding, capturing>>
        /\ UNCHANGED <<linked, escrow, ledger, review, files, gateway, seen,
                       audit>>

CloseEscrow(s) ==
    LET c == calls[s]
    IN  /\ c.stage = "close"
        /\ IF escrow.order = c.order
              /\ (c.op = "refund" \/ escrow.status = "RELEASE_PENDING")
           THEN SetRow(IF c.op = "refund" THEN "REFUNDED" ELSE "RELEASED")
           ELSE UNCHANGED escrow
        /\ Stage(s, IF c.op = "verify" THEN "settlement" ELSE "project")
        /\ UNCHANGED <<payment, linked, capturing, refunding, ledger, review,
                       files, gateway, seen, audit>>

\* _record_settlement: the payout is inserted once (upsert on payment_id).
RecordSettlement(s) ==
    LET o == calls[s].order
    IN  /\ At(s, "verify", "settlement")
        /\ payout' = IF payout[o] = "none" THEN [payout EXCEPT ![o] = "UNPAID"]
                                           ELSE payout
        /\ Stage(s, "release")
        /\ UNCHANGED <<money, ledger, review, delivery, paid, gateway, seen,
                       audit>>

\* verify_delivery releases the file it had found, then completes the project.
VerifyDelivery(s) ==
    /\ At(s, "verify", "release")
    /\ IF delivery = "PENDING_ADMIN_REVIEW"
       THEN delivery' = "RELEASED" /\ Stage(s, "project")
       ELSE Goto(s, Idle) /\ UNCHANGED delivery
    /\ UNCHANGED <<money, ledger, review, paid, payout, gateway, seen, audit>>

\* record_editor_payout: a transfer is recorded once.  The statuses that may be
\* recorded before it (approved, processing, failed, adjusted) are one with the
\* first, PENDING: recording them changes nothing that is told apart here.
RecordEditorPayout(o) ==
    /\ payout[o] = "UNPAID"
    /\ payout' = [payout EXCEPT ![o] = "PAID"]
    /\ UNCHANGED <<money, ledger, review, delivery, paid, gateway, seen, audit,
                   calls>>

-----------------------------------------------------------------------------
(* A worker is killed and started again: its calls are gone, here one after *)
(* the other, and the startup migration gives an order without a protection *)
(* row one.  The unique request_id may refuse the row, and the start fail.  *)
Restart(s) ==
    /\ Crashes
    /\ calls[s] # Idle
    /\ Goto(s, Idle)
    /\ \/ /\ escrow.order = NoOrder
          /\ \E o \in Orders :
                /\ payment[o] \in {"AUTHORIZED", "CAPTURED"}
                /\ escrow' = [order |-> o, status |->
                      IF payment[o] = "AUTHORIZED" THEN "FUNDED"
                                                   ELSE "RELEASED"]
       \/ UNCHANGED escrow
    /\ UNCHANGED <<payment, linked, capturing, refunding, ledger, review, files,
                   gateway, seen, audit>>

(* reconcile_payments: an order is read, PayHere is asked about it, and a   *)
(* disagreement is flagged for manual review.                               *)
Expected == [CAPTURED |-> "merchant", REFUNDED |-> "returned",
             CHARGEBACK |-> "reversed"]

Read(o, statuses) ==
    /\ "reconcile" \in Handlers
    /\ audit = NoAudit
    /\ payment[o] \in statuses
    /\ audit' = [order |-> o, status |-> payment[o]]
    /\ UNCHANGED <<money, ledger, review, files, gateway, seen, calls>>

\* Mutant of ReadOrder: a captured order is thought to be settled.
ReadClosedOrder(o) == Read(o, {"REFUNDED", "CHARGEBACK"})

ReadOrder(o) == Read(o, DOMAIN Expected)

Reconcile ==
    LET o == audit.order
    IN  /\ o # NoOrder
        /\ review' = IF provider[o] = Expected[audit.status] THEN review
                     ELSE review \cup {o}
        /\ audit' = NoAudit
        /\ UNCHANGED <<money, ledger, files, gateway, seen, calls>>

\* PayHere does not answer; the next round tries again.
ProviderUnavailable ==
    /\ audit # NoAudit
    /\ audit' = NoAudit
    /\ UNCHANGED <<money, ledger, review, files, gateway, seen, calls>>

-----------------------------------------------------------------------------
Checkout(s) == \/ CreatePayment(s) \/ CancelStalePending(s) \/ InsertOrder(s)
               \/ LinkDelivery(s) \/ ReadLedger(s) \/ AppendLedger(s)
Notify(s)   == \/ Receive(s) \/ SettleOrder(s) \/ FundEscrow(s)
               \/ FreezeEscrow(s) \/ ReleaseDelivery(s) \/ MarkPaid(s)
               \/ LockDelivery(s) \/ TransitionProject(s)
Settle(s)   == \/ BeginCapture(s) \/ LockCapture(s) \/ BeginRefund(s)
               \/ LockRefund(s) \/ TakeEscrow(s) \/ AskPayHere(s) \/ Undo(s)
               \/ ResetEscrow(s) \/ Commit(s) \/ CloseEscrow(s)
               \/ RecordSettlement(s) \/ VerifyDelivery(s)

Next ==
    \/ \E s \in Slots : Checkout(s) \/ Notify(s) \/ Settle(s) \/ Restart(s)
    \/ \E o \in Orders : \/ Verdict(o) \/ ChargeBack(o) \/ ReadOrder(o)
                         \/ RecordEditorPayout(o)
    \/ RejectDelivery \/ Reconcile \/ ProviderUnavailable

Spec == Init /\ [][Next]_vars

\* The worker reconciles every order again and again, and PayHere's Retrieval
\* API does not fail for ever.
FairSpec ==
    /\ Spec
    /\ \A o \in Orders : SF_vars(ReadOrder(o))
    /\ SF_vars(Reconcile)

-----------------------------------------------------------------------------
(* Properties.                                                             *)

Charged(o) == provider[o] \in {"merchant", "returned", "reversed"}

\* Nothing is given away: a delivery is unlocked only when the money of some
\* order has been taken, and an editor is owed money only for an order whose
\* money has (payhere_notification, approve, verify_delivery).
NothingReleasedUncharged ==
    /\ delivery = "RELEASED" => \E o \in Orders : Charged(o)
    /\ \A o \in Orders : payout[o] # "none" => Charged(o)

\* "Capture and refund use guarded locks.  A release/refund collision is
\* rejected": PayHere is asked to move the money of an order by one call at a
\* time, although the capture lock does not look at the refund lock.
OneMoveAtATime ==
    \A s, t \in Slots :
        /\ calls[s].stage = "ask" /\ calls[t].stage = "ask"
        /\ calls[s].order = calls[t].order
        => s = t

\* The ledger claims only what has happened at the gateway.
LedgerIsTrue ==
    \A o \in Orders :
        /\ "refunded" \in ledger[o] => provider[o] = "returned"
        /\ "chargeback" \in ledger[o] => provider[o] = "reversed"
        /\ "captured" \in ledger[o] => Charged(o)

\* Money that PayHere has returned while the order still says CAPTURED (the
\* answer was lost, or the server killed) is booked or flagged in the end.
LostRefundIsFlagged ==
    \A o \in Orders :
        provider[o] = "returned" /\ payment[o] = "CAPTURED"
            ~> payment[o] = "REFUNDED" \/ o \in review

\* The books follow the gateway, order by order.
Booked(status) ==
    CASE status \in {"none", "PENDING"} -> "open"
      [] status \in Dropped -> "dropped"
      [] status \in {"AUTHORIZED", "CAPTURED"} -> "held"
      [] status = "REFUNDED" -> "returned"
      [] OTHER -> "reversed"
Promise == INSTANCE Escrow WITH gateway <- provider,
                                book <- [o \in Orders |-> Booked(payment[o])]
BooksFollowGateway == Promise!Spec
=============================================================================

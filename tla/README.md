# EditZone: a TLA+ verification project

EditZone is a marketplace where a client hires a video editor: a project is
requested, negotiated, paid through PayHere, delivered, reviewed, revised,
disputed or refunded. The backend (`src/editzone-backend/app`, FastAPI with
MongoDB, Redis and Socket.IO) has no transactions: a handler reads documents,
decides, and later updates one document at a time, usually with a
compare-and-set on one field. Between two such operations any other request,
a PayHere callback or the scheduler may run, and the process may be killed.
That is what these modules are about.

Paths below are relative to `src/editzone-backend/app` unless they start with
`src/`.

## 1. Inventory

| component | code | state | operations | modules |
|---|---|---|---|---|
| Project lifecycle | `core/project_lifecycle.py`, `routers/request_router.py`, `routers/admin_router.py` | the project document (status, counters, flags, history), deliveries, disputes | answer, deliver, revise, cancel, decide, dispute, resolve, expire | `ProjectLifecycle` |
| Price negotiation | `routers/request_router.py`, `core/proposals.py` | proposal fields and `proposal_history` | propose, counter, accept | `Proposals` |
| Quotes, quote checkout | `routers/quote_payment_router.py` | quotes, orders, webhook events, ledger, payouts | quote, revise, expire, check out, callbacks | `QuotePayments` |
| Amounts | `services/payhere_service.py`, `quote_payment_router.py` | shares, ledger sums | split, book, reverse | `Money` |
| Project checkout, escrow, refund | `routers/payment_router.py` | orders, `payment_escrows`, delivery status | initiate, callbacks, approve, refund | `DeliveryPayments`, implementing `Escrow`; the project's side in `ProjectLifecycle` and `Proposals` |
| Settlement, capture | `services/project_settlement.py` | orders, escrows, payouts | capture, settle | `DeliveryPayments` |
| Financial records | `services/financial_records.py` | `payment_ledger`, review flags | append, reconcile | `DeliveryPayments` |
| Editor payouts | `routers/admin_router.py` | payouts | record | `DeliveryPayments`, `QuotePayments` |
| Scheduler | `worker.py`, `db/mongodb.py` | heartbeats, failed jobs | deadlines, scans, purges, reconciliation | in the module of what each job works on |
| Sessions | `routers/auth_router.py`, `core/security.py` | users, `auth_sessions`, security events | sign in, refresh, log out, admit | `Accounts` |
| One-time codes, throttling | `services/otp_service.py`, `services/auth_throttle_service.py` | Redis hashes, counters | issue, check, lock, consume | `Accounts` |
| Admin accounts | `services/admin_account_service.py` | users, sessions | delete, restore | `Accounts` |
| Uploads, scanning | `routers/upload_router.py`, `services/malware_scanner.py` | GridFS files, `multipart_uploads`, S3 objects | upload, complete, abort, claim, scan, sweep, retry, cancel, purge, open | `Uploads` |
| Chat | `routers/chat_router.py`, `sockets/socket_manager.py`, `services/chat_rate_limiter.py` | messages, rooms, reports, rate counters | send, mark, page, view once, report, ban, connect | `Chat` |
| Identity, editor verification | `routers/identity_verification_router.py`, `routers/editor_verification_router.py`, `services/live_selfie_service.py` | verification records, challenges | submit, review | not modelled |
| Status stories, reviews | `routers/status_router.py`, `routers/review_router.py` | likes, averages | like, review | not modelled |
| Account deletion by its owner | `services/account_deletion_service.py` | everything of a user | check, delete | not modelled |
| Profiles, notifications, wiring, frontend | `routers/user_router.py`, `main.py`, `src/editzone-frontend`, ... | - | - | not modelled |

How they interact. The project document is the hub: the lifecycle, both
checkouts, the scheduler and account deletion write it, chat and delivery read
it. There are two checkouts: the project checkout (`payment_router.py`, after
a delivery, at the negotiated price) and the quote checkout
(`quote_payment_router.py`, the editor's final amount). Both send the client to
PayHere and learn the outcome from one webhook; since the quote router is
included first (`main.py:224-225`) its handler receives every notification and
hands those of project orders on. Neither checkout asks whether the other one
has been paid. The scheduler runs maintenance jobs one after the other for
ever. Redis holds only what may be lost. A session opened by `Accounts` is what
lets a socket of `Chat` in; a file of `Uploads` is what a delivery or a message
of the others points at.

What is hard. A compare-and-set protects only the field it names: a stale
decision passes when that field has the same value again (ABA) or when the
decision rested on another field. Callbacks are late, repeated and out of
order. A request that does two updates can be overtaken, or killed, between
them. The list is `PROJECT.json` "hazards", each entry at its line.

What makes each component correct, in a sentence each: a project follows
`ALLOWED_TRANSITIONS` and a closed one stays closed, with a truthful history;
"refunded" means money back, once; an unfunded project is closed in the end; a
client is charged once, and only for terms both members consented to; the books
hold exactly what PayHere reported; shares are fair and balance to the cent.
One call at a time moves the money of an order, the books follow the
gateway, and nothing is released that was not charged. One sign-in yields at
most one live session; a code is guessed a few times only, and a verification
code accepted at most once (a reset code may be accepted twice); a restored
account is not open to old access tokens. Only clean bytes are handed out, every
scan ends, and an aborted upload leaves nothing behind. A message is saved once,
its view-once video is streamed at most once through its one-time links (an
ordinary link to a video in S3 is not refused), no page of the history skips a
message, and no block is recorded that was not applied (that a blocked member is
disconnected, the code does not achieve).

## 2. Modules

Conventions. A *slot* of `Slots` is a call in flight; `calls[s]` is what it has
read and what it does next. An action is what happens between two database
operations of one handler: reading and deciding is one action (a value read is
kept in the call), each update is one. A refusal that writes nothing is the
absence of a step, or a step that ends the call. A mutant (a plausible mistake,
used to show that a property can fail) stands before the definition it would
replace.

### ProjectLifecycle

| code | definition |
|---|---|
| `transition_project` | `Plan`, `Legal` (the check), then `TransitionProject` or `TransitionConflict` |
| `respond_to_request`, `request_revision`, `accept_revision`, `request_cancellation`, `decide_cancellation`, `open_dispute` | the action of the same name, `RecordDispute` |
| `deliver_video` | `DeliverVideo`, `InsertDelivery`, then the transition |
| `resolve_project_lifecycle` | `ResolveProjectLifecycle`, the transition, `CloseDispute` |
| `create_project_delivery_payment` | `CreatePayment`, `InsertOrder` |
| `payhere_notification` | `PayhereNotification`, `ConfirmPayment`, the transition, `ReleaseDelivery`; on failure `RereadAfterFailure`; `Chargeback` |
| `refund` | `RefundPayment`, the transition, `LockRefund`, then `RefundDone` (and the transition to `refunded`) or `RefundRefused` |
| `_create_quote` ... `quote_payhere_notify` | `CreateQuote`, `QuotePaid`: only what they do to the project |
| `process_project_deadlines` | `ExpireProject`, `CancelExpiredOrders`, `MarkOverdue` |

`Extra` holds the fields a handler passes along, `Continuation` what it does
after its transition. `granted` is a history variable.

Abstractions. Dates are nondeterminism: a deadline may have passed whenever its
other conditions hold. An order is what the holder of `active_request_key` is;
orders have no identity of their own, so an old callback may settle a successor
of its order, which only adds behaviours to the safety runs. The refund
endpoint looks up an order without a sort; one that PayHere does not hold is
refused, so only the other case is a step. The delivery's own status
(`READY_FOR_PAYMENT`, `PAYMENT_PENDING`, ...) is abstracted to its existence.

### Proposals

`Propose`/`SaveProposal` are `submit_proposal` and `counter_offer`
(`_save_proposal`), `AcceptProposal`/`FlagAcceptance`/`FinalizeProposal` are
`accept_proposal`, `CreatePayment`/`InsertOrder` the checkout,
`PaymentCaptured`/`PaymentFailed` its callback. A revision's amount, days and
message are its number. `top` and `history` are the two copies of the flags.
`consent` is history: which revision each member was looking at when it
proposed or accepted (what the handler reads; the request itself names no
revision, so a member may still accept terms its screen did not show).

### QuotePayments

`CreateQuote`, `ReadLatest`, `ReviseQuote`, `InsertQuote` are `_create_quote`;
`InitiateQuotePayment`, `CheckExisting`, `LockQuote`, `InsertOrder` are
`initiate_quote_payment`; `Receive`, `RecordEvent`, `SettleOrder` and the
actions after it are `quote_payhere_notify`, one per database operation. `PayHere`
is external, modelled by what the webhook accepts: an order gets one verdict,
perhaps after a pending one, and a success may be charged back; `sent` is every
notification made, any of which may arrive at any later time, any number of
times. `Rows` stands for the six ledger rows of one event.

### Money

The arithmetic of one order, in cents, from amounts in tenths of a cent so
that rounding happens: `split_project_amount` with `Percent` and `HalfUp`
(`ROUND_HALF_UP`), the six ledger entries, the payout and its adjustment.

### DeliveryPayments, and the abstract Escrow

| code | definition |
|---|---|
| `create_payment` behind its three endpoints, `_cancel_stale_pending` | `CreatePayment`, `CancelStalePending`, `InsertOrder`, `ReadLedger`/`AppendLedger`, `LinkDelivery` |
| `payhere_notification` | `Receive`, `SettleOrder`, then by the report `FundEscrow`, the ledger, `TransitionProject`, `ReleaseDelivery`, `MarkPaid`; or the ledger, `LockDelivery`; or `FreezeEscrow` and the ledger |
| `approve_work_and_capture`, and `verify_delivery` with `capture_and_record_project_payment` | `BeginCapture`, `LockCapture`, `TakeEscrow`, `AskPayHere`, `Commit`, the ledger, `CloseEscrow`, then `TransitionProject`, or `RecordSettlement` and `VerifyDelivery`; on an error `Undo`, `ResetEscrow` |
| `refund` | `BeginRefund`, `LockRefund`, and the same stages |
| `append_ledger` | `ReadLedger`, `AppendLedger` |
| `reconcile_payments` | `ReadOrder`, then `Reconcile` or `ProviderUnavailable` |
| `record_editor_payout` | `RecordEditorPayout` |
| a worker killed and started again, with the startup migration | `Restart` |

Here an order has an identity, so a checkout that was dropped and paid later,
and the chargeback of an older order, are cases of their own. The ages of capture
locks are not kept: a lock that is held may be refused, or taken over as older
than five minutes. A restart kills one call at a time, and may or may not
get as far as inserting the migration's row: the row of another order with the
same `request_id` makes the start fail. The payout statuses before `PAID` are one. A capture and a
refund share their stages because their code does: lock on the order, lock on
the protection row, request, result. `AskPayHere` has three outcomes: done, done
with the answer lost, refused; an error from the code's point of view is either
of the last two. Where the project's own table decides, `TransitionProject`
allows both answers: `ProjectLifecycle` is the module that decides it.

`Escrow` is what the checkout promises, order by order: what is booked as held,
returned or reversed has happened at the gateway first. `DeliveryPayments`
implements it under the mapping `gateway <- provider`, `book <-` the order's
status read as open, dropped, held, returned or reversed (`Promise`). A dropped
order stays dropped even if the client pays it after all: that is the code's
choice, and the abstract module says so (`Drop` leads nowhere).

### Accounts

One account. `Login`, `CheckPassword`, `CountFailure`, `ClearCounter`,
`IssueTokens` are `login` and `_issue_tokens`; `GoogleLogin` and the two actions
after it `google_login`; `RefreshSession` to `ReadOwner` are `refresh_session`;
`Authenticate`, `Admit`, `Refuse` are `get_current_user`; `Register` to
`RevokeAll` are registration and the four endpoints of codes, over the Redis
operations `StoreOtp`, `DeleteOtp`, `CheckOtp`, `IncrementOtpAttempts`,
`LockOtp`, `ConsumeOtp`; `AdminDelete`, `RevokeDeleted`, `AdminRestore` the
admin's endpoints. Passwords and codes are numbers, 0 is a wrong guess; a client
knows the codes mailed to it. The date of a token is the number of deletions and
restorations before it (`clock`), since `token_valid_after` is compared with
nothing else; it lies anywhere between the last operation before `_issue_tokens`
and the insertion of the session, since the token is made in between. A deletion
and a restoration read the time and update the account in one step: nothing is
awaited between the two (a token issued while the update is on its way is not
told from one issued after it). `Logout` succeeds whether or not it finds a live
session. `guessed` and `guesses` are history, and so is `out`: the families whose
newest token was sent to logout.

A counter incremented after its hash has expired creates a hash with no code and
no expiry (`Ghost`), on which `get_otp` fails (`otp_service.py:70`): the model
has it, and no code of that purpose is issued while it lasts.

### Uploads

One upload of one `kind`: through the API into GridFS (quarantined, or a profile
picture validated after it is stored, or an image re-encoded first), or a
multipart upload to S3. The action names follow the handlers; `Claim`,
`ScanObject`, `WriteAnswer` are `scan_gridfs_upload` and the body of
`scan_pending_s3_uploads`, `SweepStale` the stale sweep of both, the purges
those of `malware_scanner.py` and `db/mongodb.py`. The state `available` of a
profile picture counts as `safe` here, as `_media_available` does. A claim may be
stale at any time, so the model holds for any timeout. What the record says and
what is stored are two variables, `record` and `object`: every hazard of this
part is between the two.

### Chat

One author and one reader. `SendMessage` to `MarkDelivered` are the socket's
`send_message` and the REST fallback, one step per operation, with every point
at which an acknowledgement may be lost; `MarkRead`, `OpenHistory`, `GetPage` the
reader; `ReserveOnce`, `StreamOnce` to `Show` the one-time links to view-once
media; `Connect` to `EnterRoom` a connection; `ReportChat` and `Decide` to
`DisconnectUser` the report and its decision, one step per operation, each of
which may fail or lose its answer and so end the call.

`AskForLink`, `LookForOnce`, `GiveLink` are the ordinary doors to a file once its
message is sent: before that the reader does not know its name.
`create_media_link`, the door to GridFS (the scene `once`), and `get_s3_file` look
for a view-once message first; `create_s3_media_link` does not (the scene
`direct`, in which both doors of S3 are tried).

The `scene` of a behaviour says what the others play: receipts, history, view-once
media in GridFS, the same in S3, or the report. They touch disjoint parts of
the state and would only multiply each other. `told` is the set of messages whose
author was answered success, `lifted` (history) says whether the last ban was
lifted by `ban_user`. Several workers serve one chat: `online` is whether some
socket of the author, on any of them, is in the author's room. `DisconnectUser`
may close nothing, since a worker lists its own sockets only, and the stop of a
worker (`Restart`) ends one call and may leave a socket elsewhere.

## 3. Runs

Each passing run has, for every property, a mutant that breaks it. The type
invariants of `ProjectLifecycle`, `Proposals`, `QuotePayments` and `Money` are
proved for every value of the constants (section 4) and not checked again here.

| run | question | bounds |
|---|---|---|
| `LifecycleCollaboration` | Do races of members, admin and scheduler keep closed projects closed, the history truthful, a review backed by a delivery? | 2 calls, 2 uploads, 2 deliveries, limit 1, crashes |
| `LifecycleMoney` | Do checkout, callbacks, refund, chargeback and quotes follow the table; is a refund exclusive and shown only when done; is an unfunded project closed in the end? | 2 calls, 1 upload, 1 delivery, crashes, also a pre-migration start |
| `QuoteCheckout` | Is a client charged once for a quote? | 2 calls, 2 orders, 1 version, 1 row, crashes |
| `QuoteRecorded` | Does everything booked rest on a report of PayHere, are the books whole when the server is idle, is a received payment booked in the end? | 2 calls, 1 order, 2 versions, 2 rows |
| `ProposalTerms` | Are charged terms agreed, the copies of the flags equal, and terms both accepted marked so in the end? | 3 calls, 2 revisions |
| `MoneyBooks` | Are shares fair and books balanced? | amounts 0.001-1.200 and 99.990-102.000 at 10 % |
| `DeliveryCheckout` | Is money moved by one call at a time, nothing released uncharged, the ledger true, and `Escrow` implemented? | 2 calls, 2 orders, workers killed and restarted, also a pre-migration start |
| `DeliveryRecovery` | Is a refund that was made and never booked flagged in the end? | 2 calls, 1 order, crashes, lost answers |
| `AccountAccess` | One live session per sign-in, bounded guesses, verification codes accepted once, old access tokens refused? | 2 calls, 3 sessions, 2 codes, 2 passwords, 2 moves, limits 2, five workloads |
| `UploadScan` | Are only clean bytes served, is one scan made at a time, does every scan end? | 2 calls, 2 attempts, 1 retry, 1 kill, every kind |
| `ChatDelivery` | Is a message saved once, a video streamed once through its links, no message skipped by a page, no block recorded that was not applied? | 2 calls, 3 texts (2 while receipts are watched), 1 video, page 1, limit 1, 3 dates, 2 links, workers that stop |

`QuoteDowngrade` is the one run that expects a violation (below).

Why these bounds are enough. Every race in this code is between a read and an
update of the same document, so two calls give every pair of handlers, and the
scheduler, the gateway and chargebacks come on top of them; `Proposals` has
three, since two acceptances and a submission meet there. Two uploads and
deliveries are the least with a duplicate and a successor. One revision of
limit is reached and exceeded. Two orders are what a double charge, a dropped
and a later order, or a row of another order needs; two versions what a
replacement needs, two rows what a half-written ledger needs. Three sessions
are a sign-in, its rotation and one that should not be; two codes an old and a
new one; a limit of two has a guess below it, one at it and one past it. Two
attempts are a scan deferred and one exhausted, one kill leaves one claim
stale. A page of one with three texts and three dates has a page boundary
between equal dates and between different ones. Two links are a lapsed one and
its successor. The theorems hold without any of these bounds.

`Handlers` and `Workloads` split operations over runs or behaviours; the
reconciliation of `DeliveryPayments`, which moves no money, runs in
`DeliveryRecovery` only. `Visible`
(a VIEW) merges states that differ in history variables only, in the first run.
Symmetry of calls, uploads, orders and texts is used in runs without liveness.
Deadlock is checked in `ChatDelivery`; elsewhere a finished project, a quarrel
without a bargain, a booked order, a used-up account or a purged upload are
proper ends (`CHECK_DEADLOCK FALSE`).

### Fairness

`LifecycleMoney` assumes weak fairness of the scheduler only: `worker.py` loops
for ever and retries a failed job. No member, and no PayHere, has to do
anything, and calls may be killed. `QuoteRecorded` assumes that an accepted
call runs to its end (weak fairness of the server's steps, hence no crash) and
that PayHere repeats a success notification until it has been received once
(strong fairness, since the slots of the model may be taken). `ProposalTerms`
assumes that accepted calls run to their end; its safety properties do not need
that, and there a killed call is simply one that never goes on.
`DeliveryRecovery` assumes of the handlers nothing: only that the scheduler
reads each order again and again (`worker.py:44-48`) and that PayHere answers
some of its questions, strong fairness in both cases because a round may find
PayHere unavailable. `UploadScan` assumes that a call that is not killed goes
on, that the scheduler's loop (`worker.py:36-48`) sweeps what is stale, and that
it picks up what stays pending (strong fairness: the slots may be taken, and a
claim ends and returns the pending state).

### What the code contradicts

`QuoteDowngrade` checks a sentence of the repository and finds it broken: a
pending callback, overtaken by the success callback, writes last;
`PROJECT.json` "findings" quotes the sentence and the line. Nine more
configurations do the same for claims that are kept outside the list of runs;
`tlc -config X.cfg M` shows each within seconds.

| configuration | module | the claim, and how it is broken |
|---|---|---|
| `LifecycleExpiredPaid` | `MCProjectLifecycle` | "Payment was not completed before project expiry" (`db/mongodb.py:495`): the project expires, then its order is confirmed before the scheduler closes it; or a quote is paid later |
| `LifecycleEditorDispute` | `MCProjectLifecycle` | "An admin will review the project evidence." (`request_router.py:503`): "accept revision" on a disputed project moves it to `in_progress` |
| `LifecycleOtherMember` | `MCProjectLifecycle` | "The other project member must decide this request" (`request_router.py:474`): a decision on an earlier cancellation request lands on the decider's own |
| `LifecycleRevisionLimit` | `MCProjectLifecycle` | "The agreed {revision_limit}-revision limit was reached" (`request_router.py:438`): two requests read the same count, with a delivery in between |
| `MoneyFee` | `MCMoney` | "The client fee is added to checkout" (`payhere_service.py:46`): the project checkout charges the amount without the fee it books |
| `AccountReuse` | `MCAccounts` | "family-revoked on reuse" (`src/editzone-backend/README.md:213`): a refresh that has rotated its own token inserts the next session after the family was revoked |
| `AccountLogout` | `MCAccounts` | "revoked on logout" (`src/editzone-backend/README.md:213`): a logout between a refresh's rotation (`auth_router.py:700`) and its insertion (711) matches nothing (654), and the refresh opens the next session |
| `AccountRestored` | `MCAccounts` | "Old sessions remain revoked; restoration never resurrects credentials." (`admin_account_service.py:63`): a sign-in overtaken by the deletion inserts its session (`auth_router.py:187`) after all were revoked, and once the account is restored its refresh token is good (699-711) |
| `ChatLinks` | `MCChat` | "ordinary media links and replay attempts are rejected" (`src/editzone-backend/README.md:208`): `create_s3_media_link` (`upload_router.py:751`) signs a URL for a view-once video without the look-up of `get_s3_file` (738) and `create_media_link` (843-847) |

Three properties of the runs are worded accordingly: `FamilyIsOneLine` speaks of a
logout that revoked a live session, `OldTokensStayOut` of access tokens, and
`StreamedOnce` of the one-time links, and of ordinary links to GridFS asked for
after the message was sent (one made before that stays valid).

Weaker ones have no configuration, but the modules contain them: an
admin's resolution may close the record of a newer dispute
(`admin_router.py:431`); the loser of two submissions is told that the work is
in review (`request_router.py:374`); a checkout may take a quote while it is
being replaced (`quote_payment_router.py:167-168`); a proposal submitted before
the payment may be saved after it (`request_router.py:189-191`); a checkout
dropped as stale and paid afterwards is never booked (`payment_router.py:109`);
the handler of a second order fails on the unique protection row of the first
(`payment_router.py:439`); an order captured by the callback has no `captured`
event, which reconciliation looks for (`financial_records.py:48`); a delivery
mark may overwrite `seen` (`socket_manager.py:427`); "delivered" is set though
nobody is in the room; a message may be saved in a chat closed meanwhile
(`socket_manager.py:281`); messages with the date of the last one of a page may
be left out (`chat_router.py:143`); media whose stream fails after it was
marked opened is lost (`upload_router.py:935`); `ban_user` leaves sockets
connected (`admin_router.py:201`), and so may a decision that blocks the author,
which lists this worker's sockets only, and with `async for` over what the
library returns as a plain generator (`socket_manager.py:162`); such a socket may
go on sending, since `ACTIVE_ACCOUNT_FILTER` does not ask for `is_banned`
(`socket_manager.py:183`); a decision that fails after it closed the report is
refused when retried, and disconnects nobody (`admin_router.py:519-535`); two
admins may decide one report and both are answered success
(`admin_router.py:530-532`); `suspended_until` is written and read by nothing
(`admin_router.py:524`); a reset code may be accepted by two calls, since it is
deleted without a condition (`auth_router.py:589`); a captured order without a
protection row is given a RELEASED, PAYABLE one by the migration
(`db/mongodb.py:385`).

## 4. Proofs

`*_proofs` modules hold the theorems; each extends the module it is about.
They need the named ASSUME of that module only, and hold for any sets of
calls, uploads, orders, keys and sessions and any bounds.

* `ProjectLifecycle_proofs`. `IInv` adds two facts to the invariants. `CallsOK`
  says what a call in each stage carries: a planned transition is in the table,
  a delivery past its insertion has a delivery, a call that says `refunded`
  follows a refund. `RefundLock` says that the call at the gateway is the one
  that holds the lock: without it "one refund at a time" is not inductive,
  since nothing ties the flag in the order to the call. `TableFacts` evaluates
  the table once. `ReadsKeep`, `WritesKeep` and `OthersKeep` take the actions
  one by one. The action properties follow from `StatusStep`, which needs
  `CallsOK` to know that the planned step is legal.
* `QuotePayments_proofs`. The core is `Tokens`: a quote has at most one holder
  (an order that is paid or may yet be, one whose failure has not been dealt
  with, or a call between its lock and its insertion) and none while it can be
  taken. `Alone` says that one call at a time acts upon a report, which is what
  storing its event key first achieves; `Reports` that what PayHere has said
  agrees with what it has decided. Without the token of a failing order
  `ChargedOnce` is not inductive: a late failure would reopen the quote of an
  order made since. `BooksBecomeWhole` assumes that no call is killed
  (`~Crashes`): with crashes it is false, since a killed handler has stored its
  event key and PayHere's retry is answered without work (a hazard without a
  property). Its invariant `Whole` says that what the books lack, a call in
  flight is about to write: `Progress` what each stage has written,
  `Recording` and `Reversing` who owes the rest.
* `Proposals_proofs`. `FlagsAreConsent`: a flag in the history is set only for
  a revision its member consented to; the rest follows from the compare-and-set
  on the version.
* `Money_proofs`. `HalfUpIsNearest` characterises rounding, `ShareIsFair` and
  `SplitIsExact` the shares; the balance of the ledger is an invariant that
  ties ledger and payout to the stored split, stage by stage.

* `DeliveryPayments_proofs`. `OneHolder` ties the protection row to the call
  that moves it: a call between taking the row and being done with it finds
  there its own order and its own pending status, unless a chargeback froze the
  row, and there is one such call. `OneMoveAtATime` follows, and is not
  inductive without it: nothing in a call at the gateway says that the row is
  taken. `OrdersTrue` and `CallsTrue` (`PaidFor`, `Returning`, `Reversing`) say
  what has happened at the gateway for what an order, a callback or a stage
  claims; with them the ledger is true and nothing is released uncharged.
  `RefundLocked` keeps an order under a refund among AUTHORIZED, CAPTURED and
  CHARGEBACK, so that its result is booked once. `Implementation` is the refinement of
  `Escrow`: `Booking` and `Rebooking` say what a write to an order does to its
  book, then each handler's steps are steps of `Escrow` on one order or
  stutters (`CheckoutRefines`, `NotifyRefines`, `SettleRefines`,
  `GatewayMoves`), with `IInv` for the guards.
* `Accounts_proofs`. `LinesTrue`: a family has one live session or one refresh
  that has rotated its token and not yet inserted the next (`Carries`), never
  both and never two, and neither after a logout that revoked a live session. A
  logout that matched nothing leaves the refresh its way, as `AccountLogout` shows. Bounded guesses and codes
  accepted once rest on counting calls: while a code is not locked, its counter
  is behind its guesses by at most the calls that have compared and not yet
  counted (`Trying`), and past the limit by at most those that have counted and
  not yet locked (`Locking`); `ThrottleTrue` says the same of passwords. The
  sets change by one call at a time, hence the lemmas on cardinalities.
  `AccountTrue` orders the dates of sessions for `RestorationShutsOut`.
* `Uploads_proofs`. `ClaimsCounted`: while a record may be claimed, every scan
  that still runs was declared stale, otherwise one may not have been. Without
  the first half a second claim could not be excluded. `CallsTrue` carries what
  a stale call knows about the bytes (not about the record, which may have
  changed), `RecordTrue` what the record says about them.
* `Chat_proofs`. `SavedTrue` is the unique index and what authors were told.
  `OnceTrue` ties an opened message to the one call that may still show it, and
  `CallTrue` says of a call about to give an ordinary link that it looked for a
  view-once message in vain, or looks for none because the video is in S3.
  `CallTrue` also has what `BlocksAreApplied` rests on: a call about to record a
  block has applied it, and only `ban_user` has lifted it since. `PageTrue` is the
  invariant of a walk: what has not been shown is older than the cursor, or
  dated like something shown. A page ends at its oldest message, which exists by
  `Least` (a non-empty set of dates has a least element, from the
  well-foundedness of `<` on the naturals).

The type invariants are proved with the others, since the provers need the type
of every variable at every step. Apart from `~Crashes` above, no theorem has a
hypothesis beyond the ASSUMEs; the bounds (`MaxQuotes`, `MaxCodes`, ...) are
constants of any value, so they bound the exploration only. The inductive
invariants were model-checked in the runs' instances before they were proved.

Model-checked only: the liveness properties (`UnfundedIsResolved`,
`ReceivedIsRecorded`, `AgreementIsFinal`, `LostRefundIsFlagged`, `ScanEnds`),
since temporal reasoning under fairness and ENABLED are out of the prover's
reach; and the claims that the code contradicts, which are false. Every
invariant and every action property of a passing run is a theorem.

## 5. Not modelled, and the plan

Not modelled: permission checks that only compare ids, notifications and push
(nothing depends on them), CAPTCHAs and delays of the throttle, cookies and
CSRF, the moderation of text (it only refuses), typing and presence, image and
face recognition, media agreements, policies and access logs (single updates
nothing else reads but to refuse), the frontend (any client may call any
handler at any time).

What is left, in the order of its worth:

1. `AccountDeletion`: a user's own deletion, which checks for running projects
   and then deletes across collections.
2. `Verification`: identity and editor review, selfie challenges that expire.
3. `Counters` (likes, ratings) and the retries of `run_job`.
4. `Checkouts`: the two checkouts composed over one project.

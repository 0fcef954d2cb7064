--------------------------- MODULE QuotePayments ---------------------------
(***************************************************************************)
(* Final-price quotes of one project and their PayHere checkout: the       *)
(* editor sends versions of a quote, the client starts checkout orders,    *)
(* and PayHere, an external service, reports what became of each order by  *)
(* a callback that may be duplicated, delayed or overtaken by a later one. *)
(* Every handler awaits the database between its reads and its writes, so  *)
(* a handler is a call (a slot of "calls") that goes through stages, each  *)
(* of them one database operation.                                         *)
(***************************************************************************)
EXTENDS Integers

CONSTANTS
    Slots,       \* handler calls that may be in flight together
    Orders,      \* checkout orders that may ever be created
    NoOrder,     \* the order of a call that has none
    MaxQuotes,   \* bound: quote versions explored
    Rows,        \* ledger rows written for a payment (6 in the code)
    Crashes      \* may a call stop where it stands (process killed)?

ASSUME QuoteAssumption ==
    /\ NoOrder \notin Orders
    /\ MaxQuotes \in Nat
    /\ Rows \in Nat \ {0}
    /\ Crashes \in BOOLEAN

Versions    == 1 .. MaxQuotes
QuoteStatus == {"none", "SENT", "REVISED", "EXPIRED", "PAYMENT_PENDING",
                "PAID"}
STATUS_MAP  == {"SUCCESS", "PENDING", "CANCELLED", "FAILED", "CHARGEDBACK"}
RETRYABLE_PAYMENT == {"FAILED", "CANCELLED", "CHARGEDBACK"}
PaymentStatus == STATUS_MAP \cup {"none", "INITIATED"}

\* Stages of _create_quote, initiate_quote_payment and quote_payhere_notify,
\* named for the database operation that comes next.
Stages == {"idle", "latest", "revise", "insert_quote",
           "existing", "lock", "insert_order",
           "event", "settle", "quote", "project", "credit", "payout",
           "reverse", "adjust", "reopen"}

VARIABLES
    quotes,     \* project_quotes: the status of each version
    latest,     \* the newest version
    due,        \* versions whose expires_at has passed
    quote_id,   \* payments.quote_id of each order (0: no order yet)
    payment,    \* payments.status of each order
    provider,   \* external: what PayHere has decided of each order
    sent,       \* external: callbacks <<order, status>> PayHere has sent
    seen,       \* payment_webhooks: the event keys stored
    paid,       \* requests.paid of the project
    credits,    \* rows of each order's PAYMENT_SUCCESS ledger entries
    reversals,  \* rows of each order's CHARGEBACK ledger entries
    payout,     \* editor_payouts.payout_status of each order
    calls       \* calls in flight

vars == <<quotes, latest, due, quote_id, payment, provider, sent, seen, paid,
          credits, reversals, payout, calls>>
books == <<paid, credits, reversals, payout>>
gateway == <<provider, sent>>

Call == [stage: Stages, version: 0 .. MaxQuotes, active: 0 .. MaxQuotes,
         order: Orders \cup {NoOrder}, status: STATUS_MAP,
         snapshot: PaymentStatus, row: Nat]

Idle == [stage |-> "idle", version |-> 0, active |-> 0, order |-> NoOrder,
         status |-> "PENDING", snapshot |-> "none", row |-> 0]

TypeOK ==
    /\ quotes \in [Versions -> QuoteStatus]
    /\ latest \in 0 .. MaxQuotes
    /\ due \subseteq Versions
    /\ quote_id \in [Orders -> 0 .. MaxQuotes]
    /\ payment \in [Orders -> PaymentStatus]
    /\ provider \in [Orders -> STATUS_MAP \cup {"open"}]
    /\ sent \subseteq Orders \X STATUS_MAP
    /\ seen \subseteq sent
    /\ paid \in BOOLEAN
    /\ credits \in [Orders -> SUBSET (1 .. Rows)]
    /\ reversals \in [Orders -> SUBSET (1 .. Rows)]
    /\ payout \in [Orders -> {"none", "CALCULATING", "ADJUSTED"}]
    /\ calls \in [Slots -> Call]

Init ==
    /\ quotes = [v \in Versions |-> "none"]
    /\ latest = 0
    /\ due = {}
    /\ quote_id = [o \in Orders |-> 0]
    /\ payment = [o \in Orders |-> "none"]
    /\ provider = [o \in Orders |-> "open"]
    /\ sent = {}
    /\ seen = {}
    /\ paid = FALSE
    /\ credits = [o \in Orders |-> {}]
    /\ reversals = [o \in Orders |-> {}]
    /\ payout = [o \in Orders |-> "none"]
    /\ calls = [s \in Slots |-> Idle]

\* The call of slot s becomes c; a call that has answered becomes Idle.
Goto(s, c) == calls' = [calls EXCEPT ![s] = c]
Stage(s, stage) == Goto(s, [calls[s] EXCEPT !.stage = stage])

-----------------------------------------------------------------------------
(* _create_quote: the assigned editor of an accepted project.              *)

Active == {v \in Versions : quotes[v] \in {"SENT", "PAYMENT_PENDING", "PAID"}}
NewestActive(a) == IF Active = {} THEN a = 0
                   ELSE a \in Active /\ \A v \in Active : v <= a

\* A paid quote, or one with a payment attempt, is refused; a sent quote that
\* is due is expired on the way.
CreateQuote(s) ==
    \E a \in 0 .. MaxQuotes :
        /\ calls[s] = Idle
        /\ latest < MaxQuotes
        /\ NewestActive(a)
        /\ a # 0 => quotes[a] = "SENT"
        /\ quotes' = IF a \in due THEN [quotes EXCEPT ![a] = "EXPIRED"]
                                  ELSE quotes
        /\ Goto(s, [Idle EXCEPT !.stage = "latest",
                                !.active = IF a \in due THEN 0 ELSE a])
        /\ UNCHANGED <<latest, due, quote_id, payment, seen, books, gateway>>

ReadLatest(s) ==
    /\ calls[s].stage = "latest"
    /\ latest < MaxQuotes
    /\ Goto(s, [calls[s] EXCEPT
                   !.version = latest + 1,
                   !.stage = IF calls[s].active # 0 THEN "revise"
                                                    ELSE "insert_quote"])
    /\ UNCHANGED <<quotes, latest, due, quote_id, payment, seen, books,
                   gateway>>

\* update_one on {_id, status: SENT}; whether it matched is not looked at.
ReviseQuote(s) ==
    LET a == calls[s].active
    IN  /\ calls[s].stage = "revise"
        /\ quotes' = IF quotes[a] = "SENT"
                     THEN [quotes EXCEPT ![a] = "REVISED"] ELSE quotes
        /\ Stage(s, "insert_quote")
        /\ UNCHANGED <<latest, due, quote_id, payment, seen, books, gateway>>

\* The unique index on (project_id, quote_version) refuses a duplicate.
InsertQuote(s) ==
    LET v == calls[s].version
    IN  /\ calls[s].stage = "insert_quote"
        /\ IF quotes[v] = "none"
           THEN quotes' = [quotes EXCEPT ![v] = "SENT"] /\ latest' = v
           ELSE UNCHANGED <<quotes, latest>>
        /\ Goto(s, Idle)
        /\ UNCHANGED <<due, quote_id, payment, seen, books, gateway>>

\* Reading a quote (current_quote, quote_by_id) expires it when it is due.
ExpireQuote(v) ==
    /\ v \in due
    /\ quotes[v] = "SENT"
    /\ quotes' = [quotes EXCEPT ![v] = "EXPIRED"]
    /\ UNCHANGED <<latest, due, quote_id, payment, seen, books, gateway, calls>>

TimePasses(v) ==
    /\ v \notin due
    /\ quotes[v] # "none"
    /\ due' = due \cup {v}
    /\ UNCHANGED <<quotes, latest, quote_id, payment, seen, books, gateway,
                   calls>>

-----------------------------------------------------------------------------
(* initiate_quote_payment: the client of the project.                      *)

\* The latest version only, and neither terminal nor revised.
InitiateQuotePayment(s) ==
    /\ calls[s] = Idle
    /\ \E o \in Orders : payment[o] = "none"
    /\ latest # 0
    /\ \/ quotes[latest] = "SENT" /\ latest \notin due
       \/ quotes[latest] = "PAYMENT_PENDING"
    /\ Goto(s, [Idle EXCEPT !.stage = "existing", !.version = latest])
    /\ UNCHANGED <<quotes, latest, due, quote_id, payment, seen, books,
                   gateway>>

CheckExisting(s) ==
    LET live == \E o \in Orders :
                   /\ quote_id[o] = calls[s].version
                   /\ payment[o] \in {"INITIATED", "PENDING", "SUCCESS"}
    IN  /\ calls[s].stage = "existing"
        /\ IF live THEN Goto(s, Idle) ELSE Stage(s, "lock")
        /\ UNCHANGED <<quotes, latest, due, quote_id, payment, seen, books,
                       gateway>>

\* find_one_and_update taking the quote when it is free.
TakeQuote(s, free) ==
    LET v == calls[s].version
    IN  /\ calls[s].stage = "lock"
        /\ quotes' = IF free THEN [quotes EXCEPT ![v] = "PAYMENT_PENDING"]
                             ELSE quotes
        /\ IF free THEN Stage(s, "insert_order") ELSE Goto(s, Idle)
        /\ UNCHANGED <<latest, due, quote_id, payment, seen, books, gateway>>

\* Mutant of LockQuote: a quote with a payment attempt is taken again.
LockAnyQuote(s) ==
    TakeQuote(s, /\ quotes[calls[s].version] \in {"SENT", "PAYMENT_PENDING"}
                 /\ calls[s].version \notin due)

LockQuote(s) ==
    TakeQuote(s, /\ quotes[calls[s].version] = "SENT"
                 /\ calls[s].version \notin due)

\* Order ids are fresh (a timestamp and a uuid).
InsertOrder(s) ==
    /\ calls[s].stage = "insert_order"
    /\ \E o \in Orders :
          /\ payment[o] = "none"
          /\ payment' = [payment EXCEPT ![o] = "INITIATED"]
          /\ quote_id' = [quote_id EXCEPT ![o] = calls[s].version]
    /\ Goto(s, Idle)
    /\ UNCHANGED <<quotes, latest, due, seen, books, gateway>>

-----------------------------------------------------------------------------
(* PayHere (external).  A checkout may stay open for ever, may be pending  *)
(* for a while, and gets one verdict; a successful one may be charged back. *)

Verdicts(p) ==
    CASE p = "open"    -> {"PENDING", "SUCCESS", "FAILED", "CANCELLED"}
      [] p = "PENDING" -> {"SUCCESS", "FAILED", "CANCELLED"}
      [] p = "SUCCESS" -> {"CHARGEDBACK"}
      [] OTHER         -> {}

PayHere(o) ==
    /\ payment[o] # "none"
    /\ \E verdict \in Verdicts(provider[o]) :
          /\ provider' = [provider EXCEPT ![o] = verdict]
          /\ sent' = sent \cup {<<o, verdict>>}
    /\ UNCHANGED <<quotes, latest, due, quote_id, payment, seen, books, calls>>

-----------------------------------------------------------------------------
(* quote_payhere_notify: any callback, at any time after it was sent and   *)
(* as often as the network delivers it.                                    *)

\* The order is read first: this is the snapshot the handler decides on.
Receive(s, o, status) ==
    /\ calls[s] = Idle
    /\ <<o, status>> \in sent
    /\ Goto(s, [Idle EXCEPT !.stage = "event", !.version = quote_id[o],
                            !.order = o, !.status = status,
                            !.snapshot = payment[o]])
    /\ UNCHANGED <<quotes, latest, due, quote_id, payment, seen, books,
                   gateway>>

\* Mutant of RecordEvent: the event key leaves out the status code.
RecordOrderEvent(s) ==
    LET c == calls[s]
        known == \E status \in STATUS_MAP : <<c.order, status>> \in seen
    IN  /\ c.stage = "event"
        /\ seen' = seen \cup {<<c.order, c.status>>}
        /\ IF known THEN Goto(s, Idle) ELSE Stage(s, "settle")
        /\ UNCHANGED <<quotes, latest, due, quote_id, payment, books, gateway>>

\* The event key is stored before anything is done; a known key is answered
\* 200, and so is any report but a chargeback of an order known to be paid.
RecordEvent(s) ==
    LET c == calls[s]
        key == <<c.order, c.status>>
    IN  /\ c.stage = "event"
        /\ seen' = seen \cup {key}
        /\ IF key \in seen \/ (c.snapshot = "SUCCESS" /\ c.status # "CHARGEDBACK")
           THEN Goto(s, Idle) ELSE Stage(s, "settle")
        /\ UNCHANGED <<quotes, latest, due, quote_id, payment, books, gateway>>

\* Mutants of AfterSettle: a pending order counts as paid, and a chargeback is
\* reversed without looking whether the payment was ever booked.
AfterSettlePendingPaid(c) ==
    CASE c.status \in {"SUCCESS", "PENDING"} -> "quote"
      [] c.status = "CHARGEDBACK" -> "reverse"
      [] OTHER -> "reopen"
AfterSettleReverseAll(c) ==
    CASE c.status = "SUCCESS" -> "quote"
      [] c.status = "CHARGEDBACK" -> "reverse"
      [] c.status \in {"FAILED", "CANCELLED"} -> "reopen"
      [] OTHER -> "idle"

AfterSettle(c) ==
    CASE c.status = "SUCCESS" -> "quote"
      [] c.status = "CHARGEDBACK" /\ c.snapshot = "SUCCESS" -> "reverse"
      [] \/ c.status \in RETRYABLE_PAYMENT \ {"CHARGEDBACK"}
         \/ c.status = "CHARGEDBACK" /\ c.snapshot # "SUCCESS" -> "reopen"
      [] OTHER -> "idle"

\* find_one_and_update on {_id, status: {$ne: status}}.
SettleOrder(s) ==
    LET c == calls[s]
    IN  /\ c.stage = "settle"
        /\ payment' = [payment EXCEPT ![c.order] = c.status]
        /\ IF payment[c.order] = c.status \/ AfterSettle(c) = "idle"
           THEN Goto(s, Idle)
           ELSE Goto(s, [c EXCEPT !.stage = AfterSettle(c), !.row = 1])
        /\ UNCHANGED <<quotes, latest, due, quote_id, seen, books, gateway>>

PayQuote(s) ==
    LET v == calls[s].version
    IN  /\ calls[s].stage = "quote"
        /\ quotes' = IF quotes[v] = "PAYMENT_PENDING"
                     THEN [quotes EXCEPT ![v] = "PAID"] ELSE quotes
        /\ Stage(s, "project")
        /\ UNCHANGED <<latest, due, quote_id, payment, seen, books, gateway>>

MarkProjectPaid(s) ==
    /\ calls[s].stage = "project"
    /\ paid' = TRUE
    /\ Stage(s, "credit")
    /\ UNCHANGED <<quotes, latest, due, quote_id, payment, seen, credits,
                   reversals, payout, gateway>>

\* _insert_financial_entries: one row after the other; a row whose dedupe_key
\* exists is skipped.
CreditRow(s) ==
    LET c == calls[s]
    IN  /\ c.stage = "credit"
        /\ credits' = [credits EXCEPT ![c.order] = @ \cup {c.row}]
        /\ IF c.row = Rows THEN Stage(s, "payout")
                           ELSE Goto(s, [c EXCEPT !.row = @ + 1])
        /\ UNCHANGED <<quotes, latest, due, quote_id, payment, seen, paid,
                       reversals, payout, gateway>>

InsertPayout(s) ==
    LET o == calls[s].order
    IN  /\ calls[s].stage = "payout"
        /\ payout' = IF payout[o] = "none"
                     THEN [payout EXCEPT ![o] = "CALCULATING"] ELSE payout
        /\ Goto(s, Idle)
        /\ UNCHANGED <<quotes, latest, due, quote_id, payment, seen, paid,
                       credits, reversals, gateway>>

ReverseRow(s) ==
    LET c == calls[s]
    IN  /\ c.stage = "reverse"
        /\ reversals' = [reversals EXCEPT ![c.order] = @ \cup {c.row}]
        /\ IF c.row = Rows THEN Stage(s, "adjust")
                           ELSE Goto(s, [c EXCEPT !.row = @ + 1])
        /\ UNCHANGED <<quotes, latest, due, quote_id, payment, seen, paid,
                       credits, payout, gateway>>

AdjustPayout(s) ==
    LET o == calls[s].order
    IN  /\ calls[s].stage = "adjust"
        /\ payout' = IF payout[o] # "none"
                     THEN [payout EXCEPT ![o] = "ADJUSTED"] ELSE payout
        /\ Goto(s, Idle)
        /\ UNCHANGED <<quotes, latest, due, quote_id, payment, seen, paid,
                       credits, reversals, gateway>>

\* A failed checkout frees its quote for another attempt.
ReopenQuote(s) ==
    LET v == calls[s].version
    IN  /\ calls[s].stage = "reopen"
        /\ quotes' = IF quotes[v] = "PAYMENT_PENDING"
                     THEN [quotes EXCEPT ![v] = IF v \in due THEN "EXPIRED"
                                                             ELSE "SENT"]
                     ELSE quotes
        /\ Goto(s, Idle)
        /\ UNCHANGED <<latest, due, quote_id, payment, seen, books, gateway>>

\* The process is killed while the call is between two operations.
Crash(s) ==
    /\ Crashes
    /\ calls[s] # Idle
    /\ Goto(s, Idle)
    /\ UNCHANGED <<quotes, latest, due, quote_id, payment, seen, books,
                   gateway>>

Quoting(s) == CreateQuote(s) \/ ReadLatest(s) \/ ReviseQuote(s)
              \/ InsertQuote(s)
Checkout(s) == InitiateQuotePayment(s) \/ CheckExisting(s) \/ LockQuote(s)
               \/ InsertOrder(s)
Notification(s) ==
    \/ RecordEvent(s) \/ SettleOrder(s) \/ PayQuote(s) \/ MarkProjectPaid(s)
    \/ CreditRow(s) \/ InsertPayout(s) \/ ReverseRow(s) \/ AdjustPayout(s)
    \/ ReopenQuote(s)

Next ==
    \/ \E s \in Slots :
          \/ Quoting(s) \/ Checkout(s) \/ Notification(s) \/ Crash(s)
          \/ \E o \in Orders, status \in STATUS_MAP : Receive(s, o, status)
    \/ \E v \in Versions : ExpireQuote(v) \/ TimePasses(v)
    \/ \E o \in Orders : PayHere(o)

Spec == Init /\ [][Next]_vars

\* A call the server has accepted runs to its end, and PayHere repeats a
\* callback until one has been answered; nothing obliges anybody to quote, to
\* pay, or PayHere to decide.
FairSpec ==
    /\ Spec
    /\ \A s \in Slots : WF_vars(Notification(s) \/ ReadLatest(s)
           \/ ReviseQuote(s) \/ InsertQuote(s) \/ CheckExisting(s)
           \/ LockQuote(s) \/ InsertOrder(s))
    /\ \A o \in Orders : SF_vars(<<o, "SUCCESS">> \notin seen
           /\ \E s \in Slots : Receive(s, o, "SUCCESS"))

-----------------------------------------------------------------------------
(* Properties.                                                             *)

Chargeable(o) ==
    payment[o] # "none" /\ provider[o] \in {"open", "PENDING", "SUCCESS"}

\* Of one quote the client is charged once: whatever callbacks are repeated,
\* late or interleaved with new checkouts, a quote never has two orders that
\* are, or may yet be, paid and not charged back.
ChargedOnce ==
    \A o, p \in Orders :
        Chargeable(o) /\ Chargeable(p) /\ quote_id[o] = quote_id[p] => o = p

\* A quote shown as PAID has an order PayHere has reported as paid.
PaidQuoteIsBacked ==
    \A v \in Versions : quotes[v] = "PAID" =>
        \E o \in Orders : quote_id[o] = v /\ <<o, "SUCCESS">> \in sent

\* The editor's payout, the client's ledger entries and the project's paid
\* flag exist only for money PayHere has reported as received, and reversal
\* entries only for a chargeback of it.
BooksAreBacked ==
    /\ \A o \in Orders :
          /\ payout[o] # "none" \/ credits[o] # {} => <<o, "SUCCESS">> \in seen
          /\ reversals[o] # {} \/ payout[o] = "ADJUSTED" =>
                {<<o, "SUCCESS">>, <<o, "CHARGEDBACK">>} \subseteq seen
    /\ paid => \E o \in Orders : <<o, "SUCCESS">> \in seen

\* When no call is in flight (and none was killed) the books are whole: a
\* received payment has all its rows, its payout and its project marked, and
\* a reversal covers the payment completely.
BooksAreWhole ==
    (\A s \in Slots : calls[s] = Idle) =>
        \A o \in Orders :
            /\ <<o, "SUCCESS">> \in seen =>
                  credits[o] = 1 .. Rows /\ payout[o] # "none" /\ paid
            /\ reversals[o] \in {{}, 1 .. Rows}

\* A payment PayHere has received is in the end recorded for the editor and
\* the client, in whatever order its callbacks arrive.
ReceivedIsRecorded ==
    \A o \in Orders :
        provider[o] = "SUCCESS" ~> payout[o] # "none" /\ credits[o] = 1 .. Rows

\* --- Claims of the code that its behaviours contradict. ---

\* "Confirm no duplicate ledger/escrow and no state downgrade."
NoStateDowngrade ==
    [][\A o \in Orders : payment[o] = "SUCCESS" =>
          payment'[o] \in {"SUCCESS", "CHARGEDBACK"}]_vars
=============================================================================

------------------------------- MODULE Money -------------------------------
(***************************************************************************)
(* The money of one order: how an amount becomes a checkout, the shares    *)
(* of editor and platform, ledger entries and an editor payout, in the two *)
(* flows the code has (the quote checkout and the project checkout).       *)
(* Amounts are in cents (LKR minor units); what the user enters is in      *)
(* tenths of a cent ("mils"), so that rounding takes place.                *)
(***************************************************************************)
EXTENDS Integers

CONSTANTS
    Mils,                        \* amounts a user may enter
    MinMinor, MaxMinor,          \* PROJECT_MIN_AMOUNT, PROJECT_MAX_AMOUNT
    CLIENT_SERVICE_FEE_PERCENT,
    EDITOR_COMMISSION_PERCENT

ASSUME MoneyAssumption ==
    /\ Mils \subseteq Nat
    /\ MinMinor \in Nat /\ MaxMinor \in Nat
    /\ CLIENT_SERVICE_FEE_PERCENT \in 0 .. 100
    /\ EDITOR_COMMISSION_PERCENT \in 0 .. 100

\* n / d to the nearest integer, a half going up (ROUND_HALF_UP, n >= 0).
HalfUp(n, d) == (2 * n + d) \div (2 * d)

Percent(amount, rate) == HalfUp(amount * rate, 100)

amount_to_minor(mils) == HalfUp(mils, 10)

\* Mutant of split_project_amount: the commission is taken of the client total.
split_client_total(gross) ==
    LET fee        == Percent(gross, CLIENT_SERVICE_FEE_PERCENT)
        commission == Percent(gross + fee, EDITOR_COMMISSION_PERCENT)
    IN  [gross |-> gross, commission |-> commission, client_fee |-> fee,
         revenue |-> commission + fee, editor_net |-> gross - commission]

split_project_amount(gross) ==
    LET fee        == Percent(gross, CLIENT_SERVICE_FEE_PERCENT)
        commission == Percent(gross, EDITOR_COMMISSION_PERCENT)
    IN  [gross |-> gross, commission |-> commission, client_fee |-> fee,
         revenue |-> commission + fee, editor_net |-> gross - commission]

Entries == {"CLIENT_PAYMENT_RECEIVED", "PROJECT_BASE_AMOUNT",
            "CLIENT_SERVICE_FEE_REVENUE", "EDITOR_GROSS_EARNING",
            "EDITOR_COMMISSION_REVENUE", "EDITOR_NET_PAYABLE"}

VARIABLES
    flow,    \* which checkout the order belongs to
    stage,   \* how far it has come
    split,   \* the amounts stored with the quote or the order
    charged, \* what the checkout asks PayHere to collect
    ledger,  \* the sum of each entry type in payment_ledger
    payout   \* net_amount_minor and adjustments_minor of the editor payout

vars == <<flow, stage, split, charged, ledger, payout>>

Split == [gross: Nat, commission: Nat, client_fee: Nat, revenue: Nat,
          editor_net: Nat]

TypeOK ==
    /\ flow \in {"none", "quote", "project"}
    /\ stage \in {"none", "quoted", "ordered", "paid", "chargedback"}
    /\ split \in Split
    /\ charged \in Nat
    /\ ledger \in [Entries -> Nat]
    /\ payout \in [net: Nat, adjustments: Int]

Init ==
    /\ flow = "none"
    /\ stage = "none"
    /\ split = split_project_amount(0)
    /\ charged = 0
    /\ ledger = [e \in Entries |-> 0]
    /\ payout = [net |-> 0, adjustments |-> 0]

\* quote_money, once _create_quote has accepted the amount.
CreateQuote(mils) ==
    /\ stage = "none"
    /\ amount_to_minor(mils) \in MinMinor .. MaxMinor
    /\ flow' = "quote" /\ stage' = "quoted"
    /\ split' = split_project_amount(amount_to_minor(mils))
    /\ UNCHANGED <<charged, ledger, payout>>

\* The quote's checkout: client_total_minor.
InitiateQuotePayment ==
    /\ stage = "quoted"
    /\ stage' = "ordered"
    /\ charged' = split.gross + split.client_fee
    /\ UNCHANGED <<flow, split, ledger, payout>>

\* The project's checkout: the price of the accepted proposal.
CreatePayment(mils) ==
    /\ stage = "none"
    /\ mils > 0
    /\ flow' = "project" /\ stage' = "ordered"
    /\ split' = split_project_amount(amount_to_minor(mils))
    /\ charged' = amount_to_minor(mils)
    /\ UNCHANGED <<ledger, payout>>

Values ==
    [CLIENT_PAYMENT_RECEIVED |-> charged,
     PROJECT_BASE_AMOUNT |-> split.gross,
     CLIENT_SERVICE_FEE_REVENUE |-> split.client_fee,
     EDITOR_GROSS_EARNING |-> split.gross,
     EDITOR_COMMISSION_REVENUE |-> split.commission,
     EDITOR_NET_PAYABLE |-> split.editor_net]

\* _insert_financial_entries.
Post(sign) == ledger' = [e \in Entries |-> ledger[e] + sign * Values[e]]

QuotePaid ==
    /\ flow = "quote" /\ stage = "ordered"
    /\ stage' = "paid"
    /\ Post(1)
    /\ payout' = [net |-> split.editor_net, adjustments |-> 0]
    /\ UNCHANGED <<flow, split, charged>>

\* Mutant of QuoteChargedBack: the payout is adjusted by the gross amount.
ChargeBackGross ==
    /\ stage = "paid"
    /\ stage' = "chargedback"
    /\ Post(-1)
    /\ payout' = [payout EXCEPT !.adjustments = -split.gross]
    /\ UNCHANGED <<flow, split, charged>>

QuoteChargedBack ==
    /\ stage = "paid"
    /\ stage' = "chargedback"
    /\ Post(-1)
    /\ payout' = [payout EXCEPT !.adjustments = -split.editor_net]
    /\ UNCHANGED <<flow, split, charged>>

Next ==
    \/ \E mils \in Mils : CreateQuote(mils) \/ CreatePayment(mils)
    \/ InitiateQuotePayment \/ QuotePaid \/ QuoteChargedBack

Spec == Init /\ [][Next]_vars

-----------------------------------------------------------------------------
(* Properties.                                                             *)

\* Both shares are the rate of the project amount to the nearest cent, and
\* the client's fee never reduces what the editor gets.
SharesAreFair ==
    /\ 2 * (100 * split.commission - split.gross * EDITOR_COMMISSION_PERCENT)
            \in -99 .. 100
    /\ 2 * (100 * split.client_fee - split.gross * CLIENT_SERVICE_FEE_PERCENT)
            \in -99 .. 100
    /\ split.editor_net + split.commission = split.gross

\* What the client of a quote has paid is owed to the editor or is revenue of
\* the platform, to the cent; after a chargeback nothing is owed to anybody.
BooksBalance ==
    /\ ledger["CLIENT_PAYMENT_RECEIVED"] =
          ledger["EDITOR_NET_PAYABLE"] + ledger["EDITOR_COMMISSION_REVENUE"]
              + ledger["CLIENT_SERVICE_FEE_REVENUE"]
    /\ payout.net + payout.adjustments = ledger["EDITOR_NET_PAYABLE"]

\* "The client fee is added to checkout and is never deducted from editor
\* earnings."
FeeIsCharged ==
    stage = "ordered" => charged = split.editor_net + split.revenue
=============================================================================

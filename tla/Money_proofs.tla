---------------------------- MODULE Money_proofs ----------------------------
(* What Money guarantees for every amount and every pair of rates.          *)
EXTENDS Money, TLAPS

\* Rounding to the nearest integer is off by at most a half, which goes up.
LEMMA HalfUpIsNearest ==
    ASSUME NEW n \in Nat
    PROVE  /\ HalfUp(n, 100) \in Nat
           /\ 2 * (100 * HalfUp(n, 100) - n) \in -99 .. 100
<1> DEFINE q == (2 * n + 100) \div 200
           r == (2 * n + 100) % 200
<1>1. q \in Nat /\ r \in 0 .. 199 /\ 2 * n + 100 = 200 * q + r
    OBVIOUS
<1>2. HalfUp(n, 100) = q
    BY DEF HalfUp
<1> HIDE DEF q, r
<1> QED BY <1>1, <1>2

\* Cents are a natural number of cents.
LEMMA MinorIsNat == \A mils \in Nat : amount_to_minor(mils) \in Nat
BY DEF amount_to_minor, HalfUp

\* A share of an amount is a natural number, at most the amount, and the
\* nearest one to the rate.
LEMMA ShareIsFair ==
    ASSUME NEW gross \in Nat, NEW rate \in 0 .. 100
    PROVE  /\ Percent(gross, rate) \in Nat
           /\ Percent(gross, rate) <= gross
           /\ 2 * (100 * Percent(gross, rate) - gross * rate) \in -99 .. 100
<1> DEFINE n == gross * rate
<1>1. n \in Nat /\ n <= 100 * gross
  <2>1. rate \in Nat /\ 100 - rate \in Nat /\ n \in Nat
    OBVIOUS
  <2>2. gross * (100 - rate) \in Nat
    BY <2>1
  <2>3. gross * (100 - rate) = 100 * gross - n
    BY <2>1
  <2> QED BY <2>1, <2>2, <2>3
<1>2. Percent(gross, rate) = HalfUp(n, 100)
    BY DEF Percent
<1> HIDE DEF n
<1>3. /\ HalfUp(n, 100) \in Nat
      /\ 2 * (100 * HalfUp(n, 100) - n) \in -99 .. 100
    BY <1>1, HalfUpIsNearest
<1>4. HalfUp(n, 100) <= gross
    BY <1>1, <1>3
<1> QED BY <1>2, <1>3, <1>4 DEF n

\* The parts of a split: nothing is lost, nothing is negative.
Exact(x) ==
    /\ x \in Split
    /\ x.editor_net + x.commission = x.gross
    /\ x.revenue = x.commission + x.client_fee
    /\ 2 * (100 * x.commission - x.gross * EDITOR_COMMISSION_PERCENT)
            \in -99 .. 100
    /\ 2 * (100 * x.client_fee - x.gross * CLIENT_SERVICE_FEE_PERCENT)
            \in -99 .. 100

LEMMA SplitIsExact ==
    ASSUME NEW gross \in Nat
    PROVE  Exact(split_project_amount(gross))
           /\ split_project_amount(gross).gross = gross
<1> DEFINE fee == Percent(gross, CLIENT_SERVICE_FEE_PERCENT)
           com == Percent(gross, EDITOR_COMMISSION_PERCENT)
           x == [gross |-> gross, commission |-> com, client_fee |-> fee,
                 revenue |-> com + fee, editor_net |-> gross - com]
<1>1. /\ fee \in Nat
      /\ 2 * (100 * fee - gross * CLIENT_SERVICE_FEE_PERCENT) \in -99 .. 100
    BY ShareIsFair, MoneyAssumption
<1>2. /\ com \in Nat /\ com <= gross
      /\ 2 * (100 * com - gross * EDITOR_COMMISSION_PERCENT) \in -99 .. 100
    BY ShareIsFair, MoneyAssumption
<1>3. split_project_amount(gross) = x
    BY DEF split_project_amount
<1> HIDE DEF fee, com
<1>4. gross - com \in Nat /\ com + fee \in Nat /\ (gross - com) + com = gross
    BY <1>1, <1>2
<1>5. x \in Split
    BY <1>1, <1>2, <1>4 DEF Split
<1>6. /\ x.gross = gross /\ x.commission = com /\ x.client_fee = fee
      /\ x.revenue = com + fee /\ x.editor_net = gross - com
    OBVIOUS
<1> HIDE DEF x
<1> QED BY <1>1, <1>2, <1>3, <1>4, <1>5, <1>6 DEF Exact

-----------------------------------------------------------------------------
\* What each stage has posted.
Posted ==
    /\ flow = "quote" /\ stage \in {"ordered", "paid"} =>
          charged = split.gross + split.client_fee
    /\ stage = "paid" =>
          /\ flow = "quote"
          /\ \A e \in Entries : ledger[e] = Values[e]
          /\ payout.net = split.editor_net /\ payout.adjustments = 0
    /\ stage # "paid" =>
          /\ \A e \in Entries : ledger[e] = 0
          /\ payout.net + payout.adjustments = 0

IInv == TypeOK /\ Exact(split) /\ Posted

\* The values of the entries, one by one.
LEMMA EntryValues ==
    ASSUME TypeOK
    PROVE  /\ Values \in [Entries -> Nat]
           /\ Values["CLIENT_PAYMENT_RECEIVED"] = charged
           /\ Values["CLIENT_SERVICE_FEE_REVENUE"] = split.client_fee
           /\ Values["EDITOR_COMMISSION_REVENUE"] = split.commission
           /\ Values["EDITOR_NET_PAYABLE"] = split.editor_net
BY DEF TypeOK, Split, Values, Entries

LEMMA InitHolds == Init => IInv
<1> SUFFICES ASSUME Init PROVE IInv
    OBVIOUS
<1>1. Exact(split) /\ split \in Split
    BY SplitIsExact DEF Init, Exact
<1>2. TypeOK
    BY <1>1 DEF Init, TypeOK
<1> QED BY <1>1, <1>2 DEF IInv, Init, Posted

LEMMA StepKeeps == IInv /\ [Next]_vars => IInv'
<1> SUFFICES ASSUME IInv, [Next]_vars PROVE IInv'
    OBVIOUS
<1>0. TypeOK /\ Exact(split)
    BY DEF IInv
<1>1. ASSUME NEW mils \in Mils, CreateQuote(mils) \/ CreatePayment(mils)
      PROVE  IInv'
  <2>1. /\ split' = split_project_amount(amount_to_minor(mils))
        /\ amount_to_minor(mils) \in Nat
        /\ charged' \in {charged, amount_to_minor(mils)}
        /\ UNCHANGED <<ledger, payout>>
        /\ stage = "none"
        /\ \/ flow' = "quote" /\ stage' = "quoted"
           \/ flow' = "project" /\ stage' = "ordered"
    BY <1>1, MinorIsNat, MoneyAssumption DEF CreateQuote, CreatePayment
  <2>2. Exact(split')
    BY <2>1, SplitIsExact
  <2>3. TypeOK'
    BY <1>0, <2>1, <2>2 DEF TypeOK, Exact
  <2>4. Posted'
    BY <2>1 DEF IInv, Posted
  <2> QED BY <2>2, <2>3, <2>4 DEF IInv, Exact
<1>2. CASE InitiateQuotePayment
  <2>1. split.gross + split.client_fee \in Nat
    BY <1>0 DEF TypeOK, Split
  <2>2. TypeOK'
    BY <1>0, <1>2, <2>1 DEF InitiateQuotePayment, TypeOK
  <2>3. Posted'
    BY <1>2 DEF InitiateQuotePayment, IInv, Posted
  <2> QED BY <1>0, <1>2, <2>2, <2>3 DEF InitiateQuotePayment, IInv, Exact
<1>3. CASE QuotePaid
  <2>1. \A e \in Entries : ledger[e] = 0
    BY <1>3 DEF QuotePaid, IInv, Posted
  <2>2. ledger' \in [Entries -> Nat] /\ \A e \in Entries : ledger'[e] = Values[e]
    BY <1>0, <1>3, <2>1, EntryValues DEF QuotePaid, Post
  <2>3. payout' = [net |-> split.editor_net, adjustments |-> 0]
        /\ payout'.net = split.editor_net /\ payout'.adjustments = 0
        /\ split.editor_net \in Nat
    BY <1>0, <1>3 DEF QuotePaid, TypeOK, Split
  <2>4. UNCHANGED <<flow, split, charged>> /\ stage' = "paid" /\ flow = "quote"
        /\ stage = "ordered"
    BY <1>3 DEF QuotePaid
  <2>5. TypeOK'
    BY <1>0, <2>2, <2>3, <2>4 DEF TypeOK
  <2>6. \A e \in Entries : Values'[e] = Values[e]
    BY <2>4 DEF Values
  <2>7. Posted'
    BY <2>2, <2>3, <2>4, <2>6 DEF IInv, Posted
  <2> QED BY <1>0, <2>4, <2>5, <2>7 DEF IInv, Exact
<1>4. CASE QuoteChargedBack
  <2>1. /\ \A e \in Entries : ledger[e] = Values[e]
        /\ payout.net = split.editor_net
    BY <1>4 DEF QuoteChargedBack, IInv, Posted
  <2>2. ledger' \in [Entries -> Nat] /\ \A e \in Entries : ledger'[e] = 0
    BY <1>0, <1>4, <2>1, EntryValues DEF QuoteChargedBack, Post
  <2>3. split.editor_net \in Nat /\ payout \in [net: Nat, adjustments: Int]
    BY <1>0 DEF TypeOK, Split
  <2>4. /\ payout' \in [net: Nat, adjustments: Int]
        /\ payout'.net + payout'.adjustments = 0
    BY <1>4, <2>1, <2>3 DEF QuoteChargedBack
  <2>5. UNCHANGED <<flow, split, charged>> /\ stage' = "chargedback"
    BY <1>4 DEF QuoteChargedBack
  <2>6. TypeOK'
    BY <1>0, <2>2, <2>4, <2>5 DEF TypeOK
  <2>7. Posted'
    BY <2>2, <2>4, <2>5 DEF Posted
  <2> QED BY <1>0, <2>5, <2>6, <2>7 DEF IInv, Exact
<1>5. CASE UNCHANGED vars
    BY <1>5 DEF vars, IInv, TypeOK, Exact, Posted, Values
<1> QED BY <1>1, <1>2, <1>3, <1>4, <1>5 DEF Next

-----------------------------------------------------------------------------
\* IInv is an inductive invariant of the money of an order.
THEOREM Invariance == Spec => []IInv
BY InitHolds, StepKeeps, PTL DEF Spec

\* Every variable keeps its type; no share is ever negative.
THEOREM TypeCorrect == Spec => []TypeOK
<1>1. IInv => TypeOK
    BY DEF IInv
<1> QED BY <1>1, Invariance, PTL

\* Whatever the amount and the rates, the shares are the nearest cent and
\* commission and net earning add up to the project amount.
THEOREM FairShares == Spec => []SharesAreFair
<1>1. IInv => SharesAreFair
    BY DEF IInv, Exact, SharesAreFair
<1> QED BY <1>1, Invariance, PTL

\* The quote flow's ledger and payout balance to the cent for every amount,
\* and a chargeback brings both to zero.
THEOREM BalancedBooks == Spec => []BooksBalance
<1>1. ASSUME IInv PROVE BooksBalance
  <2>1. TypeOK /\ Exact(split) /\ Posted
    BY <1>1 DEF IInv
  <2>2. /\ split.editor_net \in Nat /\ split.commission \in Nat
        /\ split.client_fee \in Nat /\ split.gross \in Nat
        /\ split.editor_net + split.commission = split.gross
    BY <2>1 DEF Exact, Split
  <2>3. CASE stage = "paid"
    <3>1. /\ ledger["CLIENT_PAYMENT_RECEIVED"] = split.gross + split.client_fee
          /\ ledger["CLIENT_SERVICE_FEE_REVENUE"] = split.client_fee
          /\ ledger["EDITOR_COMMISSION_REVENUE"] = split.commission
          /\ ledger["EDITOR_NET_PAYABLE"] = split.editor_net
          /\ payout.net = split.editor_net /\ payout.adjustments = 0
      BY <2>1, <2>3, EntryValues DEF Posted, Entries
    <3> QED BY <2>2, <3>1 DEF BooksBalance
  <2>4. CASE stage # "paid"
    BY <2>1, <2>4 DEF Posted, Entries, BooksBalance
  <2> QED BY <2>3, <2>4
<1> QED BY <1>1, Invariance, PTL
=============================================================================

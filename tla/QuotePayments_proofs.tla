------------------------ MODULE QuotePayments_proofs ------------------------
(* What QuotePayments guarantees for every number of concurrent calls, orders *)
(* and quote versions, with calls killed at any point.                       *)
EXTENDS QuotePayments, TLAPS

Key(c) == <<c.order, c.status>>

\* A callback that is being acted upon, one whose outcome frees the quote, and
\* one that has found the payment good.
Working  == {"settle", "quote", "project", "credit", "payout", "reverse",
             "adjust", "reopen"}
Freeing  == {"settle", "reopen"}
Crediting == {"quote", "project", "credit", "payout"}

CallOK(c) ==
    /\ c.stage = "revise" => c.active \in Versions
    /\ c.stage \in {"revise", "insert_quote", "existing", "lock",
                    "insert_order"} => c.version \in Versions
    /\ c.stage \in Working \cup {"event"} =>
          /\ c.order \in Orders
          /\ Key(c) \in sent
          /\ c.version = quote_id[c.order]
          /\ c.snapshot = "SUCCESS" => <<c.order, "SUCCESS">> \in seen
    /\ c.stage \in Working => Key(c) \in seen
    /\ c.stage \in Crediting => c.status = "SUCCESS"
    /\ c.stage \in {"reverse", "adjust"} =>
          c.status = "CHARGEDBACK" /\ c.snapshot = "SUCCESS"
    /\ c.stage = "reopen" => c.status \in RETRYABLE_PAYMENT
    /\ c.stage \in Crediting \cup {"reverse"} => c.row \in 1 .. Rows

CallsOK == \A s \in Slots : CallOK(calls[s])

\* One call at a time acts upon a callback.
Alone ==
    \A s, t \in Slots :
        /\ calls[s].stage \in Working /\ calls[t].stage \in Working
        /\ Key(calls[s]) = Key(calls[t])
        => s = t

\* What PayHere has said agrees with what it has decided.
Reports ==
    \A o \in Orders :
        /\ payment[o] = "none" =>
              /\ provider[o] = "open"
              /\ \A st \in STATUS_MAP : <<o, st>> \notin sent
        /\ payment[o] # "none" => quote_id[o] \in Versions
        /\ payment[o] = "SUCCESS" => <<o, "SUCCESS">> \in seen
        /\ \A st \in RETRYABLE_PAYMENT :
              <<o, st>> \in sent => provider[o] = st

\* An order holds its quote until its failure has been dealt with.
Holds(o) ==
    /\ payment[o] # "none"
    /\ \/ provider[o] \in {"open", "PENDING", "SUCCESS"}
       \/ <<o, provider[o]>> \notin seen
       \/ \E s \in Slots : /\ calls[s].stage \in Freeing
                           /\ Key(calls[s]) = <<o, provider[o]>>

Inserting(s, v) == calls[s].stage = "insert_order" /\ calls[s].version = v

Free == {"none", "SENT", "EXPIRED", "REVISED"}

\* A quote has one holder, an order or a call about to create one, and none
\* while it can be taken.
Tokens ==
    /\ \A o, p \in Orders :
          Holds(o) /\ Holds(p) /\ quote_id[o] = quote_id[p] => o = p
    /\ \A s \in Slots, o \in Orders : Inserting(s, quote_id[o]) => ~Holds(o)
    /\ \A s, t \in Slots, v \in Versions :
          Inserting(s, v) /\ Inserting(t, v) => s = t
    /\ \A v \in Versions : quotes[v] \in Free =>
          /\ \A s \in Slots : ~Inserting(s, v)
          /\ \A o \in Orders : quote_id[o] = v => ~Holds(o)

IInv == TypeOK /\ CallsOK /\ Alone /\ Reports /\ Tokens /\ PaidQuoteIsBacked
               /\ BooksAreBacked

-----------------------------------------------------------------------------
\* A call that has answered is a call, and so is one at its next stage.
LEMMA IdleIsCall == Idle \in Call /\ Idle.stage = "idle" /\ CallOK(Idle)
<1>1. Idle \in Call /\ Idle.stage = "idle"
    BY QuoteAssumption DEF Idle, Call, Stages, STATUS_MAP, PaymentStatus
<1> QED BY <1>1 DEF CallOK, Working, Crediting

\* Only the stage changes.
LEMMA NextStage ==
    ASSUME NEW c \in Call, NEW st \in Stages, NEW d, d = [c EXCEPT !.stage = st]
    PROVE  /\ d \in Call /\ d.stage = st /\ d.version = c.version
           /\ d.active = c.active /\ d.order = c.order /\ d.status = c.status
           /\ d.snapshot = c.snapshot /\ d.row = c.row
BY DEF Call

\* A call goes on, or ends, without taking a quote or a callback it did not
\* have, and no quote becomes free: nobody else is disturbed.
LEMMA MoveKeeps ==
    ASSUME IInv, NEW s \in Slots, NEW c \in Call, Goto(s, c), CallOK(c),
           UNCHANGED <<provider, sent, seen, quote_id>>,
           \A o \in Orders : payment'[o] = "none" <=> payment[o] = "none",
           c.stage # "insert_order",
           \/ c.stage \notin Working
           \/ /\ calls[s].stage \in Working /\ Key(c) = Key(calls[s])
              /\ c.stage \in Freeing => calls[s].stage \in Freeing,
           \A v \in Versions : quotes'[v] \in Free => quotes[v] \in Free
    PROVE  /\ calls' \in [Slots -> Call]
           /\ CallsOK' /\ Alone' /\ Tokens'
<1>1. /\ calls' \in [Slots -> Call]
      /\ \A t \in Slots : calls'[t] = IF t = s THEN c ELSE calls[t]
    BY DEF IInv, TypeOK, Goto
<1>2. CallsOK'
    BY <1>1 DEF IInv, CallsOK, CallOK, Key
<1>3. Alone'
    BY <1>1 DEF IInv, Alone, Key, Working
<1>4. \A o \in Orders : Holds(o)' => Holds(o)
    BY <1>1 DEF Holds, Key, Freeing, Working
<1>5. \A t \in Slots, v \in Versions : Inserting(t, v)' => Inserting(t, v)
    BY <1>1 DEF Inserting
<1>6. \A t \in Slots, o \in Orders :
         Inserting(t, quote_id[o])' => Inserting(t, quote_id[o])
    BY <1>1 DEF Inserting
<1>7. Tokens'
    BY <1>4, <1>5, <1>6 DEF IInv, Tokens
<1> QED BY <1>1, <1>2, <1>3, <1>7
\* The same when the step writes nothing but the call and the quotes.
LEMMA QuoteMoveKeeps ==
    ASSUME IInv, NEW s \in Slots, NEW c \in Call, Goto(s, c), CallOK(c),
           UNCHANGED <<due, quote_id, payment, seen, books, gateway>>,
           quotes' \in [Versions -> QuoteStatus], latest' \in 0 .. MaxQuotes,
           c.stage # "insert_order",
           \/ c.stage \notin Working
           \/ /\ calls[s].stage \in Working /\ Key(c) = Key(calls[s])
              /\ c.stage \in Freeing => calls[s].stage \in Freeing,
           \A v \in Versions : quotes'[v] \in Free => quotes[v] \in Free,
           \A v \in Versions : quotes'[v] = "PAID" =>
               \/ quotes[v] = "PAID"
               \/ \E o \in Orders : quote_id[o] = v /\ <<o, "SUCCESS">> \in sent
    PROVE  IInv'
<1>1. /\ calls' \in [Slots -> Call]
      /\ CallsOK' /\ Alone' /\ Tokens'
    BY MoveKeeps DEF gateway
<1>2. TypeOK'
    BY <1>1 DEF IInv, TypeOK, books, gateway
<1>3. Reports'
    BY DEF IInv, Reports, books, gateway
<1>4. PaidQuoteIsBacked'
    BY DEF IInv, PaidQuoteIsBacked, gateway
<1>5. BooksAreBacked'
    BY DEF IInv, BooksAreBacked, books
<1> QED BY <1>1, <1>2, <1>3, <1>4, <1>5 DEF IInv

\* The handlers' own facts about a call.
LEMMA CallFacts ==
    ASSUME IInv, NEW s \in Slots
    PROVE  /\ calls[s] \in Call /\ CallOK(calls[s]) /\ TypeOK
           /\ calls[s].version \in 0 .. MaxQuotes
           /\ calls[s].active \in 0 .. MaxQuotes
BY DEF IInv, TypeOK, CallsOK, Call

\* The editor's side keeps the invariant.
LEMMA QuotingKeeps ==
    ASSUME IInv, NEW s \in Slots, Quoting(s)
    PROVE  IInv'
<1>0. /\ calls[s] \in Call /\ CallOK(calls[s]) /\ TypeOK
      /\ quotes \in [Versions -> QuoteStatus] /\ latest \in 0 .. MaxQuotes
      /\ MaxQuotes \in Nat
    BY CallFacts, QuoteAssumption DEF TypeOK
<1>1. CASE CreateQuote(s)
  <2>1. PICK a \in 0 .. MaxQuotes :
           /\ NewestActive(a)
           /\ a # 0 => quotes[a] = "SENT"
           /\ quotes' = IF a \in due THEN [quotes EXCEPT ![a] = "EXPIRED"]
                                     ELSE quotes
           /\ Goto(s, [Idle EXCEPT !.stage = "latest",
                                   !.active = IF a \in due THEN 0 ELSE a])
           /\ UNCHANGED <<latest, due, quote_id, payment, seen, books, gateway>>
    BY <1>1 DEF CreateQuote
  <2> DEFINE b == IF a \in due THEN 0 ELSE a
             c == [Idle EXCEPT !.stage = "latest", !.active = b]
  <2>2. b \in 0 .. MaxQuotes
    BY <1>0
  <2> HIDE DEF b
  <2>3. c \in Call /\ c.stage = "latest"
    <3>1. Idle \in Call /\ "latest" \in Stages
      BY IdleIsCall DEF Stages
    <3> QED BY <2>2, <3>1 DEF Call
  <2>4. Goto(s, c)
    BY <2>1 DEF b
  <2> HIDE DEF c
  <2>5. CallOK(c)
    BY <2>3 DEF CallOK, Working, Crediting
  <2>6. quotes' \in [Versions -> QuoteStatus]
    BY <1>0, <2>1 DEF QuoteStatus
  <2>7. \A v \in Versions : /\ quotes'[v] \in Free => quotes[v] \in Free
                            /\ quotes'[v] = "PAID" => quotes[v] = "PAID"
    BY <1>0, <2>1 DEF Free, TypeOK, Versions
  <2> QED
    BY <2>1, <2>3, <2>4, <2>5, <2>6, <2>7, <1>0, QuoteMoveKeeps DEF Working
<1>2. CASE ReadLatest(s)
  <2> DEFINE st == IF calls[s].active # 0 THEN "revise" ELSE "insert_quote"
             c == [calls[s] EXCEPT !.version = latest + 1, !.stage = st]
  <2>1. st \in {"revise", "insert_quote"} /\ (st = "revise" => calls[s].active # 0)
    OBVIOUS
  <2>2. Goto(s, c)
    BY <1>2 DEF ReadLatest
  <2> HIDE DEF st
  <2>3. latest + 1 \in Versions /\ latest + 1 \in 0 .. MaxQuotes
    BY <1>0, <1>2 DEF ReadLatest, Versions
  <2>4. /\ c \in Call /\ c.stage = st /\ c.version = latest + 1
        /\ c.active = calls[s].active
    <3>1. st \in Stages
      BY <2>1 DEF Stages
    <3> QED BY <1>0, <2>3, <3>1 DEF Call
  <2> HIDE DEF c
  <2>5. CallOK(c)
    <3>1. calls[s].active # 0 => calls[s].active \in Versions
      BY <1>0, CallFacts DEF Versions
    <3> QED
      BY <2>1, <2>3, <2>4, <3>1 DEF CallOK, Working, Crediting
  <2> QED
    BY <1>0, <1>2, <2>1, <2>2, <2>4, <2>5, QuoteMoveKeeps
       DEF ReadLatest, Working
<1>3. CASE ReviseQuote(s)
  <2> DEFINE c == [calls[s] EXCEPT !.stage = "insert_quote"]
             a == calls[s].active
  <2>1. /\ c \in Call /\ c.stage = "insert_quote"
        /\ c.version = calls[s].version
    <3>1. "insert_quote" \in Stages
      BY DEF Stages
    <3> QED BY <1>0, <3>1, NextStage
  <2>2. Goto(s, c) /\ calls[s].stage = "revise"
    BY <1>3 DEF ReviseQuote, Stage
  <2> HIDE DEF c
  <2>3. CallOK(c) /\ a \in Versions
    BY <2>1, <2>2, <1>0 DEF CallOK, Working, Crediting
  <2>4. /\ quotes' \in [Versions -> QuoteStatus]
        /\ \A v \in Versions : /\ quotes'[v] \in Free => quotes[v] \in Free
                               /\ quotes'[v] = "PAID" => quotes[v] = "PAID"
    BY <1>0, <1>3, <2>3 DEF ReviseQuote, QuoteStatus, Free
  <2> QED
    BY <1>0, <1>3, <2>1, <2>2, <2>3, <2>4, QuoteMoveKeeps
       DEF ReviseQuote, Working
<1>4. CASE InsertQuote(s)
  <2> DEFINE v0 == calls[s].version
  <2>1. v0 \in Versions
    BY <1>0, <1>4 DEF InsertQuote, CallOK
  <2>2. /\ quotes' \in [Versions -> QuoteStatus] /\ latest' \in 0 .. MaxQuotes
        /\ \A v \in Versions : /\ quotes'[v] \in Free => quotes[v] \in Free
                               /\ quotes'[v] = "PAID" => quotes[v] = "PAID"
    BY <1>0, <1>4, <2>1 DEF InsertQuote, QuoteStatus, Free, Versions
  <2>3. CallOK(Idle)
    BY IdleIsCall
  <2> QED
    BY <1>4, <2>2, <2>3, IdleIsCall, QuoteMoveKeeps DEF InsertQuote, Working
<1> QED BY <1>1, <1>2, <1>3, <1>4 DEF Quoting

\* The client's side keeps it: taking the quote is what makes an order its
\* only holder.
LEMMA CheckoutKeeps ==
    ASSUME IInv, NEW s \in Slots, Checkout(s)
    PROVE  IInv'
<1>0. /\ calls[s] \in Call /\ CallOK(calls[s]) /\ TypeOK
      /\ quotes \in [Versions -> QuoteStatus] /\ latest \in 0 .. MaxQuotes
      /\ MaxQuotes \in Nat
    BY CallFacts, QuoteAssumption DEF TypeOK
<1>i. CallOK(Idle) /\ Idle \in Call /\ Idle.stage = "idle"
    BY IdleIsCall
<1>1. CASE InitiateQuotePayment(s)
  <2> DEFINE c == [Idle EXCEPT !.stage = "existing", !.version = latest]
  <2>1. c \in Call /\ c.stage = "existing" /\ c.version = latest
    BY <1>0, <1>i DEF Call, Stages
  <2>2. Goto(s, c) /\ latest \in Versions
    BY <1>0, <1>1 DEF InitiateQuotePayment, Versions
  <2> HIDE DEF c
  <2>3. CallOK(c)
    BY <2>1, <2>2 DEF CallOK, Working, Crediting
  <2> QED
    BY <1>0, <1>1, <2>1, <2>2, <2>3, QuoteMoveKeeps
       DEF InitiateQuotePayment, Working
<1>2. CASE CheckExisting(s)
  <2> DEFINE c == [calls[s] EXCEPT !.stage = "lock"]
  <2>1. c \in Call /\ c.stage = "lock" /\ c.version = calls[s].version
    <3>1. "lock" \in Stages
      BY DEF Stages
    <3> QED BY <1>0, <3>1, NextStage
  <2>2. Goto(s, c) \/ Goto(s, Idle)
    BY <1>2 DEF CheckExisting, Stage
  <2> HIDE DEF c
  <2>3. CallOK(c)
    BY <1>0, <1>2, <2>1 DEF CheckExisting, CallOK, Working, Crediting
  <2>4. UNCHANGED <<quotes, latest, due, quote_id, payment, seen, books, gateway>>
    BY <1>2 DEF CheckExisting
  <2>5. CASE Goto(s, c)
    BY <1>0, <2>1, <2>3, <2>4, <2>5, QuoteMoveKeeps DEF Working
  <2>6. CASE Goto(s, Idle)
    BY <1>0, <1>i, <2>4, <2>6, QuoteMoveKeeps DEF Working
  <2> QED BY <2>2, <2>5, <2>6
<1>3. CASE LockQuote(s)
  <2> DEFINE v0 == calls[s].version
             free == quotes[v0] = "SENT" /\ v0 \notin due
             c == [calls[s] EXCEPT !.stage = "insert_order"]
  <2>1. v0 \in Versions /\ calls[s].stage = "lock"
    BY <1>0, <1>3 DEF LockQuote, TakeQuote, CallOK
  <2>2. c \in Call /\ c.stage = "insert_order" /\ c.version = v0
    <3>1. "insert_order" \in Stages
      BY DEF Stages
    <3> QED BY <1>0, <3>1, NextStage
  <2>3. UNCHANGED <<latest, due, quote_id, payment, seen, books, gateway>>
    BY <1>3 DEF LockQuote, TakeQuote
  <2>4. CASE ~free
    <3>1. Goto(s, Idle) /\ quotes' = quotes
      BY <1>3, <2>4 DEF LockQuote, TakeQuote
    <3> QED
      BY <1>0, <1>i, <2>3, <3>1, QuoteMoveKeeps DEF Working
  <2>5. CASE free
    <3>1. Goto(s, c) /\ quotes' = [quotes EXCEPT ![v0] = "PAYMENT_PENDING"]
      BY <1>3, <2>5 DEF LockQuote, TakeQuote, Stage
    <3> HIDE DEF c
    <3>2. /\ calls' \in [Slots -> Call]
          /\ \A t \in Slots : calls'[t] = IF t = s THEN c ELSE calls[t]
      BY <1>0, <2>2, <3>1 DEF TypeOK, Goto
    <3>3. TypeOK'
      BY <1>0, <2>1, <2>3, <3>1, <3>2 DEF TypeOK, QuoteStatus, books, gateway
    <3>4. CallOK(c)
      BY <2>1, <2>2 DEF CallOK, Working, Crediting
    <3>5. CallsOK'
      BY <2>3, <3>2, <3>4 DEF IInv, CallsOK, CallOK, Key, gateway
    <3>6. Alone'
      BY <2>2, <3>2 DEF IInv, Alone, Working
    <3>7. Reports' /\ BooksAreBacked'
      BY <2>3 DEF IInv, Reports, BooksAreBacked, books, gateway
    <3>8. PaidQuoteIsBacked'
      BY <1>0, <2>1, <2>3, <3>1 DEF IInv, PaidQuoteIsBacked, gateway
    <3>9. /\ \A t \in Slots : ~Inserting(t, v0)
          /\ \A o \in Orders : quote_id[o] = v0 => ~Holds(o)
      BY <2>1, <2>5 DEF IInv, Tokens, Free
    <3>10. \A o \in Orders : Holds(o)' => Holds(o)
      BY <2>2, <2>3, <3>2 DEF Holds, Key, Freeing, gateway
    <3>11. \A t \in Slots, v \in 0 .. MaxQuotes :
              Inserting(t, v)' <=> Inserting(t, v) \/ (t = s /\ v = v0)
      BY <2>1, <2>2, <3>2 DEF Inserting
    <3>12. \A v \in Versions : quotes'[v] \in Free => quotes[v] \in Free /\ v # v0
      BY <1>0, <2>1, <3>1 DEF Free
    <3>13. /\ quote_id' = quote_id
           /\ \A o \in Orders : quote_id[o] \in 0 .. MaxQuotes
           /\ \A v \in Versions : v \in 0 .. MaxQuotes
      BY <1>0, <2>3 DEF TypeOK, Versions
    <3>14. \A t \in Slots, o \in Orders :
              Inserting(t, quote_id[o])' <=> Inserting(t, quote_id[o])'
                 /\ (Inserting(t, quote_id[o]) \/ (t = s /\ quote_id[o] = v0))
      BY <2>1, <2>2, <3>2, <3>13 DEF Inserting
    <3>15. Tokens'
      <4>1. \A o, p \in Orders :
               (Holds(o) /\ Holds(p) /\ quote_id[o] = quote_id[p] => o = p)'
        BY <3>10, <3>13 DEF IInv, Tokens
      <4>2. \A t \in Slots, o \in Orders :
               (Inserting(t, quote_id[o]) => ~Holds(o))'
        BY <3>9, <3>10, <3>14 DEF IInv, Tokens
      <4>3. \A t, r \in Slots, v \in Versions :
               (Inserting(t, v) /\ Inserting(r, v) => t = r)'
        BY <3>9, <3>11, <3>13 DEF IInv, Tokens
      <4>4. \A v \in Versions : (quotes[v] \in Free =>
               /\ \A t \in Slots : ~Inserting(t, v)
               /\ \A o \in Orders : quote_id[o] = v => ~Holds(o))'
        BY <3>10, <3>11, <3>12, <3>13 DEF IInv, Tokens
      <4> QED BY <4>1, <4>2, <4>3, <4>4 DEF Tokens
    <3> QED BY <3>3, <3>5, <3>6, <3>7, <3>8, <3>15 DEF IInv
  <2> QED BY <2>4, <2>5
<1>4. CASE InsertOrder(s)
  <2> DEFINE v0 == calls[s].version
  <2>1. PICK n \in Orders :
           /\ payment[n] = "none"
           /\ payment' = [payment EXCEPT ![n] = "INITIATED"]
           /\ quote_id' = [quote_id EXCEPT ![n] = v0]
    BY <1>4 DEF InsertOrder
  <2>2. /\ v0 \in Versions /\ calls[s].stage = "insert_order"
        /\ Inserting(s, v0)
        /\ Goto(s, Idle)
        /\ UNCHANGED <<quotes, latest, due, seen, books, gateway>>
    BY <1>0, <1>4 DEF InsertOrder, CallOK, Inserting
  <2>3. /\ calls' \in [Slots -> Call]
        /\ \A t \in Slots : calls'[t] = IF t = s THEN Idle ELSE calls[t]
    BY <1>0, <1>i, <2>2 DEF TypeOK, Goto
  <2>4. /\ payment' \in [Orders -> PaymentStatus]
        /\ quote_id' \in [Orders -> 0 .. MaxQuotes]
        /\ \A o \in Orders \ {n} : /\ payment'[o] = payment[o]
                                   /\ quote_id'[o] = quote_id[o]
        /\ payment'[n] = "INITIATED" /\ quote_id'[n] = v0
    BY <1>0, <2>1, <2>2 DEF TypeOK, PaymentStatus, Versions
  <2>5. TypeOK'
    BY <1>0, <2>2, <2>3, <2>4 DEF TypeOK, books, gateway
  <2>6. \A st \in STATUS_MAP : <<n, st>> \notin sent
    BY <2>1 DEF IInv, Reports
  <2>7. CallsOK'
    <3>1. SUFFICES ASSUME NEW t \in Slots PROVE CallOK(calls[t])'
      BY DEF CallsOK
    <3>2. CASE t = s
      BY <1>i, <2>3, <3>2 DEF CallOK, Working, Crediting
    <3>3. CASE t # s
      <4>1. calls'[t] = calls[t] /\ CallOK(calls[t]) /\ calls[t] \in Call
        BY <2>3, <3>3, CallFacts
      <4>2. calls[t].stage \in Working \cup {"event"} => calls[t].order # n
        BY <2>6, <4>1 DEF CallOK, Key, Call
      <4> QED
        BY <2>2, <2>4, <4>1, <4>2, SMTT(20) DEF CallOK, Key, gateway
    <3> QED BY <3>2, <3>3
  <2>8. Alone'
    BY <1>i, <2>3 DEF IInv, Alone, Working
  <2>9. Reports'
    BY <2>2, <2>4 DEF IInv, Reports, gateway
  <2>10. PaidQuoteIsBacked' /\ BooksAreBacked'
    <3>1. <<n, "SUCCESS">> \notin sent
      BY <2>6 DEF STATUS_MAP
    <3> QED
      BY <2>2, <2>4, <3>1 DEF IInv, PaidQuoteIsBacked, BooksAreBacked, books,
         gateway
  <2>11. /\ \A o \in Orders \ {n} : Holds(o)' => Holds(o)
         /\ \A o \in Orders : quote_id[o] = v0 => ~Holds(o)
         /\ ~Holds(n)
    BY <1>i, <2>1, <2>2, <2>3, <2>4 DEF Holds, Key, Freeing, gateway, IInv, Tokens
  <2>12. \A t \in Slots, v \in 0 .. MaxQuotes :
            Inserting(t, v)' <=> Inserting(t, v) /\ t # s
    BY <1>i, <2>3 DEF Inserting
  <2>13. \A v \in 0 .. MaxQuotes, t \in Slots : Inserting(t, v)' => v # v0
    BY <2>2, <2>12 DEF IInv, Tokens
  <2>14. Tokens'
    <3>1. \A o, p \in Orders :
             (Holds(o) /\ Holds(p) /\ quote_id[o] = quote_id[p] => o = p)'
      BY <2>4, <2>11 DEF IInv, Tokens
    <3>2. \A t \in Slots, o \in Orders :
             (Inserting(t, quote_id[o]) => ~Holds(o))'
      <4>1. SUFFICES ASSUME NEW t \in Slots, NEW o \in Orders,
                            Inserting(t, quote_id[o])'
                     PROVE  ~Holds(o)'
        OBVIOUS
      <4>2. quote_id'[o] \in 0 .. MaxQuotes
        BY <2>4
      <4>3. calls[t].stage = "insert_order" /\ calls[t].version = quote_id'[o]
            /\ t # s
        BY <1>i, <2>3, <4>1 DEF Inserting
      <4>4. quote_id'[o] # v0
        BY <2>2, <4>3 DEF IInv, Tokens, Inserting
      <4>5. o # n /\ quote_id[o] = quote_id'[o]
        BY <2>4, <4>4
      <4>6. Inserting(t, quote_id[o])
        BY <4>3, <4>5 DEF Inserting
      <4> QED BY <2>11, <4>5, <4>6 DEF IInv, Tokens
    <3>3. \A t, r \in Slots, v \in Versions :
             (Inserting(t, v) /\ Inserting(r, v) => t = r)'
      BY <1>0, <2>12 DEF IInv, Tokens, Versions
    <3>4. \A v \in Versions : (quotes[v] \in Free =>
             /\ \A t \in Slots : ~Inserting(t, v)
             /\ \A o \in Orders : quote_id[o] = v => ~Holds(o))'
      <4>1. quotes[v0] \notin Free
        BY <2>2 DEF IInv, Tokens
      <4>2. \A t \in Slots, v \in Versions : Inserting(t, v)' => Inserting(t, v)
        BY <1>0, <2>12 DEF Versions
      <4> QED BY <2>2, <2>4, <2>11, <4>1, <4>2 DEF IInv, Tokens
    <3> QED BY <3>1, <3>2, <3>3, <3>4 DEF Tokens
  <2> QED BY <2>5, <2>7, <2>8, <2>9, <2>10, <2>14 DEF IInv
<1> QED BY <1>1, <1>2, <1>3, <1>4 DEF Checkout
\* A step of a call that acts upon a callback, and writes the books only.
LEMMA BookMoveKeeps ==
    ASSUME IInv, NEW s \in Slots, NEW c \in Call, Goto(s, c), CallOK(c),
           calls[s].stage \in Working, Key(c) = Key(calls[s]),
           c.stage # "insert_order", c.stage \notin Freeing,
           UNCHANGED <<quotes, latest, due, quote_id, payment, seen, gateway>>,
           paid' \in BOOLEAN,
           credits' \in [Orders -> SUBSET (1 .. Rows)],
           reversals' \in [Orders -> SUBSET (1 .. Rows)],
           payout' \in [Orders -> {"none", "CALCULATING", "ADJUSTED"}],
           BooksAreBacked'
    PROVE  IInv'
<1>1. /\ calls' \in [Slots -> Call]
      /\ CallsOK' /\ Alone' /\ Tokens'
    BY MoveKeeps DEF gateway
<1>2. TypeOK'
    BY <1>1 DEF IInv, TypeOK, gateway
<1>3. Reports' /\ PaidQuoteIsBacked'
    BY DEF IInv, Reports, PaidQuoteIsBacked, gateway
<1> QED BY <1>1, <1>2, <1>3 DEF IInv

\* The last such step.
LEMMA BookEndKeeps ==
    ASSUME IInv, NEW s \in Slots, Goto(s, Idle),
           UNCHANGED <<quotes, latest, due, quote_id, payment, seen, gateway>>,
           UNCHANGED <<paid, credits, reversals>>,
           payout' \in [Orders -> {"none", "CALCULATING", "ADJUSTED"}],
           BooksAreBacked'
    PROVE  IInv'
<1>i. Idle \in Call /\ Idle.stage = "idle" /\ CallOK(Idle)
    BY IdleIsCall
<1>1. /\ calls' \in [Slots -> Call]
      /\ CallsOK' /\ Alone' /\ Tokens'
    BY <1>i, MoveKeeps DEF gateway, Working
<1>2. TypeOK'
    BY <1>1 DEF IInv, TypeOK, gateway
<1>3. Reports' /\ PaidQuoteIsBacked'
    BY DEF IInv, Reports, PaidQuoteIsBacked, gateway
<1> QED BY <1>1, <1>2, <1>3 DEF IInv

\* Every step upon a callback keeps the invariant.  Storing the event key
\* makes the call alone; the quote is freed for an order that no longer holds
\* it; the books follow the verified report.
LEMMA NotificationKeeps ==
    ASSUME IInv, NEW s \in Slots, Notification(s)
    PROVE  IInv'
<1> DEFINE c == calls[s]
<1>0. /\ c \in Call /\ CallOK(c) /\ TypeOK
      /\ quotes \in [Versions -> QuoteStatus]
      /\ Rows \in Nat \ {0}
    BY CallFacts, QuoteAssumption DEF TypeOK
<1>i. Idle \in Call /\ Idle.stage = "idle" /\ CallOK(Idle)
      /\ "idle" \notin Working
    BY IdleIsCall DEF Working
<1>t. \A st \in Working : c.stage = st =>
         /\ c.order \in Orders /\ Key(c) \in sent /\ Key(c) \in seen
         /\ c.version = quote_id[c.order]
         /\ c.version \in Versions
         /\ payment[c.order] # "none"
  <2>1. SUFFICES ASSUME c.stage \in Working
                 PROVE  /\ c.order \in Orders /\ Key(c) \in sent
                        /\ Key(c) \in seen
                        /\ c.version = quote_id[c.order]
                        /\ c.version \in Versions
                        /\ payment[c.order] # "none"
    OBVIOUS
  <2>2. /\ c.order \in Orders /\ Key(c) \in sent /\ Key(c) \in seen
        /\ c.version = quote_id[c.order]
    BY <1>0, <2>1 DEF CallOK
  <2>3. c.status \in STATUS_MAP
    BY <1>0 DEF Call
  <2>4. payment[c.order] # "none"
    BY <2>2, <2>3 DEF IInv, Reports, Key
  <2>5. c.version \in Versions
    BY <2>2, <2>4 DEF IInv, Reports
  <2> QED BY <2>2, <2>4, <2>5
<1>1. CASE RecordEvent(s)
  <2> DEFINE d == [c EXCEPT !.stage = "settle"]
  <2>1. /\ d \in Call /\ d.stage = "settle" /\ d.version = c.version
        /\ d.order = c.order /\ d.status = c.status
        /\ d.snapshot = c.snapshot
    <3>1. "settle" \in Stages
      BY DEF Stages
    <3> QED BY <1>0, <3>1, NextStage
  <2>2. /\ c.stage = "event" /\ seen' = seen \cup {Key(c)}
        /\ Goto(s, Idle) \/ (Goto(s, d) /\ Key(c) \notin seen)
        /\ UNCHANGED <<quotes, latest, due, quote_id, payment, books, gateway>>
    BY <1>1 DEF RecordEvent, Stage, Key
  <2> HIDE DEF d
  <2>3. /\ c.order \in Orders /\ Key(c) \in sent
        /\ c.version = quote_id[c.order]
        /\ c.snapshot = "SUCCESS" => <<c.order, "SUCCESS">> \in seen
    BY <1>0, <2>2 DEF CallOK
  <2>4. PICK e \in {Idle, d} : Goto(s, e) /\ (e = d => Key(c) \notin seen)
    BY <1>i, <2>1, <2>2
  <2>5. /\ e \in Call /\ e.stage \in {"idle", "settle"}
        /\ e.stage = "settle" => e = d
    BY <1>i, <2>1, <2>4
  <2>6. /\ calls' \in [Slots -> Call]
        /\ \A t \in Slots : calls'[t] = IF t = s THEN e ELSE calls[t]
    BY <1>0, <2>4, <2>5 DEF TypeOK, Goto
  <2>7. TypeOK'
    BY <1>0, <2>2, <2>3, <2>6 DEF TypeOK, books, gateway
  <2>8. CallOK(e)'
    BY <2>1, <2>2, <2>3, <2>5 DEF CallOK, Working, Crediting, Key, gateway
  <2>9. CallsOK'
    BY <2>2, <2>6, <2>8 DEF IInv, CallsOK, CallOK, Key, gateway
  <2>10. Alone'
    <3>1. \A t \in Slots : calls[t].stage \in Working => Key(calls[t]) \in seen
      BY DEF IInv, CallsOK, CallOK
    <3>2. e.stage \in Working => Key(e) \notin seen
      BY <1>i, <2>1, <2>4, <2>5 DEF Key
    <3> QED
      BY <2>6, <3>1, <3>2 DEF IInv, Alone
  <2>11. Reports' /\ PaidQuoteIsBacked'
    BY <2>2 DEF IInv, Reports, PaidQuoteIsBacked, gateway
  <2>12. BooksAreBacked'
    BY <2>2 DEF IInv, BooksAreBacked, books
  <2>13. \A o \in Orders : Holds(o)' => Holds(o)
    BY <2>1, <2>2, <2>4, <2>5, <2>6 DEF Holds, Key, Freeing, gateway
  <2>14. /\ \A t \in Slots, v \in Versions : Inserting(t, v)' => Inserting(t, v)
         /\ \A t \in Slots, o \in Orders :
               Inserting(t, quote_id[o])' => Inserting(t, quote_id[o])
    BY <2>2, <2>5, <2>6 DEF Inserting
  <2>15. Tokens'
    BY <2>2, <2>13, <2>14 DEF IInv, Tokens
  <2> QED BY <2>7, <2>9, <2>10, <2>11, <2>12, <2>15 DEF IInv
<1>2. CASE SettleOrder(s)
  <2> DEFINE st == AfterSettle(c)
             d == [c EXCEPT !.stage = st, !.row = 1]
  <2>1. /\ c.stage = "settle"
        /\ payment' = [payment EXCEPT ![c.order] = c.status]
        /\ Goto(s, Idle) \/ (Goto(s, d) /\ st # "idle")
        /\ UNCHANGED <<quotes, latest, due, quote_id, seen, books, gateway>>
    BY <1>2 DEF SettleOrder
  <2>2. /\ c.order \in Orders /\ Key(c) \in sent /\ Key(c) \in seen
        /\ c.version = quote_id[c.order] /\ payment[c.order] # "none"
        /\ c.snapshot = "SUCCESS" => <<c.order, "SUCCESS">> \in seen
        /\ c.status \in STATUS_MAP
    BY <1>0, <1>t, <2>1 DEF CallOK, Working, Call
  <2>3. /\ st \in {"quote", "reverse", "reopen", "idle"}
        /\ st = "quote" => c.status = "SUCCESS"
        /\ st = "reverse" => c.status = "CHARGEDBACK" /\ c.snapshot = "SUCCESS"
        /\ st = "reopen" => c.status \in RETRYABLE_PAYMENT
    BY DEF AfterSettle, RETRYABLE_PAYMENT
  <2> HIDE DEF st
  <2>4. /\ d \in Call /\ d.stage = st /\ d.version = c.version
        /\ d.order = c.order /\ d.status = c.status
        /\ d.snapshot = c.snapshot /\ d.row = 1
    <3>1. st \in Stages
      BY <2>3 DEF Stages
    <3> QED BY <1>0, <3>1 DEF Call
  <2> HIDE DEF d
  <2>5. st # "idle" => CallOK(d)
    BY <1>0, <2>2, <2>3, <2>4 DEF CallOK, Working, Crediting, Key
  <2>6. PICK e \in {Idle, d} : Goto(s, e) /\ CallOK(e)
    BY <1>i, <2>1, <2>5
  <2>7. /\ e \in Call /\ e.stage \in {"idle", "quote", "reverse", "reopen"}
        /\ e.stage # "idle" => Key(e) = Key(c)
    BY <1>i, <2>3, <2>4, <2>6 DEF Key
  <2>8. \A o \in Orders :
           /\ payment'[o] = IF o = c.order THEN c.status ELSE payment[o]
           /\ payment'[o] = "none" <=> payment[o] = "none"
    BY <1>0, <2>1, <2>2 DEF TypeOK, STATUS_MAP
  <2>9. /\ calls' \in [Slots -> Call] /\ CallsOK' /\ Alone' /\ Tokens'
    <3>1. \/ e.stage \notin Working
          \/ /\ calls[s].stage \in Working /\ Key(e) = Key(calls[s])
             /\ e.stage \in Freeing => calls[s].stage \in Freeing
      BY <2>1, <2>7 DEF Working, Freeing
    <3>2. /\ UNCHANGED <<provider, sent, seen, quote_id, quotes>>
          /\ e.stage # "insert_order"
      BY <2>1, <2>7 DEF gateway
    <3> QED
      BY <2>6, <2>7, <2>8, <3>1, <3>2, MoveKeeps
  <2>10. payment' \in [Orders -> PaymentStatus]
    BY <1>0, <2>1, <2>2 DEF TypeOK, PaymentStatus
  <2>11. TypeOK'
    BY <1>0, <2>1, <2>9, <2>10 DEF TypeOK, books, gateway
  <2>12. Reports'
    <3>1. \A o \in Orders : payment'[o] = "SUCCESS" => <<o, "SUCCESS">> \in seen
      BY <2>2, <2>8 DEF IInv, Reports, Key
    <3>2. \A o \in Orders : payment'[o] = "none" <=> payment[o] = "none"
      BY <2>8
    <3>3. UNCHANGED <<provider, sent, seen, quote_id>>
      BY <2>1 DEF gateway
    <3> QED BY <3>1, <3>2, <3>3 DEF IInv, Reports
  <2>13. PaidQuoteIsBacked' /\ BooksAreBacked'
    BY <2>1 DEF IInv, PaidQuoteIsBacked, BooksAreBacked, books, gateway
  <2> QED BY <2>9, <2>11, <2>12, <2>13 DEF IInv
<1>3. CASE PayQuote(s)
  <2> DEFINE d == [c EXCEPT !.stage = "project"]
  <2>1. /\ d \in Call /\ d.stage = "project" /\ d.version = c.version
        /\ d.order = c.order /\ d.status = c.status
        /\ d.snapshot = c.snapshot /\ d.row = c.row
    <3>1. "project" \in Stages
      BY DEF Stages
    <3> QED BY <1>0, <3>1, NextStage
  <2>2. c.stage = "quote" /\ Goto(s, d)
    BY <1>3 DEF PayQuote, Stage
  <2> HIDE DEF d
  <2>3. CallOK(d) /\ Key(d) = Key(c)
    BY <1>0, <2>1, <2>2 DEF CallOK, Working, Crediting, Key
  <2>4. /\ c.order \in Orders /\ <<c.order, "SUCCESS">> \in sent
        /\ quote_id[c.order] = c.version /\ c.version \in Versions
    BY <1>0, <1>t, <2>2 DEF CallOK, Working, Crediting, Key
  <2>5. /\ quotes' \in [Versions -> QuoteStatus]
        /\ \A v \in Versions :
              /\ quotes'[v] \in Free => quotes[v] \in Free
              /\ quotes'[v] = "PAID" => quotes[v] = "PAID" \/ v = c.version
    BY <1>0, <1>3, <2>4 DEF PayQuote, QuoteStatus, Free
  <2>6. UNCHANGED <<latest, due, quote_id, payment, seen, books, gateway>>
    BY <1>3 DEF PayQuote
  <2> QED
    BY <1>0, <2>1, <2>2, <2>3, <2>4, <2>5, <2>6, QuoteMoveKeeps
       DEF Working, Freeing, TypeOK
<1>4. CASE MarkProjectPaid(s)
  <2> DEFINE d == [c EXCEPT !.stage = "credit"]
  <2>1. /\ d \in Call /\ d.stage = "credit" /\ d.version = c.version
        /\ d.order = c.order /\ d.status = c.status
        /\ d.snapshot = c.snapshot /\ d.row = c.row
    <3>1. "credit" \in Stages
      BY DEF Stages
    <3> QED BY <1>0, <3>1, NextStage
  <2>2. c.stage = "project" /\ Goto(s, d)
    BY <1>4 DEF MarkProjectPaid, Stage
  <2> HIDE DEF d
  <2>3. CallOK(d) /\ Key(d) = Key(c)
    BY <1>0, <2>1, <2>2 DEF CallOK, Working, Crediting, Key
  <2>4. c.order \in Orders /\ <<c.order, "SUCCESS">> \in seen
    BY <1>0, <1>t, <2>2 DEF CallOK, Working, Crediting, Key
  <2>5. BooksAreBacked'
    BY <1>4, <2>4 DEF MarkProjectPaid, IInv, BooksAreBacked
  <2> QED
    BY <1>0, <1>4, <2>1, <2>2, <2>3, <2>5, BookMoveKeeps
       DEF MarkProjectPaid, Working, Freeing, TypeOK
<1>5. CASE CreditRow(s)
  <2>1. /\ c.stage = "credit" /\ c.row \in 1 .. Rows
        /\ c.order \in Orders /\ <<c.order, "SUCCESS">> \in seen
    BY <1>0, <1>5, <1>t DEF CreditRow, CallOK, Working, Crediting, Key
  <2> DEFINE d == IF c.row = Rows THEN [c EXCEPT !.stage = "payout"]
                                  ELSE [c EXCEPT !.row = @ + 1]
  <2>2. Goto(s, d)
    BY <1>5 DEF CreditRow, Stage
  <2>3. /\ d \in Call /\ d.stage \in {"credit", "payout"}
        /\ d.version = c.version /\ d.order = c.order /\ d.status = c.status
        /\ d.snapshot = c.snapshot /\ d.row \in 1 .. Rows
    <3>1. "payout" \in Stages
      BY DEF Stages
    <3>2. c.row \in Nat /\ (c.row # Rows => c.row + 1 \in 1 .. Rows /\ c.row + 1 \in Nat)
      BY <1>0, <2>1
    <3>3. CASE c.row = Rows
      BY <1>0, <2>1, <3>1, <3>3 DEF Call
    <3>4. CASE c.row # Rows
      BY <1>0, <2>1, <3>2, <3>4 DEF Call
    <3> QED BY <3>3, <3>4
  <2> HIDE DEF d
  <2>4. CallOK(d) /\ Key(d) = Key(c)
    BY <1>0, <2>1, <2>3 DEF CallOK, Working, Crediting, Key
  <2>5. credits' \in [Orders -> SUBSET (1 .. Rows)]
    BY <1>0, <1>5, <2>1 DEF CreditRow, TypeOK
  <2>6. \A o \in Orders : credits'[o] # {} => credits[o] # {} \/ o = c.order
    BY <1>0, <1>5 DEF CreditRow, TypeOK
  <2>7. BooksAreBacked'
    BY <1>5, <2>1, <2>6 DEF CreditRow, IInv, BooksAreBacked
  <2> QED
    BY <1>0, <1>5, <2>1, <2>2, <2>3, <2>4, <2>5, <2>7, BookMoveKeeps
       DEF CreditRow, Working, Freeing, TypeOK
<1>6. CASE InsertPayout(s)
  <2>1. /\ c.stage = "payout" /\ Goto(s, Idle)
        /\ c.order \in Orders /\ <<c.order, "SUCCESS">> \in seen
    BY <1>0, <1>6, <1>t DEF InsertPayout, CallOK, Working, Crediting, Key
  <2>2. /\ payout' \in [Orders -> {"none", "CALCULATING", "ADJUSTED"}]
        /\ \A o \in Orders :
              /\ payout'[o] # "none" => payout[o] # "none" \/ o = c.order
              /\ payout'[o] = "ADJUSTED" => payout[o] = "ADJUSTED"
    BY <1>0, <1>6, <2>1 DEF InsertPayout, TypeOK
  <2>3. BooksAreBacked'
    BY <1>6, <2>1, <2>2 DEF InsertPayout, IInv, BooksAreBacked
  <2>4. UNCHANGED <<quotes, latest, due, quote_id, payment, seen, gateway>>
        /\ UNCHANGED <<paid, credits, reversals>>
    BY <1>6 DEF InsertPayout
  <2> QED
    BY <1>0, <1>i, <2>1, <2>2, <2>3, <2>4, BookEndKeeps DEF TypeOK
<1>7. CASE ReverseRow(s)
  <2>1. /\ c.stage = "reverse" /\ c.row \in 1 .. Rows
        /\ c.order \in Orders
        /\ {<<c.order, "SUCCESS">>, <<c.order, "CHARGEDBACK">>} \subseteq seen
    BY <1>0, <1>7, <1>t DEF ReverseRow, CallOK, Working, Crediting, Key
  <2> DEFINE d == IF c.row = Rows THEN [c EXCEPT !.stage = "adjust"]
                                  ELSE [c EXCEPT !.row = @ + 1]
  <2>2. Goto(s, d)
    BY <1>7 DEF ReverseRow, Stage
  <2>3. /\ d \in Call /\ d.stage \in {"reverse", "adjust"}
        /\ d.version = c.version /\ d.order = c.order /\ d.status = c.status
        /\ d.snapshot = c.snapshot /\ d.row \in 1 .. Rows
    <3>1. "adjust" \in Stages
      BY DEF Stages
    <3>2. c.row \in Nat /\ (c.row # Rows => c.row + 1 \in 1 .. Rows /\ c.row + 1 \in Nat)
      BY <1>0, <2>1
    <3>3. CASE c.row = Rows
      BY <1>0, <2>1, <3>1, <3>3 DEF Call
    <3>4. CASE c.row # Rows
      BY <1>0, <2>1, <3>2, <3>4 DEF Call
    <3> QED BY <3>3, <3>4
  <2> HIDE DEF d
  <2>4. CallOK(d) /\ Key(d) = Key(c)
    BY <1>0, <2>1, <2>3 DEF CallOK, Working, Crediting, Key
  <2>5. reversals' \in [Orders -> SUBSET (1 .. Rows)]
    BY <1>0, <1>7, <2>1 DEF ReverseRow, TypeOK
  <2>6. \A o \in Orders : reversals'[o] # {} => reversals[o] # {} \/ o = c.order
    BY <1>0, <1>7 DEF ReverseRow, TypeOK
  <2>7. BooksAreBacked'
    BY <1>7, <2>1, <2>6 DEF ReverseRow, IInv, BooksAreBacked
  <2> QED
    BY <1>0, <1>7, <2>1, <2>2, <2>3, <2>4, <2>5, <2>7, BookMoveKeeps
       DEF ReverseRow, Working, Freeing, TypeOK
<1>8. CASE AdjustPayout(s)
  <2>1. /\ c.stage = "adjust" /\ Goto(s, Idle)
        /\ c.order \in Orders
        /\ {<<c.order, "SUCCESS">>, <<c.order, "CHARGEDBACK">>} \subseteq seen
    BY <1>0, <1>8, <1>t DEF AdjustPayout, CallOK, Working, Crediting, Key
  <2>2. /\ payout' \in [Orders -> {"none", "CALCULATING", "ADJUSTED"}]
        /\ \A o \in Orders :
              /\ payout'[o] # "none" => payout[o] # "none"
              /\ payout'[o] = "ADJUSTED" => payout[o] = "ADJUSTED" \/ o = c.order
    BY <1>0, <1>8, <2>1 DEF AdjustPayout, TypeOK
  <2>3. BooksAreBacked'
    BY <1>8, <2>1, <2>2 DEF AdjustPayout, IInv, BooksAreBacked
  <2>4. UNCHANGED <<quotes, latest, due, quote_id, payment, seen, gateway>>
        /\ UNCHANGED <<paid, credits, reversals>>
    BY <1>8 DEF AdjustPayout
  <2> QED
    BY <1>0, <1>i, <2>1, <2>2, <2>3, <2>4, BookEndKeeps DEF TypeOK
<1>9. CASE ReopenQuote(s)
  <2> DEFINE v0 == c.version
  <2>1. /\ c.stage = "reopen" /\ Goto(s, Idle)
        /\ quotes' = IF quotes[v0] = "PAYMENT_PENDING"
                     THEN [quotes EXCEPT ![v0] = IF v0 \in due THEN "EXPIRED"
                                                               ELSE "SENT"]
                     ELSE quotes
        /\ UNCHANGED <<latest, due, quote_id, payment, seen, books, gateway>>
    BY <1>9 DEF ReopenQuote
  <2>2. /\ c.order \in Orders /\ Key(c) \in sent /\ Key(c) \in seen
        /\ quote_id[c.order] = v0 /\ v0 \in Versions
        /\ payment[c.order] # "none"
        /\ c.status \in RETRYABLE_PAYMENT
    BY <1>0, <1>t, <2>1 DEF CallOK, Working
  <2>3. provider[c.order] = c.status
    BY <2>2 DEF IInv, Reports, Key
  <2>4. Holds(c.order)
    BY <2>1, <2>2, <2>3 DEF Holds, Key, Freeing
  <2>5. /\ \A o \in Orders : Holds(o) /\ quote_id[o] = v0 => o = c.order
        /\ \A t \in Slots : ~Inserting(t, v0)
    BY <2>2, <2>4 DEF IInv, Tokens
  <2>6. /\ calls' \in [Slots -> Call]
        /\ \A t \in Slots : calls'[t] = IF t = s THEN Idle ELSE calls[t]
    BY <1>0, <1>i, <2>1 DEF TypeOK, Goto
  <2>7. \A o \in Orders : o = c.order => ~Holds(o)'
    <3> SUFFICES ASSUME NEW o \in Orders, o = c.order PROVE ~Holds(o)'
      OBVIOUS
    <3>1. ASSUME NEW t \in Slots, calls'[t].stage \in Freeing
          PROVE  Key(calls'[t]) # <<o, provider'[o]>>
      <4>1. t # s /\ calls'[t] = calls[t]
        BY <1>i, <2>6, <3>1 DEF Freeing
      <4>2. calls[t].stage \in Working /\ c.stage \in Working
        BY <2>1, <3>1, <4>1 DEF Freeing, Working
      <4>3. Key(calls[t]) # Key(c)
        BY <4>1, <4>2 DEF IInv, Alone
      <4> QED
        BY <2>1, <2>3, <4>1, <4>3 DEF Key, gateway
    <3>2. /\ provider'[o] \in RETRYABLE_PAYMENT
          /\ <<o, provider'[o]>> \in seen'
      BY <2>1, <2>2, <2>3 DEF Key, gateway
    <3> QED
      BY <3>1, <3>2 DEF Holds, RETRYABLE_PAYMENT, Key
  <2>8. \A o \in Orders : Holds(o)' => Holds(o) /\ quote_id[o] # v0
    <3>1. \A o \in Orders : Holds(o)' => Holds(o)
      BY <1>i, <2>1, <2>6 DEF Holds, Key, Freeing, Working, gateway
    <3> QED BY <2>5, <2>7, <3>1
  <2>9. /\ \A t \in Slots, v \in Versions : Inserting(t, v)' => Inserting(t, v)
        /\ \A t \in Slots, o \in Orders :
              Inserting(t, quote_id[o])' => Inserting(t, quote_id[o])
    BY <1>i, <2>1, <2>6 DEF Inserting
  <2>10. /\ quotes' \in [Versions -> QuoteStatus]
         /\ \A v \in Versions :
               /\ quotes'[v] \in Free => quotes[v] \in Free \/ v = v0
               /\ quotes'[v] = "PAID" => quotes[v] = "PAID"
    BY <1>0, <2>1, <2>2 DEF QuoteStatus, Free
  <2>11. Tokens'
    BY <2>1, <2>5, <2>8, <2>9, <2>10 DEF IInv, Tokens
  <2>12. TypeOK'
    BY <1>0, <2>1, <2>6, <2>10 DEF TypeOK, books, gateway
  <2>13. CallsOK'
    BY <1>i, <2>1, <2>6 DEF IInv, CallsOK, CallOK, Working, Crediting, Key,
       gateway
  <2>14. Alone'
    BY <1>i, <2>6 DEF IInv, Alone
  <2>15. Reports' /\ BooksAreBacked'
    BY <2>1 DEF IInv, Reports, BooksAreBacked, books, gateway
  <2>16. PaidQuoteIsBacked'
    BY <2>1, <2>10 DEF IInv, PaidQuoteIsBacked, gateway
  <2> QED BY <2>11, <2>12, <2>13, <2>14, <2>15, <2>16 DEF IInv
<1> QED
    BY <1>1, <1>2, <1>3, <1>4, <1>5, <1>6, <1>7, <1>8, <1>9 DEF Notification
\* A callback arrives, a call is killed, time passes, PayHere decides.
LEMMA OthersKeep ==
    ASSUME IInv,
           \/ \E s \in Slots : \/ Crash(s)
                               \/ \E o \in Orders, status \in STATUS_MAP :
                                     Receive(s, o, status)
           \/ \E v \in Versions : ExpireQuote(v) \/ TimePasses(v)
           \/ \E o \in Orders : PayHere(o)
           \/ UNCHANGED vars
    PROVE  IInv'
<1>0. TypeOK /\ quotes \in [Versions -> QuoteStatus] /\ latest \in 0 .. MaxQuotes
    BY DEF IInv, TypeOK
<1>i. Idle \in Call /\ Idle.stage = "idle" /\ CallOK(Idle)
    BY IdleIsCall
<1>1. ASSUME NEW s \in Slots, Crash(s)
      PROVE  IInv'
    BY <1>0, <1>1, <1>i, QuoteMoveKeeps DEF Crash, Working
<1>2. ASSUME NEW s \in Slots, NEW o \in Orders, NEW status \in STATUS_MAP,
             Receive(s, o, status)
      PROVE  IInv'
  <2> DEFINE c == [Idle EXCEPT !.stage = "event", !.version = quote_id[o],
                               !.order = o, !.status = status,
                               !.snapshot = payment[o]]
  <2>1. /\ c \in Call /\ c.stage = "event" /\ c.version = quote_id[o]
        /\ c.order = o /\ c.status = status /\ c.snapshot = payment[o]
    <3>1. /\ "event" \in Stages /\ quote_id[o] \in 0 .. MaxQuotes
          /\ payment[o] \in PaymentStatus
      BY <1>0 DEF TypeOK, Stages
    <3> QED BY <1>i, <3>1 DEF Call
  <2>2. /\ Goto(s, c) /\ <<o, status>> \in sent
        /\ UNCHANGED <<quotes, latest, due, quote_id, payment, seen, books,
                       gateway>>
    BY <1>2 DEF Receive
  <2> HIDE DEF c
  <2>3. CallOK(c)
    BY <2>1, <2>2 DEF CallOK, Working, Crediting, Key, IInv, Reports
  <2> QED
    BY <1>0, <2>1, <2>2, <2>3, QuoteMoveKeeps DEF Working
<1>3. ASSUME NEW v0 \in Versions, ExpireQuote(v0) \/ TimePasses(v0)
      PROVE  IInv'
  <2>1. /\ quotes' \in [Versions -> QuoteStatus] /\ due' \subseteq Versions
        /\ \A v \in Versions : /\ quotes'[v] \in Free => quotes[v] \in Free
                               /\ quotes'[v] = "PAID" => quotes[v] = "PAID"
    BY <1>0, <1>3 DEF ExpireQuote, TimePasses, TypeOK, QuoteStatus, Free
  <2>2. UNCHANGED <<latest, quote_id, payment, seen, books, gateway, calls>>
    BY <1>3 DEF ExpireQuote, TimePasses
  <2>3. TypeOK'
    BY <1>0, <2>1, <2>2 DEF TypeOK, books, gateway
  <2>4. CallsOK' /\ Alone' /\ Reports' /\ BooksAreBacked'
    BY <2>2 DEF IInv, CallsOK, CallOK, Key, Alone, Reports, BooksAreBacked,
       books, gateway
  <2>5. PaidQuoteIsBacked'
    BY <2>1, <2>2 DEF IInv, PaidQuoteIsBacked, gateway
  <2>6. /\ \A o \in Orders : Holds(o)' => Holds(o)
        /\ \A t \in Slots, v \in Versions : Inserting(t, v)' => Inserting(t, v)
        /\ \A t \in Slots, o \in Orders :
              Inserting(t, quote_id[o])' => Inserting(t, quote_id[o])
    BY <2>2 DEF Holds, Inserting, Key, gateway
  <2>7. Tokens'
    BY <2>1, <2>2, <2>6 DEF IInv, Tokens
  <2> QED BY <2>3, <2>4, <2>5, <2>7 DEF IInv
<1>4. ASSUME NEW n \in Orders, PayHere(n)
      PROVE  IInv'
  <2>1. PICK verdict \in Verdicts(provider[n]) :
           /\ provider' = [provider EXCEPT ![n] = verdict]
           /\ sent' = sent \cup {<<n, verdict>>}
    BY <1>4 DEF PayHere
  <2>2. /\ payment[n] # "none"
        /\ UNCHANGED <<quotes, latest, due, quote_id, payment, seen, books, calls>>
    BY <1>4 DEF PayHere
  <2>3. /\ verdict \in STATUS_MAP
        /\ provider[n] \in {"open", "PENDING", "SUCCESS"}
        /\ verdict # provider[n]
    BY <2>1 DEF Verdicts, STATUS_MAP
  <2>4. TypeOK'
    BY <1>0, <2>1, <2>2, <2>3 DEF TypeOK, books
  <2>5. \A o \in Orders : provider'[o] = IF o = n THEN verdict ELSE provider[o]
    BY <1>0, <2>1 DEF TypeOK
  <2>6. CallsOK' /\ Alone'
    BY <2>1, <2>2 DEF IInv, CallsOK, CallOK, Key, Alone
  <2>7. Reports'
    BY <2>1, <2>2, <2>3, <2>5 DEF IInv, Reports, RETRYABLE_PAYMENT
  <2>8. PaidQuoteIsBacked' /\ BooksAreBacked'
    BY <2>1, <2>2 DEF IInv, PaidQuoteIsBacked, BooksAreBacked, books
  <2>9. /\ \A o \in Orders : Holds(o)' => Holds(o)
        /\ \A t \in Slots, v \in Versions : Inserting(t, v)' => Inserting(t, v)
        /\ \A t \in Slots, o \in Orders :
              Inserting(t, quote_id[o])' => Inserting(t, quote_id[o])
    BY <2>2, <2>3, <2>5 DEF Holds, Inserting, Key
  <2>10. Tokens'
    BY <2>2, <2>9 DEF IInv, Tokens
  <2> QED BY <2>4, <2>6, <2>7, <2>8, <2>10 DEF IInv
<1>5. CASE UNCHANGED vars
  <2>1. UNCHANGED <<quotes, latest, due, quote_id, payment, provider, sent, seen,
                    paid, credits, reversals, payout, calls>>
    BY <1>5 DEF vars
  <2>2. TypeOK'
    BY <2>1 DEF IInv, TypeOK
  <2>3. CallsOK' /\ Alone'
    BY <2>1 DEF IInv, CallsOK, CallOK, Key, Alone
  <2>4. Reports' /\ PaidQuoteIsBacked' /\ BooksAreBacked'
    BY <2>1 DEF IInv, Reports, PaidQuoteIsBacked, BooksAreBacked
  <2>5. /\ \A o \in Orders : Holds(o)' => Holds(o)
        /\ \A t \in Slots, v \in Versions : Inserting(t, v)' => Inserting(t, v)
        /\ \A t \in Slots, o \in Orders :
              Inserting(t, quote_id[o])' => Inserting(t, quote_id[o])
    BY <2>1 DEF Holds, Inserting, Key
  <2>6. Tokens'
    BY <2>1, <2>5 DEF IInv, Tokens
  <2> QED BY <2>2, <2>3, <2>4, <2>6 DEF IInv
<1> QED BY <1>1, <1>2, <1>3, <1>4, <1>5

\* Before the first quote nothing is held and nothing is booked.
LEMMA InitHolds == Init => IInv
<1> SUFFICES ASSUME Init PROVE IInv
    OBVIOUS
<1>1. Idle \in Call /\ Idle.stage = "idle" /\ CallOK(Idle)
    BY IdleIsCall
<1>2. /\ \A s \in Slots : calls[s] = Idle
      /\ \A o \in Orders : payment[o] = "none" /\ ~Holds(o)
    BY DEF Init, Holds
<1>3. TypeOK
  <2>1. /\ quotes \in [Versions -> QuoteStatus] /\ latest \in 0 .. MaxQuotes
        /\ due \subseteq Versions /\ quote_id \in [Orders -> 0 .. MaxQuotes]
    BY QuoteAssumption DEF Init, QuoteStatus
  <2>2. /\ payment \in [Orders -> PaymentStatus]
        /\ provider \in [Orders -> STATUS_MAP \cup {"open"}]
        /\ sent \subseteq Orders \X STATUS_MAP /\ seen \subseteq sent
    BY DEF Init, PaymentStatus
  <2>3. /\ paid \in BOOLEAN
        /\ credits \in [Orders -> SUBSET (1 .. Rows)]
        /\ reversals \in [Orders -> SUBSET (1 .. Rows)]
        /\ payout \in [Orders -> {"none", "CALCULATING", "ADJUSTED"}]
    BY DEF Init
  <2>4. calls \in [Slots -> Call]
    BY <1>1 DEF Init
  <2> QED BY <2>1, <2>2, <2>3, <2>4 DEF TypeOK
<1>4. CallsOK /\ Alone
    BY <1>1, <1>2 DEF CallsOK, Alone, Working
<1>5. Reports /\ PaidQuoteIsBacked /\ BooksAreBacked
    BY DEF Init, Reports, PaidQuoteIsBacked, BooksAreBacked
<1>6. Tokens
    BY <1>1, <1>2 DEF Tokens, Inserting
<1> QED BY <1>3, <1>4, <1>5, <1>6 DEF IInv

-----------------------------------------------------------------------------
\* IInv is an inductive invariant of the quote checkout.
THEOREM Invariance == Spec => []IInv
<1>1. IInv /\ [Next]_vars => IInv'
    BY QuotingKeeps, CheckoutKeeps, NotificationKeeps, OthersKeep DEF Next
<1> QED BY <1>1, InitHolds, PTL DEF Spec

\* Every variable keeps its type.
THEOREM TypeCorrect == Spec => []TypeOK
<1>1. IInv => TypeOK
    BY DEF IInv
<1> QED BY <1>1, Invariance, PTL

\* However many checkouts are started and however callbacks are repeated,
\* delayed, overtaken or lost in a crash, no quote is charged twice.
THEOREM NoQuoteChargedTwice == Spec => []ChargedOnce
<1>1. ASSUME IInv, NEW o \in Orders, Chargeable(o) PROVE Holds(o)
    BY <1>1 DEF Chargeable, Holds
<1>2. IInv => ChargedOnce
    BY <1>1 DEF IInv, Tokens, ChargedOnce
<1> QED BY <1>2, Invariance, PTL

\* A quote is shown as paid only when PayHere has reported its payment.
THEOREM PaidIsReported == Spec => []PaidQuoteIsBacked
<1>1. IInv => PaidQuoteIsBacked
    BY DEF IInv
<1> QED BY <1>1, Invariance, PTL

\* The books hold nothing that PayHere has not reported.
THEOREM BooksAreReported == Spec => []BooksAreBacked
<1>1. IInv => BooksAreBacked
    BY DEF IInv
<1> QED BY <1>1, Invariance, PTL

-----------------------------------------------------------------------------
(* Nothing killed, the books become whole: what a call still owes them.    *)

Recorded(o) == credits[o] = 1 .. Rows /\ payout[o] # "none" /\ paid
Recording(c, o) == /\ c.stage \in {"settle"} \cup Crediting
                   /\ Key(c) = <<o, "SUCCESS">>
Reversing(c, o) == c.stage = "reverse" /\ c.order = o

\* A call has done all that comes before its stage, and a report that is about
\* to be settled has not been settled before.
Progress(c) ==
    /\ c.stage = "settle" /\ c.status = "SUCCESS" => payment[c.order] # "SUCCESS"
    /\ c.stage = "settle" /\ c.status = "CHARGEDBACK" => reversals[c.order] = {}
    /\ c.stage \in {"quote", "project"} => c.row = 1
    /\ c.stage \in {"credit", "payout"} => paid
    /\ c.stage = "credit" => 1 .. (c.row - 1) \subseteq credits[c.order]
    /\ c.stage = "payout" => credits[c.order] = 1 .. Rows
    /\ c.stage = "reverse" => reversals[c.order] = 1 .. (c.row - 1)

\* What the books lack, a call in flight is about to write.
Whole ==
    /\ \A s \in Slots : Progress(calls[s])
    /\ \A o \in Orders : <<o, "SUCCESS">> \in seen =>
          Recorded(o) \/ \E s \in Slots : Recording(calls[s], o)
    /\ \A o \in Orders :
          reversals[o] \in {{}, 1 .. Rows}
          \/ \E s \in Slots : Reversing(calls[s], o)

\* A call moves from q to c and does its part of what the books lack; by Alone
\* no other call is at work on the same report.
LEMMA StepKeepsWhole ==
    ASSUME IInv, Whole, TypeOK', NEW s \in Slots, NEW q \in Call, NEW c \in Call,
           q = calls[s], Goto(s, c), Progress(c)',
           \A o \in Orders :
              /\ payment'[o] = "SUCCESS" =>
                    payment[o] = "SUCCESS"
                    \/ (q.stage = "settle" /\ Key(q) = <<o, "SUCCESS">>)
              /\ reversals'[o] = reversals[o] \/ Reversing(q, o)
              /\ credits[o] \subseteq credits'[o]
              /\ payout[o] # "none" => payout'[o] # "none"
              /\ <<o, "SUCCESS">> \in seen' =>
                    <<o, "SUCCESS">> \in seen \/ Recording(c, o)
              /\ Recording(q, o) => Recording(c, o) \/ Recorded(o)'
              /\ Reversing(q, o) => Reversing(c, o) \/ reversals'[o] = 1 .. Rows,
           paid => paid'
    PROVE  Whole'
<1>0. /\ \A t \in Slots : calls'[t] = IF t = s THEN c ELSE calls[t]
      /\ TypeOK /\ CallsOK /\ Alone
    BY DEF IInv, TypeOK, Goto
<1>1. \A o \in Orders : credits'[o] \subseteq 1 .. Rows
    BY DEF TypeOK
<1>2. ASSUME NEW t \in Slots PROVE Progress(calls[t])'
  <2>1. CASE t = s
    BY <1>0, <2>1 DEF Progress
  <2>2. CASE t # s
    <3>1. PICK d \in Call : d = calls[t]
      BY <1>0 DEF TypeOK
    <3>2. Progress(d) /\ CallOK(d) /\ CallOK(q)
      BY <1>0, <3>1 DEF Whole, CallsOK
    <3>3. d.stage \in Working /\ q.stage \in Working => Key(d) # Key(q)
      BY <1>0, <2>2, <3>1 DEF Alone
    <3>4. d.stage \in Working => d.order \in Orders
      BY <3>2 DEF CallOK
    <3>5. d.stage = "settle" /\ d.status = "SUCCESS"
             => payment'[d.order] # "SUCCESS"
      BY <3>2, <3>3, <3>4 DEF Progress, Key, Working
    <3>6. d.stage = "reverse" \/ (d.stage = "settle" /\ d.status = "CHARGEDBACK")
             => reversals'[d.order] = reversals[d.order]
      BY <3>2, <3>3, <3>4 DEF CallOK, Key, Working, Reversing
    <3>7. d.stage = "credit" => 1 .. (d.row - 1) \subseteq credits'[d.order]
      BY <3>2, <3>4 DEF Progress, Working
    <3>8. d.stage = "payout" => credits'[d.order] = 1 .. Rows
      BY <1>1, <3>2, <3>4 DEF Progress, Working
    <3>9. Progress(d)'
      BY <3>2, <3>5, <3>6, <3>7, <3>8 DEF Progress
    <3> QED BY <1>0, <2>2, <3>1, <3>9
  <2> QED BY <2>1, <2>2
<1>3. ASSUME NEW o \in Orders, <<o, "SUCCESS">> \in seen',
             \A t \in Slots : ~Recording(calls'[t], o)
      PROVE  Recorded(o)'
  <2>1. ~Recording(c, o) /\ <<o, "SUCCESS">> \in seen
    BY <1>0, <1>3
  <2>2. CASE Recorded(o)
    BY <1>1, <2>2 DEF Recorded
  <2>3. ASSUME NEW t \in Slots, Recording(calls[t], o) PROVE Recorded(o)'
    <3>1. t = s
      BY <1>0, <1>3, <2>3
    <3> QED BY <2>1, <2>3, <3>1
  <2> QED BY <2>1, <2>2, <2>3 DEF Whole
<1>4. ASSUME NEW o \in Orders, \A t \in Slots : ~Reversing(calls'[t], o)
      PROVE  reversals'[o] \in {{}, 1 .. Rows}
  <2>1. CASE Reversing(q, o)
    BY <1>0, <1>4, <2>1
  <2>2. CASE ~Reversing(q, o)
    <3>1. \A t \in Slots : ~Reversing(calls[t], o)
      BY <1>0, <1>4, <2>2
    <3> QED BY <2>2, <3>1 DEF Whole
  <2> QED BY <2>1, <2>2
<1> QED
  <2>1. \A o \in Orders : <<o, "SUCCESS">> \in seen' =>
           Recorded(o)' \/ \E t \in Slots : Recording(calls'[t], o)
    BY <1>3
  <2>2. \A o \in Orders :
           reversals'[o] \in {{}, 1 .. Rows}
           \/ \E t \in Slots : Reversing(calls'[t], o)
    BY <1>4
  <2> QED BY <1>2, <2>1, <2>2 DEF Whole, Recording, Reversing, Key

\* A call that is not at work on a report, before and after, owes nothing.
LEMMA IdlersKeepWhole ==
    ASSUME IInv, Whole, TypeOK', NEW s \in Slots, NEW c \in Call, Goto(s, c),
           calls[s].stage \notin Working, c.stage \notin Working,
           UNCHANGED <<books, seen>>,
           \A o \in Orders : payment'[o] = "SUCCESS" => payment[o] = "SUCCESS"
    PROVE  Whole'
<1>1. PICK q \in Call : q = calls[s]
    BY DEF IInv, TypeOK
<1>2. UNCHANGED <<paid, credits, reversals, payout>>
    BY DEF books
<1>3. Progress(c)'
    BY DEF Progress, Working
<1>4. \A o \in Orders : ~Recording(q, o) /\ ~Reversing(q, o)
    BY <1>1 DEF Recording, Reversing, Working, Crediting
<1> QED BY <1>1, <1>2, <1>3, <1>4, StepKeepsWhole

\* Quoting, starting a checkout and receiving a callback are such calls.
LEMMA OtherCallsKeepWhole ==
    ASSUME IInv, Whole, TypeOK', NEW s \in Slots,
           \/ Quoting(s) \/ Checkout(s)
           \/ \E o \in Orders, status \in STATUS_MAP : Receive(s, o, status)
    PROVE  Whole'
<1>0. /\ calls[s] \in Call /\ calls' \in [Slots -> Call]
      /\ payment \in [Orders -> PaymentStatus]
      /\ calls \in [Slots -> Call]
    BY DEF IInv, TypeOK
<1>i. Idle \in Call /\ Idle.stage = "idle"
    BY IdleIsCall
<1>1. /\ UNCHANGED <<books, seen>>
      /\ \A o \in Orders : payment'[o] = "SUCCESS" => payment[o] = "SUCCESS"
    BY <1>0 DEF Quoting, Checkout, CreateQuote, ReadLatest, ReviseQuote,
       InsertQuote, InitiateQuotePayment, CheckExisting, LockQuote, TakeQuote,
       InsertOrder, Receive
<1>2. /\ calls[s].stage \notin Working
      /\ calls' = [calls EXCEPT ![s] = calls'[s]]
      /\ calls'[s].stage \notin Working
  <2>a. ASSUME NEW d, d.stage \notin Working, Goto(s, d),
               calls[s].stage \notin Working
        PROVE  <1>2!1 /\ <1>2!2 /\ <1>2!3
    BY <1>0, <2>a DEF Goto
  <2>b. CASE CreateQuote(s)
    <3>1. PICK a \in 0 .. MaxQuotes :
             Goto(s, [Idle EXCEPT !.stage = "latest",
                                  !.active = IF a \in due THEN 0 ELSE a])
      BY <2>b DEF CreateQuote
    <3>2. PICK d : d = [Idle EXCEPT !.stage = "latest",
                                    !.active = IF a \in due THEN 0 ELSE a]
      OBVIOUS
    <3>3. d.stage = "latest"
      BY <1>i, <3>2 DEF Call
    <3> QED
      BY <1>i, <2>a, <2>b, <3>1, <3>2, <3>3 DEF CreateQuote, Working
  <2>c. CASE InsertQuote(s)
    BY <1>i, <2>a, <2>c DEF InsertQuote, Working
  <2>1. CASE InitiateQuotePayment(s)
    <3>1. PICK d : d = [Idle EXCEPT !.stage = "existing", !.version = latest]
      OBVIOUS
    <3>2. d.stage = "existing"
      BY <1>i, <3>1 DEF Call
    <3> QED
      BY <1>i, <2>a, <2>1, <3>1, <3>2 DEF InitiateQuotePayment, Working
  <2>d. CASE ReadLatest(s)
    <3>1. PICK st \in {"revise", "insert_quote"} :
             Goto(s, [calls[s] EXCEPT !.version = latest + 1, !.stage = st])
      BY <2>d DEF ReadLatest
    <3>2. PICK d : d = [calls[s] EXCEPT !.version = latest + 1, !.stage = st]
      OBVIOUS
    <3>3. d.stage = st
      BY <1>0, <3>2 DEF Call
    <3> QED
      BY <2>a, <2>d, <3>1, <3>2, <3>3 DEF ReadLatest, Working
  <2>2. CASE ReviseQuote(s)
    BY <1>0, <2>2 DEF ReviseQuote, Goto, Stage, Working, Call
  <2>3. CASE CheckExisting(s) \/ LockQuote(s) \/ InsertOrder(s)
    BY <1>0, <1>i, <2>3 DEF CheckExisting, LockQuote, TakeQuote, InsertOrder,
       Goto, Stage, Working, Call
  <2>4. ASSUME NEW o \in Orders, NEW status \in STATUS_MAP,
               Receive(s, o, status)
        PROVE  <1>2!1 /\ <1>2!2 /\ <1>2!3
    <3>1. PICK d : d = [Idle EXCEPT !.stage = "event", !.version = quote_id[o],
                               !.order = o, !.status = status,
                               !.snapshot = payment[o]]
      OBVIOUS
    <3>2. d.stage = "event"
      BY <1>i, <3>1 DEF Call
    <3> QED
      BY <1>i, <2>a, <2>4, <3>1, <3>2 DEF Receive, Working
  <2> QED BY <2>b, <2>c, <2>d, <2>1, <2>2, <2>3, <2>4 DEF Quoting, Checkout
<1>3. PICK c \in Call : c = calls'[s]
    BY <1>0
<1> QED BY <1>1, <1>2, <1>3, IdlersKeepWhole DEF Goto

\* A callback at work writes what it owes, operation by operation.
LEMMA NotificationKeepsWhole ==
    ASSUME IInv, Whole, IInv', NEW s \in Slots, Notification(s)
    PROVE  Whole'
<1>1. PICK q \in Call : q = calls[s]
    BY DEF IInv, TypeOK
<1>0. /\ TypeOK /\ TypeOK' /\ CallOK(q) /\ Progress(q)
      /\ 1 \in Nat /\ Rows \in Nat \ {0}
      /\ \A o \in Orders : credits[o] \subseteq 1 .. Rows
    BY <1>1, QuoteAssumption DEF IInv, CallsOK, Whole, TypeOK
<1>i. Idle \in Call /\ Idle.stage = "idle"
    BY IdleIsCall
<1>o. \A o \in Orders : /\ ~Recording(Idle, o) /\ ~Reversing(Idle, o)
                        /\ ~Recording(q, o) \/ ~Reversing(q, o)
    BY <1>i DEF Recording, Reversing, Crediting
<1>p. Progress(Idle)'
    BY <1>i DEF Progress
<1>2. CASE RecordEvent(s)
  <2>1. /\ q.stage = "event" /\ q.order \in Orders
        /\ seen' = seen \cup {Key(q)}
        /\ UNCHANGED <<payment, paid, credits, reversals, payout>>
    BY <1>0, <1>1, <1>2 DEF RecordEvent, CallOK, books, Key
  <2>2. \A o \in Orders : ~Recording(q, o) /\ ~Reversing(q, o)
    BY <2>1 DEF Recording, Reversing, Crediting
  <2>3. CASE Key(q) \in seen \/ (q.snapshot = "SUCCESS" /\ q.status # "CHARGEDBACK")
    <3>1. Goto(s, Idle)
      BY <1>1, <1>2, <2>3 DEF RecordEvent, Key
    <3>2. \A o \in Orders : <<o, "SUCCESS">> \in seen' => <<o, "SUCCESS">> \in seen
      BY <1>0, <2>1, <2>3 DEF CallOK, Key
    <3> QED
      BY <1>0, <1>1, <1>i, <1>p, <2>1, <2>2, <3>1, <3>2, StepKeepsWhole
  <2>4. CASE ~(Key(q) \in seen \/ (q.snapshot = "SUCCESS" /\ q.status # "CHARGEDBACK"))
    <3>1. PICK c \in Call : c = [q EXCEPT !.stage = "settle"]
      <4>1. "settle" \in Stages
        BY DEF Stages
      <4> QED BY <4>1, NextStage
    <3>2. c.stage = "settle" /\ c.order = q.order /\ c.status = q.status
      BY <3>1 DEF Call
    <3>3. Goto(s, c)
      BY <1>1, <1>2, <2>4, <3>1 DEF RecordEvent, Key, Stage
    <3>4. /\ c.status = "SUCCESS" => payment'[c.order] # "SUCCESS"
          /\ c.status = "CHARGEDBACK" => reversals'[c.order] = {}
      BY <2>1, <2>4, <3>2 DEF IInv, Reports, BooksAreBacked, Key
    <3>5. Progress(c)'
      BY <3>2, <3>4 DEF Progress
    <3>6. \A o \in Orders : <<o, "SUCCESS">> \in seen' =>
             <<o, "SUCCESS">> \in seen \/ Recording(c, o)
      BY <2>1, <3>2 DEF Recording, Key
    <3> QED
      BY <1>0, <1>1, <2>1, <2>2, <3>3, <3>5, <3>6, StepKeepsWhole
  <2> QED BY <2>3, <2>4
<1>3. CASE SettleOrder(s)
  <2>1. /\ q.stage = "settle" /\ q.order \in Orders
        /\ payment' = [payment EXCEPT ![q.order] = q.status]
        /\ UNCHANGED <<seen, paid, credits, reversals, payout>>
        /\ q.status \in STATUS_MAP
    BY <1>0, <1>1, <1>3 DEF SettleOrder, CallOK, Working, books, Call
  <2>2. \A o \in Orders : payment'[o] = "SUCCESS" =>
           payment[o] = "SUCCESS" \/ (q.stage = "settle" /\ Key(q) = <<o, "SUCCESS">>)
    BY <1>0, <2>1 DEF TypeOK, Key
  <2>3. \A o \in Orders : ~Reversing(q, o)
    BY <2>1 DEF Reversing
  <2>4. CASE payment[q.order] = q.status \/ AfterSettle(q) = "idle"
    <3>1. Goto(s, Idle)
      BY <1>1, <1>3, <2>4 DEF SettleOrder
    <3>2. q.status # "SUCCESS"
      BY <1>0, <2>1, <2>4 DEF Progress, AfterSettle
    <3>3. \A o \in Orders : ~Recording(q, o)
      BY <3>2 DEF Recording, Key
    <3> QED
      BY <1>0, <1>1, <1>i, <1>p, <2>1, <2>2, <2>3, <3>1, <3>3, StepKeepsWhole
  <2>5. CASE ~(payment[q.order] = q.status \/ AfterSettle(q) = "idle")
    <3> DEFINE st == AfterSettle(q)
    <3>1. /\ st \in {"quote", "reverse", "reopen"}
          /\ st = "quote" <=> q.status = "SUCCESS"
          /\ st = "reverse" => q.status = "CHARGEDBACK"
      BY <2>1, <2>5 DEF AfterSettle, STATUS_MAP, RETRYABLE_PAYMENT
    <3>2. Goto(s, [q EXCEPT !.stage = st, !.row = 1])
      BY <1>1, <1>3, <2>5 DEF SettleOrder
    <3> HIDE DEF st
    <3>3. PICK c \in Call : c = [q EXCEPT !.stage = st, !.row = 1]
      <4>1. st \in Stages
        BY <3>1 DEF Stages
      <4> QED BY <1>0, <4>1 DEF Call
    <3>4. c.stage = st /\ c.row = 1 /\ c.order = q.order /\ c.status = q.status
      BY <3>3 DEF Call
    <3>5. Progress(c)'
      <4>1. 1 .. (1 - 1) = {}
        OBVIOUS
      <4> QED BY <1>0, <2>1, <3>1, <3>4, <4>1 DEF Progress
    <3>6. \A o \in Orders : Recording(q, o) => Recording(c, o)
      BY <3>1, <3>4 DEF Recording, Key, Crediting
    <3> QED
      BY <1>0, <1>1, <2>1, <2>2, <2>3, <3>2, <3>3, <3>5, <3>6, StepKeepsWhole
  <2> QED BY <2>4, <2>5
<1>4. CASE PayQuote(s) \/ MarkProjectPaid(s)
  <2> DEFINE st == IF q.stage = "quote" THEN "project" ELSE "credit"
  <2>1. /\ q.stage \in {"quote", "project"} /\ Stage(s, st)
        /\ UNCHANGED <<payment, seen, credits, reversals, payout>>
        /\ paid => paid'
        /\ st = "credit" => paid'
    BY <1>0, <1>1, <1>4 DEF PayQuote, MarkProjectPaid, books, TypeOK
  <2>2. PICK c \in Call : c = [q EXCEPT !.stage = st]
    <3>1. st \in Stages
      BY DEF Stages
    <3> QED BY <3>1, NextStage
  <2>3. c.stage = st /\ c.order = q.order /\ c.status = q.status /\ c.row = q.row
    BY <2>2 DEF Call
  <2>4. q.row = 1 /\ 1 .. (1 - 1) = {}
    BY <1>0, <2>1 DEF Progress
  <2>5. Progress(c)'
    BY <2>1, <2>3, <2>4 DEF Progress
  <2>6. /\ Goto(s, c) /\ (paid => paid')
        /\ \A o \in Orders : /\ Recording(q, o) => Recording(c, o)
                             /\ ~Reversing(q, o)
    BY <1>1, <2>1, <2>2, <2>3 DEF Recording, Reversing, Key, Crediting, Stage
  <2> QED BY <1>0, <1>1, <2>1, <2>5, <2>6, StepKeepsWhole
<1>5. CASE CreditRow(s)
  <2>1. /\ q.stage = "credit" /\ q.order \in Orders /\ q.row \in 1 .. Rows
        /\ credits' = [credits EXCEPT ![q.order] = @ \cup {q.row}]
        /\ UNCHANGED <<payment, seen, paid, reversals, payout>>
        /\ paid /\ 1 .. (q.row - 1) \subseteq credits[q.order]
    BY <1>0, <1>1, <1>5
       DEF CreditRow, CallOK, Working, Crediting, Progress
  <2>2. /\ credits'[q.order] = credits[q.order] \cup {q.row}
        /\ \A o \in Orders : credits[o] \subseteq credits'[o]
    BY <1>0, <2>1 DEF TypeOK
  <2>3. 1 .. q.row \subseteq credits'[q.order]
    <3>1. 1 .. q.row = (1 .. (q.row - 1)) \cup {q.row}
      BY <1>0, <2>1
    <3> QED BY <2>1, <2>2, <3>1
  <2>4. \A o \in Orders : ~Reversing(q, o)
    BY <2>1 DEF Reversing
  <2>5. CASE q.row = Rows
    <3>1. PICK c \in Call : c = [q EXCEPT !.stage = "payout"]
      <4>1. "payout" \in Stages
        BY DEF Stages
      <4> QED BY <4>1, NextStage
    <3>2. /\ Goto(s, c) /\ c.stage = "payout" /\ c.order = q.order
          /\ c.status = q.status
      BY <1>1, <1>5, <2>5, <3>1 DEF CreditRow, Stage, Call
    <3>3. credits'[q.order] = 1 .. Rows
      BY <1>0, <2>1, <2>3, <2>5 DEF TypeOK
    <3>4. Progress(c)'
      BY <2>1, <3>2, <3>3 DEF Progress
    <3>5. \A o \in Orders : Recording(q, o) => Recording(c, o)
      BY <3>2 DEF Recording, Key, Crediting
    <3> QED
      BY <1>0, <1>1, <2>1, <2>2, <2>4, <3>2, <3>4, <3>5, StepKeepsWhole
  <2>6. CASE q.row # Rows
    <3>1. PICK c \in Call : c = [q EXCEPT !.row = @ + 1]
      <4>1. q.row + 1 \in Nat
        BY <2>1
      <4> QED BY <4>1 DEF Call
    <3>2. /\ Goto(s, c) /\ c.stage = "credit" /\ c.order = q.order
          /\ c.status = q.status /\ c.row = q.row + 1
      BY <1>1, <1>5, <2>1, <2>6, <3>1 DEF CreditRow, Call
    <3>3. 1 .. (c.row - 1) = 1 .. q.row
      BY <1>0, <2>1, <3>2
    <3>4. Progress(c)'
      BY <2>1, <2>3, <3>2, <3>3 DEF Progress
    <3>5. \A o \in Orders : Recording(q, o) => Recording(c, o)
      BY <3>2 DEF Recording, Key, Crediting
    <3> QED
      BY <1>0, <1>1, <2>1, <2>2, <2>4, <3>2, <3>4, <3>5, StepKeepsWhole
  <2> QED BY <2>5, <2>6
<1>6. CASE InsertPayout(s)
  <2>1. /\ q.stage = "payout" /\ q.order \in Orders /\ Goto(s, Idle)
        /\ payout' = IF payout[q.order] = "none"
                     THEN [payout EXCEPT ![q.order] = "CALCULATING"] ELSE payout
        /\ UNCHANGED <<payment, seen, paid, credits, reversals>>
        /\ paid /\ credits[q.order] = 1 .. Rows
    BY <1>0, <1>1, <1>6
       DEF InsertPayout, CallOK, Working, Crediting, Progress
  <2>2. /\ payout'[q.order] # "none"
        /\ \A o \in Orders : payout[o] # "none" => payout'[o] # "none"
    BY <1>0, <2>1 DEF TypeOK
  <2>3. \A o \in Orders : /\ ~Reversing(q, o)
                          /\ Recording(q, o) => o = q.order
    BY <2>1 DEF Reversing, Recording, Key
  <2>4. \A o \in Orders : Recording(q, o) => Recorded(o)'
    BY <2>1, <2>2, <2>3 DEF Recorded
  <2> QED
    BY <1>0, <1>1, <1>i, <1>p, <2>1, <2>2, <2>3, <2>4, StepKeepsWhole
<1>7. CASE ReverseRow(s)
  <2>1. /\ q.stage = "reverse" /\ q.order \in Orders /\ q.row \in 1 .. Rows
        /\ reversals' = [reversals EXCEPT ![q.order] = @ \cup {q.row}]
        /\ UNCHANGED <<payment, seen, paid, credits, payout>>
        /\ reversals[q.order] = 1 .. (q.row - 1)
    BY <1>0, <1>1, <1>7
       DEF ReverseRow, CallOK, Working, Crediting, Progress
  <2>2. /\ reversals'[q.order] = 1 .. q.row
        /\ \A o \in Orders : reversals'[o] = reversals[o] \/ Reversing(q, o)
    <3>1. 1 .. q.row = (1 .. (q.row - 1)) \cup {q.row}
      BY <1>0, <2>1
    <3> QED BY <1>0, <2>1, <3>1 DEF TypeOK, Reversing
  <2>3. \A o \in Orders : ~Recording(q, o) /\ (Reversing(q, o) => o = q.order)
    BY <2>1 DEF Reversing, Recording, Crediting
  <2>4. CASE q.row = Rows
    <3>1. PICK c \in Call : c = [q EXCEPT !.stage = "adjust"]
      <4>1. "adjust" \in Stages
        BY DEF Stages
      <4> QED BY <4>1, NextStage
    <3>2. Goto(s, c) /\ c.stage = "adjust"
      BY <1>1, <1>7, <2>4, <3>1 DEF ReverseRow, Stage, Call
    <3>3. Progress(c)'
      BY <3>2 DEF Progress
    <3>4. \A o \in Orders : Reversing(q, o) => reversals'[o] = 1 .. Rows
      BY <2>2, <2>3, <2>4
    <3> QED
      BY <1>0, <1>1, <2>1, <2>2, <2>3, <3>2, <3>3, <3>4, StepKeepsWhole
  <2>5. CASE q.row # Rows
    <3>1. PICK c \in Call : c = [q EXCEPT !.row = @ + 1]
      <4>1. q.row + 1 \in Nat
        BY <2>1
      <4> QED BY <4>1 DEF Call
    <3>2. /\ Goto(s, c) /\ c.stage = "reverse" /\ c.order = q.order
          /\ c.row = q.row + 1
      BY <1>1, <1>7, <2>1, <2>5, <3>1 DEF ReverseRow, Call
    <3>3. 1 .. (c.row - 1) = 1 .. q.row
      BY <1>0, <2>1, <3>2
    <3>4. Progress(c)'
      BY <2>2, <3>2, <3>3 DEF Progress
    <3>5. \A o \in Orders : Reversing(q, o) => Reversing(c, o)
      BY <3>2 DEF Reversing
    <3> QED
      BY <1>0, <1>1, <2>1, <2>2, <2>3, <3>2, <3>4, <3>5, StepKeepsWhole
  <2> QED BY <2>4, <2>5
<1>8. CASE AdjustPayout(s)
  <2>1. /\ q.stage = "adjust" /\ Goto(s, Idle)
        /\ UNCHANGED <<payment, seen, paid, credits, reversals>>
    BY <1>1, <1>8 DEF AdjustPayout
  <2>2. \A o \in Orders : payout[o] # "none" => payout'[o] # "none"
    BY <1>0, <1>8 DEF AdjustPayout, TypeOK
  <2>3. \A o \in Orders : ~Recording(q, o) /\ ~Reversing(q, o)
    BY <2>1 DEF Recording, Reversing, Crediting
  <2> QED
    BY <1>0, <1>1, <1>i, <1>p, <2>1, <2>2, <2>3, StepKeepsWhole
<1>9. CASE ReopenQuote(s)
  <2>1. /\ q.stage = "reopen" /\ Goto(s, Idle)
        /\ UNCHANGED <<payment, seen, paid, credits, reversals, payout>>
    BY <1>1, <1>9 DEF ReopenQuote, books
  <2>2. \A o \in Orders : ~Recording(q, o) /\ ~Reversing(q, o)
    BY <2>1 DEF Recording, Reversing, Crediting
  <2> QED
    BY <1>0, <1>1, <1>i, <1>p, <2>1, <2>2, StepKeepsWhole
<1> QED
    BY <1>2, <1>3, <1>4, <1>5, <1>6, <1>7, <1>8, <1>9 DEF Notification

\* When no call is killed, a payment PayHere has reported is booked completely
\* once no call is at work, and a chargeback reverses all of it or nothing.
THEOREM BooksBecomeWhole ==
    ASSUME ~Crashes
    PROVE  Spec => []BooksAreWhole
<1>1. Init => Whole
  <2> SUFFICES ASSUME Init PROVE Whole
    OBVIOUS
  <2>1. \A s \in Slots : calls[s].stage = "idle"
    BY IdleIsCall DEF Init
  <2> QED BY <2>1 DEF Init, Whole, Progress
<1>2. IInv /\ Whole /\ [Next]_vars => Whole'
  <2> SUFFICES ASSUME IInv, Whole, [Next]_vars PROVE Whole'
    OBVIOUS
  <2>1. IInv'
    BY QuotingKeeps, CheckoutKeeps, NotificationKeeps, OthersKeep DEF Next
  <2>2. TypeOK'
    BY <2>1 DEF IInv
  <2>3. ASSUME NEW s \in Slots,
               \/ Quoting(s) \/ Checkout(s)
               \/ \E o \in Orders, status \in STATUS_MAP : Receive(s, o, status)
        PROVE  Whole'
    BY <2>2, <2>3, OtherCallsKeepWhole
  <2>4. ASSUME NEW s \in Slots, Notification(s) PROVE Whole'
    BY <2>1, <2>4, NotificationKeepsWhole
  <2>5. CASE \/ \E v \in Versions : ExpireQuote(v) \/ TimePasses(v)
             \/ \E o \in Orders : PayHere(o)
             \/ UNCHANGED vars
    <3>1. UNCHANGED <<payment, seen, paid, credits, reversals, payout, calls>>
      BY <2>5 DEF ExpireQuote, TimePasses, PayHere, vars, books
    <3> QED
      BY <3>1 DEF Whole, Progress, Recorded, Recording, Reversing, Key
  <2> QED BY <2>3, <2>4, <2>5 DEF Next, Crash
<1>3. Whole => BooksAreWhole
  <2> SUFFICES ASSUME Whole, \A s \in Slots : calls[s] = Idle,
                      NEW o \in Orders
               PROVE  /\ <<o, "SUCCESS">> \in seen => Recorded(o)
                      /\ reversals[o] \in {{}, 1 .. Rows}
    BY DEF BooksAreWhole, Recorded
  <2>1. \A s \in Slots : ~Recording(calls[s], o) /\ ~Reversing(calls[s], o)
    BY IdleIsCall DEF Recording, Reversing, Crediting
  <2> QED BY <2>1 DEF Whole
<1> QED BY <1>1, <1>2, <1>3, Invariance, PTL DEF Spec
=============================================================================

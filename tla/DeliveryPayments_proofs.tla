---------------------- MODULE DeliveryPayments_proofs ----------------------
(* What DeliveryPayments guarantees for every number of concurrent calls and *)
(* orders, with the workers killed at any point: what the books and the       *)
(* ledger say has happened at the gateway, a row of protection is moved by   *)
(* one call at a time, and the checkout implements Escrow.                   *)
EXTENDS DeliveryPayments, FiniteSetTheorems, TLAPS

Movers == {"approve", "verify", "refund"}

\* Stages a call reaches only after the money of its order has been taken.
PaidFor(c) ==
    \/ c.stage \in {"fund", "release", "settlement"}
    \/ c.op = "notify" /\ c.stage = "project"
    \/ Capture(c.op) /\ c.stage \in {"commit", "append", "appended", "close"}
    \/ c.stage \in {"append", "appended"} /\ c.event \in {"authorized", "captured"}

Returning(c) ==
    \/ c.op = "refund" /\ c.stage = "commit"
    \/ c.stage \in {"append", "appended"} /\ c.event = "refunded"

Reversing(c) ==
    \/ c.stage = "freeze"
    \/ c.stage \in {"append", "appended"} /\ c.event = "chargeback"

\* What a call in flight knows about its order.
CallTrue(c) ==
    /\ c.stage \notin {"idle", "insert"} => c.order \in Orders
    /\ c.stage = "settle" => <<c.order, c.code>> \in sent
    /\ PaidFor(c) => Charged(c.order)
    /\ Returning(c) => provider[c.order] = "returned"
    /\ Reversing(c) => provider[c.order] = "reversed"
    /\ c.stage \in {"lock", "escrow", "ask", "undo", "reset", "commit", "close"}
          => c.op \in Movers
    /\ c.op = "refund" /\ c.stage # "idle" => c.was \in {"AUTHORIZED", "CAPTURED"}

CallsTrue == \A s \in Slots : CallTrue(calls[s])

\* An order claims only what has happened at the gateway, and so does a
\* callback.
OrdersTrue ==
    \A o \in Orders :
        /\ payment[o] = "CAPTURED" => Charged(o)
        /\ payment[o] = "REFUNDED" => provider[o] = "returned"
        /\ payment[o] = "CHARGEBACK" => provider[o] = "reversed"
        /\ <<o, "2">> \in sent => Charged(o)
        /\ <<o, "-3">> \in sent => provider[o] = "reversed"

\* A call that has taken the protection row, until it is done with it.
Holds(c) ==
    /\ c.op \in Movers
    /\ c.stage \in {"ask", "undo", "reset", "commit", "append", "appended", "close"}

Pending(c) == IF c.op = "refund" THEN "REFUND_PENDING" ELSE "RELEASE_PENDING"

OneHolder ==
    /\ \A s \in Slots : Holds(calls[s]) =>
          /\ escrow.order = calls[s].order
          /\ escrow.status \in {Pending(calls[s]), "FROZEN"}
    /\ \A s, t \in Slots : Holds(calls[s]) /\ Holds(calls[t]) => s = t

\* A refund that has its lock has it alone, and meets no other refund's result.
Locked(c) == c.op = "refund" /\ c.stage \in {"escrow", "ask", "undo", "commit"}

RefundLocked ==
    /\ \A s \in Slots : Locked(calls[s]) =>
          /\ calls[s].order \in refunding
          /\ payment[calls[s].order] \in {"AUTHORIZED", "CAPTURED", "CHARGEBACK"}
    /\ \A s, t \in Slots :
          Locked(calls[s]) /\ Locked(calls[t]) /\ calls[s].order = calls[t].order
          => s = t

IInv == TypeOK /\ CallsTrue /\ OrdersTrue /\ OneHolder /\ RefundLocked
               /\ NothingReleasedUncharged /\ LedgerIsTrue

-----------------------------------------------------------------------------
(* Calls that go on.                                                        *)

\* A call that has answered is a call, knows nothing and holds nothing.
LEMMA IdleCall ==
    /\ Idle \in Call /\ Idle.stage = "idle" /\ CallTrue(Idle)
    /\ ~Holds(Idle) /\ ~Locked(Idle)
<1>1. Idle \in Call /\ Idle.stage = "idle" /\ Idle.event = "created"
      /\ Idle.op = "checkout"
    BY DEF Idle, Call, Ops, Stages, Doors, Codes, Status, Dropped, Live, Events
<1> QED
    BY <1>1 DEF CallTrue, PaidFor, Returning, Reversing, Capture, Holds, Locked

\* Money that was taken stays taken, and what was returned or reversed is final.
Grows ==
    /\ \A o \in Orders :
          /\ Charged(o) => Charged(o)'
          /\ provider[o] \in {"returned", "reversed"} => provider'[o] = provider[o]
    /\ sent \subseteq sent'

\* What a call knows stays true.
LEMMA TruthStays ==
    ASSUME NEW c \in Call, CallTrue(c), Grows
    PROVE  CallTrue(c)'
BY DEF CallTrue, PaidFor, Returning, Reversing, Grows, Call

\* One call moves, the others know what they knew.
LEMMA CallsKeep ==
    ASSUME IInv, NEW s \in Slots, NEW c \in Call, Goto(s, c), CallTrue(c)', Grows
    PROVE  /\ calls' \in [Slots -> Call]
           /\ \A t \in Slots : calls'[t] = IF t = s THEN c ELSE calls[t]
           /\ CallsTrue'
<1>1. /\ calls' \in [Slots -> Call]
      /\ \A t \in Slots : calls'[t] = IF t = s THEN c ELSE calls[t]
    BY DEF IInv, TypeOK, Goto
<1>2. ASSUME NEW t \in Slots PROVE CallTrue(calls[t])'
    <2>1. CASE t = s
        <3>1. calls'[t] = c
            BY <1>1, <2>1
        <3> QED BY <3>1 DEF CallTrue, PaidFor, Returning, Reversing, Charged
    <2>2. CASE t # s
        <3>1. calls'[t] = calls[t] /\ calls[t] \in Call /\ CallTrue(calls[t])
            BY <1>1, <2>2 DEF IInv, TypeOK, CallsTrue
        <3> DEFINE d == calls[t]
        <3>2. d \in Call /\ CallTrue(d) /\ calls'[t] = d
            BY <3>1
        <3> HIDE DEF d
        <3> QED BY <3>2 DEF CallTrue, PaidFor, Returning, Reversing, Grows, Call, Charged
    <2> QED BY <2>1, <2>2
<1> QED BY <1>1, <1>2 DEF CallsTrue

\* A call that gains neither the row nor the refund lock disturbs no holder.
LEMMA HoldersKeep ==
    ASSUME IInv, NEW s \in Slots, NEW c \in Call,
           \A t \in Slots : calls'[t] = IF t = s THEN c ELSE calls[t],
           UNCHANGED escrow,
           Holds(c) => Holds(calls[s]) /\ c.order = calls[s].order /\ c.op = calls[s].op
    PROVE  OneHolder'
BY DEF IInv, OneHolder, Holds, Pending

\* No refund gets its lock, and a locked order stays refundable or charged back.
LEMMA LocksKeep ==
    ASSUME IInv, NEW s \in Slots, NEW c \in Call,
           \A t \in Slots : calls'[t] = IF t = s THEN c ELSE calls[t],
           refunding \subseteq refunding',
           \A o \in Orders : payment[o] \in {"AUTHORIZED", "CAPTURED", "CHARGEBACK"}
              => payment'[o] \in {"AUTHORIZED", "CAPTURED", "CHARGEBACK"},
           Locked(c) => Locked(calls[s]) /\ c.order = calls[s].order
    PROVE  RefundLocked'
<1>1. \A t \in Slots : Locked(calls[t]) => calls[t].order \in Orders
    BY DEF IInv, CallsTrue, CallTrue, Locked
<1>2. \A t \in Slots : Locked(calls'[t]) =>
         Locked(calls[t]) /\ calls'[t].order = calls[t].order
    OBVIOUS
<1>3. ASSUME NEW t \in Slots, Locked(calls'[t])
      PROVE  /\ calls'[t].order \in refunding'
             /\ payment'[calls'[t].order] \in {"AUTHORIZED", "CAPTURED", "CHARGEBACK"}
    BY <1>1, <1>2, <1>3 DEF IInv, RefundLocked
<1>4. ASSUME NEW t \in Slots, NEW u \in Slots, Locked(calls'[t]), Locked(calls'[u]),
             calls'[t].order = calls'[u].order
      PROVE  t = u
    BY <1>2, <1>4 DEF IInv, RefundLocked
<1> QED BY <1>3, <1>4 DEF RefundLocked, Locked

\* The claims of orders and callbacks stay true while they are the same.
LEMMA OrdersKeep ==
    ASSUME IInv, Grows, UNCHANGED <<payment, sent>>
    PROVE  OrdersTrue'
BY DEF IInv, OrdersTrue, Grows

\* What is newly unlocked or owed has been charged.
LEMMA ReleasedKeep ==
    ASSUME IInv, Grows,
           delivery' = "RELEASED" =>
              delivery = "RELEASED" \/ \E o \in Orders : Charged(o)',
           \A o \in Orders :
              payout'[o] # "none" => payout[o] # "none" \/ Charged(o)'
    PROVE  NothingReleasedUncharged'
BY DEF IInv, NothingReleasedUncharged, Grows

\* The gateway takes nothing back that the ledger has said.
LEMMA LedgerKeep ==
    ASSUME IInv, Grows, UNCHANGED ledger
    PROVE  LedgerIsTrue'
BY DEF IInv, LedgerIsTrue, Grows, Charged

\* A stage of a call that changes neither the order, its row, its ledger nor
\* the gateway.
LEMMA StageKeeps ==
    ASSUME IInv, NEW s \in Slots, NEW c \in Call, Goto(s, c), CallTrue(c),
           UNCHANGED <<payment, refunding, escrow, ledger, provider, sent, audit>>,
           linked' \subseteq Orders, capturing' \subseteq Orders,
           review' \subseteq Orders, shown' \subseteq Orders,
           delivery' \in Files, paid' \in BOOLEAN, seen' \subseteq sent,
           payout' \in [Orders -> {"none", "UNPAID", "PAID"}],
           delivery' = "RELEASED" =>
              delivery = "RELEASED" \/ \E o \in Orders : Charged(o),
           \A o \in Orders : payout'[o] # "none" => payout[o] # "none" \/ Charged(o),
           Holds(c) => Holds(calls[s]) /\ c.order = calls[s].order /\ c.op = calls[s].op,
           Locked(c) => Locked(calls[s]) /\ c.order = calls[s].order
    PROVE  IInv'
<1>1. Grows /\ \A o \in Orders : Charged(o)' <=> Charged(o)
    BY DEF Grows, Charged
<1>2. CallTrue(c)'
    BY <1>1, TruthStays
<1>3. /\ calls' \in [Slots -> Call] /\ CallsTrue'
      /\ \A t \in Slots : calls'[t] = IF t = s THEN c ELSE calls[t]
    BY <1>1, <1>2, CallsKeep
<1>4. OneHolder'
    BY <1>3, HoldersKeep
<1>5. RefundLocked'
    BY <1>3, LocksKeep
<1>6. OrdersTrue'
    BY <1>1, OrdersKeep
<1>7. NothingReleasedUncharged'
    BY <1>1, ReleasedKeep
<1>8. LedgerIsTrue'
    BY <1>1, LedgerKeep
<1>9. TypeOK'
    BY <1>3 DEF IInv, TypeOK
<1> QED BY <1>3, <1>4, <1>5, <1>6, <1>7, <1>8, <1>9 DEF IInv

-----------------------------------------------------------------------------
(* Stages that leave the order, its row, its ledger and the gateway alone.  *)

\* The handlers' own facts about a call.
LEMMA CallOf ==
    ASSUME IInv, NEW s \in Slots
    PROVE  calls[s] \in Call /\ CallTrue(calls[s])
BY DEF IInv, TypeOK, CallsTrue

\* Only the stage changes.
LEMMA NextStage ==
    ASSUME NEW c \in Call, NEW st \in Stages, NEW d, d = [c EXCEPT !.stage = st]
    PROVE  /\ d \in Call /\ d.stage = st /\ d.op = c.op /\ d.order = c.order
           /\ d.code = c.code /\ d.event = c.event /\ d.was = c.was
BY DEF Call

LEMMA CreatePaymentKeeps ==
    ASSUME IInv, NEW s \in Slots, CreatePayment(s)
    PROVE  IInv'
<1>1. PICK d \in Doors, o \in Orders \cup {NoOrder} :
         /\ o # NoOrder => payment[o] = "PENDING"
         /\ Goto(s, [Idle EXCEPT !.stage = IF o = NoOrder THEN "insert" ELSE "existing",
                                 !.order = o, !.door = d])
    BY DEF CreatePayment
<1> DEFINE c == [Idle EXCEPT !.stage = IF o = NoOrder THEN "insert" ELSE "existing",
                             !.order = o, !.door = d]
<1>2. /\ c \in Call /\ c.op = "checkout" /\ c.order = o
      /\ c.stage = IF o = NoOrder THEN "insert" ELSE "existing"
    BY DEF Idle, Call, Ops, Stages, Codes, Status, Dropped, Live, Events
<1> HIDE DEF c
<1>3. CallTrue(c) /\ ~Holds(c) /\ ~Locked(c)
    BY <1>2 DEF CallTrue, PaidFor, Returning, Reversing, Capture, Holds, Locked, Movers
<1> QED
    BY <1>1, <1>2, <1>3, StageKeeps DEF CreatePayment, c, money, files, gateway, IInv, TypeOK

\* A call that ends.
LEMMA EndKeeps ==
    ASSUME IInv, NEW s \in Slots, Goto(s, Idle),
           UNCHANGED <<money, ledger, files, gateway, review, seen, audit>>
    PROVE  IInv'
BY IdleCall, StageKeeps DEF money, files, gateway, IInv, TypeOK

LEMMA LinkDeliveryKeeps ==
    ASSUME IInv, NEW s \in Slots, LinkDelivery(s)
    PROVE  IInv'
<1>1. calls[s].order \in Orders
    BY CallOf DEF LinkDelivery, At, CallTrue
<1> QED
    BY <1>1, IdleCall, StageKeeps DEF LinkDelivery, money, files, gateway, IInv, TypeOK, Files

LEMMA ReadLedgerKeeps ==
    ASSUME IInv, NEW s \in Slots, ReadLedger(s)
    PROVE  IInv'
<1> DEFINE c == calls[s]
           n == Cardinality(ledger[c.order])
           d == [c EXCEPT !.stage = "appended", !.n = n]
<1>1. c \in Call /\ CallTrue(c) /\ c.stage = "append" /\ c.order \in Orders
    BY CallOf DEF ReadLedger, CallTrue
<1>2. n \in Nat
    <2>1. IsFiniteSet(Events)
        <3>1. \A e \in Events : IsFiniteSet({e})
            BY FS_Singleton
        <3>2. IsFiniteSet({"created"} \cup {"authorized"} \cup {"captured"})
            BY <3>1, FS_Union DEF Events
        <3>3. IsFiniteSet({"cancelled"} \cup {"refunded"} \cup {"chargeback"})
            BY <3>1, FS_Union DEF Events
        <3>4. Events = ({"created"} \cup {"authorized"} \cup {"captured"})
                       \cup ({"cancelled"} \cup {"refunded"} \cup {"chargeback"})
            BY DEF Events
        <3> QED BY <3>2, <3>3, <3>4, FS_Union
    <2>2. ledger[c.order] \in SUBSET Events
        BY <1>1 DEF IInv, TypeOK
    <2> QED BY <2>1, <2>2, FS_Subset, FS_CardinalityType
<1> HIDE DEF n
<1>3. /\ d \in Call /\ d.stage = "appended" /\ d.op = c.op /\ d.order = c.order
      /\ d.event = c.event /\ d.was = c.was
    BY <1>1, <1>2 DEF Call, Stages
<1> HIDE DEF d
<1>4. CallTrue(d) /\ (Holds(d) => Holds(c)) /\ ~Locked(d)
    BY <1>1, <1>3 DEF CallTrue, PaidFor, Returning, Reversing, Holds, Locked
<1>5. Goto(s, d)
    BY DEF ReadLedger, d, n
<1> QED
    BY <1>1, <1>3, <1>4, <1>5, StageKeeps DEF ReadLedger, money, files, gateway, IInv, TypeOK

\* A callback knows the report it carries.
LEMMA ReceiveKeeps ==
    ASSUME IInv, NEW s \in Slots, Receive(s)
    PROVE  IInv'
<1>1. PICK n \in sent \ seen :
         /\ seen' = seen \cup {n}
         /\ \/ Goto(s, Idle)
            \/ Goto(s, [Idle EXCEPT !.op = "notify", !.stage = "settle",
                                    !.order = n[1], !.code = n[2]])
    BY DEF Receive
<1> DEFINE c == [Idle EXCEPT !.op = "notify", !.stage = "settle",
                             !.order = n[1], !.code = n[2]]
<1>2. n[1] \in Orders /\ n[2] \in Codes /\ n = <<n[1], n[2]>> /\ n \in sent
    BY <1>1 DEF IInv, TypeOK
<1>3. /\ c \in Call /\ c.op = "notify" /\ c.order = n[1] /\ c.code = n[2]
      /\ c.stage = "settle"
    BY <1>2 DEF Idle, Call, Ops, Stages, Codes, Status, Dropped, Live, Events, Doors
<1> HIDE DEF c
<1>4. CallTrue(c) /\ ~Holds(c) /\ ~Locked(c)
    BY <1>2, <1>3 DEF CallTrue, PaidFor, Returning, Reversing, Capture, Holds, Locked, Movers
<1>5. seen' \subseteq sent
    BY <1>1 DEF IInv, TypeOK
<1>6. CASE Goto(s, Idle)
    BY <1>5, <1>6, IdleCall, StageKeeps DEF Receive, money, files, gateway, IInv, TypeOK
<1>7. CASE Goto(s, c)
    BY <1>3, <1>4, <1>5, <1>7, StageKeeps DEF Receive, money, files, gateway, IInv, TypeOK
<1> QED BY <1>1, <1>6, <1>7 DEF c

\* The delivery is unlocked for an order whose money was taken.
LEMMA ReleaseDeliveryKeeps ==
    ASSUME IInv, NEW s \in Slots, ReleaseDelivery(s)
    PROVE  IInv'
<1> DEFINE c == calls[s]
           d == [c EXCEPT !.stage = "paid"]
<1>1. c \in Call /\ CallTrue(c) /\ c.op = "notify" /\ c.stage = "release"
    BY CallOf DEF ReleaseDelivery, At
<1>2. c.order \in Orders /\ Charged(c.order)
    BY <1>1 DEF CallTrue, PaidFor
<1>3. /\ d \in Call /\ d.stage = "paid" /\ d.op = c.op /\ d.order = c.order
    BY <1>1, NextStage DEF Stages
<1> HIDE DEF d
<1>4. CallTrue(d) /\ ~Holds(d) /\ ~Locked(d)
    BY <1>1, <1>2, <1>3 DEF CallTrue, PaidFor, Returning, Reversing, Capture, Holds,
                            Locked, Movers
<1>5. CASE delivery' = "RELEASED" /\ Goto(s, d)
    BY <1>2, <1>3, <1>4, <1>5, StageKeeps
       DEF ReleaseDelivery, money, files, gateway, IInv, TypeOK, Files
<1>6. CASE Goto(s, Idle) /\ UNCHANGED delivery
    BY <1>6, EndKeeps DEF ReleaseDelivery, money, files, gateway
<1> QED BY <1>5, <1>6 DEF ReleaseDelivery, Stage, d

LEMMA MarkPaidKeeps ==
    ASSUME IInv, NEW s \in Slots, MarkPaid(s)
    PROVE  IInv'
BY IdleCall, StageKeeps DEF MarkPaid, money, files, gateway, IInv, TypeOK

LEMMA LockDeliveryKeeps ==
    ASSUME IInv, NEW s \in Slots, LockDelivery(s)
    PROVE  IInv'
BY IdleCall, StageKeeps DEF LockDelivery, money, files, gateway, IInv, TypeOK, Files

LEMMA TransitionProjectKeeps ==
    ASSUME IInv, NEW s \in Slots, TransitionProject(s)
    PROVE  IInv'
<1> DEFINE c == calls[s]
           d == [c EXCEPT !.stage = "release"]
<1>1. c \in Call /\ CallTrue(c) /\ c.stage = "project" /\ c.order \in Orders
    BY CallOf DEF TransitionProject, CallTrue
<1>2. /\ d \in Call /\ d.stage = "release" /\ d.op = c.op /\ d.order = c.order
      /\ d.was = c.was
    BY <1>1, NextStage DEF Stages
<1> HIDE DEF d
<1>3. ~Holds(d) /\ ~Locked(d) /\ (c.op = "notify" => CallTrue(d))
    BY <1>1, <1>2 DEF CallTrue, PaidFor, Returning, Reversing, Capture, Holds,
                      Locked, Movers
<1>4. /\ paid' \in BOOLEAN
      /\ Goto(s, Idle) \/ (c.op = "notify" /\ Goto(s, d))
    BY DEF TransitionProject, d, IInv, TypeOK
<1>5. CASE Goto(s, Idle)
    BY <1>4, <1>5, IdleCall, StageKeeps
       DEF TransitionProject, money, files, gateway, IInv, TypeOK
<1>6. CASE c.op = "notify" /\ Goto(s, d)
    BY <1>2, <1>3, <1>4, <1>6, StageKeeps
       DEF TransitionProject, money, files, gateway, IInv, TypeOK
<1> QED BY <1>4, <1>5, <1>6

LEMMA BeginCaptureKeeps ==
    ASSUME IInv, NEW s \in Slots, BeginCapture(s)
    PROVE  IInv'
<1>1. PICK op \in {"approve", "verify"}, o \in Orders, st \in {"lock", "settlement"} :
         /\ st = "settlement" => payment[o] = "CAPTURED"
         /\ Goto(s, [Idle EXCEPT !.op = op, !.stage = st, !.order = o])
    BY DEF BeginCapture
<1> DEFINE c == [Idle EXCEPT !.op = op, !.stage = st, !.order = o]
<1>2. c \in Call /\ c.op = op /\ c.stage = st /\ c.order = o
    BY DEF Idle, Call, Ops, Stages, Codes, Status, Dropped, Live, Events, Doors
<1> HIDE DEF c
<1>3. payment[o] = "CAPTURED" => Charged(o)
    BY DEF IInv, OrdersTrue
<1>4. CallTrue(c) /\ ~Holds(c) /\ ~Locked(c)
    BY <1>1, <1>2, <1>3
       DEF CallTrue, PaidFor, Returning, Reversing, Capture, Holds, Locked, Movers
<1> QED
    BY <1>1, <1>2, <1>4, StageKeeps
       DEF BeginCapture, c, money, files, gateway, IInv, TypeOK

\* The capture lock looks at the order only, not at the refund lock.
LEMMA LockCaptureKeeps ==
    ASSUME IInv, NEW s \in Slots, LockCapture(s)
    PROVE  IInv'
<1> DEFINE c == calls[s]
<1>1. c \in Call /\ CallTrue(c) /\ c.stage = "lock" /\ Capture(c.op) /\ c.order \in Orders
    BY CallOf DEF LockCapture, TakeCaptureLock, CallTrue
<1>2. /\ capturing' \subseteq Orders
      /\ \/ Stage(s, "escrow")
         \/ payment[c.order] = "CAPTURED" /\ Stage(s, "settlement")
         \/ Goto(s, Idle)
    BY <1>1 DEF LockCapture, TakeCaptureLock, IInv, TypeOK
<1>3. UNCHANGED <<payment, linked, refunding, escrow, ledger, review, files, gateway,
                  seen, audit>>
    BY DEF LockCapture, TakeCaptureLock
<1>4. ASSUME NEW st \in {"escrow", "settlement"}, Stage(s, st),
             st = "settlement" => payment[c.order] = "CAPTURED"
      PROVE  IInv'
    <2> DEFINE d == [c EXCEPT !.stage = st]
    <2>1. d \in Call /\ d.stage = st /\ d.op = c.op /\ d.order = c.order
        BY <1>1, NextStage DEF Stages
    <2>2. Goto(s, d)
        BY <1>4 DEF Stage
    <2> HIDE DEF d
    <2>3. st = "settlement" => Charged(c.order)
        BY <1>1, <1>4 DEF IInv, OrdersTrue
    <2>4. CallTrue(d) /\ ~Holds(d) /\ ~Locked(d)
        BY <1>1, <1>4, <2>1, <2>3
           DEF CallTrue, PaidFor, Returning, Reversing, Capture, Holds, Locked, Movers
    <2> QED
        BY <1>2, <1>3, <2>1, <2>2, <2>4, StageKeeps DEF files, gateway, IInv, TypeOK
<1>5. CASE Goto(s, Idle)
    BY <1>2, <1>3, <1>5, IdleCall, StageKeeps DEF files, gateway, IInv, TypeOK
<1> QED BY <1>2, <1>4, <1>5

LEMMA BeginRefundKeeps ==
    ASSUME IInv, NEW s \in Slots, BeginRefund(s)
    PROVE  IInv'
<1>1. PICK o \in Orders :
         /\ payment[o] \in {"AUTHORIZED", "CAPTURED"}
         /\ Goto(s, [Idle EXCEPT !.op = "refund", !.stage = "lock", !.order = o,
                                 !.was = payment[o]])
    BY DEF BeginRefund
<1> DEFINE c == [Idle EXCEPT !.op = "refund", !.stage = "lock", !.order = o,
                             !.was = payment[o]]
<1>2. /\ c \in Call /\ c.op = "refund" /\ c.stage = "lock" /\ c.order = o
      /\ c.was = payment[o]
    BY <1>1 DEF Idle, Call, Ops, Stages, Codes, Status, Dropped, Live, Events, Doors
<1> HIDE DEF c
<1>3. CallTrue(c) /\ ~Holds(c) /\ ~Locked(c)
    BY <1>1, <1>2
       DEF CallTrue, PaidFor, Returning, Reversing, Capture, Holds, Locked, Movers
<1> QED
    BY <1>1, <1>2, <1>3, StageKeeps DEF BeginRefund, c, money, files, gateway, IInv, TypeOK

LEMMA RecordSettlementKeeps ==
    ASSUME IInv, NEW s \in Slots, RecordSettlement(s)
    PROVE  IInv'
<1> DEFINE c == calls[s]
           d == [c EXCEPT !.stage = "release"]
<1>1. c \in Call /\ CallTrue(c) /\ c.op = "verify" /\ c.stage = "settlement"
    BY CallOf DEF RecordSettlement, At
<1>2. c.order \in Orders /\ Charged(c.order)
    BY <1>1 DEF CallTrue, PaidFor
<1>3. d \in Call /\ d.stage = "release" /\ d.op = c.op /\ d.order = c.order
    BY <1>1, NextStage DEF Stages
<1>4. Goto(s, d)
    BY DEF RecordSettlement, Stage
<1> HIDE DEF d
<1>5. CallTrue(d) /\ ~Holds(d) /\ ~Locked(d)
    BY <1>1, <1>2, <1>3
       DEF CallTrue, PaidFor, Returning, Reversing, Capture, Holds, Locked, Movers
<1>6. /\ payout' \in [Orders -> {"none", "UNPAID", "PAID"}]
      /\ \A o \in Orders \ {c.order} : payout'[o] = payout[o]
    BY <1>2 DEF RecordSettlement, IInv, TypeOK
<1> QED
    BY <1>2, <1>3, <1>4, <1>5, <1>6, StageKeeps
       DEF RecordSettlement, money, gateway, IInv, TypeOK

LEMMA VerifyDeliveryKeeps ==
    ASSUME IInv, NEW s \in Slots, VerifyDelivery(s)
    PROVE  IInv'
<1> DEFINE c == calls[s]
           d == [c EXCEPT !.stage = "project"]
<1>1. c \in Call /\ CallTrue(c) /\ c.op = "verify" /\ c.stage = "release"
    BY CallOf DEF VerifyDelivery, At
<1>2. c.order \in Orders /\ Charged(c.order)
    BY <1>1 DEF CallTrue, PaidFor
<1>3. d \in Call /\ d.stage = "project" /\ d.op = c.op /\ d.order = c.order
    BY <1>1, NextStage DEF Stages
<1> HIDE DEF d
<1>4. CallTrue(d) /\ ~Holds(d) /\ ~Locked(d)
    BY <1>1, <1>2, <1>3
       DEF CallTrue, PaidFor, Returning, Reversing, Capture, Holds, Locked, Movers
<1>5. CASE delivery' = "RELEASED" /\ Goto(s, d)
    BY <1>2, <1>3, <1>4, <1>5, StageKeeps
       DEF VerifyDelivery, money, files, gateway, IInv, TypeOK, Files
<1>6. CASE Goto(s, Idle) /\ UNCHANGED delivery
    BY <1>6, EndKeeps DEF VerifyDelivery, money, files, gateway
<1> QED BY <1>5, <1>6 DEF VerifyDelivery, Stage, d

-----------------------------------------------------------------------------
(* Checkout and callback: the order, its row and its ledger.                *)

\* A call other than s that holds the row would have it pending or frozen.
LEMMA RowIsMine ==
    ASSUME IInv, NEW s \in Slots, NEW c \in Call,
           \A t \in Slots : calls'[t] = IF t = s THEN c ELSE calls[t],
           \/ Holds(calls[s])
           \/ escrow.status \notin {"RELEASE_PENDING", "REFUND_PENDING", "FROZEN"}
           \/ escrow.order = NoOrder,
           Holds(c) => /\ escrow'.order = c.order
                       /\ escrow'.status \in {Pending(c), "FROZEN"}
    PROVE  OneHolder'
<1>1. \A t \in Slots : calls[t].order \in Orders \/ ~Holds(calls[t])
    BY DEF IInv, CallsTrue, CallTrue, Holds
<1>2. \A t \in Slots \ {s} : ~Holds(calls[t])
    BY <1>1, PaymentAssumption DEF IInv, OneHolder, Pending
<1> QED BY <1>2 DEF OneHolder, Holds, Pending

LEMMA CancelStalePendingKeeps ==
    ASSUME IInv, NEW s \in Slots, CancelStalePending(s)
    PROVE  IInv'
<1> DEFINE c == calls[s]
           o == c.order
<1>1. /\ c \in Call /\ CallTrue(c) /\ c.op = "checkout" /\ c.stage = "existing"
      /\ o \in Orders
    BY CallOf DEF CancelStalePending, At, CallTrue
<1> DEFINE e == [c EXCEPT !.stage = "insert", !.order = NoOrder]
<1>2. e \in Call /\ e.stage = "insert" /\ e.op = "checkout"
    BY <1>1 DEF Call, Stages
<1> HIDE DEF e
<1>5. PICK d \in Call : d = e
    BY <1>2
<1>3. CASE Goto(s, Idle) /\ UNCHANGED payment
    BY <1>3, EndKeeps DEF CancelStalePending, money, files, gateway
<1>4. CASE payment[o] = "PENDING" /\ Set(o, "CANCELLED") /\ Goto(s, d)
    <2>1. Grows
        BY DEF CancelStalePending, gateway, Grows, Charged
    <2>2. CallTrue(d)' /\ ~Holds(d) /\ ~Locked(d)
        BY <1>2, <1>5 DEF CallTrue, PaidFor, Returning, Reversing, Capture, Holds, Locked, Movers
    <2>3. /\ calls' \in [Slots -> Call] /\ CallsTrue'
          /\ \A t \in Slots : calls'[t] = IF t = s THEN d ELSE calls[t]
        BY <1>2, <1>5, <1>4, <2>1, <2>2, CallsKeep
    <2>4. /\ payment' \in [Orders -> Status]
          /\ \A p \in Orders : payment'[p] = IF p = o THEN "CANCELLED" ELSE payment[p]
        BY <1>1, <1>4 DEF Set, IInv, TypeOK, Status, Dropped
    <2>5. TypeOK'
        BY <2>3, <2>4 DEF CancelStalePending, files, gateway, IInv, TypeOK
    <2>6. OrdersTrue'
        BY <2>4 DEF CancelStalePending, gateway, IInv, OrdersTrue, Charged
    <2>7. OneHolder'
        BY <1>2, <1>5, <2>2, <2>3, HoldersKeep DEF CancelStalePending
    <2>8. RefundLocked'
        BY <1>2, <1>5, <1>4, <2>2, <2>3, <2>4, LocksKeep DEF CancelStalePending
    <2>9. NothingReleasedUncharged' /\ LedgerIsTrue'
        BY <2>1, ReleasedKeep, LedgerKeep DEF CancelStalePending, files
    <2> QED BY <2>3, <2>5, <2>6, <2>7, <2>8, <2>9 DEF IInv
<1> QED BY <1>3, <1>4, <1>5 DEF CancelStalePending, e

LEMMA InsertOrderKeeps ==
    ASSUME IInv, NEW s \in Slots, InsertOrder(s)
    PROVE  IInv'
<1> DEFINE c == calls[s]
<1>1. c \in Call /\ CallTrue(c) /\ c.op = "checkout" /\ c.stage = "insert"
    BY CallOf DEF InsertOrder, At
<1>2. CASE Goto(s, Idle) /\ UNCHANGED <<payment, linked>>
    BY <1>2, EndKeeps DEF InsertOrder, money, files, gateway
<1>3. ASSUME NEW o \in Orders, payment[o] = "none", Set(o, "PENDING"),
             linked' \in {linked, linked \cup {o}},
             Goto(s, [c EXCEPT !.stage = "append", !.order = o, !.event = "created"])
      PROVE  IInv'
    <2> DEFINE e == [c EXCEPT !.stage = "append", !.order = o, !.event = "created"]
    <2>11. /\ e \in Call /\ e.stage = "append" /\ e.op = "checkout" /\ e.order = o
           /\ e.event = "created"
        BY <1>1 DEF Call, Stages, Events
    <2>12. Goto(s, e)
        BY <1>3
    <2> HIDE DEF e
    <2>1. PICK d \in Call :
            /\ Goto(s, d)
            /\ d.stage = "append" /\ d.op = "checkout" /\ d.order = o
            /\ d.event = "created"
        BY <2>11, <2>12
    <2>2. Grows
        BY DEF InsertOrder, gateway, Grows, Charged
    <2>3. CallTrue(d)' /\ ~Holds(d) /\ ~Locked(d)
        BY <2>1 DEF CallTrue, PaidFor, Returning, Reversing, Capture, Holds, Locked, Movers
    <2>4. /\ calls' \in [Slots -> Call] /\ CallsTrue'
          /\ \A t \in Slots : calls'[t] = IF t = s THEN d ELSE calls[t]
        BY <1>3, <2>1, <2>2, <2>3, CallsKeep
    <2>5. /\ payment' \in [Orders -> Status]
          /\ \A p \in Orders : payment'[p] = IF p = o THEN "PENDING" ELSE payment[p]
        BY <1>3 DEF Set, IInv, TypeOK, Status, Live
    <2>6. TypeOK'
        BY <1>3, <2>4, <2>5 DEF InsertOrder, files, gateway, IInv, TypeOK
    <2>7. OrdersTrue'
        BY <2>5 DEF InsertOrder, gateway, IInv, OrdersTrue, Charged
    <2>8. OneHolder'
        BY <2>1, <2>3, <2>4, HoldersKeep DEF InsertOrder
    <2>9. RefundLocked'
        BY <1>3, <2>1, <2>3, <2>4, <2>5, LocksKeep DEF InsertOrder
    <2>10. NothingReleasedUncharged' /\ LedgerIsTrue'
        BY <2>2, ReleasedKeep, LedgerKeep DEF InsertOrder, files
    <2> QED BY <2>4, <2>6, <2>7, <2>8, <2>9, <2>10 DEF IInv
<1> QED BY <1>2, <1>3 DEF InsertOrder

\* The order takes the status of a report, and the call what it implies.
LEMMA SettleOrderKeeps ==
    ASSUME IInv, NEW s \in Slots, SettleOrder(s)
    PROVE  IInv'
<1> DEFINE c == calls[s]
           o == c.order
           st == NewStatus(c.code)
           e == CASE c.code = "2"  -> [c EXCEPT !.stage = "fund"]
                  [] c.code = "-3" -> [c EXCEPT !.stage = "freeze"]
                  [] OTHER -> [c EXCEPT !.stage = "append", !.event = "cancelled"]
           from == IF c.code = "-3" THEN Live ELSE {"PENDING"}
<1>1. /\ c \in Call /\ CallTrue(c) /\ c.op = "notify" /\ c.stage = "settle"
      /\ o \in Orders /\ <<o, c.code>> \in sent
    BY CallOf DEF SettleOrder, Settles, At, CallTrue
<1>2. CASE Goto(s, Idle) /\ UNCHANGED <<payment, review>>
    BY <1>2, EndKeeps DEF SettleOrder, Settles, money, files, gateway
<1>3. CASE /\ payment[o] \in from /\ Set(o, st) /\ Goto(s, e)
           /\ review' = IF c.code = "-3" THEN review \cup {o} ELSE review
    <2>1. /\ e \in Call /\ e.op = "notify" /\ e.order = o
          /\ \/ c.code = "2" /\ e.stage = "fund"
             \/ c.code = "-3" /\ e.stage = "freeze"
             \/ e.stage = "append" /\ e.event = "cancelled"
        BY <1>1 DEF Call, Stages, Events
    <2>2. /\ c.code = "2" => st = "CAPTURED" /\ Charged(o)
          /\ c.code = "-3" => st = "CHARGEBACK" /\ provider[o] = "reversed"
          /\ c.code \notin {"2", "-3"} => st \in {"CANCELLED", "FAILED"}
        BY <1>1 DEF NewStatus, IInv, OrdersTrue, Call, Codes
    <2>3. Grows
        BY DEF SettleOrder, Settles, gateway, Grows, Charged
    <2> HIDE DEF e
    <2>4. CallTrue(e) /\ ~Holds(e) /\ ~Locked(e)
        BY <1>1, <2>1, <2>2
           DEF CallTrue, PaidFor, Returning, Reversing, Capture, Holds, Locked, Movers
    <2>5. PICK d \in Call : Goto(s, d) /\ CallTrue(d) /\ ~Holds(d) /\ ~Locked(d)
        BY <1>3, <2>1, <2>4
    <2>6. CallTrue(d)'
        BY <2>3, <2>5, TruthStays
    <2>7. /\ calls' \in [Slots -> Call] /\ CallsTrue'
          /\ \A t \in Slots : calls'[t] = IF t = s THEN d ELSE calls[t]
        BY <2>3, <2>5, <2>6, CallsKeep
    <2>8. st \in Status
        BY <1>1 DEF NewStatus, Status, Dropped, Live, Call, Codes
    <2> HIDE DEF st
    <2>9. /\ payment' \in [Orders -> Status]
          /\ \A p \in Orders : payment'[p] = IF p = o THEN st ELSE payment[p]
        BY <1>1, <1>3, <2>8 DEF Set, IInv, TypeOK
    <2>10. TypeOK'
        BY <1>1, <1>3, <2>7, <2>9 DEF SettleOrder, Settles, files, gateway, IInv, TypeOK
    <2>11. OrdersTrue'
        BY <1>1, <2>2, <2>9 DEF SettleOrder, Settles, gateway, IInv, OrdersTrue, Charged
    <2>12. OneHolder'
        BY <2>5, <2>7, HoldersKeep DEF SettleOrder, Settles
    <2>13. payment[o] \in Live /\ (payment[o] = "PENDING" \/ st = "CHARGEBACK")
        BY <1>3, <2>2 DEF Live
    <2>14. RefundLocked'
        BY <1>1, <2>5, <2>7, <2>9, <2>13, LocksKeep DEF SettleOrder, Settles
    <2>15. NothingReleasedUncharged' /\ LedgerIsTrue'
        BY <2>3, ReleasedKeep, LedgerKeep DEF SettleOrder, Settles, files
    <2> QED BY <2>7, <2>10, <2>11, <2>12, <2>14, <2>15 DEF IInv
<1>4. /\ payment[o] \in from =>
            /\ Set(o, st) /\ Goto(s, e)
            /\ review' = IF c.code = "-3" THEN review \cup {o} ELSE review
      /\ payment[o] \notin from => Goto(s, Idle) /\ UNCHANGED <<payment, review>>
    BY DEF SettleOrder, Settles
<1> QED BY <1>2, <1>3, <1>4

\* The first order that is paid gets the protection row.
LEMMA FundEscrowKeeps ==
    ASSUME IInv, NEW s \in Slots, FundEscrow(s)
    PROVE  IInv'
<1> DEFINE c == calls[s]
           o == c.order
           e == [c EXCEPT !.stage = "append", !.event = "authorized"]
<1>1. /\ c \in Call /\ CallTrue(c) /\ c.op = "notify" /\ c.stage = "fund"
      /\ o \in Orders /\ Charged(o)
    BY CallOf DEF FundEscrow, At, CallTrue, PaidFor
<1>2. /\ e \in Call /\ e.op = "notify" /\ e.order = o /\ e.stage = "append"
      /\ e.event = "authorized"
    BY <1>1 DEF Call, Stages, Events
<1>3. Goto(s, e) \/ Goto(s, Idle)
    BY DEF FundEscrow
<1> HIDE DEF e
<1>4. CallTrue(e) /\ ~Holds(e) /\ ~Locked(e)
    BY <1>1, <1>2
       DEF CallTrue, PaidFor, Returning, Reversing, Capture, Holds, Locked, Movers
<1>5. PICK d \in Call : Goto(s, d) /\ CallTrue(d) /\ ~Holds(d) /\ ~Locked(d)
    BY <1>2, <1>3, <1>4, IdleCall
<1>6. Grows
    BY DEF FundEscrow, gateway, Grows, Charged
<1>7. /\ calls' \in [Slots -> Call] /\ CallsTrue'
      /\ \A t \in Slots : calls'[t] = IF t = s THEN d ELSE calls[t]
    BY <1>5, <1>6, TruthStays, CallsKeep
<1>8. /\ escrow' \in [order: Orders \cup {NoOrder}, status: Rows]
      /\ escrow.order = NoOrder \/ escrow' = escrow
    BY <1>1 DEF FundEscrow, IInv, TypeOK, Rows
<1>9. TypeOK'
    BY <1>7, <1>8 DEF FundEscrow, files, gateway, IInv, TypeOK
<1>10. OneHolder'
    <2>1. CASE escrow.order = NoOrder
        BY <1>5, <1>7, <2>1, RowIsMine
    <2>2. CASE escrow' = escrow
        BY <1>5, <1>7, <2>2, HoldersKeep
    <2> QED BY <1>8, <2>1, <2>2
<1>11. RefundLocked'
    BY <1>5, <1>7, LocksKeep DEF FundEscrow
<1>12. OrdersTrue' /\ NothingReleasedUncharged' /\ LedgerIsTrue'
    BY <1>6, OrdersKeep, ReleasedKeep, LedgerKeep DEF FundEscrow, files, gateway
<1> QED BY <1>7, <1>9, <1>10, <1>11, <1>12 DEF IInv

\* A chargeback freezes the row under whoever holds it.
LEMMA FreezeEscrowKeeps ==
    ASSUME IInv, NEW s \in Slots, FreezeEscrow(s)
    PROVE  IInv'
<1> DEFINE c == calls[s]
           o == c.order
           e == [c EXCEPT !.stage = "append", !.event = "chargeback"]
<1>1. /\ c \in Call /\ CallTrue(c) /\ c.op = "notify" /\ c.stage = "freeze"
      /\ o \in Orders /\ provider[o] = "reversed"
    BY CallOf DEF FreezeEscrow, At, CallTrue, Reversing
<1>2. /\ e \in Call /\ e.op = "notify" /\ e.order = o /\ e.stage = "append"
      /\ e.event = "chargeback"
    BY <1>1 DEF Call, Stages, Events
<1>3. Goto(s, e)
    BY DEF FreezeEscrow
<1> HIDE DEF e
<1>4. CallTrue(e) /\ ~Holds(e) /\ ~Locked(e)
    BY <1>1, <1>2
       DEF CallTrue, PaidFor, Returning, Reversing, Capture, Holds, Locked, Movers
<1>5. PICK d \in Call : Goto(s, d) /\ CallTrue(d) /\ ~Holds(d) /\ ~Locked(d)
    BY <1>2, <1>3, <1>4
<1>6. Grows
    BY DEF FreezeEscrow, gateway, Grows, Charged
<1>7. /\ calls' \in [Slots -> Call] /\ CallsTrue'
      /\ \A t \in Slots : calls'[t] = IF t = s THEN d ELSE calls[t]
    BY <1>5, <1>6, TruthStays, CallsKeep
<1>8. /\ escrow' \in [order: Orders \cup {NoOrder}, status: Rows]
      /\ escrow'.order = escrow.order
      /\ escrow'.status \in {escrow.status, "FROZEN"}
    BY DEF FreezeEscrow, SetRow, IInv, TypeOK, Rows
<1>9. TypeOK'
    BY <1>7, <1>8 DEF FreezeEscrow, files, gateway, IInv, TypeOK
<1>10. OneHolder'
    BY <1>5, <1>7, <1>8 DEF IInv, OneHolder, Holds, Pending
<1>11. RefundLocked'
    BY <1>5, <1>7, LocksKeep DEF FreezeEscrow
<1>12. OrdersTrue' /\ NothingReleasedUncharged' /\ LedgerIsTrue'
    BY <1>6, OrdersKeep, ReleasedKeep, LedgerKeep DEF FreezeEscrow, files, gateway
<1> QED BY <1>7, <1>9, <1>10, <1>11, <1>12 DEF IInv

LEMMA AppendLedgerKeeps ==
    ASSUME IInv, NEW s \in Slots, AppendLedger(s)
    PROVE  IInv'
<1> DEFINE c == calls[s]
           o == c.order
           st == AfterAppend(c)
           e == [c EXCEPT !.stage = st, !.n = 0]
<1>1. /\ c \in Call /\ CallTrue(c) /\ c.stage = "appended" /\ o \in Orders
    BY CallOf DEF AppendLedger, CallTrue
<1>2. /\ st \in {"link", "project", "relock", "close", "idle"}
      /\ st = "project" => c.event = "authorized"
      /\ st = "close" => c.op \in Movers
    BY <1>1 DEF AfterAppend, Movers
<1>3. Goto(s, e) \/ Goto(s, Idle)
    BY DEF AppendLedger
<1> HIDE DEF st
<1>4. /\ e \in Call /\ e.op = c.op /\ e.order = o /\ e.stage = st
      /\ e.event = c.event /\ e.was = c.was
    BY <1>1, <1>2 DEF Call, Stages
<1> HIDE DEF e
<1>5. CallTrue(e) /\ (Holds(e) => Holds(c)) /\ ~Locked(e)
    BY <1>1, <1>2, <1>4
       DEF CallTrue, PaidFor, Returning, Reversing, Capture, Holds, Locked, Movers
<1>6. PICK d \in Call : /\ Goto(s, d) /\ CallTrue(d) /\ ~Locked(d)
                        /\ Holds(d) => Holds(c) /\ d.order = o /\ d.op = c.op
    BY <1>3, <1>4, <1>5, IdleCall
<1>7. Grows
    BY DEF AppendLedger, gateway, Grows, Charged
<1>8. /\ calls' \in [Slots -> Call] /\ CallsTrue'
      /\ \A t \in Slots : calls'[t] = IF t = s THEN d ELSE calls[t]
    BY <1>6, <1>7, TruthStays, CallsKeep
<1>9. ledger' \in {ledger, [ledger EXCEPT ![o] = @ \cup {c.event}]}
    BY DEF AppendLedger
<1>10. /\ ledger' \in [Orders -> SUBSET Events]
       /\ \A p \in Orders : ledger'[p] \subseteq ledger[p] \cup
                               (IF p = o THEN {c.event} ELSE {})
    BY <1>1, <1>9 DEF IInv, TypeOK, Call
<1>11. TypeOK'
    BY <1>8, <1>10 DEF AppendLedger, money, files, gateway, IInv, TypeOK
<1>12. LedgerIsTrue'
    BY <1>1, <1>10 DEF AppendLedger, gateway, IInv, LedgerIsTrue, CallTrue, PaidFor,
                       Returning, Reversing, Charged
<1>13. OneHolder' /\ RefundLocked'
    BY <1>6, <1>8, HoldersKeep, LocksKeep DEF AppendLedger, money
<1>14. OrdersTrue' /\ NothingReleasedUncharged'
    BY <1>7, OrdersKeep, ReleasedKeep DEF AppendLedger, money, files, gateway
<1> QED BY <1>8, <1>11, <1>12, <1>13, <1>14 DEF IInv

-----------------------------------------------------------------------------
(* Capture and refund.                                                      *)

\* A refund that lets go of its lock takes it from no other refund.
LEMMA UnlockKeeps ==
    ASSUME IInv, NEW s \in Slots, NEW c \in Call,
           \A t \in Slots : calls'[t] = IF t = s THEN c ELSE calls[t],
           Locked(calls[s]), ~Locked(c),
           refunding' = refunding \ {calls[s].order},
           \A o \in Orders \ {calls[s].order} : payment'[o] = payment[o]
    PROVE  RefundLocked'
<1>1. \A t \in Slots : Locked(calls[t]) => calls[t].order \in Orders
    BY DEF IInv, CallsTrue, CallTrue, Locked
<1>2. \A t \in Slots : Locked(calls'[t]) =>
         t # s /\ calls'[t] = calls[t] /\ calls[t].order # calls[s].order
    BY DEF IInv, RefundLocked
<1>3. ASSUME NEW t \in Slots, Locked(calls'[t])
      PROVE  /\ calls'[t].order \in refunding'
             /\ payment'[calls'[t].order] \in {"AUTHORIZED", "CAPTURED", "CHARGEBACK"}
    BY <1>1, <1>2, <1>3 DEF IInv, RefundLocked
<1>4. ASSUME NEW t \in Slots, NEW u \in Slots, Locked(calls'[t]), Locked(calls'[u]),
             calls'[t].order = calls'[u].order
      PROVE  t = u
    BY <1>2, <1>4 DEF IInv, RefundLocked
<1> QED BY <1>3, <1>4 DEF RefundLocked, Locked

LEMMA LockRefundKeeps ==
    ASSUME IInv, NEW s \in Slots, LockRefund(s)
    PROVE  IInv'
<1> DEFINE c == calls[s]
           o == c.order
           e == [c EXCEPT !.stage = "escrow"]
<1>1. /\ c \in Call /\ CallTrue(c) /\ c.op = "refund" /\ c.stage = "lock"
      /\ o \in Orders /\ c.was \in {"AUTHORIZED", "CAPTURED"}
    BY CallOf DEF LockRefund, At, CallTrue
<1>2. CASE Goto(s, Idle) /\ UNCHANGED refunding
    BY <1>2, EndKeeps DEF LockRefund, money, files, gateway
<1>3. CASE /\ payment[o] = c.was /\ o \notin refunding \cup capturing
           /\ refunding' = refunding \cup {o} /\ Goto(s, e)
    <2>1. /\ e \in Call /\ e.op = "refund" /\ e.order = o /\ e.stage = "escrow"
          /\ e.was = c.was
        BY <1>1, NextStage DEF Stages
    <2> HIDE DEF e
    <2>2. CallTrue(e) /\ ~Holds(e)
        BY <1>1, <2>1
           DEF CallTrue, PaidFor, Returning, Reversing, Capture, Holds, Movers
    <2>3. PICK d \in Call : Goto(s, d) /\ CallTrue(d) /\ ~Holds(d) /\ d.order = o
        BY <1>3, <2>1, <2>2
    <2>4. Grows
        BY DEF LockRefund, gateway, Grows, Charged
    <2>5. /\ calls' \in [Slots -> Call] /\ CallsTrue'
          /\ \A t \in Slots : calls'[t] = IF t = s THEN d ELSE calls[t]
        BY <2>3, <2>4, TruthStays, CallsKeep
    <2>6. TypeOK'
        BY <1>1, <1>3, <2>5 DEF LockRefund, files, gateway, IInv, TypeOK
    <2>7. OneHolder'
        BY <2>3, <2>5, HoldersKeep DEF LockRefund
    <2>8. \A t \in Slots : Locked(calls[t]) => calls[t].order # o
        BY <1>3 DEF IInv, RefundLocked
    <2>9. RefundLocked'
        BY <1>1, <1>3, <2>3, <2>5, <2>8 DEF LockRefund, IInv, RefundLocked, Locked
    <2>10. OrdersTrue' /\ NothingReleasedUncharged' /\ LedgerIsTrue'
        BY <2>4, OrdersKeep, ReleasedKeep, LedgerKeep DEF LockRefund, files, gateway
    <2> QED BY <2>5, <2>6, <2>7, <2>9, <2>10 DEF IInv
<1> QED BY <1>2, <1>3 DEF LockRefund, Stage

\* The row is taken by compare-and-set: the call becomes its one holder.
LEMMA TakeEscrowKeeps ==
    ASSUME IInv, NEW s \in Slots, TakeEscrow(s)
    PROVE  IInv'
<1> DEFINE c == calls[s]
           o == c.order
           e == [c EXCEPT !.stage = "ask"]
<1>1. /\ c \in Call /\ CallTrue(c) /\ c.op \in Movers /\ c.stage = "escrow"
      /\ o \in Orders
    BY CallOf DEF TakeEscrow, TakeRow, CallTrue
<1>2. Grows /\ UNCHANGED <<payment, sent, ledger, delivery, payout>>
    BY DEF TakeEscrow, TakeRow, files, gateway, Grows, Charged
<1>3. OrdersTrue' /\ NothingReleasedUncharged' /\ LedgerIsTrue'
    BY <1>2, OrdersKeep, ReleasedKeep, LedgerKeep
<1>4. \/ /\ escrow.order = o /\ escrow.status \in {"FUNDED", "RELEASED"}
         /\ escrow' = [escrow EXCEPT !.status = Pending(c)]
         /\ Goto(s, e) /\ UNCHANGED <<capturing, refunding>>
      \/ /\ UNCHANGED escrow /\ Goto(s, Idle) /\ capturing' \subseteq capturing
         /\ c.op = "refund" => refunding' = refunding \ {o}
         /\ c.op # "refund" => refunding' = refunding
    BY DEF TakeEscrow, TakeRow, SetRow, Stage, Pending
<1>5. CASE /\ escrow.order = o /\ escrow.status \in {"FUNDED", "RELEASED"}
           /\ escrow' = [escrow EXCEPT !.status = Pending(c)]
           /\ Goto(s, e) /\ UNCHANGED <<capturing, refunding>>
    <2>1. /\ e \in Call /\ e.op = c.op /\ e.order = o /\ e.stage = "ask"
          /\ e.was = c.was
        BY <1>1, NextStage DEF Stages
    <2> HIDE DEF e
    <2>2. CallTrue(e) /\ (Locked(e) => Locked(c))
        BY <1>1, <2>1
           DEF CallTrue, PaidFor, Returning, Reversing, Capture, Locked, Movers
    <2>3. PICK d \in Call : /\ Goto(s, d) /\ CallTrue(d) /\ d.order = o /\ d.op = c.op
                            /\ Locked(d) => Locked(c)
        BY <1>5, <2>1, <2>2
    <2>4. /\ calls' \in [Slots -> Call] /\ CallsTrue'
          /\ \A t \in Slots : calls'[t] = IF t = s THEN d ELSE calls[t]
        BY <1>2, <2>3, TruthStays, CallsKeep
    <2>5. /\ escrow' \in [order: Orders \cup {NoOrder}, status: Rows]
          /\ escrow'.order = o /\ escrow'.status = Pending(d)
        BY <1>5, <2>3 DEF IInv, TypeOK, Rows, Pending
    <2>6. TypeOK'
        BY <1>5, <2>4, <2>5 DEF TakeEscrow, TakeRow, files, gateway, IInv, TypeOK
    <2>7. OneHolder'
        BY <1>5, <2>3, <2>4, <2>5, RowIsMine
    <2>8. RefundLocked'
        BY <1>2, <1>5, <2>3, <2>4, LocksKeep
    <2> QED BY <1>3, <2>4, <2>6, <2>7, <2>8 DEF IInv
<1>6. CASE /\ UNCHANGED escrow /\ Goto(s, Idle) /\ capturing' \subseteq capturing
           /\ c.op = "refund" => refunding' = refunding \ {o}
           /\ c.op # "refund" => refunding' = refunding
    <2>1. /\ calls' \in [Slots -> Call] /\ CallsTrue'
          /\ \A t \in Slots : calls'[t] = IF t = s THEN Idle ELSE calls[t]
        BY <1>2, <1>6, IdleCall, TruthStays, CallsKeep
    <2>2. TypeOK'
        BY <1>6, <2>1 DEF TakeEscrow, TakeRow, files, gateway, IInv, TypeOK
    <2>3. OneHolder'
        BY <1>6, <2>1, IdleCall, HoldersKeep
    <2>4. CASE c.op = "refund"
        <3>1. Locked(c)
            BY <1>1, <2>4 DEF Locked
        <3>2. RefundLocked'
            BY <1>2, <1>6, <2>1, <2>4, <3>1, IdleCall, UnlockKeeps
        <3> QED BY <1>3, <2>1, <2>2, <2>3, <3>2 DEF IInv
    <2>5. CASE c.op # "refund"
        <3>1. RefundLocked'
            BY <1>2, <1>6, <2>1, <2>5, IdleCall, LocksKeep
        <3> QED BY <1>3, <2>1, <2>2, <2>3, <3>1 DEF IInv
    <2> QED BY <2>4, <2>5
<1> QED BY <1>4, <1>5, <1>6

\* PayHere moves the money, with the answer lost or not, or refuses.
LEMMA AskPayHereKeeps ==
    ASSUME IInv, NEW s \in Slots, AskPayHere(s)
    PROVE  IInv'
<1> DEFINE c == calls[s]
           o == c.order
           e(st) == [c EXCEPT !.stage = st]
           to == IF c.op = "refund" THEN "returned" ELSE "merchant"
<1>1. /\ c \in Call /\ CallTrue(c) /\ c.op \in Movers /\ c.stage = "ask"
      /\ o \in Orders
    BY CallOf DEF AskPayHere, Ask, CallTrue
<1>2. PICK st \in {"commit", "undo"} :
         /\ Goto(s, e(st))
         /\ \/ provider' = provider /\ st = "undo"
            \/ /\ provider[o] \in {"held", "merchant"}
               /\ provider' = [provider EXCEPT ![o] = to]
    BY DEF AskPayHere, Ask, Stage
<1>3. /\ e(st) \in Call /\ e(st).op = c.op /\ e(st).order = o /\ e(st).stage = st
      /\ e(st).was = c.was
    BY <1>1, NextStage DEF Stages
<1> HIDE DEF e
<1>4. PICK d \in Call : /\ Goto(s, d) /\ d.op = c.op /\ d.order = o /\ d.stage = st
                        /\ d.was = c.was
    BY <1>2, <1>3
<1>5. /\ provider' \in [Orders -> Places]
      /\ \A p \in Orders \ {o} : provider'[p] = provider[p]
      /\ \/ provider'[o] = provider[o] /\ st = "undo"
         \/ provider[o] \in {"held", "merchant"} /\ provider'[o] = to
    BY <1>1, <1>2 DEF IInv, TypeOK, Places
<1>6. Grows /\ UNCHANGED <<money, ledger, review, files, shown, sent, seen, audit>>
    BY <1>1, <1>5 DEF AskPayHere, Ask, Grows, Charged
<1>7. st = "commit" =>
         Charged(d.order)' /\ (d.op = "refund" => provider'[d.order] = "returned")
    BY <1>4, <1>5 DEF Charged
<1>8. CallTrue(d)'
    BY <1>1, <1>4, <1>7
       DEF CallTrue, PaidFor, Returning, Reversing, Capture, Movers
<1>9. /\ calls' \in [Slots -> Call] /\ CallsTrue'
      /\ \A t \in Slots : calls'[t] = IF t = s THEN d ELSE calls[t]
    BY <1>4, <1>6, <1>8, CallsKeep
<1>10. TypeOK'
    BY <1>5, <1>6, <1>9 DEF money, files, IInv, TypeOK
<1>11. Holds(c) /\ (Locked(d) => Locked(c))
    BY <1>1, <1>4 DEF Holds, Locked
<1>12. OneHolder' /\ RefundLocked'
    BY <1>4, <1>6, <1>9, <1>11, HoldersKeep, LocksKeep DEF money
<1>13. OrdersTrue' /\ NothingReleasedUncharged' /\ LedgerIsTrue'
    BY <1>6, OrdersKeep, ReleasedKeep, LedgerKeep DEF money, files
<1> QED BY <1>9, <1>10, <1>12, <1>13 DEF IInv

LEMMA UndoKeeps ==
    ASSUME IInv, NEW s \in Slots, Undo(s)
    PROVE  IInv'
<1> DEFINE c == calls[s]
           o == c.order
           e == [c EXCEPT !.stage = "reset"]
<1>1. /\ c \in Call /\ CallTrue(c) /\ c.op \in Movers /\ c.stage = "undo"
      /\ o \in Orders /\ Holds(c)
    BY CallOf DEF Undo, CallTrue, Holds
<1>2. e \in Call /\ e.op = c.op /\ e.order = o /\ e.stage = "reset" /\ e.was = c.was
    BY <1>1, NextStage DEF Stages
<1>3. Goto(s, e)
    BY DEF Undo, Stage
<1> HIDE DEF e
<1>4. CallTrue(e) /\ ~Locked(e)
    BY <1>1, <1>2 DEF CallTrue, PaidFor, Returning, Reversing, Capture, Locked, Movers
<1>5. PICK d \in Call : /\ Goto(s, d) /\ CallTrue(d) /\ ~Locked(d)
                        /\ d.order = o /\ d.op = c.op
    BY <1>2, <1>3, <1>4
<1>6. Grows
    BY DEF Undo, gateway, Grows, Charged
<1>7. /\ calls' \in [Slots -> Call] /\ CallsTrue'
      /\ \A t \in Slots : calls'[t] = IF t = s THEN d ELSE calls[t]
    BY <1>5, <1>6, TruthStays, CallsKeep
<1>8. /\ c.op = "refund" => refunding' = refunding \ {o} /\ capturing' = capturing
      /\ c.op # "refund" => refunding' = refunding /\ capturing' \subseteq capturing
    BY DEF Undo
<1>9. TypeOK'
    BY <1>7, <1>8 DEF Undo, files, gateway, IInv, TypeOK
<1>10. OneHolder'
    BY <1>1, <1>5, <1>7, HoldersKeep DEF Undo
<1>11. RefundLocked'
    <2>1. CASE c.op = "refund"
        <3>1. Locked(c)
            BY <1>1, <2>1 DEF Locked
        <3> QED BY <1>5, <1>7, <1>8, <2>1, <3>1, UnlockKeeps DEF Undo
    <2>2. CASE c.op # "refund"
        BY <1>5, <1>7, <1>8, <2>2, LocksKeep DEF Undo
    <2> QED BY <2>1, <2>2
<1>12. OrdersTrue' /\ NothingReleasedUncharged' /\ LedgerIsTrue'
    BY <1>6, OrdersKeep, ReleasedKeep, LedgerKeep DEF Undo, files, gateway
<1> QED BY <1>7, <1>9, <1>10, <1>11, <1>12 DEF IInv

\* The holder gives the row back.
LEMMA ResetEscrowKeeps ==
    ASSUME IInv, NEW s \in Slots, ResetEscrow(s)
    PROVE  IInv'
<1> DEFINE c == calls[s]
<1>1. c \in Call /\ CallTrue(c) /\ c.op \in Movers /\ c.stage = "reset"
    BY CallOf DEF ResetEscrow, SetBack, CallTrue
<1>2. Holds(c) /\ Goto(s, Idle)
    BY <1>1 DEF ResetEscrow, SetBack, Holds
<1>3. Grows
    BY DEF ResetEscrow, SetBack, gateway, Grows, Charged
<1>4. /\ calls' \in [Slots -> Call] /\ CallsTrue'
      /\ \A t \in Slots : calls'[t] = IF t = s THEN Idle ELSE calls[t]
    BY <1>2, <1>3, IdleCall, TruthStays, CallsKeep
<1>5. escrow' \in [order: Orders \cup {NoOrder}, status: Rows]
    BY DEF ResetEscrow, SetBack, SetRow, IInv, TypeOK, Rows
<1>6. TypeOK'
    BY <1>4, <1>5 DEF ResetEscrow, SetBack, files, gateway, IInv, TypeOK
<1>7. OneHolder'
    BY <1>2, <1>4, IdleCall, RowIsMine
<1>8. RefundLocked'
    BY <1>4, IdleCall, LocksKeep DEF ResetEscrow, SetBack
<1>9. OrdersTrue' /\ NothingReleasedUncharged' /\ LedgerIsTrue'
    BY <1>3, OrdersKeep, ReleasedKeep, LedgerKeep
       DEF ResetEscrow, SetBack, files, gateway
<1> QED BY <1>4, <1>6, <1>7, <1>8, <1>9 DEF IInv

\* The order is booked as moved, after the gateway has moved it.
LEMMA CommitKeeps ==
    ASSUME IInv, NEW s \in Slots, Commit(s)
    PROVE  IInv'
<1> DEFINE c == calls[s]
           o == c.order
           st == IF c.op = "refund" THEN "REFUNDED" ELSE "CAPTURED"
           ev == IF c.op = "refund" THEN "refunded" ELSE "captured"
           e == [c EXCEPT !.stage = "append", !.event = ev]
<1>1. /\ c \in Call /\ CallTrue(c) /\ c.op \in Movers /\ c.stage = "commit"
      /\ o \in Orders /\ Holds(c)
      /\ Charged(o) /\ (c.op = "refund" => provider[o] = "returned")
    BY CallOf DEF Commit, CallTrue, Holds, PaidFor, Returning, Movers, Capture, Charged
<1>2. CASE Goto(s, Idle) /\ UNCHANGED <<payment, refunding, capturing>>
    BY <1>2, EndKeeps DEF Commit, money, files, gateway
<1>3. CASE /\ c.op # "refund" => payment[o] = "AUTHORIZED"
           /\ Set(o, st) /\ Goto(s, e)
           /\ c.op = "refund" => refunding' = refunding \ {o} /\ capturing' = capturing
           /\ c.op # "refund" => refunding' = refunding /\ capturing' = capturing \ {o}
    <2>1. /\ e \in Call /\ e.op = c.op /\ e.order = o /\ e.stage = "append"
          /\ e.was = c.was /\ e.event = ev
        BY <1>1 DEF Call, Stages, Events
    <2> HIDE DEF e
    <2>2. CallTrue(e) /\ ~Locked(e)
        BY <1>1, <2>1
           DEF CallTrue, PaidFor, Returning, Reversing, Capture, Locked, Movers
    <2>3. PICK d \in Call : /\ Goto(s, d) /\ CallTrue(d) /\ ~Locked(d)
                            /\ d.order = o /\ d.op = c.op
        BY <1>3, <2>1, <2>2
    <2>4. Grows
        BY DEF Commit, gateway, Grows, Charged
    <2>5. /\ calls' \in [Slots -> Call] /\ CallsTrue'
          /\ \A t \in Slots : calls'[t] = IF t = s THEN d ELSE calls[t]
        BY <2>3, <2>4, TruthStays, CallsKeep
    <2>6. /\ payment' \in [Orders -> Status]
          /\ \A p \in Orders : payment'[p] = IF p = o THEN st ELSE payment[p]
        BY <1>1, <1>3 DEF Set, IInv, TypeOK, Status, Live
    <2>7. TypeOK'
        BY <1>3, <2>5, <2>6 DEF Commit, files, gateway, IInv, TypeOK
    <2>8. OrdersTrue'
        BY <1>1, <2>6 DEF Commit, gateway, IInv, OrdersTrue, Charged
    <2>9. OneHolder'
        BY <1>1, <2>3, <2>5, HoldersKeep DEF Commit
    <2>10. RefundLocked'
        <3>1. CASE c.op = "refund"
            <4>1. Locked(c)
                BY <1>1, <3>1 DEF Locked
            <4> QED BY <1>3, <2>3, <2>5, <2>6, <3>1, <4>1, UnlockKeeps
        <3>2. CASE c.op # "refund"
            BY <1>3, <2>3, <2>5, <2>6, <3>2, LocksKeep
        <3> QED BY <3>1, <3>2
    <2>11. NothingReleasedUncharged' /\ LedgerIsTrue'
        BY <2>4, ReleasedKeep, LedgerKeep DEF Commit, files
    <2> QED BY <2>5, <2>7, <2>8, <2>9, <2>10, <2>11 DEF IInv
<1> QED BY <1>2, <1>3 DEF Commit

\* The holder is done with the row.
LEMMA CloseEscrowKeeps ==
    ASSUME IInv, NEW s \in Slots, CloseEscrow(s)
    PROVE  IInv'
<1> DEFINE c == calls[s]
           st == IF c.op = "verify" THEN "settlement" ELSE "project"
           e == [c EXCEPT !.stage = st]
<1>1. /\ c \in Call /\ CallTrue(c) /\ c.op \in Movers /\ c.stage = "close"
      /\ c.order \in Orders /\ Holds(c)
    BY CallOf DEF CloseEscrow, CallTrue, Holds
<1>2. e \in Call /\ e.op = c.op /\ e.order = c.order /\ e.stage = st /\ e.was = c.was
    BY <1>1, NextStage DEF Stages
<1>3. Goto(s, e)
    BY DEF CloseEscrow, Stage
<1> HIDE DEF e
<1>4. CallTrue(e) /\ ~Holds(e) /\ ~Locked(e)
    BY <1>1, <1>2
       DEF CallTrue, PaidFor, Returning, Reversing, Capture, Locked, Holds, Movers
<1>5. PICK d \in Call : Goto(s, d) /\ CallTrue(d) /\ ~Holds(d) /\ ~Locked(d)
    BY <1>2, <1>3, <1>4
<1>6. Grows
    BY DEF CloseEscrow, gateway, Grows, Charged
<1>7. /\ calls' \in [Slots -> Call] /\ CallsTrue'
      /\ \A t \in Slots : calls'[t] = IF t = s THEN d ELSE calls[t]
    BY <1>5, <1>6, TruthStays, CallsKeep
<1>8. escrow' \in [order: Orders \cup {NoOrder}, status: Rows]
    BY DEF CloseEscrow, SetRow, IInv, TypeOK, Rows
<1>9. TypeOK'
    BY <1>7, <1>8 DEF CloseEscrow, files, gateway, IInv, TypeOK
<1>10. OneHolder'
    BY <1>1, <1>5, <1>7, RowIsMine
<1>11. RefundLocked'
    BY <1>5, <1>7, LocksKeep DEF CloseEscrow
<1>12. OrdersTrue' /\ NothingReleasedUncharged' /\ LedgerIsTrue'
    BY <1>6, OrdersKeep, ReleasedKeep, LedgerKeep DEF CloseEscrow, files, gateway
<1> QED BY <1>7, <1>9, <1>10, <1>11, <1>12 DEF IInv

-----------------------------------------------------------------------------
(* PayHere, the administrators, the reconciliation job and a restart.       *)

\* The gateway moves, and no call does.
LEMMA CallsStay ==
    ASSUME IInv, UNCHANGED <<calls, escrow, refunding, payment>>, Grows
    PROVE  CallsTrue' /\ OneHolder' /\ RefundLocked'
<1>1. ASSUME NEW s \in Slots PROVE CallTrue(calls[s])'
    <2>1. PICK c \in Call : c = calls[s] /\ CallTrue(c)
        BY CallOf
    <2>2. CallTrue(c)' /\ c = calls'[s]
        BY <2>1, TruthStays
    <2> QED BY <2>2 DEF CallTrue, PaidFor, Returning, Reversing, Charged
<1>2. CallsTrue'
    BY <1>1 DEF CallsTrue
<1>3. OneHolder' /\ RefundLocked'
    BY DEF IInv, OneHolder, Holds, Pending, RefundLocked, Locked
<1> QED BY <1>2, <1>3

LEMMA VerdictKeeps ==
    ASSUME IInv, NEW o \in Orders, Verdict(o)
    PROVE  IInv'
<1>1. PICK code \in {"2", "-1", "-2"} :
         /\ sent' = sent \cup {<<o, code>>}
         /\ provider' = IF code = "2"
                        THEN [provider EXCEPT ![o] = "merchant"] ELSE provider
    BY DEF Verdict
<1>2. /\ provider[o] = "client"
      /\ UNCHANGED <<money, ledger, review, files, shown, seen, audit, calls>>
    BY DEF Verdict
<1>3. /\ provider' \in [Orders -> Places]
      /\ \A p \in Orders : provider'[p] = IF p = o /\ code = "2" THEN "merchant"
                                                                ELSE provider[p]
    BY <1>1 DEF IInv, TypeOK, Places
<1>4. Grows
    BY <1>1, <1>2, <1>3 DEF Grows, Charged
<1>5. TypeOK'
    BY <1>1, <1>2, <1>3 DEF money, files, IInv, TypeOK, Codes
<1>6. CallsTrue' /\ OneHolder' /\ RefundLocked'
    BY <1>2, <1>4, CallsStay DEF money
<1>7. OrdersTrue'
    BY <1>1, <1>2, <1>3 DEF money, IInv, OrdersTrue, Charged
<1>8. NothingReleasedUncharged' /\ LedgerIsTrue'
    BY <1>2, <1>4, ReleasedKeep, LedgerKeep DEF files
<1> QED BY <1>5, <1>6, <1>7, <1>8 DEF IInv

LEMMA ChargeBackKeeps ==
    ASSUME IInv, NEW o \in Orders, ChargeBack(o)
    PROVE  IInv'
<1>1. /\ provider[o] = "merchant"
      /\ provider' = [provider EXCEPT ![o] = "reversed"]
      /\ sent' = sent \cup {<<o, "-3">>}
      /\ UNCHANGED <<money, ledger, review, files, shown, seen, audit, calls>>
    BY DEF ChargeBack
<1>2. /\ provider' \in [Orders -> Places]
      /\ \A p \in Orders : provider'[p] = IF p = o THEN "reversed" ELSE provider[p]
    BY <1>1 DEF IInv, TypeOK, Places
<1>3. Grows
    BY <1>1, <1>2 DEF Grows, Charged
<1>4. TypeOK'
    BY <1>1, <1>2 DEF money, files, IInv, TypeOK, Codes
<1>5. CallsTrue' /\ OneHolder' /\ RefundLocked'
    BY <1>1, <1>3, CallsStay DEF money
<1>6. OrdersTrue'
    BY <1>1, <1>2 DEF money, IInv, OrdersTrue, Charged
<1>7. NothingReleasedUncharged' /\ LedgerIsTrue'
    BY <1>1, <1>3, ReleasedKeep, LedgerKeep DEF files
<1> QED BY <1>4, <1>5, <1>6, <1>7 DEF IInv

\* The steps of the administrators and of the reconciliation job.
LEMMA OfficeKeeps ==
    ASSUME IInv, \/ RejectDelivery
                 \/ \E o \in Orders : RecordEditorPayout(o)
                 \/ \E o \in Orders : ReadOrder(o)
                 \/ Reconcile \/ ProviderUnavailable
    PROVE  IInv'
<1>1. /\ UNCHANGED <<money, ledger, gateway, seen, calls>>
      /\ delivery' \in Files /\ paid' = paid /\ review' \subseteq Orders
      /\ delivery' = "RELEASED" => delivery = "RELEASED"
      /\ payout' \in [Orders -> {"none", "UNPAID", "PAID"}]
      /\ \A o \in Orders : payout'[o] # "none" => payout[o] # "none"
      /\ audit' \in [order: Orders \cup {NoOrder}, status: Status]
    <2>1. CASE RejectDelivery
        BY <2>1 DEF RejectDelivery, Files, IInv, TypeOK
    <2>2. CASE \E o \in Orders : RecordEditorPayout(o)
        BY <2>2 DEF RecordEditorPayout, IInv, TypeOK
    <2>3. CASE \E o \in Orders : ReadOrder(o)
        BY <2>3 DEF ReadOrder, Read, files, IInv, TypeOK
    <2>4. CASE Reconcile \/ ProviderUnavailable
        BY <2>4 DEF Reconcile, ProviderUnavailable, NoAudit, files, IInv, TypeOK, Status
    <2> QED BY <2>1, <2>2, <2>3, <2>4
<1>2. Grows
    BY <1>1 DEF gateway, Grows, Charged
<1>3. TypeOK'
    BY <1>1 DEF money, gateway, IInv, TypeOK
<1>4. CallsTrue' /\ OneHolder' /\ RefundLocked'
    BY <1>1, <1>2, CallsStay DEF money
<1>5. OrdersTrue' /\ NothingReleasedUncharged' /\ LedgerIsTrue'
    BY <1>1, <1>2, OrdersKeep, ReleasedKeep, LedgerKeep DEF money, gateway
<1> QED BY <1>3, <1>4, <1>5 DEF IInv

\* A call is gone, and the startup migration may add a missing row.
LEMMA RestartKeeps ==
    ASSUME IInv, NEW s \in Slots, Restart(s)
    PROVE  IInv'
<1>1. /\ escrow' \in [order: Orders \cup {NoOrder}, status: Rows]
      /\ escrow.order = NoOrder \/ escrow' = escrow
      /\ Goto(s, Idle)
      /\ UNCHANGED <<payment, linked, capturing, refunding, ledger, review, files,
                     gateway, seen, audit>>
    BY DEF Restart, IInv, TypeOK, Rows
<1>2. Grows
    BY <1>1 DEF gateway, Grows, Charged
<1>3. /\ calls' \in [Slots -> Call] /\ CallsTrue'
      /\ \A t \in Slots : calls'[t] = IF t = s THEN Idle ELSE calls[t]
    BY <1>1, <1>2, IdleCall, TruthStays, CallsKeep
<1>4. TypeOK'
    BY <1>1, <1>3 DEF files, gateway, IInv, TypeOK
<1>5. OneHolder'
    <2>1. CASE escrow.order = NoOrder
        BY <1>3, <2>1, IdleCall, RowIsMine
    <2>2. CASE escrow' = escrow
        BY <1>3, <2>2, IdleCall, HoldersKeep
    <2> QED BY <1>1, <2>1, <2>2
<1>6. RefundLocked'
    BY <1>1, <1>3, IdleCall, LocksKeep
<1>7. OrdersTrue' /\ NothingReleasedUncharged' /\ LedgerIsTrue'
    BY <1>1, <1>2, OrdersKeep, ReleasedKeep, LedgerKeep DEF files, gateway
<1> QED BY <1>3, <1>4, <1>5, <1>6, <1>7 DEF IInv

LEMMA StutterKeeps ==
    ASSUME IInv, UNCHANGED vars
    PROVE  IInv'
<1>1. Grows
    BY DEF vars, gateway, Grows, Charged
<1>2. TypeOK'
    BY DEF vars, money, files, gateway, IInv, TypeOK
<1> QED
    BY <1>1, <1>2, CallsStay, OrdersKeep, ReleasedKeep, LedgerKeep
       DEF vars, money, files, gateway, IInv

\* Nothing is booked before the first checkout.
LEMMA InitHolds == Init => IInv
<1> SUFFICES ASSUME Init PROVE IInv
    OBVIOUS
<1>1. /\ payment \in [Orders -> {"none", "AUTHORIZED"}]
      /\ escrow \in [order: Orders \cup {NoOrder}, status: {"none", "FUNDED"}]
      /\ ledger \in [Orders -> SUBSET {"created", "authorized"}]
      /\ delivery \in {"READY_FOR_PAYMENT", "PENDING_ADMIN_REVIEW"}
      /\ paid \in BOOLEAN
    <2>1. CASE /\ payment = [o \in Orders |-> "none"]
               /\ escrow = [order |-> NoOrder, status |-> "none"]
               /\ ledger = [o \in Orders |-> {}]
               /\ delivery = "READY_FOR_PAYMENT"
               /\ paid = FALSE
        BY <2>1
    <2>2. ASSUME NEW o \in Orders,
                 payment = [p \in Orders |-> IF p = o THEN "AUTHORIZED" ELSE "none"],
                 escrow = [order |-> o, status |-> "FUNDED"],
                 ledger = [p \in Orders |->
                              IF p = o THEN {"created", "authorized"} ELSE {}],
                 delivery = "PENDING_ADMIN_REVIEW", paid = TRUE
          PROVE  <1>1!:
        BY <2>2
    <2> QED BY <2>1, <2>2 DEF Init
<1>2. /\ provider \in [Orders -> {"client", "held"}] /\ shown \subseteq Orders
      /\ linked = {} /\ capturing = {} /\ refunding = {} /\ review = {}
      /\ payout = [o \in Orders |-> "none"] /\ sent = {} /\ seen = {}
      /\ audit = NoAudit
      /\ calls \in [Slots -> Call] /\ \A s \in Slots : calls[s] = Idle
    BY IdleCall DEF Init
<1>3. TypeOK
    BY <1>1, <1>2 DEF TypeOK, NoAudit, Status, Dropped, Live, Rows, Files, Events, Places
<1>4. CallsTrue /\ OneHolder /\ RefundLocked
    BY <1>2, IdleCall DEF CallsTrue, OneHolder, RefundLocked
<1>5. OrdersTrue /\ NothingReleasedUncharged /\ LedgerIsTrue
    BY <1>1, <1>2 DEF OrdersTrue, NothingReleasedUncharged, LedgerIsTrue
<1> QED BY <1>3, <1>4, <1>5 DEF IInv

-----------------------------------------------------------------------------
\* IInv is an inductive invariant of the delivery's checkout.
THEOREM Invariance == Spec => []IInv
<1>1. ASSUME IInv, [Next]_vars PROVE IInv'
    <2>1. ASSUME NEW s \in Slots, Checkout(s) PROVE IInv'
        BY <1>1, <2>1, CreatePaymentKeeps, CancelStalePendingKeeps, InsertOrderKeeps,
           LinkDeliveryKeeps, ReadLedgerKeeps, AppendLedgerKeeps DEF Checkout
    <2>2. ASSUME NEW s \in Slots, Notify(s) PROVE IInv'
        BY <1>1, <2>2, ReceiveKeeps, SettleOrderKeeps, FundEscrowKeeps,
           FreezeEscrowKeeps, ReleaseDeliveryKeeps, MarkPaidKeeps, LockDeliveryKeeps,
           TransitionProjectKeeps DEF Notify
    <2>3. ASSUME NEW s \in Slots, Settle(s) PROVE IInv'
        BY <1>1, <2>3, BeginCaptureKeeps, LockCaptureKeeps, BeginRefundKeeps,
           LockRefundKeeps, TakeEscrowKeeps, AskPayHereKeeps, UndoKeeps,
           ResetEscrowKeeps, CommitKeeps, CloseEscrowKeeps, RecordSettlementKeeps,
           VerifyDeliveryKeeps DEF Settle
    <2> QED
        BY <1>1, <2>1, <2>2, <2>3, VerdictKeeps, ChargeBackKeeps, OfficeKeeps,
           RestartKeeps, StutterKeeps DEF Next
<1> QED BY <1>1, InitHolds, PTL DEF Spec

\* Every variable keeps its type.
THEOREM TypeCorrect == Spec => []TypeOK
<1>1. IInv => TypeOK
    BY DEF IInv
<1> QED BY <1>1, Invariance, PTL

\* Nothing is given away: no delivery is unlocked and no editor is owed money
\* before the gateway has taken the money of an order.
THEOREM ReleasedIsCharged == Spec => []NothingReleasedUncharged
<1>1. IInv => NothingReleasedUncharged
    BY DEF IInv
<1> QED BY <1>1, Invariance, PTL

\* The ledger claims nothing the gateway has not done.
THEOREM LedgerClaimsAreTrue == Spec => []LedgerIsTrue
<1>1. IInv => LedgerIsTrue
    BY DEF IInv
<1> QED BY <1>1, Invariance, PTL

\* PayHere is asked to move the money of an order by one call at a time: the
\* protection row has one holder, although the locks on the order are two.
THEOREM MovesExclude == Spec => []OneMoveAtATime
<1>1. ASSUME IInv, NEW s \in Slots, calls[s].stage = "ask"
      PROVE  Holds(calls[s])
    BY <1>1 DEF IInv, CallsTrue, CallTrue, Holds
<1>2. IInv => OneMoveAtATime
    BY <1>1 DEF IInv, OneHolder, OneMoveAtATime
<1> QED BY <1>2, Invariance, PTL

-----------------------------------------------------------------------------
(* The checkout implements Escrow: an order is an order, the gateway is the *)
(* provider, and the book is what the order's status says.                  *)

Bar == [o \in Orders |-> Booked(payment[o])]

\* A write to an order is a write to its book.
LEMMA Booking ==
    ASSUME IInv, NEW o \in Orders, NEW st \in Status,
           payment' = [payment EXCEPT ![o] = st]
    PROVE  Bar' = [Bar EXCEPT ![o] = Booked(st)]
<1>1. \A p \in Orders : payment'[p] = IF p = o THEN st ELSE payment[p]
    BY DEF IInv, TypeOK
<1>2. \A p \in Orders : Bar'[p] = IF p = o THEN Booked(st) ELSE Bar[p]
    BY <1>1 DEF Bar, Booked
<1>3. Bar = [p \in Orders |-> Bar[p]] /\ Bar' = [p \in Orders |-> Bar'[p]]
    BY DEF Bar
<1> QED BY <1>2, <1>3

\* A write that the book does not tell from the status before it.
LEMMA Rebooking ==
    ASSUME IInv, NEW o \in Orders, NEW st \in Status,
           payment' = [payment EXCEPT ![o] = st], Booked(st) = Booked(payment[o])
    PROVE  UNCHANGED Bar
<1>1. Bar' = [Bar EXCEPT ![o] = Booked(st)] /\ Bar[o] = Booked(payment[o])
    BY Booking DEF Bar
<1> QED BY <1>1 DEF Bar

\* A checkout opens or drops books.
LEMMA CheckoutRefines ==
    ASSUME IInv, NEW s \in Slots, Checkout(s)
    PROVE  Promise!Next \/ UNCHANGED <<provider, Bar>>
<1>1. CASE CancelStalePending(s)
    <2>1. calls[s].order \in Orders
        BY <1>1, CallOf DEF CancelStalePending, At, CallTrue
    <2>2. CASE payment[calls[s].order] = "PENDING" /\ Set(calls[s].order, "CANCELLED")
        <3>1. PICK o \in Orders : payment[o] = "PENDING" /\ Set(o, "CANCELLED")
            BY <2>1, <2>2
        <3>2. Bar' = [Bar EXCEPT ![o] = "dropped"] /\ Bar[o] = "open"
            BY <3>1, Booking DEF Set, Status, Dropped, Booked, Bar
        <3>3. Promise!Drop(o)
            BY <1>1, <3>2 DEF Promise!Drop, Promise!Write, Bar, CancelStalePending, gateway
        <3> QED BY <3>3 DEF Promise!Next
    <2>3. CASE UNCHANGED payment
        BY <1>1, <2>3 DEF CancelStalePending, gateway, Bar
    <2> QED BY <1>1, <2>2, <2>3 DEF CancelStalePending
<1>2. CASE InsertOrder(s)
    <2>1. ASSUME NEW o \in Orders, payment[o] = "none", Set(o, "PENDING")
          PROVE  UNCHANGED Bar
        <3>1. "PENDING" \in Status /\ Booked("PENDING") = Booked("none")
            <4>1. "PENDING" \in Status
                BY DEF Status, Live
            <4>2. Booked("PENDING") = "open" /\ Booked("none") = "open"
                BY DEF Booked, Dropped
            <4> QED BY <4>1, <4>2
        <3> QED BY <2>1, <3>1, Rebooking DEF Set
    <2> QED BY <1>2, <2>1 DEF InsertOrder, gateway, Bar
<1>3. CASE \/ CreatePayment(s) \/ LinkDelivery(s) \/ ReadLedger(s) \/ AppendLedger(s)
    BY <1>3 DEF CreatePayment, LinkDelivery, ReadLedger, AppendLedger, money, gateway, Bar
<1> QED BY <1>1, <1>2, <1>3 DEF Checkout

\* A callback books what PayHere has reported, or freezes it.
LEMMA NotifyRefines ==
    ASSUME IInv, NEW s \in Slots, Notify(s)
    PROVE  Promise!Next \/ UNCHANGED <<provider, Bar>>
<1>1. CASE SettleOrder(s)
    <2> DEFINE c == calls[s]
    <2>1. c \in Call /\ c.order \in Orders /\ <<c.order, c.code>> \in sent
        BY <1>1, CallOf DEF SettleOrder, Settles, At, CallTrue
    <2>2. CASE UNCHANGED payment
        BY <1>1, <2>2 DEF SettleOrder, Settles, gateway, Bar
    <2>3. CASE /\ payment[c.order] \in IF c.code = "-3" THEN Live ELSE {"PENDING"}
               /\ Set(c.order, NewStatus(c.code))
        <3>1. PICK o \in Orders, code \in Codes :
                 /\ payment[o] \in IF code = "-3" THEN Live ELSE {"PENDING"}
                 /\ Set(o, NewStatus(code)) /\ <<o, code>> \in sent
            BY <2>1, <2>3 DEF Call
        <3>2. NewStatus(code) \in Status /\ provider' = provider
            BY <1>1 DEF NewStatus, Status, Dropped, Live, Codes, SettleOrder, Settles, gateway
        <3>3. Bar' = [Bar EXCEPT ![o] = Booked(NewStatus(code))]
              /\ Bar[o] = Booked(payment[o])
            BY <3>1, <3>2, Booking DEF Set, Bar
        <3>4. CASE code = "2"
            <4>1. provider[o] # "client"
                BY <3>1, <3>4 DEF IInv, OrdersTrue, Charged
            <4>2. Booked(payment[o]) = "open" /\ Booked(NewStatus(code)) = "held"
                BY <3>1, <3>4 DEF NewStatus, Booked, Dropped
            <4>3. Promise!Book(o)
                BY <3>2, <3>3, <4>1, <4>2 DEF Promise!Book, Promise!Write, Bar
            <4> QED BY <4>3 DEF Promise!Next
        <3>5. CASE code \in {"-1", "-2"}
            <4>1. Booked(payment[o]) = "open" /\ Booked(NewStatus(code)) = "dropped"
                BY <3>1, <3>5 DEF NewStatus, Booked, Dropped
            <4>2. Promise!Drop(o)
                BY <3>2, <3>3, <4>1 DEF Promise!Drop, Promise!Write, Bar
            <4> QED BY <4>2 DEF Promise!Next
        <3>6. CASE code = "-3"
            <4>1. provider[o] = "reversed"
                BY <3>1, <3>6 DEF IInv, OrdersTrue
            <4>2. Booked(payment[o]) \in {"open", "held"} /\ Booked(NewStatus(code)) = "reversed"
                BY <3>1, <3>6 DEF NewStatus, Booked, Dropped, Live
            <4>3. Promise!BookReversal(o)
                BY <3>2, <3>3, <4>1, <4>2 DEF Promise!BookReversal, Promise!Write, Bar
            <4> QED BY <4>3 DEF Promise!Next
        <3> QED BY <3>4, <3>5, <3>6 DEF Codes
    <2> QED BY <1>1, <2>2, <2>3 DEF SettleOrder, Settles
<1>2. CASE \/ Receive(s) \/ FundEscrow(s) \/ FreezeEscrow(s) \/ ReleaseDelivery(s)
           \/ MarkPaid(s) \/ LockDelivery(s) \/ TransitionProject(s)
    BY <1>2 DEF Receive, FundEscrow, FreezeEscrow, ReleaseDelivery, MarkPaid,
                LockDelivery, TransitionProject, money, gateway, Bar
<1> QED BY <1>1, <1>2 DEF Notify

\* The gateway's own moves, at a call's request or not.
LEMMA GatewayMoves ==
    ASSUME NEW o \in Orders, NEW to \in {"merchant", "returned", "reversed"},
           provider' = [provider EXCEPT ![o] = to], UNCHANGED payment,
           \/ to = "merchant" /\ provider[o] \in {"client", "held"}
           \/ to = "returned" /\ provider[o] \in {"held", "merchant"}
           \/ to = "reversed" /\ provider[o] = "merchant"
    PROVE  Promise!Next
<1>1. UNCHANGED Bar
    BY DEF Bar
<1>2. Promise!Take(o) \/ Promise!Return(o) \/ Promise!Reverse(o)
    BY <1>1 DEF Promise!Take, Promise!Return, Promise!Reverse, Promise!Move, Bar
<1> QED BY <1>2 DEF Promise!Next

\* A capture holds the book as it is, a refund returns it.
LEMMA SettleRefines ==
    ASSUME IInv, NEW s \in Slots, Settle(s)
    PROVE  Promise!Next \/ UNCHANGED <<provider, Bar>>
<1> DEFINE c == calls[s]
           o == c.order
<1>1. CASE AskPayHere(s)
    <2>1. o \in Orders /\ UNCHANGED payment
        BY <1>1, CallOf DEF AskPayHere, Ask, CallTrue, money
    <2>2. CASE UNCHANGED provider
        BY <2>1, <2>2 DEF Bar
    <2>3. CASE /\ c.op = "refund" /\ provider[o] \in {"held", "merchant"}
               /\ provider' = [provider EXCEPT ![o] = "returned"]
        <3> HIDE DEF o
        <3> QED BY <2>1, <2>3, GatewayMoves
    <2>4. CASE /\ c.op # "refund" /\ provider[o] = "held"
               /\ provider' = [provider EXCEPT ![o] = "merchant"]
        <3> HIDE DEF o
        <3> QED BY <2>1, <2>4, GatewayMoves
    <2> QED BY <1>1, <2>2, <2>3, <2>4 DEF AskPayHere, Ask
<1>2. CASE Commit(s)
    <2>1. o \in Orders /\ UNCHANGED provider /\ CallTrue(c) /\ c.stage = "commit"
        BY <1>2, CallOf DEF Commit, CallTrue, gateway
    <2>2. CASE UNCHANGED payment
        BY <2>1, <2>2 DEF Bar
    <2>3. CASE c.op = "refund" /\ Set(o, "REFUNDED")
        <3>1. provider[o] = "returned"
            BY <2>1, <2>3 DEF CallTrue, Returning
        <3>2. payment[o] \in {"AUTHORIZED", "CAPTURED"}
            BY <2>1, <2>3, <3>1 DEF IInv, RefundLocked, OrdersTrue, Locked
        <3>3. PICK p \in Orders : /\ provider[p] = "returned" /\ Set(p, "REFUNDED")
                                  /\ payment[p] \in {"AUTHORIZED", "CAPTURED"}
            BY <2>1, <2>3, <3>1, <3>2
        <3>4. Booked(payment[p]) = "held" /\ Booked("REFUNDED") = "returned"
            BY <3>3 DEF Booked, Dropped
        <3>5. Bar' = [Bar EXCEPT ![p] = "returned"] /\ Bar[p] = "held"
            BY <3>3, <3>4, Booking DEF Set, Status, Bar
        <3>6. Promise!BookReturn(p)
            BY <2>1, <3>3, <3>5 DEF Promise!BookReturn, Promise!Write, Bar
        <3> QED BY <3>6 DEF Promise!Next
    <2>4. CASE payment[o] = "AUTHORIZED" /\ Set(o, "CAPTURED")
        <3>1. PICK p \in Orders : payment[p] = "AUTHORIZED" /\ Set(p, "CAPTURED")
            BY <2>1, <2>4
        <3>2. Booked(payment[p]) = Booked("CAPTURED") /\ "CAPTURED" \in Status
            BY <3>1 DEF Booked, Dropped, Status, Live
        <3>3. UNCHANGED Bar
            BY <3>1, <3>2, Rebooking DEF Set
        <3> QED BY <2>1, <3>3
    <2> QED BY <1>2, <2>2, <2>3, <2>4 DEF Commit
<1>3. CASE \/ BeginCapture(s) \/ LockCapture(s) \/ BeginRefund(s) \/ LockRefund(s)
           \/ TakeEscrow(s) \/ Undo(s) \/ ResetEscrow(s) \/ CloseEscrow(s)
           \/ RecordSettlement(s) \/ VerifyDelivery(s)
    <2>1. UNCHANGED <<payment, provider>>
        BY <1>3 DEF BeginCapture, LockCapture, TakeCaptureLock, BeginRefund, LockRefund,
                    TakeEscrow, TakeRow, Undo, ResetEscrow, SetBack, CloseEscrow,
                    RecordSettlement, VerifyDelivery, money, gateway
    <2> QED BY <2>1 DEF Bar
<1> QED BY <1>1, <1>2, <1>3 DEF Settle

\* Every step of the checkout is a step of Escrow or leaves it as it is.
LEMMA StepRefines ==
    ASSUME IInv, [Next]_vars
    PROVE  Promise!Next \/ UNCHANGED <<provider, Bar>>
<1>1. ASSUME NEW s \in Slots, Checkout(s) \/ Notify(s) \/ Settle(s)
      PROVE  Promise!Next \/ UNCHANGED <<provider, Bar>>
    BY <1>1, CheckoutRefines, NotifyRefines, SettleRefines
<1>2. ASSUME NEW o \in Orders, Verdict(o)
      PROVE  Promise!Next \/ UNCHANGED <<provider, Bar>>
    <2>1. UNCHANGED payment
        BY <1>2 DEF Verdict, money
    <2>2. CASE UNCHANGED provider
        BY <2>1, <2>2 DEF Bar
    <2>3. CASE provider' = [provider EXCEPT ![o] = "merchant"]
        BY <1>2, <2>1, <2>3, GatewayMoves DEF Verdict
    <2> QED BY <1>2, <2>2, <2>3 DEF Verdict
<1>3. ASSUME NEW o \in Orders, ChargeBack(o) PROVE Promise!Next
    BY <1>3, GatewayMoves DEF ChargeBack, money
<1>4. CASE \/ \E o \in Orders : ReadOrder(o) \/ RecordEditorPayout(o)
           \/ \E s \in Slots : Restart(s)
           \/ RejectDelivery \/ Reconcile \/ ProviderUnavailable
           \/ UNCHANGED vars
    <2>1. UNCHANGED <<payment, provider>>
        BY <1>4 DEF ReadOrder, Read, RecordEditorPayout, RejectDelivery, Restart,
                    Reconcile, ProviderUnavailable, money, gateway, vars
    <2> QED BY <2>1 DEF Bar
<1> QED BY <1>1, <1>2, <1>3, <1>4 DEF Next

\* Every book is open and every order untouched at first.
LEMMA InitRefines == Init => Promise!Init
<1> SUFFICES ASSUME Init PROVE Promise!Init
    OBVIOUS
<1>1. \A o \in Orders : /\ payment[o] \in {"none", "AUTHORIZED"}
                        /\ provider[o] = IF payment[o] = "AUTHORIZED" THEN "held"
                                                                      ELSE "client"
    BY DEF Init
<1>2. provider \in [Orders -> {"client", "held"}]
    BY <1>1 DEF Init
<1>3. \A o \in Orders : Bar[o] = IF provider[o] = "held" THEN "held" ELSE "open"
    BY <1>1 DEF Bar, Booked, Dropped
<1>4. Bar = [o \in Orders |-> IF provider[o] = "held" THEN "held" ELSE "open"]
    BY <1>3 DEF Bar
<1> QED BY <1>2, <1>4 DEF Promise!Init, Bar

\* The books follow the gateway: the checkout, capture and refund of every
\* order, with all their races and crashes, implement Escrow.
THEOREM Implementation == Spec => BooksFollowGateway
<1>1. Init => Promise!Init
    BY InitRefines
<1>2. IInv /\ [Next]_vars => [Promise!Next]_(Promise!vars)
    BY StepRefines DEF Promise!vars, Bar
<1> QED BY <1>1, <1>2, Invariance, PTL DEF Spec, BooksFollowGateway, Promise!Spec
=============================================================================

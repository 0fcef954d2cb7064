-------------------------- MODULE Proposals_proofs --------------------------
(* What Proposals guarantees for every number of concurrent calls and of    *)
(* revisions, with calls killed at any point.                               *)
EXTENDS Proposals, TLAPS

\* What a call in flight knows of the revision it has read.
CallOK(c) ==
    /\ c.version <= version
    /\ c.stage = "save" => c.version + 1 \in Revisions
    /\ c.stage \in {"flag", "finalize", "order"} => c.version \in Revisions
    /\ c.stage = "flag" => c.version \in consent[c.by]
    /\ c.stage = "order" => \A m \in Members : c.version \in consent[m]

CallsOK == \A s \in Slots : CallOK(calls[s])

\* A flag stands for a consent the member has given.
FlagsAreConsent ==
    \A v \in Revisions, m \in Members : history[v][m] => v \in consent[m]

IInv == TypeOK /\ CallsOK /\ FlagsAreConsent /\ FlagsMatchHistory
        /\ AcceptedByBoth /\ OrdersAreAgreed

-----------------------------------------------------------------------------
\* A call has ended or moved on, consents have only been added, and the
\* revision has not gone down: no other call is disturbed.
LEMMA OthersStand ==
    ASSUME IInv, NEW s \in Slots, NEW c \in Call,
           calls' = [calls EXCEPT ![s] = c], CallOK(c)',
           version' \in 0 .. MaxRevisions, version <= version',
           \A m \in Members : consent[m] \subseteq consent'[m]
    PROVE  calls' \in [Slots -> Call] /\ CallsOK'
<1>1. /\ calls' \in [Slots -> Call]
      /\ \A t \in Slots : calls'[t] = IF t = s THEN c ELSE calls[t]
    BY DEF IInv, TypeOK
<1>2. ASSUME NEW t \in Slots, t # s
      PROVE  CallOK(calls[t])'
  <2>1. calls[t] \in Call /\ calls'[t] = calls[t] /\ CallOK(calls[t])
    BY <1>1, <1>2 DEF IInv, TypeOK, CallsOK
  <2> QED
    BY <2>1, ProposalAssumption DEF CallOK, Call, IInv, TypeOK
<1> QED BY <1>1, <1>2 DEF CallsOK

\* The same when nothing was submitted and no consent was given.
LEMMA OthersStay ==
    ASSUME IInv, NEW s \in Slots, NEW c \in Call,
           calls' = [calls EXCEPT ![s] = c], CallOK(c)',
           UNCHANGED <<version, consent>>
    PROVE  calls' \in [Slots -> Call] /\ CallsOK'
<1>1. version' \in 0 .. MaxRevisions /\ version <= version'
    BY ProposalAssumption DEF IInv, TypeOK
<1>2. \A m \in Members : consent[m] \subseteq consent'[m]
    OBVIOUS
<1> QED BY <1>1, <1>2, OthersStand

\* A call that has answered.
LEMMA IdleIsCall == Idle \in Call /\ (IInv => CallOK(Idle))
BY ProposalAssumption DEF Idle, Call, Stages, Members, CallOK, IInv, TypeOK

\* The handlers that read.
LEMMA RequestsKeep ==
    ASSUME IInv, NEW s \in Slots, NEW m \in Members, Requests(s, m)
    PROVE  IInv'
<1>0. TypeOK
    BY DEF IInv
<1>1. CASE Propose(s, m)
  <2> DEFINE e == [stage |-> "save", by |-> m, version |-> version]
  <2>0. e \in Call /\ e.stage = "save" /\ e.version = version
    BY <1>0 DEF Call, Stages, TypeOK
  <2>e. /\ calls' = [calls EXCEPT ![s] = e]
        /\ version + 1 \in Revisions
        /\ UNCHANGED <<terms, status, delivered, order, captured, consent>>
    BY <1>0, <1>1, ProposalAssumption DEF Propose, Begin, TypeOK, Revisions
  <2> HIDE DEF e
  <2>1. PICK c \in Call :
           /\ c.stage = "save" /\ c.version = version
           /\ calls' = [calls EXCEPT ![s] = c]
           /\ version + 1 \in Revisions
           /\ UNCHANGED <<terms, status, delivered, order, captured, consent>>
    BY <2>0, <2>e
  <2>2. UNCHANGED <<version, top, history, proposal_status, consent>>
    BY <2>1 DEF terms
  <2>3. CallOK(c)'
    BY <1>0, <2>1, <2>2, ProposalAssumption DEF CallOK, TypeOK
  <2>4. calls' \in [Slots -> Call] /\ CallsOK'
    BY <2>1, <2>2, <2>3, OthersStay
  <2>5. TypeOK'
    BY <1>0, <2>1, <2>2, <2>4 DEF TypeOK
  <2> QED
    BY <2>1, <2>2, <2>4, <2>5
       DEF IInv, FlagsAreConsent, FlagsMatchHistory, AcceptedByBoth,
           OrdersAreAgreed
<1>2. CASE AcceptProposal(s, m)
  <2> DEFINE e == [stage |-> "flag", by |-> m, version |-> version]
  <2>0. e \in Call /\ e.stage = "flag" /\ e.version = version /\ e.by = m
    BY <1>0 DEF Call, Stages, TypeOK
  <2>e. /\ calls' = [calls EXCEPT ![s] = e]
        /\ version \in Revisions
        /\ consent' = [consent EXCEPT ![m] = @ \cup {version}]
        /\ UNCHANGED <<terms, status, delivered, order, captured>>
    BY <1>0, <1>2, ProposalAssumption
       DEF AcceptProposal, Begin, TypeOK, Revisions
  <2> HIDE DEF e
  <2>1. PICK c \in Call :
           /\ c.stage = "flag" /\ c.version = version /\ c.by = m
           /\ calls' = [calls EXCEPT ![s] = c]
           /\ version \in Revisions
           /\ consent' = [consent EXCEPT ![m] = @ \cup {version}]
           /\ UNCHANGED <<terms, status, delivered, order, captured>>
    BY <2>0, <2>e
  <2>2. UNCHANGED <<version, top, history, proposal_status>>
    BY <2>1 DEF terms
  <2>3. /\ consent' \in [Members -> SUBSET Revisions]
        /\ \A n \in Members : consent[n] \subseteq consent'[n]
        /\ version \in consent'[m]
    BY <1>0, <2>1 DEF TypeOK
  <2>4. CallOK(c)'
    BY <1>0, <2>1, <2>2, <2>3, ProposalAssumption DEF CallOK, TypeOK
  <2>v. version' \in 0 .. MaxRevisions /\ version <= version'
    BY <1>0, <2>2, ProposalAssumption DEF TypeOK
  <2>5. calls' \in [Slots -> Call] /\ CallsOK'
    BY <2>1, <2>3, <2>4, <2>v, OthersStand
  <2>6. TypeOK'
    BY <1>0, <2>1, <2>2, <2>3, <2>5 DEF TypeOK
  <2>7. FlagsAreConsent' /\ FlagsMatchHistory' /\ AcceptedByBoth'
        /\ OrdersAreAgreed'
    BY <2>1, <2>2, <2>3
       DEF IInv, FlagsAreConsent, FlagsMatchHistory, AcceptedByBoth,
           OrdersAreAgreed
  <2> QED BY <2>5, <2>6, <2>7 DEF IInv
<1> QED BY <1>1, <1>2 DEF Requests

\* The updates of the document, and the order.
LEMMA UpdatesKeep ==
    ASSUME IInv, NEW s \in Slots, Updates(s)
    PROVE  IInv'
<1> DEFINE c == calls[s]
<1>0. TypeOK /\ c \in Call /\ CallOK(c) /\ Idle \in Call
      /\ c.by \in Members /\ version \in Nat /\ c.version \in Nat
    BY IdleIsCall, ProposalAssumption DEF IInv, TypeOK, CallsOK, Call
<1>i. Idle.stage = "idle" /\ Idle.version = 0
    BY DEF Idle
<1>1. CASE SaveProposal(s) /\ version = c.version
  <2> DEFINE new == c.version + 1
             flags == Only(c.by)
  <2>1. /\ c.stage = "save" /\ new \in Revisions /\ new \in 0 .. MaxRevisions
        /\ flags \in Flags
        /\ \A m \in Members : flags[m] => m = c.by
    <3>1. c.stage = "save" /\ new \in Revisions
      BY <1>0, <1>1 DEF SaveProposal, Save, CallOK
    <3>2. flags \in Flags /\ \A m \in Members : flags[m] => m = c.by
      BY DEF Only, Flags
    <3> QED BY <3>1, <3>2, ProposalAssumption DEF Revisions
  <2>2. /\ version' = new /\ top' = flags
        /\ history' = [history EXCEPT ![new] = flags]
        /\ proposal_status' \in {"awaiting_client", "awaiting_editor"}
        /\ consent' = [consent EXCEPT ![c.by] = @ \cup {new}]
        /\ calls' = [calls EXCEPT ![s] = Idle]
        /\ UNCHANGED <<status, delivered, order, captured>>
    BY <1>1 DEF SaveProposal, Save, End
  <2> HIDE DEF flags
  <2>3. /\ consent' \in [Members -> SUBSET Revisions]
        /\ \A m \in Members : consent[m] \subseteq consent'[m]
        /\ new \in consent'[c.by]
        /\ history' \in [Revisions -> Flags]
        /\ \A v \in Revisions :
              history'[v] = IF v = new THEN flags ELSE history[v]
    BY <1>0, <2>1, <2>2 DEF TypeOK
  <2>4. CallOK(Idle)'
    BY <1>i, <2>1, <2>2 DEF CallOK
  <2>5. version <= version'
    BY <1>0, <1>1, <2>2
  <2>6. calls' \in [Slots -> Call] /\ CallsOK'
    BY <1>0, <2>1, <2>2, <2>3, <2>4, <2>5, OthersStand
  <2>7. TypeOK'
    BY <1>0, <2>1, <2>2, <2>3, <2>6 DEF TypeOK
  <2>8. FlagsAreConsent'
    BY <2>1, <2>3 DEF IInv, FlagsAreConsent
  <2>9. FlagsMatchHistory' /\ AcceptedByBoth' /\ OrdersAreAgreed'
    BY <2>1, <2>2, <2>3
       DEF IInv, FlagsMatchHistory, AcceptedByBoth, OrdersAreAgreed
  <2> QED BY <2>6, <2>7, <2>8, <2>9 DEF IInv
<1>2. CASE FlagAcceptance(s) /\ version = c.version /\ ~top[c.by]
  <2>0. [c EXCEPT !.stage = "finalize"] \in Call
    BY <1>0 DEF Call, Stages
  <2>1. /\ c.stage = "flag" /\ c.version \in Revisions
        /\ c.version \in consent[c.by]
    BY <1>0, <1>2 DEF FlagAcceptance, SetFlag, CallOK
  <2>2. /\ top' = [top EXCEPT ![c.by] = TRUE]
        /\ history' = [history EXCEPT ![c.version][c.by] = TRUE]
        /\ calls' = [calls EXCEPT ![s].stage = "finalize"]
        /\ UNCHANGED <<version, proposal_status, status, delivered, order,
                       captured, consent>>
    BY <1>2 DEF FlagAcceptance, SetFlag, Goto
  <2>3. PICK d \in Call :
           /\ calls' = [calls EXCEPT ![s] = d]
           /\ d.stage = "finalize" /\ d.version = c.version
    BY <1>0, <2>0, <2>2 DEF Call
  <2>4. /\ top' \in Flags
        /\ \A m \in Members : top'[m] <=> (m = c.by \/ top[m])
        /\ history' \in [Revisions -> Flags]
        /\ \A v \in Revisions, m \in Members :
              history'[v][m] <=> (\/ v = c.version /\ m = c.by
                                 \/ history[v][m])
    <3>1. top \in Flags /\ history \in [Revisions -> Flags]
      BY <1>0 DEF TypeOK
    <3>2. top' \in Flags /\ \A m \in Members : top'[m] <=> (m = c.by \/ top[m])
      BY <1>0, <2>2, <3>1 DEF Flags
    <3>3. /\ [history[c.version] EXCEPT ![c.by] = TRUE] \in Flags
          /\ \A m \in Members : [history[c.version] EXCEPT ![c.by] = TRUE][m]
                <=> (m = c.by \/ history[c.version][m])
      BY <1>0, <2>1, <3>1 DEF Flags
    <3>4. history' =
            [history EXCEPT ![c.version] = [history[c.version] EXCEPT ![c.by] = TRUE]]
      BY <2>2
    <3>5. /\ history' \in [Revisions -> Flags]
          /\ \A v \in Revisions : history'[v] =
                IF v = c.version THEN [history[c.version] EXCEPT ![c.by] = TRUE]
                                 ELSE history[v]
      BY <2>1, <3>1, <3>3, <3>4
    <3> QED BY <3>2, <3>3, <3>5
  <2>5. CallOK(d)'
    BY <1>0, <2>1, <2>2, <2>3 DEF CallOK
  <2>6. calls' \in [Slots -> Call] /\ CallsOK'
    BY <2>1, <2>2, <2>3, <2>5, OthersStay
  <2>7. TypeOK'
    BY <1>0, <2>2, <2>4, <2>6 DEF TypeOK
  <2>8. FlagsAreConsent'
    BY <2>1, <2>2, <2>4 DEF IInv, FlagsAreConsent
  <2>9. FlagsMatchHistory'
    <3>1. version \in Revisions /\ top = history[version]
      BY <1>0, <1>2, <2>1 DEF IInv, FlagsMatchHistory, Revisions
    <3>2. \A m \in Members : top'[m] <=> history'[version][m]
      BY <1>2, <2>4, <3>1
    <3>3. top' \in Flags /\ history'[version] \in Flags
      BY <2>4, <3>1
    <3>4. \A m \in Members : top'[m] = history'[version][m]
      BY <3>2, <3>3 DEF Flags
    <3> QED BY <2>2, <3>3, <3>4 DEF FlagsMatchHistory, Flags
  <2>10. AcceptedByBoth' /\ OrdersAreAgreed'
    BY <2>2, <2>4 DEF IInv, AcceptedByBoth, OrdersAreAgreed
  <2> QED BY <2>6, <2>7, <2>8, <2>9, <2>10 DEF IInv
<1>3. CASE FinalizeProposal(s)
  <2>1. /\ c.stage = "finalize" /\ c.version \in Revisions
        /\ calls' = [calls EXCEPT ![s] = Idle]
        /\ UNCHANGED <<version, top, history, status, delivered, order,
                       captured, consent>>
        /\ \/ proposal_status' = proposal_status
           \/ /\ proposal_status' = "accepted"
              /\ version = c.version /\ top["client"] /\ top["editor"]
    BY <1>0, <1>3 DEF FinalizeProposal, Finalize, End, CallOK
  <2>2. CallOK(Idle)'
    BY <2>1, IdleIsCall DEF CallOK
  <2>3. calls' \in [Slots -> Call] /\ CallsOK'
    BY <1>0, <2>1, <2>2, OthersStay
  <2>4. TypeOK'
    BY <1>0, <2>1, <2>3 DEF TypeOK
  <2>5. AcceptedByBoth'
    <3>1. CASE proposal_status' = proposal_status
      BY <2>1, <3>1 DEF IInv, AcceptedByBoth
    <3>2. CASE version = c.version /\ top["client"] /\ top["editor"]
      <4>1. version > 0 /\ version \in Revisions /\ top = history[version]
        BY <1>0, <2>1, <3>2 DEF Revisions, IInv, FlagsMatchHistory
      <4>2. \A m \in Members : top[m] /\ history[version][m]
        BY <3>2, <4>1 DEF Members
      <4> QED BY <2>1, <4>1, <4>2 DEF IInv, FlagsAreConsent, AcceptedByBoth
    <3> QED BY <2>1, <3>1, <3>2
  <2>6. FlagsAreConsent' /\ FlagsMatchHistory' /\ OrdersAreAgreed'
    BY <2>1 DEF IInv, FlagsAreConsent, FlagsMatchHistory, OrdersAreAgreed
  <2> QED BY <2>3, <2>4, <2>5, <2>6 DEF IInv
<1>4. CASE InsertOrder(s)
  <2>1. /\ c.stage = "order" /\ c.version \in Revisions
        /\ \A m \in Members : c.version \in consent[m]
        /\ calls' = [calls EXCEPT ![s] = Idle]
        /\ order' = order \/ order' = c.version
        /\ UNCHANGED <<terms, status, delivered, captured, consent>>
    BY <1>0, <1>4 DEF InsertOrder, End, CallOK
  <2>2. UNCHANGED <<version, top, history, proposal_status>>
    BY <2>1 DEF terms
  <2>3. CallOK(Idle)'
    BY <2>1, <2>2, IdleIsCall DEF CallOK
  <2>4. calls' \in [Slots -> Call] /\ CallsOK'
    BY <1>0, <2>1, <2>2, <2>3, OthersStay
  <2>5. TypeOK'
    BY <1>0, <2>1, <2>2, <2>4 DEF TypeOK, Call
  <2>6. FlagsAreConsent' /\ FlagsMatchHistory' /\ AcceptedByBoth'
        /\ OrdersAreAgreed'
    BY <2>1, <2>2
       DEF IInv, FlagsAreConsent, FlagsMatchHistory, AcceptedByBoth,
           OrdersAreAgreed
  <2> QED BY <2>4, <2>5, <2>6 DEF IInv
<1>5. CASE /\ calls' = [calls EXCEPT ![s] = Idle]
           /\ UNCHANGED <<terms, status, delivered, order, captured, consent>>
  <2>1. UNCHANGED <<version, top, history, proposal_status, order, consent>>
    BY <1>5 DEF terms
  <2>2. CallOK(Idle)'
    BY <2>1, IdleIsCall DEF CallOK
  <2>3. calls' \in [Slots -> Call] /\ CallsOK'
    BY <1>0, <1>5, <2>1, <2>2, OthersStay
  <2>4. TypeOK'
    BY <1>0, <1>5, <2>1, <2>3 DEF TypeOK
  <2> QED
    BY <2>1, <2>3, <2>4
       DEF IInv, FlagsAreConsent, FlagsMatchHistory, AcceptedByBoth,
           OrdersAreAgreed
<1>6. /\ SaveProposal(s) =>
            \/ version = c.version
            \/ /\ calls' = [calls EXCEPT ![s] = Idle]
               /\ UNCHANGED <<terms, status, delivered, order, captured, consent>>
      /\ FlagAcceptance(s) =>
            \/ version = c.version /\ ~top[c.by]
            \/ /\ calls' = [calls EXCEPT ![s] = Idle]
               /\ UNCHANGED <<terms, status, delivered, order, captured, consent>>
    BY DEF SaveProposal, Save, FlagAcceptance, SetFlag, End, terms
<1> QED BY <1>1, <1>2, <1>3, <1>4, <1>5, <1>6 DEF Updates

\* The checkout's start, the delivery and PayHere's answers.
LEMMA OthersKeep ==
    ASSUME IInv,
           \/ \E s \in Slots : CreatePayment(s)
           \/ InsertDelivery \/ StartWork \/ PaymentCaptured \/ PaymentFailed
           \/ UNCHANGED vars
    PROVE  IInv'
<1>0. TypeOK
    BY DEF IInv
<1>1. ASSUME NEW s \in Slots, CreatePayment(s)
      PROVE  IInv'
  <2> DEFINE e == [stage |-> "order", by |-> "client", version |-> version]
  <2>0. e \in Call /\ e.stage = "order" /\ e.version = version
    BY <1>0 DEF Call, Stages, TypeOK, Members
  <2>e. /\ calls' = [calls EXCEPT ![s] = e]
        /\ version \in Revisions /\ order' = 0
        /\ \A m \in Members : history[version][m]
        /\ UNCHANGED <<terms, status, delivered, captured, consent>>
    BY <1>0, <1>1, ProposalAssumption
       DEF CreatePayment, Accepted, Begin, TypeOK, Revisions, Members
  <2> HIDE DEF e
  <2>1. PICK c \in Call :
           /\ c.stage = "order" /\ c.version = version
           /\ calls' = [calls EXCEPT ![s] = c]
           /\ version \in Revisions /\ order' = 0
           /\ \A m \in Members : history[version][m]
           /\ UNCHANGED <<terms, status, delivered, captured, consent>>
    BY <2>0, <2>e
  <2>2. UNCHANGED <<version, top, history, proposal_status, consent>>
    BY <2>1 DEF terms
  <2>3. \A m \in Members : version \in consent[m]
    BY <2>1 DEF IInv, FlagsAreConsent
  <2>4. CallOK(c)'
    BY <1>0, <2>1, <2>2, <2>3, ProposalAssumption DEF CallOK, TypeOK
  <2>5. calls' \in [Slots -> Call] /\ CallsOK'
    BY <2>1, <2>2, <2>4, OthersStay
  <2>6. TypeOK'
    BY <1>0, <2>1, <2>2, <2>5, ProposalAssumption DEF TypeOK
  <2> QED
    BY <2>1, <2>2, <2>5, <2>6
       DEF IInv, FlagsAreConsent, FlagsMatchHistory, AcceptedByBoth,
           OrdersAreAgreed
<1>2. CASE InsertDelivery \/ StartWork \/ PaymentCaptured \/ PaymentFailed
           \/ UNCHANGED vars
  <2>1. /\ UNCHANGED <<version, top, history, proposal_status, consent, calls>>
        /\ order' \in {0, order}
        /\ delivered' \in {TRUE, delivered} /\ captured' \in {TRUE, captured}
        /\ status' \in {"in_progress", "payment_failed", status}
    BY <1>2 DEF InsertDelivery, StartWork, PaymentCaptured, PaymentFailed, vars,
       terms
  <2>2. TypeOK'
    <3>1. order' \in 0 .. MaxRevisions
      BY <1>0, <2>1, ProposalAssumption DEF TypeOK
    <3>2. /\ delivered' \in BOOLEAN /\ captured' \in BOOLEAN
          /\ status' \in {"accepted", "payment_failed", "in_progress"}
      BY <1>0, <2>1 DEF TypeOK
    <3> QED BY <1>0, <2>1, <3>1, <3>2 DEF TypeOK
  <2>3. CallsOK'
    BY <2>1 DEF IInv, CallsOK, CallOK
  <2> QED
    BY <2>1, <2>2, <2>3
       DEF IInv, FlagsAreConsent, FlagsMatchHistory, AcceptedByBoth,
           OrdersAreAgreed
<1> QED BY <1>1, <1>2

\* No proposal, no consent and no order at first.
LEMMA InitHolds == Init => IInv
<1> SUFFICES ASSUME Init PROVE IInv
    OBVIOUS
<1>1. Nobody \in Flags /\ \A m \in Members : ~Nobody[m]
    BY DEF Nobody, Flags
<1>2. TypeOK
  <2>1. version \in 0 .. MaxRevisions /\ order \in 0 .. MaxRevisions
    BY ProposalAssumption DEF Init
  <2>2. /\ top \in Flags /\ history \in [Revisions -> Flags]
        /\ consent \in [Members -> SUBSET Revisions]
    BY <1>1 DEF Init
  <2>3. calls \in [Slots -> Call]
    BY IdleIsCall DEF Init
  <2> QED BY <2>1, <2>2, <2>3 DEF Init, TypeOK
<1>3. CallsOK
  <2>1. \A s \in Slots : calls[s] = Idle
    BY DEF Init
  <2>2. version = 0 /\ Idle.version = 0 /\ Idle.stage = "idle"
    BY DEF Init, Idle
  <2>3. CallOK(Idle)
    BY <2>2 DEF CallOK
  <2> QED BY <2>1, <2>3 DEF CallsOK
<1>4. FlagsAreConsent /\ FlagsMatchHistory /\ AcceptedByBoth /\ OrdersAreAgreed
    BY <1>1 DEF Init, FlagsAreConsent, FlagsMatchHistory, AcceptedByBoth,
       OrdersAreAgreed
<1> QED BY <1>2, <1>3, <1>4 DEF IInv

-----------------------------------------------------------------------------
\* IInv is an inductive invariant of the negotiation.
THEOREM Invariance == Spec => []IInv
<1>1. IInv /\ [Next]_vars => IInv'
    BY RequestsKeep, UpdatesKeep, OthersKeep DEF Next
<1> QED BY <1>1, InitHolds, PTL DEF Spec

\* Every variable keeps its type.
THEOREM TypeCorrect == Spec => []TypeOK
<1>1. IInv => TypeOK
    BY DEF IInv
<1> QED BY <1>1, Invariance, PTL

\* Whatever the members submit and accept at the same time, an order is only
\* ever opened for a revision that both of them proposed or accepted.
THEOREM OnlyAgreedIsCharged == Spec => []OrdersAreAgreed
<1>1. IInv => OrdersAreAgreed
    BY DEF IInv
<1> QED BY <1>1, Invariance, PTL

\* The flags of the document are those of the newest entry of its history.
THEOREM CopiesAgree == Spec => []FlagsMatchHistory
<1>1. IInv => FlagsMatchHistory
    BY DEF IInv
<1> QED BY <1>1, Invariance, PTL

\* A proposal marked accepted was accepted by both, and in its newest revision.
THEOREM AcceptanceIsMutual == Spec => []AcceptedByBoth
<1>1. IInv => AcceptedByBoth
    BY DEF IInv
<1> QED BY <1>1, Invariance, PTL
=============================================================================

----------------------------- MODULE Proposals -----------------------------
(***************************************************************************)
(* The price negotiation of one project: client and editor submit          *)
(* revisions of a proposal, accept the newest one, and the client starts a *)
(* checkout on terms both have accepted.  The flags of acceptance are kept *)
(* twice, in the document and in its proposal_history.  A handler reads    *)
(* the document and later updates it with a compare-and-set on             *)
(* proposal_version.  A call that is killed is one that never goes on.     *)
(***************************************************************************)
EXTENDS Integers

CONSTANTS
    Slots,         \* handler calls that may be in flight together
    MaxRevisions   \* bound: proposal revisions explored

ASSUME ProposalAssumption == MaxRevisions \in Nat

Members   == {"client", "editor"}
Other(m)  == IF m = "client" THEN "editor" ELSE "client"
Revisions == 1 .. MaxRevisions
Flags     == [Members -> BOOLEAN]
Nobody    == [m \in Members |-> FALSE]
Only(m)   == [n \in Members |-> n = m]

VARIABLES
    version,    \* proposal_version
    top,        \* proposal_client_accepted, proposal_editor_accepted
    history,    \* the flags of each entry of proposal_history
    proposal_status,
    status,     \* of the project
    delivered,  \* a first delivery exists
    order,      \* proposal_revision of the project's open order (0: none)
    captured,   \* the order's payment has been confirmed by PayHere
    consent,    \* history: the revisions each member proposed or accepted
    calls       \* calls in flight

vars == <<version, top, history, proposal_status, status, delivered, order,
          captured, consent, calls>>
terms == <<version, top, history, proposal_status>>

Stages == {"idle", "save", "flag", "finalize", "order"}
Call == [stage: Stages, by: Members, version: 0 .. MaxRevisions]
Idle == [stage |-> "idle", by |-> "client", version |-> 0]

TypeOK ==
    /\ version \in 0 .. MaxRevisions
    /\ top \in Flags
    /\ history \in [Revisions -> Flags]
    /\ proposal_status \in {"not_started", "awaiting_client",
                            "awaiting_editor", "accepted"}
    /\ status \in {"accepted", "payment_failed", "in_progress"}
    /\ delivered \in BOOLEAN
    /\ order \in 0 .. MaxRevisions
    /\ captured \in BOOLEAN
    /\ consent \in [Members -> SUBSET Revisions]
    /\ calls \in [Slots -> Call]

\* The document once the editor has accepted the request.
Init ==
    /\ version = 0
    /\ top = Nobody
    /\ history = [v \in Revisions |-> Nobody]
    /\ proposal_status = "not_started"
    /\ status = "accepted"
    /\ delivered = FALSE
    /\ order = 0
    /\ captured = FALSE
    /\ consent = [m \in Members |-> {}]
    /\ calls = [s \in Slots |-> Idle]

Begin(s, stage, m) ==
    /\ calls[s] = Idle
    /\ calls' = [calls EXCEPT
           ![s] = [stage |-> stage, by |-> m, version |-> version]]
Goto(s, stage) == calls' = [calls EXCEPT ![s].stage = stage]
End(s) == calls' = [calls EXCEPT ![s] = Idle]

-----------------------------------------------------------------------------
\* payment_eligibility: the flags latest_proposal reports, history first.
Accepted(m) == version > 0 /\ history[version][m]

\* submit_proposal and counter_offer up to the update of _save_proposal.
Propose(s, m) ==
    /\ status \in {"accepted", "payment_failed"}
    /\ version < MaxRevisions
    /\ Begin(s, "save", m)
    /\ UNCHANGED <<terms, status, delivered, order, captured, consent>>

\* The compare-and-set on proposal_version writes a revision with the flags
\* given, on both levels.
Save(s, flags) ==
    LET c == calls[s]
        new == c.version + 1
    IN  /\ c.stage = "save"
        /\ IF version = c.version
           THEN /\ version' = new
                /\ top' = flags
                /\ history' = [history EXCEPT ![new] = flags]
                /\ proposal_status' = IF c.by = "editor" THEN "awaiting_client"
                                                         ELSE "awaiting_editor"
                /\ consent' = [consent EXCEPT ![c.by] = @ \cup {new}]
           ELSE UNCHANGED <<terms, consent>>
        /\ End(s)
        /\ UNCHANGED <<status, delivered, order, captured>>

\* Mutant of SaveProposal: an acceptance given before is carried over.
SaveCarryingFlags(s) ==
    Save(s, [n \in Members |-> n = calls[s].by \/ top[n]])

\* Submitting terms accepts them for the author only.
SaveProposal(s) == Save(s, Only(calls[s].by))

\* accept_proposal up to its first update; no status of the project forbids it.
AcceptProposal(s, m) ==
    /\ version > 0
    /\ ~Accepted(m)
    /\ Begin(s, "flag", m)
    /\ consent' = [consent EXCEPT ![m] = @ \cup {version}]
    /\ UNCHANGED <<terms, status, delivered, order, captured>>

\* The member's flag, in the document and in the entry of the revision read.
SetFlag(s, matches) ==
    LET c == calls[s]
    IN  /\ c.stage = "flag"
        /\ IF matches /\ ~top[c.by]
           THEN /\ top' = [top EXCEPT ![c.by] = TRUE]
                /\ history' = [history EXCEPT ![c.version][c.by] = TRUE]
                /\ Goto(s, "finalize")
           ELSE UNCHANGED <<top, history>> /\ End(s)
        /\ UNCHANGED <<version, proposal_status, status, delivered, order,
                       captured, consent>>

\* Mutant of FlagAcceptance: the update does not ask for the version read.
FlagAnyRevision(s) == SetFlag(s, TRUE)

FlagAcceptance(s) == SetFlag(s, version = calls[s].version)

Finalize(s, agreed) ==
    /\ calls[s].stage = "finalize"
    /\ proposal_status' = IF agreed THEN "accepted" ELSE proposal_status
    /\ End(s)
    /\ UNCHANGED <<version, top, history, status, delivered, order, captured,
                   consent>>

\* Mutants of FinalizeProposal: the flags, or the version, are looked at no
\* more; and only an acceptance by the client finalizes.
FinalizeUnchecked(s) == Finalize(s, TRUE)
FinalizeForClient(s) ==
    Finalize(s, /\ version = calls[s].version
                /\ calls[s].by = "client" /\ top["editor"])

FinalizeProposal(s) ==
    Finalize(s, version = calls[s].version /\ top["client"] /\ top["editor"])

-----------------------------------------------------------------------------
\* deliver_video: the delivery is stored, and then the project is moved on,
\* which closes the negotiation.
InsertDelivery ==
    /\ status \in {"accepted", "in_progress"} /\ ~delivered
    /\ delivered' = TRUE
    /\ UNCHANGED <<terms, status, order, captured, consent, calls>>

StartWork ==
    /\ status = "accepted" /\ delivered
    /\ status' = "in_progress"
    /\ UNCHANGED <<terms, delivered, order, captured, consent, calls>>

\* create_project_delivery_payment: reads the terms, and inserts the order
\* somewhat later.  An order abandoned for 30 minutes is released on the way.
CreatePayment(s) ==
    /\ delivered
    /\ ~captured
    /\ Accepted("client") /\ Accepted("editor")
    /\ order' = 0
    /\ Begin(s, "order", "client")
    /\ UNCHANGED <<terms, status, delivered, captured, consent>>

\* The unique active_request_key admits one order.
InsertOrder(s) ==
    /\ calls[s].stage = "order"
    /\ order' = IF order = 0 THEN calls[s].version ELSE order
    /\ End(s)
    /\ UNCHANGED <<terms, status, delivered, captured, consent>>

\* payhere_notification: captured, or failed and free for another attempt.
\* A project in payment_failed stays there, and open to negotiation: its move
\* to in_progress is refused after the order has been settled.
PaymentCaptured ==
    /\ order # 0 /\ ~captured
    /\ captured' = TRUE
    /\ status' = IF status = "accepted" THEN "in_progress" ELSE status
    /\ UNCHANGED <<terms, delivered, order, consent, calls>>

PaymentFailed ==
    /\ order # 0 /\ ~captured
    /\ order' = 0
    /\ status' = IF status = "accepted" THEN "payment_failed" ELSE status
    /\ UNCHANGED <<terms, delivered, captured, consent, calls>>

Requests(s, m) == Propose(s, m) \/ AcceptProposal(s, m)
Updates(s) == SaveProposal(s) \/ FlagAcceptance(s) \/ FinalizeProposal(s)
              \/ InsertOrder(s)

Next ==
    \/ \E s \in Slots :
          \/ \E m \in Members : Requests(s, m)
          \/ Updates(s) \/ CreatePayment(s)
    \/ InsertDelivery \/ StartWork \/ PaymentCaptured \/ PaymentFailed

Spec == Init /\ [][Next]_vars

\* A call the server has accepted runs to its end; nobody has to bargain.
FairSpec == Spec /\ \A s \in Slots : WF_vars(Updates(s))

-----------------------------------------------------------------------------
(* Properties.                                                             *)

\* The client is only charged for a revision that both members themselves
\* proposed or accepted, whatever is submitted while they accept or pay.
OrdersAreAgreed ==
    order # 0 => \A m \in Members : order \in consent[m]

\* The two copies of the acceptance flags agree: what a member is shown
\* (the document) is what the checkout charges by (the history).
FlagsMatchHistory == version > 0 => top = history[version]

\* A proposal shown as accepted has been accepted by both members, in the
\* revision now on the table.
AcceptedByBoth ==
    proposal_status = "accepted" =>
        version > 0 /\ \A m \in Members : version \in consent[m] /\ top[m]

\* Once both have accepted, the proposal is marked accepted, unless a new
\* revision replaces it.
AgreementIsFinal ==
    \A v \in Revisions :
        version = v /\ top = [m \in Members |-> TRUE]
            ~> proposal_status = "accepted" \/ version # v
=============================================================================

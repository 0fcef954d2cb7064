----------------------- MODULE ProjectLifecycle_proofs -----------------------
(* What ProjectLifecycle guarantees for every set of concurrent calls, every *)
(* set of uploads and every limit.                                          *)
EXTENDS ProjectLifecycle, TLAPS

\* What a call still has to keep promising, however the document has moved
\* since it was read.
CallOK(c) ==
    /\ c.stage = "transition" => Legal(c)
    /\ c.stage = "insert" /\ c.op = "deliver" =>
          /\ Legal(c)
          /\ c.n > 0
          /\ c.file \in Uploads
          /\ c.to # "refunded"
    /\ c.stage = "transition" /\ c.to = "admin_review" => deliveries > 0
    /\ c.stage = "transition" /\ c.to = "refunded" => refunded
    /\ c.stage = "confirm" => c.to \notin {"admin_review", "refunded"}

CallsOK == \A s \in Slots : CallOK(calls[s])

RefundLock ==
    /\ \A s \in Slots : calls[s].stage = "gateway" => payment.refunding
    /\ OneRefundAtATime

IInv == TypeOK /\ CallsOK /\ ReviewHasDelivery /\ RefundedMeansMoneyBack
               /\ RefundLock

-----------------------------------------------------------------------------
\* Closed statuses have no entry in ALLOWED_TRANSITIONS, every target is a
\* status, and only a refund under way leads to "refunded".
LEMMA TableFacts ==
    /\ \A s \in Closed : Allowed(s) = {}
    /\ \A s \in Status : Allowed(s) \subseteq Status
    /\ \A s \in Status : "refunded" \in Allowed(s) => s = "refund_pending"
BY DEF Allowed, ALLOWED_TRANSITIONS, Closed, Status, Unfunded

\* The editor's submission is always a legal move.
LEMMA SubmissionIsLegal ==
    /\ "in_progress" \in Allowed("accepted")
    /\ \A s \in {"in_progress", "overdue", "revision_requested"} :
          "admin_review" \in Allowed(s)
BY DEF Allowed, ALLOWED_TRANSITIONS

\* A call that is planned, or moved on, is a call of the right type.
LEMMA CallTypes ==
    ASSUME TypeOK
    PROVE  /\ Idle \in Call
           /\ \A op \in Ops, to \in Status, by \in Actors :
                 Plan(op, to, by) \in Call
           /\ \A op \in Ops, stage \in Stages, by \in Actors :
                 At(op, stage, by) \in Call
<1>1. ASSUME NEW op \in Ops, NEW stage \in Stages, NEW src \in Status,
             NEW to \in Status, NEW by \in Actors
      PROVE  NewCall(op, stage, src, to, by) \in Call
    BY DEF NewCall, Call
<1>2. "pending" \in Status /\ project.status \in Status
    BY DEF TypeOK, Project, Status, Unfunded
<1>3. Idle \in Call
    BY <1>1, <1>2 DEF Idle, Ops, Stages, Actors
<1>4. \A op \in Ops, to \in Status, by \in Actors : Plan(op, to, by) \in Call
    BY <1>1, <1>2 DEF Plan, Stages
<1>5. \A op \in Ops, stage \in Stages, by \in Actors :
         At(op, stage, by) \in Call
    BY <1>1, <1>2 DEF At
<1> QED BY <1>3, <1>4, <1>5

-----------------------------------------------------------------------------
(* Starting a call keeps the invariant when the planned call is sound.      *)

\* A new call whose promises hold is admitted without harm.
LEMMA BeginKeeps ==
    ASSUME IInv, NEW s \in Slots, NEW c \in Call, CallOK(c),
           c.stage # "gateway", Begin(s, c)
    PROVE  IInv'
<1>1. TypeOK'
    BY DEF IInv, TypeOK, Begin
<1>2. \A t \in Slots : calls'[t] = IF t = s THEN c ELSE calls[t]
    BY DEF IInv, TypeOK, Begin
<1>3. CallsOK'
    BY <1>2 DEF IInv, CallsOK, CallOK, Legal, Begin
<1>4. ReviewHasDelivery' /\ RefundedMeansMoneyBack'
    BY DEF IInv, ReviewHasDelivery, RefundedMeansMoneyBack, Begin
<1>5. RefundLock'
    BY <1>2 DEF IInv, RefundLock, OneRefundAtATime, Begin
<1> QED BY <1>1, <1>3, <1>4, <1>5 DEF IInv

\* A legal planned transition may be started.
LEMMA PlanKeeps ==
    ASSUME IInv, NEW s \in Slots, NEW op \in Ops, NEW to \in Status,
           NEW by \in Actors, to # "refunded",
           to = "admin_review" => deliveries > 0,
           BeginTransition(s, Plan(op, to, by))
    PROVE  IInv'
<1> DEFINE c == Plan(op, to, by)
<1>1. c \in Call
    BY CallTypes DEF IInv
<1>2. c.stage = "transition" /\ c.to = to
    BY DEF Plan, NewCall
<1>3. Legal(c) /\ Begin(s, c)
    BY DEF BeginTransition
<1>4. CallOK(c)
    BY <1>2, <1>3 DEF CallOK
<1> HIDE DEF c
<1> QED BY <1>1, <1>2, <1>3, <1>4, BeginKeeps

\* So may a call that keeps no snapshot.
LEMMA AtKeeps ==
    ASSUME IInv, NEW s \in Slots, NEW op \in Ops, NEW by \in Actors,
           NEW stage \in Stages \ {"transition", "insert", "gateway"},
           Begin(s, At(op, stage, by))
    PROVE  IInv'
<1> DEFINE c == At(op, stage, by)
<1>1. c \in Call
    BY CallTypes DEF IInv
<1>2. c.stage = stage /\ c.to = "pending"
    BY DEF At, NewCall
<1>3. CallOK(c)
    BY <1>2 DEF CallOK
<1>4. Begin(s, c)
    OBVIOUS
<1> HIDE DEF c
<1> QED BY <1>1, <1>2, <1>3, <1>4, BeginKeeps

\* Every handler that starts, whatever it reads, keeps the invariant.
LEMMA ReadsKeep ==
    ASSUME IInv, NEW s \in Slots, Reads(s)
    PROVE  IInv'
<1> USE DEF CallOK, Legal
<1>0. /\ project.status \in Status
      /\ calls[s] \in Call
      /\ TypeOK
    BY DEF IInv, TypeOK, Project
<1>a. /\ Members \subseteq Actors /\ {"admin", "system"} \subseteq Actors
      /\ {"user", "editor"} \subseteq Actors
    BY DEF Actors, Members
<1>b. /\ Ops \ {"none"} \subseteq Ops
      /\ {"respond", "revise", "accept_revision", "cancel", "decide",
          "dispute", "resolve", "deliver", "initiate", "refund", "paid",
          "failed", "quote"} \subseteq Ops
    BY DEF Ops
<1>c. /\ {"accepted", "rejected", "in_progress", "cancelled", "overdue",
          "cancel_requested", "disputed", "refund_pending",
          "revision_requested", "admin_review"} \subseteq Status
    BY DEF Status, Closed, Unfunded
<1>d. {"record", "lock", "confirm", "quoted"}
         \subseteq Stages \ {"transition", "insert", "gateway"}
    BY DEF Stages
<1>1. CASE RespondToRequest(s)
  <2>1. PICK to \in {"accepted", "rejected"} :
            BeginTransition(s, Plan("respond", to, "editor"))
    BY <1>1 DEF RespondToRequest
  <2> QED
    BY <2>1, <1>a, <1>b, <1>c, PlanKeeps
<1>2. CASE DeliverVideo(s)
  <2> DEFINE to == IF project.status = "accepted" THEN "in_progress"
                                                  ELSE "admin_review"
  <2>1. PICK u \in Uploads :
            Begin(s, [Plan("deliver", to, "editor") EXCEPT
                          !.stage = "insert", !.n = deliveries + 1,
                          !.file = u])
    BY <1>2 DEF DeliverVideo
  <2> DEFINE c == [Plan("deliver", to, "editor") EXCEPT
                       !.stage = "insert", !.n = deliveries + 1, !.file = u]
  <2>2. to \in Status /\ to # "refunded"
    BY DEF Status
  <2>3. to \in Allowed(project.status)
    BY <1>2, SubmissionIsLegal DEF DeliverVideo
  <2> HIDE DEF to
  <2>5. deliveries + 1 \in Nat /\ deliveries + 1 > 0
    BY <1>0 DEF TypeOK
  <2>6. /\ c \in Call /\ c.stage = "insert" /\ c.n = deliveries + 1
        /\ c.to = to /\ c.src = project.status /\ c.file = u
    BY <2>2, <2>5, <1>0 DEF Plan, NewCall, Call, Ops, Stages, Actors, Members
  <2> HIDE DEF c
  <2>7. CallOK(c)
    BY <2>2, <2>3, <2>5, <2>6
  <2>8. Begin(s, c)
    BY <2>1 DEF c
  <2> QED BY <2>6, <2>7, <2>8, BeginKeeps
<1>3. CASE RequestRevision(s)
  <2> DEFINE c == [Plan("revise", "revision_requested", "user")
                      EXCEPT !.n = project.revisions]
  <2>1. /\ c \in Call /\ c.stage = "transition"
        /\ c.to = "revision_requested"
    BY <1>0 DEF Plan, NewCall, Call, TypeOK, Project, Ops, Stages, Actors,
       Members, Status
  <2>2. BeginTransition(s, c)
    BY <1>3 DEF RequestRevision
  <2> HIDE DEF c
  <2> QED BY <2>1, <2>2, BeginKeeps DEF BeginTransition
<1>4. CASE AcceptRevision(s)
    BY <1>4, <1>a, <1>b, <1>c, PlanKeeps DEF AcceptRevision
<1>5. CASE RequestCancellation(s)
  <2>1. PICK m \in Members, to \in {"cancelled", "cancel_requested"} :
            BeginTransition(s, Plan("cancel", to, m))
    BY <1>5 DEF RequestCancellation
  <2> QED
    BY <2>1, <1>a, <1>b, <1>c, PlanKeeps
<1>6. CASE DecideCancellation(s)
  <2>1. PICK m \in Members,
             to \in {"refund_pending", "cancelled", "overdue", "in_progress"} :
            BeginTransition(s, Plan("decide", to, m))
    BY <1>6 DEF DecideCancellation
  <2> QED
    BY <2>1, <1>a, <1>b, <1>c, PlanKeeps
<1>7. CASE OpenDispute(s)
  <2>1. PICK m \in Members :
           \/ Begin(s, At("dispute", "record", "system"))
           \/ BeginTransition(s, Plan("dispute", "disputed", m))
    BY <1>7 DEF OpenDispute
  <2>2. CASE Begin(s, At("dispute", "record", "system"))
    BY <2>2, <1>a, <1>b, <1>d, AtKeeps
  <2>3. CASE BeginTransition(s, Plan("dispute", "disputed", m))
    BY <2>3, <1>a, <1>b, <1>c, PlanKeeps
  <2> QED BY <2>1, <2>2, <2>3
<1>8. CASE ResolveProjectLifecycle(s)
  <2>1. PICK to \in ResolveTargets :
            BeginTransition(s, Plan("resolve", to, "admin"))
    BY <1>8 DEF ResolveProjectLifecycle
  <2>2. to \in Status /\ to # "refunded"
    BY <1>0 DEF ResolveTargets, Status, Closed, TypeOK, Project
  <2>3. to = "admin_review" => deliveries > 0
    BY DEF ResolveTargets, IInv, ReviewHasDelivery
  <2> QED
    BY <2>1, <2>2, <2>3, <1>a, <1>b, PlanKeeps
<1>9. CASE CreatePayment(s)
  <2> DEFINE c == At("initiate", "insert", "user")
  <2>1. c \in Call /\ c.stage = "insert" /\ c.op = "initiate"
    BY <1>0, CallTypes DEF At, NewCall, Ops, Stages, Actors, Members
  <2> HIDE DEF c
  <2>2. calls' = [calls EXCEPT ![s] = c]
    BY <1>9 DEF CreatePayment, c
  <2>3. TypeOK'
    BY <1>9, <2>1, <2>2, <1>0 DEF CreatePayment, TypeOK
  <2>4. \A t \in Slots : calls'[t] = IF t = s THEN c ELSE calls[t]
    BY <2>2, <1>0 DEF TypeOK
  <2>5. CallsOK'
    BY <1>9, <2>1, <2>4 DEF IInv, CallsOK, CreatePayment
  <2>6. ReviewHasDelivery' /\ RefundedMeansMoneyBack'
    BY <1>9 DEF IInv, ReviewHasDelivery, RefundedMeansMoneyBack, CreatePayment
  <2>7. payment'.refunding = payment.refunding
    BY <1>9, <1>0 DEF CreatePayment, TypeOK
  <2>8. RefundLock'
    BY <2>1, <2>4, <2>7 DEF IInv, RefundLock, OneRefundAtATime
  <2> QED BY <2>3, <2>5, <2>6, <2>8 DEF IInv
<1>10. CASE RefundPayment(s)
  <2>1. PICK by \in {"user", "admin"} :
           \/ Begin(s, At("refund", "lock", by))
           \/ BeginTransition(s, Plan("refund", "refund_pending", by))
    BY <1>10 DEF RefundPayment
  <2>2. CASE Begin(s, At("refund", "lock", by))
    BY <2>2, <1>a, <1>b, <1>d, AtKeeps
  <2>3. CASE BeginTransition(s, Plan("refund", "refund_pending", by))
    BY <2>3, <1>a, <1>b, <1>c, PlanKeeps
  <2> QED BY <2>1, <2>2, <2>3
<1>11. CASE PayhereNotification(s)
  <2> DEFINE c == [Plan("paid", "in_progress", "system")
                      EXCEPT !.stage = "confirm"]
  <2>1. c \in Call /\ c.stage = "confirm" /\ c.to = "in_progress"
    BY <1>0 DEF Plan, NewCall, Call, TypeOK, Ops, Stages, Actors, Status
  <2>2. Begin(s, c) \/ Begin(s, At("failed", "confirm", "system"))
    BY <1>11 DEF PayhereNotification
  <2> HIDE DEF c
  <2>3. CASE Begin(s, c)
    BY <2>1, <2>3, BeginKeeps
  <2>4. CASE Begin(s, At("failed", "confirm", "system"))
    BY <2>4, <1>a, <1>b, <1>d, AtKeeps
  <2> QED BY <2>2, <2>3, <2>4
<1>12. CASE CreateQuote(s)
    BY <1>12, <1>a, <1>b, <1>d, AtKeeps DEF CreateQuote
<1> QED
    BY <1>1, <1>2, <1>3, <1>4, <1>5, <1>6, <1>7, <1>8, <1>9, <1>10, <1>11,
       <1>12 DEF Reads

-----------------------------------------------------------------------------
(* A call's later stages.                                                   *)

\* A call that ends, or goes on in a stage that promises nothing, endangers
\* nothing that is said about the other calls.
LEMMA MovingOn ==
    ASSUME IInv, NEW s \in Slots, NEW d \in Call,
           calls' = [calls EXCEPT ![s] = d],
           d.stage \notin {"transition", "insert", "confirm", "gateway"},
           deliveries' = deliveries, refunded' = refunded,
           payment'.refunding = payment.refunding
    PROVE  CallsOK' /\ RefundLock' /\ calls' \in [Slots -> Call]
<1>1. \A t \in Slots : calls'[t] = IF t = s THEN d ELSE calls[t]
    BY DEF IInv, TypeOK
<1>2. CallsOK'
    BY <1>1 DEF IInv, CallsOK, CallOK, Legal
<1>3. RefundLock'
    BY <1>1 DEF IInv, RefundLock, OneRefundAtATime
<1> QED BY <1>2, <1>3 DEF IInv, TypeOK

\* A call that is about to move the document to a status that needs no witness.
LEMMA TransitionStarts ==
    ASSUME IInv, NEW s \in Slots, NEW d \in Call,
           calls' = [calls EXCEPT ![s] = d],
           d.stage = "transition", Legal(d),
           d.to \notin {"admin_review", "refunded"},
           deliveries' = deliveries, refunded' = refunded,
           payment'.refunding = payment.refunding
    PROVE  CallsOK' /\ RefundLock' /\ calls' \in [Slots -> Call]
<1>1. \A t \in Slots : calls'[t] = IF t = s THEN d ELSE calls[t]
    BY DEF IInv, TypeOK
<1>2. CallsOK'
    BY <1>1 DEF IInv, CallsOK, CallOK, Legal
<1>3. RefundLock'
    BY <1>1 DEF IInv, RefundLock, OneRefundAtATime
<1> QED BY <1>2, <1>3 DEF IInv, TypeOK

\* The extra fields of an update keep the document well formed, and record as
\* pre_dispute_status nothing but the status it has been read in.
LEMMA ExtraFacts ==
    ASSUME TypeOK, NEW c \in Call
    PROVE  /\ Extra(c) \in Project
           /\ Extra(c).pre_dispute \in {project.pre_dispute, c.src}
<1> USE DEF TypeOK, Project, Call, Extra
<1>1. CASE c.op = "revise"
    BY <1>1
<1>2. CASE c.op = "cancel" /\ c.to = "cancel_requested"
    BY <1>2
<1>3. CASE c.op = "dispute"
    BY <1>3
<1>4. CASE c.op = "paid"
    BY <1>4
<1>5. CASE c.op = "refunded"
    BY <1>5
<1>6. CASE /\ c.op \notin {"revise", "dispute", "paid", "refunded"}
           /\ ~(c.op = "cancel" /\ c.to = "cancel_requested")
    BY <1>6
<1> QED BY <1>1, <1>2, <1>3, <1>4, <1>5, <1>6

\* After its transition a handler goes on in a stage that promises nothing.
LEMMA ContinuationFacts ==
    ASSUME TypeOK, NEW c \in Call
    PROVE  /\ Continuation(c) \in Call
           /\ Continuation(c).stage \in
                 {"record", "close", "lock", "release", "idle"}
<1>a. Idle \in Call /\ Idle.stage = "idle"
    BY CallTypes DEF Idle, NewCall
<1>b. \A op \in Ops, stage \in Stages, by \in Actors :
         At(op, stage, by) \in Call /\ At(op, stage, by).stage = stage
    BY CallTypes DEF At, NewCall
<1>c. /\ {"dispute", "resolve", "refund", "paid"} \subseteq Ops
      /\ {"record", "close", "lock", "release"} \subseteq Stages
      /\ c.by \in Actors /\ "system" \in Actors
    BY DEF Ops, Stages, Actors, Call
<1>1. CASE c.op = "dispute"
    BY <1>1, <1>b, <1>c DEF Continuation
<1>2. CASE c.op = "resolve" /\ c.src = "disputed"
    BY <1>2, <1>b, <1>c DEF Continuation
<1>3. CASE c.op = "refund"
    BY <1>3, <1>b, <1>c DEF Continuation
<1>4. CASE c.op = "paid"
    BY <1>4, <1>b, <1>c DEF Continuation
<1>5. CASE /\ c.op \notin {"dispute", "refund", "paid"}
           /\ ~(c.op = "resolve" /\ c.src = "disputed")
    BY <1>5, <1>a DEF Continuation
<1> QED BY <1>1, <1>2, <1>3, <1>4, <1>5

\* Every write of a call in flight keeps the invariant, however the document
\* has moved since the call read it.
LEMMA WritesKeep ==
    ASSUME IInv, NEW s \in Slots, Writes(s)
    PROVE  IInv'
<1> DEFINE c == calls[s]
<1>0. /\ c \in Call /\ CallOK(c) /\ TypeOK
      /\ project.status \in Status /\ deliveries \in Nat
    BY DEF IInv, TypeOK, Project, CallsOK
<1>a. Idle \in Call /\ Idle.stage = "idle"
    BY <1>0, CallTypes DEF Idle, NewCall
<1>b. \A op \in Ops, stage \in Stages, by \in Actors :
         At(op, stage, by) \in Call /\ At(op, stage, by).stage = stage
    BY <1>0, CallTypes DEF At, NewCall
<1>c. /\ {"failed", "paid"} \subseteq Ops /\ "system" \in Actors
      /\ {"release", "reread"} \subseteq Stages
      /\ "payment_failed" \in Status
    BY DEF Ops, Actors, Stages, Status, Unfunded
<1>1. CASE TransitionProject(s)
  <2> DEFINE d == Continuation(c)
  <2>1. /\ c.stage = "transition" /\ c.src = project.status
        /\ c.to \in Status /\ c.by \in Actors /\ Legal(c)
        /\ calls' = [calls EXCEPT ![s] = d]
    BY <1>1, <1>0 DEF TransitionProject, Apply, Call, CallOK
  <2>2. /\ d \in Call
        /\ d.stage \in {"record", "close", "lock", "release", "idle"}
    BY <1>0, ContinuationFacts
  <2> HIDE DEF d
  <2>3. /\ Extra(c) \in Project
        /\ Extra(c).pre_dispute \in {project.pre_dispute, c.src}
    BY <1>0, ExtraFacts
  <2> DEFINE e == Extra(c)
  <2>e. project' = [e EXCEPT !.status = c.to, !.last_from = c.src,
                             !.last_to = c.to, !.last_actor = c.by]
    BY <1>1 DEF TransitionProject, Apply
  <2>f. e \in Project /\ e.pre_dispute \in {project.pre_dispute, project.status}
    BY <2>1, <2>3
  <2> HIDE DEF e
  <2>g. c.src \in Status
    BY <1>0 DEF Call
  <2> HIDE DEF c
  <2>4. /\ project' \in Project /\ project'.status = c.to
        /\ project'.pre_dispute \in {project.pre_dispute, project.status}
    BY <2>1, <2>e, <2>f, <2>g DEF Project
  <2> USE DEF c
  <2>5. granted' \in Nat
    BY <1>1, <1>0 DEF TransitionProject, Apply, TypeOK
  <2>6. /\ CallsOK' /\ RefundLock' /\ calls' \in [Slots -> Call]
    BY <1>1, <2>1, <2>2, MovingOn DEF TransitionProject, Apply
  <2>7. TypeOK'
    BY <1>1, <2>4, <2>5, <2>6, <1>0 DEF TransitionProject, Apply, TypeOK
  <2>8. ReviewHasDelivery'
    BY <1>1, <2>1, <2>4, <1>0 DEF TransitionProject, Apply, CallOK, IInv,
       ReviewHasDelivery
  <2>9. RefundedMeansMoneyBack'
    BY <1>1, <2>1, <2>4, <1>0 DEF TransitionProject, Apply, CallOK,
       RefundedMeansMoneyBack
  <2> QED BY <2>6, <2>7, <2>8, <2>9 DEF IInv
<1>2. CASE TransitionConflict(s)
  <2>1. CallsOK' /\ RefundLock' /\ calls' \in [Slots -> Call]
    BY <1>2, <1>0, <1>a, MovingOn DEF TransitionConflict
  <2>2. TypeOK' /\ ReviewHasDelivery' /\ RefundedMeansMoneyBack'
    BY <1>2, <1>0, <2>1 DEF TransitionConflict, TypeOK, Project, IInv, ReviewHasDelivery,
       RefundedMeansMoneyBack
  <2> QED BY <2>1, <2>2 DEF IInv
<1>3. CASE InsertDelivery(s)
  <2>1. CASE c.n = deliveries + 1 /\ c.file \notin used
    <3> DEFINE d == [c EXCEPT !.stage = "transition"]
    <3>1. /\ d \in Call /\ d.stage = "transition" /\ d.to = c.to
          /\ d.src = c.src
      BY <1>0 DEF Call, Stages
    <3>2. c.stage = "insert" /\ c.op = "deliver" /\ calls' = [calls EXCEPT ![s] = d]
      BY <1>3, <2>1 DEF InsertDelivery
    <3>3. Legal(d) /\ d.to # "refunded" /\ deliveries' > 0
      BY <1>3, <2>1, <3>1, <3>2, <1>0 DEF CallOK, Legal, InsertDelivery
    <3> HIDE DEF d
    <3>4. calls' \in [Slots -> Call]
          /\ \A t \in Slots : calls'[t] = IF t = s THEN d ELSE calls[t]
      BY <3>1, <3>2, <1>0 DEF TypeOK
    <3>5. CallsOK'
      BY <1>3, <3>1, <3>3, <3>4, <1>0
         DEF IInv, CallsOK, CallOK, Legal, InsertDelivery
    <3>6. RefundLock'
      BY <1>3, <3>1, <3>4 DEF IInv, RefundLock, OneRefundAtATime, InsertDelivery
    <3>7. c.n \in Nat /\ c.file \in Uploads
      BY <1>3, <1>0, <2>1 DEF Call, InsertDelivery, CallOK
    <3>8. TypeOK'
      BY <1>3, <2>1, <1>0, <3>4, <3>7 DEF InsertDelivery, TypeOK
    <3>9. ReviewHasDelivery' /\ RefundedMeansMoneyBack'
      BY <1>3, <3>3 DEF InsertDelivery, IInv, ReviewHasDelivery,
         RefundedMeansMoneyBack
    <3> QED BY <3>5, <3>6, <3>8, <3>9 DEF IInv
  <2>2. CASE ~(c.n = deliveries + 1 /\ c.file \notin used)
    <3>1. CallsOK' /\ RefundLock' /\ calls' \in [Slots -> Call]
      BY <1>3, <2>2, <1>0, <1>a, MovingOn DEF InsertDelivery
    <3>2. c.file \in Uploads
      BY <1>3, <1>0 DEF InsertDelivery, CallOK, Call
    <3>3. TypeOK' /\ ReviewHasDelivery' /\ RefundedMeansMoneyBack'
      BY <1>3, <2>2, <1>0, <3>1, <3>2 DEF InsertDelivery, TypeOK, Project, IInv,
         ReviewHasDelivery, RefundedMeansMoneyBack
    <3> QED BY <3>1, <3>3 DEF IInv
  <2> QED BY <2>1, <2>2
<1>4. CASE InsertOrder(s)
  <2>0. payment'.refunding = payment.refunding
    BY <1>4, <1>0 DEF InsertOrder, TypeOK
  <2>1. CallsOK' /\ RefundLock' /\ calls' \in [Slots -> Call]
    BY <1>4, <2>0, <1>0, <1>a, MovingOn DEF InsertOrder
  <2>2. TypeOK' /\ ReviewHasDelivery' /\ RefundedMeansMoneyBack'
    BY <1>4, <1>0, <2>1 DEF InsertOrder, TypeOK, Project, IInv, ReviewHasDelivery,
       RefundedMeansMoneyBack
  <2> QED BY <2>1, <2>2 DEF IInv
<1>5. CASE RecordDispute(s)
  <2>1. CallsOK' /\ RefundLock' /\ calls' \in [Slots -> Call]
    BY <1>5, <1>0, <1>a, MovingOn DEF RecordDispute
  <2>2. TypeOK' /\ ReviewHasDelivery' /\ RefundedMeansMoneyBack'
    BY <1>5, <1>0, <2>1 DEF RecordDispute, TypeOK, Project, IInv, ReviewHasDelivery,
       RefundedMeansMoneyBack
  <2> QED BY <2>1, <2>2 DEF IInv
<1>6. CASE CloseDispute(s)
  <2>1. CallsOK' /\ RefundLock' /\ calls' \in [Slots -> Call]
    BY <1>6, <1>0, <1>a, MovingOn DEF CloseDispute
  <2>2. TypeOK' /\ ReviewHasDelivery' /\ RefundedMeansMoneyBack'
    BY <1>6, <1>0, <2>1 DEF CloseDispute, TypeOK, Project, IInv, ReviewHasDelivery,
       RefundedMeansMoneyBack
  <2> QED BY <2>1, <2>2 DEF IInv
<1>7. CASE ConfirmPayment(s)
  <2>0. payment'.refunding = payment.refunding
        /\ payment' \in [status: Held \cup {"none", "PENDING", "CHARGEBACK"},
                        refunding: BOOLEAN]
    BY <1>7, <1>0 DEF ConfirmPayment, TypeOK, Held
  <2>1. TypeOK' /\ ReviewHasDelivery' /\ RefundedMeansMoneyBack'
        <=> calls' \in [Slots -> Call]
    BY <1>7, <1>0, <2>0 DEF ConfirmPayment, TypeOK, IInv, ReviewHasDelivery,
       RefundedMeansMoneyBack
  <2>2. CASE Legal(c) /\ calls' = [calls EXCEPT ![s] = [c EXCEPT !.stage = "transition"]]
    <3> DEFINE d == [c EXCEPT !.stage = "transition"]
    <3>1. d \in Call /\ d.stage = "transition" /\ d.to = c.to /\ d.src = c.src
      BY <1>0 DEF Call, Stages
    <3>2. Legal(d) /\ d.to \notin {"admin_review", "refunded"}
      BY <1>7, <2>2, <3>1, <1>0 DEF Legal, CallOK, ConfirmPayment
    <3>3. calls' = [calls EXCEPT ![s] = d]
      BY <2>2
    <3> HIDE DEF d
    <3> QED
      BY <1>7, <2>0, <2>1, <3>1, <3>2, <3>3, TransitionStarts
         DEF ConfirmPayment, IInv
  <2>3. ASSUME NEW d \in {Idle, At("failed", "reread", "system"),
                          At("paid", "release", "system")},
               calls' = [calls EXCEPT ![s] = d]
        PROVE  IInv'
    <3>1. d \in Call /\ d.stage \in {"idle", "reread", "release"}
      BY <1>a, <1>b, <1>c
    <3>2. deliveries' = deliveries /\ refunded' = refunded
      BY <1>7 DEF ConfirmPayment
    <3>3. CallsOK' /\ RefundLock' /\ calls' \in [Slots -> Call]
      BY <2>0, <2>3, <3>1, <3>2, MovingOn
    <3> QED
      BY <2>1, <3>3 DEF IInv
  <2>4. \/ Legal(c) /\ calls' = [calls EXCEPT ![s] = [c EXCEPT !.stage = "transition"]]
        \/ \E d \in {Idle, At("failed", "reread", "system"),
                       At("paid", "release", "system")} :
              calls' = [calls EXCEPT ![s] = d]
    BY <1>7 DEF ConfirmPayment
  <2> QED BY <2>2, <2>3, <2>4
<1>8. CASE RereadAfterFailure(s)
  <2>1. TypeOK' /\ ReviewHasDelivery' /\ RefundedMeansMoneyBack'
        <=> calls' \in [Slots -> Call]
    BY <1>8, <1>0 DEF RereadAfterFailure, TypeOK, IInv, ReviewHasDelivery,
       RefundedMeansMoneyBack
  <2>2. CASE project.status = "accepted"
    <3> DEFINE d == Plan("failed", "payment_failed", "system")
    <3>1. d \in Call
      BY <1>0, <1>c, CallTypes
    <3>2. d.stage = "transition" /\ d.to = "payment_failed" /\ d.src = "accepted"
      BY <2>2 DEF Plan, NewCall
    <3>3. Legal(d)
      BY <3>2 DEF Legal, Allowed, ALLOWED_TRANSITIONS
    <3>4. calls' = [calls EXCEPT ![s] = d]
      BY <1>8, <2>2 DEF RereadAfterFailure
    <3> HIDE DEF d
    <3> QED
      BY <1>8, <2>1, <3>1, <3>2, <3>3, <3>4, TransitionStarts
         DEF RereadAfterFailure, IInv
  <2>3. CASE project.status # "accepted"
    BY <1>8, <1>a, <2>1, <2>3, MovingOn DEF RereadAfterFailure, IInv
  <2> QED BY <2>2, <2>3
<1>9. CASE ReleaseDelivery(s)
  <2>1. CallsOK' /\ RefundLock' /\ calls' \in [Slots -> Call]
    BY <1>9, <1>0, <1>a, MovingOn DEF ReleaseDelivery
  <2>2. TypeOK' /\ ReviewHasDelivery' /\ RefundedMeansMoneyBack'
    BY <1>9, <1>0, <2>1 DEF ReleaseDelivery, TypeOK, Project, IInv, ReviewHasDelivery,
       RefundedMeansMoneyBack
  <2> QED BY <2>1, <2>2 DEF IInv
<1>10. CASE QuotePaid(s)
  <2>1. CallsOK' /\ RefundLock' /\ calls' \in [Slots -> Call]
    BY <1>10, <1>0, <1>a, MovingOn DEF QuotePaid
  <2>2. TypeOK' /\ ReviewHasDelivery' /\ RefundedMeansMoneyBack'
    BY <1>10, <1>0, <2>1 DEF QuotePaid, TypeOK, Project, IInv, ReviewHasDelivery,
       RefundedMeansMoneyBack
  <2> QED BY <2>1, <2>2 DEF IInv
<1>11. CASE LockRefund(s)
  <2> DEFINE free == payment.status \in Held /\ ~payment.refunding
             d == IF free THEN [c EXCEPT !.stage = "gateway"] ELSE Idle
  <2>1. d \in Call /\ d.stage = IF free THEN "gateway" ELSE "idle"
    BY <1>0, <1>a DEF Call, Stages
  <2>2. /\ payment' = [payment EXCEPT !.refunding = @ \/ free]
        /\ calls' = [calls EXCEPT ![s] = d]
        /\ UNCHANGED <<project, refunded, deliveries, used, dispute,
                       granted, worker>>
    BY <1>11 DEF LockRefund, TakeRefundLock
  <2>3. payment'.refunding = (payment.refunding \/ free)
        /\ payment' \in [status: Held \cup {"none", "PENDING", "CHARGEBACK"},
                        refunding: BOOLEAN]
    BY <2>2, <1>0 DEF TypeOK
  <2> HIDE DEF d
  <2>4. /\ calls' \in [Slots -> Call]
        /\ \A t \in Slots : calls'[t] = IF t = s THEN d ELSE calls[t]
    BY <2>1, <2>2, <1>0 DEF TypeOK
  <2>5. CallsOK'
    BY <2>1, <2>2, <2>4 DEF IInv, CallsOK, CallOK, Legal
  <2>6. RefundLock'
    BY <2>1, <2>3, <2>4 DEF IInv, RefundLock, OneRefundAtATime
  <2>7. TypeOK' /\ ReviewHasDelivery' /\ RefundedMeansMoneyBack'
    BY <2>2, <2>3, <2>4, <1>0 DEF TypeOK, IInv, ReviewHasDelivery,
       RefundedMeansMoneyBack
  <2> QED BY <2>5, <2>6, <2>7 DEF IInv
<1>12. CASE RefundDone(s)
  <2> DEFINE d == [c EXCEPT !.op = "refunded", !.stage = "transition",
                            !.src = "refund_pending", !.to = "refunded"]
  <2>1. /\ d \in Call /\ d.stage = "transition" /\ d.to = "refunded"
        /\ d.src = "refund_pending"
    BY <1>0 DEF Call, Ops, Stages, Status, Closed
  <2>2. /\ payment' = [status |-> "none", refunding |-> FALSE]
        /\ refunded' = TRUE
        /\ c.stage = "gateway"
        /\ calls' = [calls EXCEPT ![s] = d]
        /\ UNCHANGED <<project, deliveries, used, dispute, granted,
                       worker>>
    BY <1>12 DEF RefundDone, Settle
  <2>3. Legal(d)
    BY <2>1 DEF Legal, Allowed, ALLOWED_TRANSITIONS
  <2> HIDE DEF d
  <2>4. /\ calls' \in [Slots -> Call]
        /\ \A t \in Slots : calls'[t] = IF t = s THEN d ELSE calls[t]
    BY <2>1, <2>2, <1>0 DEF TypeOK
  <2>5. CallsOK'
    BY <2>1, <2>2, <2>3, <2>4 DEF IInv, CallsOK, CallOK, Legal
  <2>6. \A t \in Slots : calls'[t].stage # "gateway"
    BY <2>1, <2>2, <2>4 DEF IInv, RefundLock, OneRefundAtATime
  <2>7. RefundLock'
    BY <2>6 DEF RefundLock, OneRefundAtATime
  <2>8. TypeOK' /\ ReviewHasDelivery' /\ RefundedMeansMoneyBack'
    BY <2>2, <2>4, <1>0 DEF TypeOK, IInv, ReviewHasDelivery,
       RefundedMeansMoneyBack
  <2> QED BY <2>5, <2>7, <2>8 DEF IInv
<1>13. CASE RefundRefused(s)
  <2>1. payment' \in [status: Held \cup {"none", "PENDING", "CHARGEBACK"},
                      refunding: BOOLEAN]
    BY <1>13, <1>0 DEF RefundRefused, TypeOK
  <2>2. /\ calls' \in [Slots -> Call]
        /\ \A t \in Slots : calls'[t] = IF t = s THEN Idle ELSE calls[t]
    BY <1>13, <1>0, <1>a DEF RefundRefused, TypeOK
  <2>3. CallsOK'
    BY <1>13, <1>a, <2>2 DEF RefundRefused, IInv, CallsOK, CallOK, Legal
  <2>4. \A t \in Slots : calls'[t].stage # "gateway"
    BY <1>13, <1>a, <2>2 DEF RefundRefused, IInv, RefundLock, OneRefundAtATime
  <2>5. RefundLock'
    BY <2>4 DEF RefundLock, OneRefundAtATime
  <2>6. TypeOK' /\ ReviewHasDelivery' /\ RefundedMeansMoneyBack'
    BY <1>13, <2>1, <2>2, <1>0 DEF RefundRefused, TypeOK, IInv,
       ReviewHasDelivery, RefundedMeansMoneyBack
  <2> QED BY <2>3, <2>5, <2>6 DEF IInv
<1>14. CASE Stop(s)
  <2>1. CallsOK' /\ RefundLock' /\ calls' \in [Slots -> Call]
    BY <1>14, <1>0, <1>a, MovingOn DEF Stop
  <2>2. TypeOK' /\ ReviewHasDelivery' /\ RefundedMeansMoneyBack'
    BY <1>14, <1>0, <2>1 DEF Stop, TypeOK, Project, IInv, ReviewHasDelivery,
       RefundedMeansMoneyBack
  <2> QED BY <2>1, <2>2 DEF IInv
<1> QED
    BY <1>1, <1>2, <1>3, <1>4, <1>5, <1>6, <1>7, <1>8, <1>9, <1>10, <1>11,
       <1>12, <1>13, <1>14 DEF Writes

\* A chargeback and the scheduler's two loops.
LEMMA OthersKeep ==
    ASSUME IInv, Chargeback \/ Worker
    PROVE  IInv'
<1>0. TypeOK /\ project.status \in Status
    BY DEF IInv, TypeOK, Project
<1>1. CASE Chargeback
  <2>1. /\ payment'.refunding = payment.refunding
        /\ payment' \in [status: Held \cup {"none", "PENDING", "CHARGEBACK"},
                        refunding: BOOLEAN]
    BY <1>0, <1>1 DEF Chargeback, TypeOK
  <2>2. TypeOK'
    BY <1>0, <1>1, <2>1 DEF Chargeback, TypeOK
  <2>3. CallsOK' /\ ReviewHasDelivery' /\ RefundedMeansMoneyBack'
    BY <1>1 DEF Chargeback, IInv, CallsOK, CallOK, Legal, ReviewHasDelivery,
       RefundedMeansMoneyBack
  <2>4. RefundLock'
    BY <1>1, <2>1 DEF Chargeback, IInv, RefundLock, OneRefundAtATime
  <2> QED BY <2>2, <2>3, <2>4 DEF IInv
<1>2. CASE ExpireProject \/ MarkOverdue
  <2>1. /\ project' \in Project
        /\ project'.status \in {"expired", "overdue"}
        /\ project'.pre_dispute = project.pre_dispute
    <3>1. \A to \in {"expired", "overdue"} :
             /\ SystemEvent(to) \in Project /\ SystemEvent(to).status = to
             /\ SystemEvent(to).pre_dispute = project.pre_dispute
      <4>1. project \in Project /\ {"expired", "overdue"} \subseteq Status
            /\ "system" \in Actors
        BY <1>0 DEF TypeOK, Status, Closed, Actors
      <4> QED
        BY <4>1 DEF SystemEvent, Project
    <3>2. \A p \in Project : LET q == [p EXCEPT !.was_overdue = TRUE] IN
             q \in Project /\ q.status = p.status
             /\ q.pre_dispute = p.pre_dispute
      BY DEF Project
    <3>3. \/ project' = SystemEvent("expired")
          \/ project' = [SystemEvent("overdue") EXCEPT !.was_overdue = TRUE]
      BY <1>2 DEF ExpireProject, Expire, MarkOverdue
    <3> QED
      BY <3>1, <3>2, <3>3
  <2>2. UNCHANGED <<payment, refunded, deliveries, used, dispute,
                    granted, calls>> /\ worker' \in {"idle", "cancel_orders"}
    BY <1>2 DEF ExpireProject, Expire, MarkOverdue
  <2>3. TypeOK'
    BY <1>0, <2>1, <2>2 DEF TypeOK
  <2>4. CallsOK' /\ ReviewHasDelivery' /\ RefundedMeansMoneyBack'
    BY <2>1, <2>2 DEF IInv, CallsOK, CallOK, Legal, ReviewHasDelivery,
       RefundedMeansMoneyBack
  <2>5. RefundLock'
    BY <2>2 DEF IInv, RefundLock, OneRefundAtATime
  <2> QED BY <2>3, <2>4, <2>5 DEF IInv
<1>3. CASE CancelExpiredOrders
  <2>1. /\ payment'.refunding = payment.refunding
        /\ payment' \in [status: Held \cup {"none", "PENDING", "CHARGEBACK"},
                        refunding: BOOLEAN]
    BY <1>0, <1>3 DEF CancelExpiredOrders, TypeOK
  <2>2. TypeOK'
    BY <1>0, <1>3, <2>1 DEF CancelExpiredOrders, TypeOK
  <2>3. CallsOK' /\ ReviewHasDelivery' /\ RefundedMeansMoneyBack'
    BY <1>3 DEF CancelExpiredOrders, IInv, CallsOK, CallOK, Legal,
       ReviewHasDelivery, RefundedMeansMoneyBack
  <2>4. RefundLock'
    BY <1>3, <2>1 DEF CancelExpiredOrders, IInv, RefundLock, OneRefundAtATime
  <2> QED BY <2>2, <2>3, <2>4 DEF IInv
<1> QED BY <1>1, <1>2, <1>3 DEF Worker

\* A step that changes nothing keeps everything.
LEMMA StutterKeeps ==
    ASSUME IInv, UNCHANGED vars
    PROVE  IInv'
BY DEF vars, IInv, TypeOK, CallsOK, CallOK, Legal, ReviewHasDelivery,
   RefundedMeansMoneyBack, RefundLock, OneRefundAtATime

\* A new project, or a legacy one the startup migration kept, is sound.
LEMMA InitHolds == Init => IInv
<1> SUFFICES ASSUME Init PROVE IInv
    OBVIOUS
<1>1. \A s \in Slots : calls[s] = Idle
    BY DEF Init
<1>2. Idle \in Call /\ Idle.stage = "idle"
    BY DEF Idle, NewCall, Call, Ops, Stages, Actors, Status, Unfunded
<1>3. /\ project \in Project /\ project.status \in {"pending", "in_progress"}
      /\ project.pre_dispute = "none"
  <2>1. NewProject \in Project
    BY DEF NewProject, Project, Status, Unfunded, Actors, Members
  <2>2. NewProject.status = "pending" /\ NewProject.pre_dispute = "none"
    BY DEF NewProject
  <2>3. /\ LegacyProject \in Project /\ LegacyProject.status = "in_progress"
        /\ LegacyProject.pre_dispute = "none"
    <3>1. {"in_progress", "accepted"} \subseteq Status /\ "system" \in Actors
      BY DEF Status, Unfunded, Actors
    <3> HIDE DEF NewProject
    <3> QED BY <2>1, <2>2, <3>1 DEF LegacyProject, Project
  <2>4. project \in {NewProject, LegacyProject}
    BY DEF Init
  <2> QED
    BY <2>1, <2>2, <2>3, <2>4
<1>4. TypeOK
  <2>1. payment \in [status: Held \cup {"none", "PENDING", "CHARGEBACK"},
                     refunding: BOOLEAN]
    <3>1. \/ payment = [status |-> "none", refunding |-> FALSE]
          \/ payment = [status |-> "AUTHORIZED", refunding |-> FALSE]
      BY Zenon DEF Init
    <3>2. \A st \in {"none", "AUTHORIZED"} :
             [status |-> st, refunding |-> FALSE]
                \in [status: Held \cup {"none", "PENDING", "CHARGEBACK"},
                     refunding: BOOLEAN]
      BY DEF Held
    <3> QED BY <3>1, <3>2, Zenon
  <2>2. calls \in [Slots -> Call]
    BY <1>2 DEF Init
  <2> QED
    BY <1>3, <2>1, <2>2 DEF Init, TypeOK
<1>5. CallsOK /\ RefundLock
    BY <1>1, <1>2 DEF CallsOK, CallOK, RefundLock, OneRefundAtATime
<1>6. ReviewHasDelivery /\ RefundedMeansMoneyBack
    BY <1>3 DEF ReviewHasDelivery, RefundedMeansMoneyBack
<1> QED BY <1>4, <1>5, <1>6 DEF IInv

-----------------------------------------------------------------------------
\* IInv is an inductive invariant of the project's lifecycle.
THEOREM Invariance == Spec => []IInv
<1>1. IInv /\ [Next]_vars => IInv'
    BY ReadsKeep, WritesKeep, OthersKeep, StutterKeeps DEF Next
<1> QED BY <1>1, InitHolds, PTL DEF Spec

\* Every variable keeps its type, for any number of concurrent calls.
THEOREM TypeCorrect == Spec => []TypeOK
<1>1. IInv => TypeOK
    BY DEF IInv
<1> QED BY <1>1, Invariance, PTL

\* A project in review, or one an admin may send back to review, has a
\* delivery.
THEOREM ReviewIsBacked == Spec => []ReviewHasDelivery
<1>1. IInv => ReviewHasDelivery
    BY DEF IInv
<1> QED BY <1>1, Invariance, PTL

\* A project shown as refunded has been refunded.
THEOREM RefundIsBacked == Spec => []RefundedMeansMoneyBack
<1>1. IInv => RefundedMeansMoneyBack
    BY DEF IInv
<1> QED BY <1>1, Invariance, PTL

\* However many refund requests race, one talks to the gateway at a time.
THEOREM RefundIsExclusive == Spec => []OneRefundAtATime
<1>1. IInv => OneRefundAtATime
    BY DEF IInv, RefundLock
<1> QED BY <1>1, Invariance, PTL

\* What a single step may do to the status of the document.
LEMMA StatusStep ==
    ASSUME IInv, [Next]_vars, project'.status # project.status
    PROVE  /\ LegalStep
           /\ project.status \notin Closed
           /\ project'.last_from = project.status
           /\ project'.last_to = project'.status
<1>0. TypeOK /\ project \in Project /\ project.status \in Status
    BY DEF IInv, TypeOK, Project
<1>1. CASE \E s \in Slots : TransitionProject(s)
  <2>1. PICK s \in Slots : TransitionProject(s)
    BY <1>1
  <2> DEFINE c == calls[s]
             e == Extra(c)
  <2>2. /\ c \in Call /\ CallOK(c) /\ c.stage = "transition"
        /\ project.status = c.src
        /\ project' = [e EXCEPT !.status = c.to, !.last_from = c.src,
                                 !.last_to = c.to, !.last_actor = c.by]
    BY <1>0, <2>1 DEF TransitionProject, Apply, IInv, CallsOK, TypeOK
  <2>3. e \in Project /\ Legal(c)
    BY <1>0, <2>2, ExtraFacts DEF CallOK
  <2> HIDE DEF c, e
  <2>4. /\ project'.status = c.to /\ project'.last_from = c.src
        /\ project'.last_to = c.to
    BY <2>2, <2>3 DEF Project
  <2> QED
    BY <1>0, <2>2, <2>3, <2>4, TableFacts DEF Legal, LegalStep
<1>2. CASE ExpireProject
  <2>1. /\ project'.status = "expired" /\ project'.last_to = "expired"
        /\ project'.last_from = project.status
        /\ project.status \in Unfunded
    BY <1>0, <1>2 DEF ExpireProject, Expire, SystemEvent, Project, Unfunded
  <2> QED
    BY <2>1 DEF LegalStep, Allowed, ALLOWED_TRANSITIONS, Unfunded, Closed
<1>3. CASE MarkOverdue
  <2>1. /\ project'.status = "overdue" /\ project'.last_to = "overdue"
        /\ project'.last_from = project.status
        /\ project.status \in {"in_progress", "revision_requested"}
    BY <1>0, <1>3 DEF MarkOverdue, SystemEvent, Project
  <2> QED
    BY <2>1 DEF LegalStep, Allowed, ALLOWED_TRANSITIONS, Closed
<1>4. CASE \E s \in Slots : Reads(s)
    BY <1>4 DEF Reads, Begin, BeginTransition, RespondToRequest, DeliverVideo,
       RequestRevision, AcceptRevision, RequestCancellation,
       DecideCancellation, OpenDispute, ResolveProjectLifecycle,
       CreatePayment, RefundPayment, PayhereNotification, CreateQuote
<1>5. CASE \E s \in Slots : Writes(s) /\ ~TransitionProject(s)
  <2>1. project' = project \/ project' = [project EXCEPT !.paid = TRUE]
    BY <1>5 DEF Writes, TransitionConflict, InsertDelivery, InsertOrder,
       RecordDispute, CloseDispute, ConfirmPayment, RereadAfterFailure,
       ReleaseDelivery, QuotePaid, LockRefund, TakeRefundLock, RefundDone, RefundRefused, Stop
  <2> QED BY <1>0, <2>1 DEF Project
<1>6. CASE Chargeback \/ CancelExpiredOrders \/ UNCHANGED vars
    BY <1>6 DEF Chargeback, CancelExpiredOrders, vars
<1> QED
    BY <1>1, <1>2, <1>3, <1>4, <1>5, <1>6 DEF Next, Worker, Writes

\* Every status change follows ALLOWED_TRANSITIONS, the scheduler's overdue
\* marking of a requested revision excepted.
THEOREM TableIsFollowed == Spec => TransitionsAreLegal
<1>1. IInv /\ [Next]_vars => [LegalStep]_vars
    BY StatusStep DEF LegalStep
<1> QED BY <1>1, Invariance, PTL DEF Spec, TransitionsAreLegal

\* A closed project stays as it is, whatever stale calls are still running.
THEOREM ClosedIsFinal == Spec => ClosedStaysClosed
<1>1. IInv /\ [Next]_vars =>
        [project.status \in Closed => project'.status = project.status]_vars
    BY StatusStep
<1> QED BY <1>1, Invariance, PTL DEF Spec, ClosedStaysClosed

\* The audit trail chains.
THEOREM AuditTrail == Spec => HistoryChains
<1>1. IInv /\ [Next]_vars =>
        [project'.status # project.status =>
            /\ project'.last_from = project.status
            /\ project'.last_to = project'.status]_vars
    BY StatusStep
<1> QED BY <1>1, Invariance, PTL DEF Spec, HistoryChains
=============================================================================

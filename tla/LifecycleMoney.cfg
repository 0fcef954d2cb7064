SPECIFICATION FairSpec
CONSTANTS
    c1 = c1
    c2 = c2
    u1 = u1
    u2 = u2
    NoUpload = NoUpload
    Slots <- TwoSlots
    Uploads <- OneFile
    RevisionLimit = 1
    MaxDeliveries = 1
    Handlers <- MoneyHandlers
    Crashes = TRUE
    Legacy = TRUE
CHECK_DEADLOCK FALSE
INVARIANTS
    RefundedMeansMoneyBack
    OneRefundAtATime
PROPERTIES
    TransitionsAreLegal
    UnfundedIsResolved

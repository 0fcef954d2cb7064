SPECIFICATION FairSpec
CONSTANTS
    c1 = c1
    c2 = c2
    o1 = o1
    o2 = o2
    NoOrder = NoOrder
    Slots <- TwoSlots
    Orders <- OneOrder
    Handlers = {"checkout", "notify", "approve", "verify", "refund", "reconcile"}
    Crashes = TRUE
CHECK_DEADLOCK FALSE
PROPERTIES
    LostRefundIsFlagged

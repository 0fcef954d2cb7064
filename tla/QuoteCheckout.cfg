SPECIFICATION Spec
CONSTANTS
    c1 = c1
    c2 = c2
    o1 = o1
    o2 = o2
    NoOrder = NoOrder
    Slots <- TwoSlots
    Orders <- TwoOrders
    MaxQuotes = 1
    Rows = 1
    Crashes = TRUE
SYMMETRY Symmetric
CHECK_DEADLOCK FALSE
INVARIANTS
    ChargedOnce

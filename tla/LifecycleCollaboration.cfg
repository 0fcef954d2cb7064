SPECIFICATION Spec
CONSTANTS
    c1 = c1
    c2 = c2
    u1 = u1
    u2 = u2
    NoUpload = NoUpload
    Slots <- TwoSlots
    Uploads <- TwoFiles
    RevisionLimit = 1
    MaxDeliveries = 2
    Handlers <- Collaboration
    Crashes = TRUE
    Legacy = FALSE
SYMMETRY Symmetric
VIEW Visible
CHECK_DEADLOCK FALSE
INVARIANTS
    ReviewHasDelivery
PROPERTIES
    ClosedStaysClosed
    HistoryChains

SPECIFICATION Spec
CONSTANTS
    Low = 1
    High = 2
    Sockets = {1, 2, 3, 4}
    MaxEvents = 2
INVARIANTS SlotOwned Lossless
PROPERTIES StaysConnected
CHECK_DEADLOCK FALSE

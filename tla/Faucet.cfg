SPECIFICATION Spec
CONSTANTS
    Handlers = {"h1", "h2"}
    Addresses = {"a1", "a2"}
    Amounts = {1, 2}
    MaxAmount = 1
    Cooldown = 2
    MaxTime = 5
    MaxRequests = 4
INVARIANTS RefusalEarned DripsBounded
CHECK_DEADLOCK FALSE

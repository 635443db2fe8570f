SPECIFICATION FairSpec
CONSTANTS
    left = left
    right = right
    Earbuds = {left, right}
    FirstPrimary = left
    Others = 1
    SessionIds = 256
    MaxSessions = 3
    Unreliable = {"halt_active"}
INVARIANTS PeerInStep OnePrimary RequestsAccounted
PROPERTIES CompletedIsUndone EarbudsSettle
CHECK_DEADLOCK FALSE

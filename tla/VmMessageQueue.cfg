SPECIFICATION FairSpec
CONSTANTS
    t1 = t1
    t2 = t2
    Tasks = {t1, t2}
    Recipients <- Lists
    AppIds = {"app"}
    Notices = {"more_data", "tx_power"}
    Bare = {"tx_power"}
    Updates = {"usb_suspended"}
    Values = {v1, v2}
    v1 = v1
    v2 = v2
    Conditions = {lock}
    lock = lock
    Delays = {0, 2}
    W = 8
    Limit = 1
    Start = 6
    Horizon = 8
    MaxSends = 3
    NoValue = NoValue
    NoCondition = NoCondition
    NoTimer = NoTimer
CHECK_DEADLOCK FALSE
INVARIANTS
    NoLostWakeup
    RaisedIsQueued
    RetainedIsKept
PROPERTIES
    DeliveredInOrder
    OthersKeepTheirs
    DueIsDelivered

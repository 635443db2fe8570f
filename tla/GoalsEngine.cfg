SPECIFICATION FairSpec
CONSTANTS
    connect_handset = connect_handset
    le_connectable_handset = le_connectable_handset
    disconnect_handset = disconnect_handset
    find_role = find_role
    secondary_find_role = secondary_find_role
    become_primary = become_primary
    no_role_idle = no_role_idle
    primary_connect_peer_profiles = primary_connect_peer_profiles
    dynamic_handover = dynamic_handover
    NoGoal = NoGoal
    NoRule = NoRule
    Goals = {connect_handset, le_connectable_handset, disconnect_handset, find_role, dynamic_handover, become_primary}
    Rules = {connect_handset, le_connectable_handset, disconnect_handset, find_role, secondary_find_role, dynamic_handover, become_primary}
    GoalOf <- TableGoalOf
    Contention <- TableContention
    Exclusive <- TableExclusive
    Concurrent <- TableConcurrent
    HandoverRules <- TableHandoverRules
    Scripted <- TableScripted
    AsyncCancel <- TableAsyncCancel
    NumSlots = 2
    MaxDecisions = 4
INVARIANTS LocksHeldByActive QueueAccounted OneSlotPerGoal GoalsCompatible ActiveIsExecuting ExecutingIsActive PanicOnlyWhenFull
PROPERTIES WaitersInOrder ImplementsScheduling QueueDrains
CHECK_DEADLOCK FALSE

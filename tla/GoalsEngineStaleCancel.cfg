SPECIFICATION Spec
CONSTANTS
    connect_handset = connect_handset
    le_connectable_handset = le_connectable_handset
    disconnect_handset = disconnect_handset
    find_role = find_role
    secondary_find_role = secondary_find_role
    become_primary = become_primary
    no_role_idle = no_role_idle
    primary_connect_peer_profiles = primary_connect_peer_profiles
    dynamic_handover = dynamic_handover
    NoGoal = NoGoal
    NoRule = NoRule
    Goals = {primary_connect_peer_profiles, become_primary, no_role_idle}
    Rules = {primary_connect_peer_profiles, become_primary, no_role_idle}
    GoalOf <- TableGoalOf
    Contention <- TableContention
    Exclusive <- TableExclusive
    Concurrent <- TableConcurrent
    HandoverRules <- TableHandoverRules
    Scripted <- TableScripted
    AsyncCancel <- TableAsyncCancel
    NumSlots = 4
    MaxDecisions = 4
INVARIANTS CancelGoalRunsAlone
CHECK_DEADLOCK FALSE

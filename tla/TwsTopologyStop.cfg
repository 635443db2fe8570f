SPECIFICATION TopologyFairSpec
CONSTANTS
    system_stop = system_stop
    pair_peer = pair_peer
    SystemStop = SystemStop
    primary_connect_peer_profiles = primary_connect_peer_profiles
    become_primary = become_primary
    NoGoal = NoGoal
    NoRule = NoRule
    Goals = {primary_connect_peer_profiles, become_primary, pair_peer, system_stop}
    Rules = {primary_connect_peer_profiles, become_primary, pair_peer, SystemStop}
    GoalOf <- TableGoalOf
    Contention <- TableContention
    Exclusive <- TableExclusive
    Concurrent <- TableConcurrent
    Scripted <- TableScripted
    AsyncCancel = {}
    HandoverRules = {}
    RoleGoals = {become_primary}
    NumSlots = 4
    MaxDecisions = 2
    MaxRequests = 6
    MaxShutdowns = 1
INVARIANTS TimeoutBelongsToStop AskedUnlessLate
PROPERTIES StopIsClean StopAnswered
CHECK_DEADLOCK FALSE

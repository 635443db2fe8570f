SPECIFICATION FairSpec
CONSTANTS
    permit_bt = permit_bt
    disconnect_handset = disconnect_handset
    disconnect_le = disconnect_le
    le_connectable = le_connectable
    find_role = find_role
    stop_le_broadcast = stop_le_broadcast
    connectable_peer_off = connectable_peer_off
    pair_peer = pair_peer
    handover = handover
    Procs = {permit_bt, disconnect_handset, disconnect_le, le_connectable, find_role}
    Kind <- ScriptKind
    Scripts <- RoleScripts
    MaxStarts = 3
INVARIANTS StepsReportInTurn CancelOnItsWay
PROPERTIES ImplementsProcedure
CHECK_DEADLOCK FALSE

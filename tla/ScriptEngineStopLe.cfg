SPECIFICATION Spec
CONSTANTS
    permit_bt = permit_bt
    disconnect_handset = disconnect_handset
    disconnect_le = disconnect_le
    le_connectable = le_connectable
    find_role = find_role
    stop_le_broadcast = stop_le_broadcast
    connectable_peer_off = connectable_peer_off
    pair_peer = pair_peer
    handover = handover
    Procs = {permit_bt, disconnect_handset, stop_le_broadcast}
    Kind <- ScriptKind
    Scripts <- StopScripts
    MaxStarts = 2
INVARIANTS CancelOnItsWay
CHECK_DEADLOCK FALSE

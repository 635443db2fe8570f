SPECIFICATION Spec
CONSTANTS
    permit_bt = permit_bt
    disconnect_handset = disconnect_handset
    disconnect_le = disconnect_le
    le_connectable = le_connectable
    find_role = find_role
    stop_le_broadcast = stop_le_broadcast
    connectable_peer_off = connectable_peer_off
    pair_peer = pair_peer
    handover = handover
    Procs = {permit_bt, disconnect_handset, disconnect_le, le_connectable, find_role,
             stop_le_broadcast, connectable_peer_off, pair_peer, handover}
    Kind <- ScriptKind
    Scripts <- KindScripts
    MaxStarts = 3
INVARIANTS NoPanic
PROPERTIES AnswersAsAsked
CHECK_DEADLOCK FALSE

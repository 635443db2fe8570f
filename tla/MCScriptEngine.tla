--------------------------- MODULE MCScriptEngine ---------------------------
(***************************************************************************)
(* Excerpts of the topology's scripts for TLC.  The procedures of a kind   *)
(* behave alike, so each kind is represented by one procedure of the       *)
(* no_role_idle, system_stop, secondary and primary_find_role scripts.     *)
(***************************************************************************)
EXTENDS ScriptEngine

CONSTANTS permit_bt, disconnect_handset, disconnect_le, le_connectable, find_role,
          stop_le_broadcast, connectable_peer_off, pair_peer, handover

ScriptKind ==
    [p \in Procs |->
        CASE p = permit_bt -> "instant"
          [] p = disconnect_handset -> "service"
          [] p = disconnect_le -> "deferred"
          [] p = le_connectable -> "late"
          [] p = find_role -> "continuous"
          [] p = stop_le_broadcast -> "stop_le"
          [] p = connectable_peer_off -> "connectable_off"
          [] p = pair_peer -> "pair_peer"
          [] p = handover -> "handover"]

\* permit_bt is a step of its script twice, as in no_role_idle.
RoleScripts == {<<permit_bt, le_connectable, disconnect_handset, permit_bt>>,
                <<disconnect_le, find_role, disconnect_handset>>}
StopScripts == {<<permit_bt, disconnect_handset, stop_le_broadcast, permit_bt>>}
KindScripts == {<<permit_bt, pair_peer>>,
                <<handover, le_connectable, permit_bt>>,
                <<connectable_peer_off, disconnect_handset, stop_le_broadcast>>,
                <<disconnect_le, find_role>>}
=============================================================================

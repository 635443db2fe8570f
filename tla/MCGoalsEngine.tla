--------------------------- MODULE MCGoalsEngine ---------------------------
(***************************************************************************)
(* Excerpts of the goal table of tws_topology_goals.c for TLC.  A rule is  *)
(* named after the goal it decides on, except the second rule of find_role.*)
(***************************************************************************)
EXTENDS GoalsEngine

CONSTANTS connect_handset, le_connectable_handset, disconnect_handset, find_role,
          secondary_find_role, become_primary, no_role_idle, primary_connect_peer_profiles,
          dynamic_handover

TableGoalOf == [r \in Rules |-> IF r = secondary_find_role THEN find_role ELSE r]

TableContention ==
    [g \in Goals |->
        IF g \in {become_primary, no_role_idle, dynamic_handover} THEN "cancel"
        ELSE IF g \in {disconnect_handset, find_role} THEN "wait" ELSE "concurrent"]

TableExclusive ==
    [g \in Goals |->
        IF {connect_handset, disconnect_handset} \subseteq Goals
        THEN CASE g = connect_handset -> disconnect_handset
               [] g = disconnect_handset -> connect_handset
               [] OTHER -> NoGoal
        ELSE NoGoal]

ConcurrentGoals == {g \in Goals : TableContention[g] = "concurrent"}
TableConcurrent ==
    [g \in Goals |-> IF g \in ConcurrentGoals THEN ConcurrentGoals \ {g} ELSE {}]

TableHandoverRules == Rules \cap {dynamic_handover}
TableScripted == Goals \cap {become_primary, no_role_idle, dynamic_handover}
TableAsyncCancel == Goals \cap {connect_handset, le_connectable_handset, find_role}
=============================================================================

------------------------- MODULE MCTwsTopologyStop -------------------------
(***************************************************************************)
(* Goals of tws_topology_goals.c: connecting the peer's profiles runs      *)
(* concurrently, pairing is a script that waits its turn, becoming primary *)
(* and stopping are scripts that cancel whatever is active.                *)
(***************************************************************************)
EXTENDS TwsTopologyStop

CONSTANTS primary_connect_peer_profiles, become_primary

TableGoalOf == [r \in Rules |-> IF r = SystemStop THEN system_stop ELSE r]
TableContention ==
    [g \in Goals |-> IF g = primary_connect_peer_profiles THEN "concurrent"
                    ELSE IF g = pair_peer THEN "wait" ELSE "cancel"]
TableExclusive == [g \in Goals |-> NoGoal]
TableConcurrent == [g \in Goals |-> {}]
TableScripted == Goals \ {primary_connect_peer_profiles}
=============================================================================

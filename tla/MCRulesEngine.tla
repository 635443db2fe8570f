--------------------------- MODULE MCRulesEngine ---------------------------
(***************************************************************************)
(* The rules of three events of the primary earbud, all of them, in the    *)
(* order of tws_topology_primary.rules: the common table comes first.      *)
(***************************************************************************)
EXTENDS RulesEngine

CONSTANTS OUT_CASE, PEER_LINKLOSS, NO_ROLE,
          STOP_WATCHDOG, SELECT_LE_ADV_PARAMS, FIND_ROLE, PRIMARY_FIND_ROLE

Rule(event, message, answers) == [event |-> event, message |-> message, answers |-> answers]

FindRoleRule(event) == Rule(event, FIND_ROLE, {"run", "settled", "defer"})

\* Rules that defer are the last of their event.
Primary == <<
    Rule(OUT_CASE, STOP_WATCHDOG, {"run", "settled"}),
    Rule(OUT_CASE, SELECT_LE_ADV_PARAMS, {"run", "settled"}),
    FindRoleRule(OUT_CASE),
    Rule(PEER_LINKLOSS, SELECT_LE_ADV_PARAMS, {"run", "settled"}),
    Rule(PEER_LINKLOSS, PRIMARY_FIND_ROLE, {"run", "settled", "defer"}),
    FindRoleRule(NO_ROLE) >>
PrimaryEventOf == [r \in DOMAIN Primary |-> Primary[r].event]
PrimaryMessageOf == [r \in DOMAIN Primary |-> Primary[r].message]
PrimaryAnswers == [r \in DOMAIN Primary |-> Primary[r].answers]
=============================================================================

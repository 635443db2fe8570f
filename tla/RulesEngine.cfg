SPECIFICATION FairSpec
CONSTANTS
    OUT_CASE = OUT_CASE
    PEER_LINKLOSS = PEER_LINKLOSS
    NO_ROLE = NO_ROLE
    STOP_WATCHDOG = STOP_WATCHDOG
    SELECT_LE_ADV_PARAMS = SELECT_LE_ADV_PARAMS
    FIND_ROLE = FIND_ROLE
    PRIMARY_FIND_ROLE = PRIMARY_FIND_ROLE
    Events = {OUT_CASE, PEER_LINKLOSS, NO_ROLE}
    NumRules = 6
    EventOf <- PrimaryEventOf
    MessageOf <- PrimaryMessageOf
    Answers <- PrimaryAnswers
    MaxSets = 4
    MaxDrops = 1
INVARIANTS InProgressOnItsWay OneRuleAtATime EventsMatchRulesLeft AnsweredOnce
PROPERTIES EventSettles

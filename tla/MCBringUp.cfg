SPECIFICATION FairSpec
CONSTANTS
    Configs <- MCConfigs
INVARIANTS TypeOK MastersInOrder TouchSurvivesTakeover
PROPERTIES LostForCause LoginScreen
\* units stay up or failed
CHECK_DEADLOCK FALSE

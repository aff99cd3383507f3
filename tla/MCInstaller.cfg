SPECIFICATION FairSpec
CONSTANTS
    Tools = {t1, t2}
    Polls = 1
    Console = TRUE
INVARIANTS
    TypeOK
PROPERTIES
    StartedServiceRecovers
    StartedServiceHasSource
    CommandsEnd
    RestartsAreBounded

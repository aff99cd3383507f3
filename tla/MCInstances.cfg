SPECIFICATION FairSpec
CONSTANTS
    Agents = {a1, a2, a3}
    Nobody = Nobody
INVARIANTS
    TypeOK
    OneWriter
    OnlyHolderRuns
    RunsProtected
PROPERTIES
    DeadHolderLetsGo
    BornLockedOrLeftAlone

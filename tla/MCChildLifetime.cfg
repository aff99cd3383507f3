\* Symmetry would be unsound beside the liveness property: it is not used here.
SPECIFICATION FairSpec
CONSTANTS
    Children = {c1, c2, c3}
    Platforms = {"linux", "windows"}
    NoChild = NoChild
INVARIANTS
    TypeOK
    OnlyCurrentLives
    WaitedChildIsBound
    NoOrphanOnLinux
PROPERTIES
    DeadAgentLeavesNoChild
\* A dead agent whose children are gone does nothing more.
CHECK_DEADLOCK FALSE

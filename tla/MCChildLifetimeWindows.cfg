SPECIFICATION Spec
CONSTANTS
    Children = {c1, c2}
    Platforms = {"windows"}
    NoChild = NoChild
INVARIANTS
    NoOrphan
SYMMETRY ChildSymmetry
CHECK_DEADLOCK FALSE

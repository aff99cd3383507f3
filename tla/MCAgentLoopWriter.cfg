SPECIFICATION Spec
CONSTANTS
    Period = 3
    Timeout = 2
    Children = {c1, c2}
    NoChild = NoChild
PROPERTIES
    NoWriterDuringRotation

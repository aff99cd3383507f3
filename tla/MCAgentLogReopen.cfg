\* One generation: the first failed reopen and one failed retry are enough.
SPECIFICATION Spec
CONSTANTS
    Keep = 1
    MaxBytes = 3
    Lens <- MCLens
    MaxLines = 4
    MaxFaults = 2
PROPERTIES
    WritesReachDisk

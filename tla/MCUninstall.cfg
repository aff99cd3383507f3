\* One command: the restart alone comes between its calls.
SPECIFICATION Spec
CONSTANTS
    Tools = {t1}
    Polls = 1
    Console = FALSE
PROPERTIES
    DeletesStoppedService

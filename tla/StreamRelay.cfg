SPECIFICATION Spec
CONSTANTS
    MaxBytes = 6
    MaxChunk = 3
    MaxErrorBody = 2
CHECK_DEADLOCK FALSE
INVARIANTS
    TypeOK
    EventsSurviveTheCuts
    EndTellsTheTruth
    InlineHasEveryEvent
    ErrorBodyIsBounded
PROPERTIES
    StreamsAreReleased

CONSTANTS
    RecordSize = 2
    Messages <- MCMessages
    Flights = 2
SPECIFICATION Spec
INVARIANT WriteNeedsNoAnswer
CHECK_DEADLOCK FALSE

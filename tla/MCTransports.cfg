CONSTANTS
    Tasks = {a, b}
    OffLoop = {b}
    Nobody = Nobody
    MaxDatagrams = 2
    MaxAddresses = 1
    RecordSize = 2
    Messages <- MCMessages
    Flights = 2
SPECIFICATION MCSpec
INVARIANTS DatagramsAccounted NoIdleReceiver PlaintextInOrder NoIdleCodec
CHECK_DEADLOCK FALSE

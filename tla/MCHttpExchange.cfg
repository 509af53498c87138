CONSTANTS
    MaxConns = 2
    MaxRequests = 2
    MaxBody = 1
    MaxFailures = 1
    RequestKinds <- MCRequestKinds
    ResponseKinds <- MCResponseKinds
SPECIFICATION Spec
INVARIANTS RequestBodyIntact ResponseAnswersRequest NoMutualWait
CHECK_DEADLOCK FALSE

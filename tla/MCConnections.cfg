SPECIFICATION Spec
CONSTANTS
    NumClients = 3
    NumQueryWorkers = 2
    NumStorageWorkers = 2
    Sockets <- MCSockets
    MaxRequests = 2
INVARIANTS
    TypeOK
    AnswersReachAsker
    OneWriter
    WritesInOrder
PROPERTIES
    WithdrawsOnlyDeparted
    RequestsServed
CHECK_DEADLOCK FALSE

\* Two inventories of a server that changes once, all requests and answers.
SPECIFICATION Spec
CONSTANTS
    Servers <- MCServers
    Requests <- MCRequests
    Answers <- MCAnswers
    Configs <- MCConfigs
    MaxInventories = 2
    MaxMoves = 1
INVARIANTS
    TypeOK
    ParameterStopsBeforeUp
    DraftPassesValidator
    AcceptedFitsServer
    FallbackInOrder
CHECK_DEADLOCK FALSE

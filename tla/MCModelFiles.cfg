SPECIFICATION FilesSpec
CONSTANTS
    Clients = {"c1", "c2", "c3"}
    Processes = {"p1", "p2"}
    Process <- MCProcess
    Pinned = {"voice"}
    Model <- MCModel
    Required = {"weights"}
    MaxCalls = 3
INVARIANT ReturnedVerified
PROPERTY FetchedOnce
CHECK_DEADLOCK FALSE

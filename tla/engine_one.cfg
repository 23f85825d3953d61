CONSTANTS
    FD <- FD5
    Pid = {p1}
    SignalPipe = 1
    Listener <- TheListener
    MaxBacklog = 1
    MaxSegments = 2
    MaxOutput = 2
    MaxInput = 1
    MaxResponse = 2
    Verdicts = {"partial", "error", "page", "cgi", "cgiBody"}
    IdleTimeout = 2
    CgiTimeout = 2
    Pipelines = FALSE
    Signals = TRUE
    MaxClients = 1
SPECIFICATION FairSpec
INVARIANTS
    TypeOK
    NoDescriptorLeak
PROPERTIES
    ResponseKept
    OnlyIdleClosed
    
    KeepsPromise
    CgiEnds
    ReaderLeaves
CHECK_DEADLOCK FALSE

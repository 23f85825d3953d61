CONSTANTS
    FD <- FD5
    Pid = {p1}
    SignalPipe = 1
    Listener <- TheListener
    MaxBacklog = 1
    MaxSegments = 1
    MaxOutput = 1
    MaxInput = 1
    MaxResponse = 1
    Verdicts = {"partial", "error", "page", "cgi", "cgiBody"}
    IdleTimeout = 1
    CgiTimeout = 1
    Pipelines = FALSE
    Signals = TRUE
    MaxClients = 1
SPECIFICATION Spec
INVARIANTS
    ChildrenCleaned
CHECK_DEADLOCK FALSE

CONSTANTS
    FD <- FD5
    Pid = {p1}
    SignalPipe = 1
    Listener <- TheListener
    MaxBacklog = 1
    MaxSegments = 1
    MaxOutput = 1
    MaxInput = 1
    MaxResponse = 2
    Verdicts = {"partial", "error", "page", "cgi", "cgiBody"}
    IdleTimeout = 1
    CgiTimeout = 1
    Pipelines = FALSE
    Signals = FALSE
    MaxClients = 1
SPECIFICATION FairSpec
PROPERTIES
    IdleEnds

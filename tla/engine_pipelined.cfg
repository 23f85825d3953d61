CONSTANTS
    FD <- FD6
    Pid = {p1, p2}
    SignalPipe = 1
    Listener <- TheListener
    MaxBacklog = 1
    MaxSegments = 2
    MaxOutput = 1
    MaxInput = 2
    MaxResponse = 1
    Verdicts = {"partial", "error", "page", "cgi", "cgiBody"}
    IdleTimeout = 1
    CgiTimeout = 1
    Pipelines = TRUE
    Signals = FALSE
    MaxClients = 1
SPECIFICATION Spec
SYMMETRY PidSymmetry
INVARIANTS
    StateMatchesCgi
    PollSetCurrent
    CgiRegistered

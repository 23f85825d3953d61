CONSTANTS
    FD <- FD8
    Pid = {p1, p2}
    SignalPipe = 1
    Listener <- TheListener
    MaxBacklog = 1
    MaxSegments = 1
    MaxOutput = 0
    MaxInput = 1
    MaxResponse = 1
    Verdicts = {"page", "cgi"}
    IdleTimeout = 1
    CgiTimeout = 1
    Pipelines = FALSE
    Signals = FALSE
    MaxClients = 2
SPECIFICATION Spec
SYMMETRY PidSymmetry
INVARIANTS
    DescriptorOwnership
    PidOwnership
PROPERTIES
    NoReuseWhilePending
    KeepsPromise

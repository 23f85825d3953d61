CONSTANTS
    Fd <- TheFd
    Inherited <- TheInherited
    Key <- TheKey
    Busy <- TheBusy
    Quads <- TheQuads
    Files <- TheFiles
    Junk <- TheJunk
SPECIFICATION Spec
INVARIANTS
    TypeOK
    ReadsGrammar
    ReadsBack
    AsWritten
    VirtualHosts
    Usable
    Accounted
    Handover
PROPERTIES
    SignalEnds
    
CHECK_DEADLOCK FALSE

CONSTANTS
    Texts <- SomeTexts
    StartFaults = {0, 400, 505}
    FieldLines <- SomeFieldLines
    Payloads <- SomePayloads
    Extras <- SomeExtras
SPECIFICATION Spec
INVARIANTS
    TypeOK
    SegmentationIndependent
    
    RejectsFaults
PROPERTIES
    VerdictIsFinal
CHECK_DEADLOCK FALSE

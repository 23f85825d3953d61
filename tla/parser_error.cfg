CONSTANTS
    Texts <- SomeTexts
    StartFaults = {0, 400, 505}
    FieldLines <- SomeFieldLines
    Payloads <- SomePayloads
    Extras <- SomeExtras
SPECIFICATION Spec
INVARIANTS
    ErrorIsReported
CHECK_DEADLOCK FALSE

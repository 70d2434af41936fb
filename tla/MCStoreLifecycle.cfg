SPECIFICATION FairSpec
CONSTANTS
    Callers = {c1, c2}
    GatedOps = {"Put"}
    CtxErrs = {"Canceled"}
INVARIANTS
    TypeOK
    LateCallsRefused
    OvertakenStartGivesUp
    CloseOnce
    StartFailureClass
PROPERTIES
    ImplementsGate
    StartAndReadyReturn
    ShutdownCompletes

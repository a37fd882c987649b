CONSTANTS
    Coil = {"c1", "c2"}
    HealthCoil = "c1"
    Kind = {"gateway", "serial"}
    TidMod = 3
    Cut = {9}
    MaxRequests = 4
SPECIFICATION ConnSpec
INVARIANTS OwnAnswer ReadIsCurrent
PROPERTY ImplementsRegisters

CONSTANTS
    PreloadOps = {"image-inspect"}
    DisposalOps = {"container-kill"}
    Streams = {"stdout"}
    Spooled = {4}
    MaxOrdinary = 4
    MaxCalls = 4
    MaxSamples = 1
    Boots = {b0, b1}
    OriginBoot = b0
SPECIFICATION Spec
INVARIANTS
    AdmittedHistory
    NoAbandonedContainer
PROPERTIES
    FactsAreSticky
    ImplementsLifecycle
CHECK_DEADLOCK FALSE

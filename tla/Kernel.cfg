SPECIFICATION Spec
CONSTANTS
    NumBars = 3
    RegBits = 8
    Page = 8
    Header = 2
    Functions <- MCFunctions
    Images <- MCImages
    Symbols <- MCSymbols
    MaxFrames = 6
    Machines <- MCMachines
    Chains <- MCChains
    Slots = 3
    Funcs = 2
    MB = 2
    IdentityMap = 32
    CardBytes = 32
    MaxTicks = 1
    MaxKeys = 2
    MaxEvents = 2
    None = None
INVARIANTS OnlyKnownStops InterruptsSound ShutdownRestores FirmwareExact TraceExact
PROPERTIES GoesOn
CHECK_DEADLOCK FALSE

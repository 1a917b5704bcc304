SPECIFICATION RunnerSpec
CONSTANTS
    \* Two sources and two images, any four invocations of any kind.
    Sources = {s1, s2}
    Images = {i1, i2}
    Tables = {t}
    Invocations = 4
    Absent = Absent
    Torn = Torn
    Builds <- MCBuilds
    Cases <- MCCases
    Latencies = {1, 2}
    MaxReruns = 1
    MaxMixed = 1
    MaxReductions = 1
    PageTerms = 2
    Assignments <- MCAssignments
    NamedCount = 2
    Externals = 3
    PortCount = 8
    FloatBytes = 2
    TokenSize <- MCTokenSize
    OutputSize <- MCOutputSize
    SegmentName <- MCSegmentName
    NamedConstants = {1}
    Elements <- MCElements
    ExternalElements = {2}
    NameOrder <- MCNameOrder
    Designs <- MCDesigns
    Programs <- MCPrograms
    Packages <- MCPackages
    Proofs <- MCProofs
    Modes = {"strict", "diagnostic"}
    Contents <- MCContents
    Commands <- MCCommands
    Simulated <- MCSimulated
    MaxExchanges = 1
    MaxAttempts = 2
    NotThere = NotThere
    HalfThere = HalfThere
SYMMETRY MCSymmetry
INVARIANTS
    CacheIsSound
    SummaryIsOfOneBuild
    TextIsUnderstood
    MemoriesHoldTheImage
    DiagnosticPassIsEarned
\* Every part ends.
CHECK_DEADLOCK FALSE

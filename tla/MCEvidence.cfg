SPECIFICATION EvidenceSpec
CONSTANTS
    Runs = {r1, r2}
    MaxChanges = 2
    MaxCrashes = 1
    Lowerings = {l1, l2}
    MaxKills = 1
    WordBits = 5
    Unit = 2
    Lanes = 16
    High = 16
    Epsilon = 1
    Inputs <- MCInputs
    Affines <- MCAffines
    Tried <- MCTried
    Required <- MCRequired
    Transforms <- MCTransforms
    Generators = {g1, g2}
    Requests <- MCRequests
    Exports = {"old", "new", "late"}
    Vocabulary = 2
    ContextTokens = 2
    CodeRange = 4
    Observed <- MCObserved
    Corpus <- MCCorpus
    MaxKilled = 1
    MaxExchanges = 1
    Programs = {"old", "new", "wide", "cast", "odd", "twin"}
    Tensors <- MCTensors
    Answer <- MCAnswer
    Cases = {"a", "b"}
    NameBefore <- MCBefore
    Alignment = 8
    MaxPacks = 2
    MaxReplacements = 1
    WordBytes = 4
    FixedPorts = {0, 1}
    BoundPorts = {4, 5}
    ZeroPort = 4
    FixedName <- MCFixedName
    Designs <- MCDesigns
    Globals <- MCGlobals
    Trimmed = TRUE
    MaxDesigns = 1
    SourceFiles <- MCSourceFiles
    SourceDesigns = {"old", "new", "split", "twice", "open", "two", "cut", "empty"}
    LaterDesigns = {"old", "new", "split"}
    SourcePaths = {"main"}
    SortedNames <- MCSortedNames
    YosysCells = {"$add"}
    Contracts <- MCContracts
    Flaws = {"none", "values", "malformed", "tokens", "unmeasured", "borrowed", "edited", "one id",
             "structural", "remeasured", "rebuilt"}
    MaxExtractions = 2
    MaxSwaps = 1
    expected_exp_sites = 2
    Sharings <- MCSharings
    Units <- MCUnits
    MaxSwapped = 2
    Models = {"late", "tied"}
    VOCAB_SIZE = 2
    PREFILL_LENGTH = 2
    Score <- MCScore
    Traces <- MCTraces
    CallFaults = {"none", "rewrites", "forgets", "retypes", "generates"}
    ExportFaults = {"none", "cache", "type", "logits"}
    MaxExchanged = 1
    MaxStarts = 2
    FrozenContract <- MCContract
    FrozenConfig <- MCConfig
    PackageVersions <- MCPackageVersions
    Verifiers = {"canonical", "another"}
    FLOAT_BYTES = 1
    NotANumber = 255
    INT8_TENSORS = 2
    ACTIVATION_SCALES = 13
    ACTIVATION_WIDTHS = {1, 2}
    Disagreements = {{}, {3}, {7, 3}}
    NotMade = NotMade
    Unreadable = Unreadable
    MaxReplacedFiles = 2
INVARIANTS
    PublicationIsSound
    ReportIsOfItsConversion
    ScheduleIsExact
    MatrixIsGrounded
    ShardsAreRight
    PublishedImageIsAProgram
    MappedReadsAreTensors
    AlignedIsEarned
    BridgedSitesAreSoftmax
    ReportsNameWhatTheyUsed
    ServedAsTraced
    TensorsAreNamed
\* Every script ends.
CHECK_DEADLOCK FALSE

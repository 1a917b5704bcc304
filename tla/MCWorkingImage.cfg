SPECIFICATION WorkingSpec
CONSTANTS
    Programs = {"old", "new", "wide", "cast", "odd", "twin"}
    Tensors <- MCTensors
    Answer <- MCAnswer
    Cases = {"a", "b"}
    NameBefore <- MCBefore
    Alignment = 8
    MaxPacks = 2
    MaxReplacements = 1
    WordBytes = 4
    FixedPorts = {0, 1}
    BoundPorts = {4, 5}
    ZeroPort = 4
    FixedName <- MCFixedName
    Designs <- MCDesigns
    Globals <- MCGlobals
    Trimmed = FALSE
    MaxDesigns = 1
INVARIANT
    PublishedImageIsWellFormed
CHECK_DEADLOCK FALSE

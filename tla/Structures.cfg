SPECIFICATION StructuresSpec
CONSTANTS
    DictKeys = {1, 2, 3, 4}
    DictVals = {1}
    Hash <- MCHash
    InitialExp = 0
    WordBits = 4
    EmptyVisits = 2
    ForceRatio = 2
    MaxLoad = 161
    MinFill = 30
    SampleSteps = 2
    DictLoads <- MCDictLoads
    RaxKeys <- MCRaxKeys
    RaxProbes <- MCRaxProbes
    RaxVals = {0, 1}
    Items = {1, 2, 3}
    ItemBytes <- MCItemBytes
    PackedThreshold = 90
    SizeLevel <- MCSizeLevel
    SafetyLimit = 200
    MinCompress = 20
    Noise = {2}
    PauseEvery = 1
    MaxItems = 4
    ListOptions <- MCListOptions
    Elements <- MCElements
    SmallString = 4
    LongString = 16
    BackBase = 4
    UnknownCount = 3
    BigPrevlen = 12
    CellBits = 2
    IntsetValues <- MCIntsetValues
    MaxElements = 4
    Members = 4
    Scores = {1, 2}
    MaxLevel = 2
    MaxListpack = 2
INVARIANT StructuresHold
INVARIANT StructuresRead
CHECK_DEADLOCK FALSE

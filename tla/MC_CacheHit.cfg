SPECIFICATION Spec
CONSTANTS
    Images <- MCImages
    Indexes <- MCIndexes
    Schema1s <- MCSchema1s
    Children <- MCChildren
    LayersOf <- MCLayersOf
    ForeignURLs <- MCForeignURLs
    Asked <- MCAsked
    FirstTag = "list"
    TagTargets = {"old"}
    Deletable = {"app-arm"}
    MaxFaults = 0
    MaxMoves = 1
    Layers <- MCLayers
    SameGzip = {"base"}
    Paths <- MCPaths
    Procs = {"p"}
    Kinds <- MCTwoKinds
    HistoryOf <- MCHistoryOf
    Before <- MCFirst
    MaxStarts = 3
    MaxAccidents = 0
INVARIANTS
    HitIsTheLayer
CHECK_DEADLOCK FALSE



SPECIFICATION FairSpec
CONSTANTS
    Images <- MCImages
    Indexes <- MCIndexes
    Schema1s <- MCSchema1s
    Children <- MCChildren
    LayersOf <- MCLayersOf
    ForeignURLs <- MCForeignURLs
    Asked <- MCAsked
    FirstTag = "list"
    TagTargets = {"old"}
    Deletable = {"app-arm"}
    MaxFaults = 1
    MaxMoves = 1
    Layers <- MCLayers
    SameGzip = {"base"}
    Paths <- MCPaths
    Procs = {"p", "q"}
    Kinds <- MCKinds
    HistoryOf <- MCHistoryOf
    Before <- MCBefore
    MaxStarts = 2
    MaxAccidents = 1
INVARIANTS
    SuccessIsTheImage
    IndexedImagesComplete
    IndexKeepsImages
PROPERTIES
    PullsReturn
CHECK_DEADLOCK FALSE

SPECIFICATION Spec
CONSTANTS
    LayersOf <- MCLayersOf
    ConfigOf <- MCConfigOf
    Told <- MCTold
    DiffOf <- MCDiffOf
    SizeOf <- MCSizeOf
    Foreign = {"leaf", "own-leaf"}
    ConfigSize = 3
    ManifestSize = 5
    Block = 4
    MaxFaults = 1
    Jobs <- MCJobs
    Stacks <- MCStacks
INVARIANTS
    LoadsOnlyWhole
    ProgressIsTrue
    LegacyChain
    ExtractIsOverlay
PROPERTIES
    Learns
    Returns
CHECK_DEADLOCK FALSE

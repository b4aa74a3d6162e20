SPECIFICATION IndexSpec
CONSTANTS
    Layers <- MCLayers
    DiffOf <- MCDiffOf
    Read <- MCUntold
    Addenda <- MCAddenda
    Confs <- MCConfs
    Dates = {"today"}
    MediaTypes = {"oci"}
    Streams = {"stream"}
    Listed <- MCNone
    Stripped <- MCStripped
    MaxSteps = 1
    MaxIndexes = 0
INVARIANTS
    RebaseAppendsTheRest
CHECK_DEADLOCK FALSE

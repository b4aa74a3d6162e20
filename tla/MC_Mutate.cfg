SPECIFICATION IndexSpec
CONSTANTS
    Layers <- MCLayers
    DiffOf <- MCDiffOf
    Read <- MCRead
    Addenda <- MCAddenda
    Confs <- MCConfs
    Dates = {"today"}
    MediaTypes = {"oci"}
    Streams = {"stream"}
    Listed <- MCListed
    Stripped <- MCStripped
    MaxSteps = 2
    MaxIndexes = 1
INVARIANTS
    EverythingValid
    RebaseKeepsOwn
PROPERTIES
    DigestIsStable
CHECK_DEADLOCK FALSE

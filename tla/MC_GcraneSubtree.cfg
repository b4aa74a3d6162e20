SPECIFICATION Spec
CONSTANTS
    root = root
    sub = sub
    leaf = leaf
    a = a
    b = b
    c = c
    t1 = t1
    t2 = t2
    Repos = {root, sub, leaf}
    Root = root
    Below <- MCBelow
    Digests = {a, b, c}
    Tags = {t1, t2}
    SrcImages <- MCSrcImages
    SrcTags <- MCSrcTags
    DstImages <- MCDstImages
    DstTags <- MCDstTags
    Jobs = {1, 2}
    Steps = 2
    Moving = {root}
    MaxFaults = 2
    MaxMoves = 0
INVARIANT
    EverythingCopied
CHECK_DEADLOCK FALSE

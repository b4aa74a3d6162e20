SPECIFICATION FairSpec
CONSTANTS
    r1 = r1
    t1 = t1
    t2 = t2
    imgA = imgA
    imgB = imgB
    inner = inner
    outer = outer
    mixed = mixed
    other = other
    j1 = j1
    j2 = j2
    Repos = {r1}
    Tags = {t1, t2}
    UploadIds = {}
    Blobs <- MCBlobs
    ImageDocs = {imgA, imgB}
    IndexDocs = {inner, outer, mixed}
    OtherDocs = {other}
    Children <- MCChildren
    ConfigOf <- MCConfigOf
    LayersOf <- MCLayersOf
    Foreign = {}
    MaxFaults = 2
    MWRepo = r1
    Requested <- MCRequested
    Workers = {j1, j2}
    WIRepo = r1
    WITarget = t1
    WIIndexes = {outer, mixed}
INVARIANTS
    SuccessIsServed
    FaultFreeSucceeds
    PoolIsQuiet
PROPERTY
    BothReturn
CHECK_DEADLOCK FALSE

SPECIFICATION FairSpec
CONSTANTS
    w1 = w1
    w2 = w2
    r1 = r1
    t1 = t1
    imgA = imgA
    imgB = imgB
    Repos = {r1}
    Tags = {t1}
    UploadIds <- MCUploadIds
    Blobs <- MCBlobs
    ImageDocs = {imgA, imgB}
    IndexDocs = {}
    OtherDocs = {}
    Children <- MCChildren
    Writers = {w1, w2}
    RepoOf <- MCRepoOf
    TagOf <- MCTagOf
    ImageOf <- MCImageOf
    ConfigOf <- MCConfigOf
    LayersOf <- MCLayersOf
    Foreign <- MCForeign
    Streaming <- MCStreaming
    TransportSteps = 2
    UploadSteps = 2
    ErrorKinds = {"temporary", "fatal"}
    MaxFaults = 2
INVARIANTS
    TypeOK
    CommittedImagesComplete
    ReportedSuccessIsStored
    FaultFreeSucceeds
    OrphansNeedFaults
PROPERTY
    Terminates
    PushIsAtomic
CHECK_DEADLOCK FALSE

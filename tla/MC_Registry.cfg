SPECIFICATION Spec
CONSTANTS
    r1 = r1
    r2 = r2
    t1 = t1
    u1 = u1
    u2 = u2
    img = img
    idx = idx
    idx2 = idx2
    Repos = {r1, r2}
    Tags = {t1}
    UploadIds = {u1, u2}
    Blobs <- MCBlobs
    BlobOf <- MCBlobOf
    ImageDocs = {img}
    IndexDocs = {idx, idx2}
    OtherDocs = {}
    Children <- MCChildren
INVARIANTS
    TypeOK
    BlobsMatchDigest
    UploadIsPrefix
    IndexChildrenPresent
PROPERTY
    UploadKeptUntilStored

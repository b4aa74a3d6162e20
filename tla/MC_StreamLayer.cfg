SPECIFICATION FairSpec
CONSTANTS
    o1 = o1
    o2 = o2
    Chunks = 3
    Attempts = 2
    Observers = {o1, o2}
    SourceFailures = 1
INVARIANTS
    DigestIsOfTheStream
    DigestKnownAtEOF
PROPERTIES
    DigestKnownForGood
    PatientConsumersReturn
CHECK_DEADLOCK FALSE

SPECIFICATION FairSpec
CONSTANTS
    puller = puller
    initiator = initiator
    committer = committer
    Requests = {puller, initiator, committer}
    Need <- Needs
    HasBody = {committer}
    Initial = {"pull"}
    Allowed = {"pull", "push", "push other"}
    Public = {}
    Insecure = TRUE
    MaxExpiries = 1
INVARIANTS
    DenialNeedsCause
    LateScopeIsGranted
PROPERTIES
    AllReturn
CHECK_DEADLOCK FALSE

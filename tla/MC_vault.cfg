SPECIFICATION Spec
CONSTANTS
    Names <- MCNames
    InitFolders <- MCFolders
    MaxDepth = 2
    MaxVersion = 1
    MaxRequests = 2
INVARIANTS
    CrumbsTell
    AcknowledgedIsListed

SPECIFICATION FairSpec
CONSTANTS
    ann = ann
    bob = bob
    NoUser = NoUser
    Users <- MCUsers
    MaxVersion = 1
    MaxRequests = 2
CHECK_DEADLOCK FALSE
INVARIANTS
    SyncIsShown
PROPERTIES
    NeverBack
    LoadingIsAnswered
    EveryButtonComesBack

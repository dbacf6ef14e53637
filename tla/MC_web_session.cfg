SPECIFICATION FairSpec
CONSTANTS
    admin = admin
    student = student
    NoUser = NoUser
    Users <- MCUsers
    Admins <- MCAdmins
    Tabs <- MCTabs
    MaxLogins = 2
    MaxReloads = 1
CHECK_DEADLOCK FALSE
INVARIANTS
    StoredIsMirrored
    OverlayTells
    DiagnosticsForAdmins
    IdentityMatches
PROPERTIES
    RevokedIsNoticed

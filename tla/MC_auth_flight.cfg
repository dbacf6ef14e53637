CONSTANTS
    c1 = c1
    c2 = c2
    c3 = c3
    u1 = u1
    u2 = u2
    None = None
    Calls <- TwoCalls
    Users <- OneUser
    WithCredentials <- OneUser
    Threshold = 3
    Cooldown = 1
    Margin = 2
    Slack = 1
    Lifetimes <- MCLifetimes
    MaxTime = 2
SPECIFICATION FairSpec
CHECK_DEADLOCK FALSE
INVARIANTS
    OneFlight
    NoCallWhileOpen
    PasswordOnlyToBootstrap
PROPERTIES
    NoRedundantRenewal
    EveryCallReturns

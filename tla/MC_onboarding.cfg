SPECIFICATION Spec
CONSTANTS
    admin = admin
    rohan = rohan
    mira = mira
    NoUser = NoUser
    Admins <- MCAdmins
    Students <- MCStudents
    MaxCalls = 3
CHECK_DEADLOCK FALSE
INVARIANTS
    EnrolledIsShown
    ReportsAreTheStudents
    WizardForAdmins

CONSTANTS
    a = a
    b = b
    c = c
    t1 = t1
    t2 = t2
    Hosts = {a, b, c}
    NoHost = NoHost
    Seeds = {a, b}
    Threads = {t1, t2}
    NoThread = NoThread
    Prefs = {"PrimaryOnly", "SecondaryOnly"}
    Answers <- ReconfigAnswers
    FailedScansCap = 1
SYMMETRY ThreadSymmetry
SPECIFICATION Spec
INVARIANTS
    TypeOK
    CheckInvariants
    MasterDecidesMembership
    ScanCoversNodes
    EveryWaitHasAContact
    NoLostWakeup
PROPERTIES
    GivesUpOnlyAfterContactingAll
    UsableOnlyWhenConfirmed

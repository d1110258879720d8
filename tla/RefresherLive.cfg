CONSTANTS
    a = a
    b = b
    c = c
    t1 = t1
    t2 = t2
    Hosts = {a, b}
    NoHost = NoHost
    Seeds = {a}
    Threads = {t1, t2}
    NoThread = NoThread
    Prefs = {"PrimaryOnly", "SecondaryOnly"}
    Answers <- SplitAnswers
    FailedScansCap = 0
SPECIFICATION FairSpec
PROPERTIES
    EveryCallReturns
    ImplementsLookup

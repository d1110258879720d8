CONSTANTS
    Hosts = {a, b}
    NoHost = NoHost
    Dbs = {}
    Prefs = {"PrimaryPreferred", "SecondaryPreferred"}
    NoPref = NoPref
    Addrs = {x, y, z}
    Null = Null
    MaxRetry = 3
    LazyUse = FALSE
SYMMETRY ClientSymmetry
SPECIFICATION Spec
INVARIANT
    NotMasterBlamesItsHost

CONSTANTS
    Hosts = {a}
    NoHost = NoHost
    Dbs = {}
    Prefs = {"PrimaryPreferred", "SecondaryPreferred"}
    NoPref = NoPref
    Addrs = {x, y, z}
    Null = Null
    MaxRetry = 3
    LazyUse = TRUE
SYMMETRY ClientSymmetry
SPECIFICATION Spec
INVARIANT
    LazyRetriesBounded

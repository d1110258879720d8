CONSTANTS
    Hosts = {a, b}
    NoHost = NoHost
    Dbs = {}
    Prefs = {"PrimaryPreferred", "SecondaryPreferred"}
    NoPref = NoPref
    Addrs = {x, y, z}
    Null = Null
    MaxRetry = 2
    LazyUse = TRUE
SYMMETRY ClientSymmetry
SPECIFICATION Spec
INVARIANTS
    
    LazyClientExists

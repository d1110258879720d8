CONSTANTS
    Hosts = {a, b}
    NoHost = NoHost
    Dbs = {d}
    Prefs = {"PrimaryPreferred", "SecondaryPreferred"}
    NoPref = NoPref
    Addrs = {x, y, z}
    Null = Null
    MaxRetry = 2
    LazyUse = FALSE
SYMMETRY ClientSymmetry
SPECIFICATION Spec
INVARIANTS
    TypeOK
    
    AuthLeavesOneConnection
    
    

SPECIFICATION Spec
CONSTANTS
    r1 = r1  r2 = r2  l1 = l1  l2 = l2  c1 = c1  c2 = c2  c3 = c3
    Replicas = {r1, r2}
    Lookups = {l1, l2}
    Changes = {c1, c2, c3}
    ReplicaOf <- MCReplicaOf
    Releases = {1, 2}
    Files = {"f", "g"}
    Keys <- MCKeys
    Targets <- MCTargets
    NoMap = NoMap
    SizeOf <- Sizes
    Unparsable = {c3}
    MaxBytes = 3
    MaxEntries = 2
    MissingBytes = 1
    CallsMayFail = TRUE
SYMMETRY MCSymmetry
INVARIANTS NoStaleMap RowHasObject CacheAccounts

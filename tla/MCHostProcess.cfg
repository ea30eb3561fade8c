SPECIFICATION HostProcessSpec
CONSTANTS
    Processes = {p1, p2}
    None = None
    MaxAttempts = 2
    Hosts = {p1, p2}
    Plans <- MCPlans
    Policies <- MCPolicies
    Worlds <- MCWorlds
    LockFiles <- MCLockFiles
    Databases <- MCDatabases
    MaxOperations = 2
INVARIANTS
    StoreHasItsOwner
    ReadinessIsTrue
    ExitCodeIsHonest
    StatusIsTrue
PROPERTIES
    ProcessSettles
    ImplementsDurableHost
    StoreIsHeldAndGivenBack
CHECK_DEADLOCK FALSE

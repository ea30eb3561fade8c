SPECIFICATION ProviderCallsSpec
CONSTANTS
    None = None
    Nothing = Nothing
    c1 = c1
    c2 = c2
    k1 = k1
    i1 = i1
    i2 = i2
    u1 = u1
    Calls = {c1, c2}
    Connections = {k1}
    Approvals = {a1}
    Approvers = {u1}
    OfferedRequests <- MCToolRequests
    Bindings <- MCBindings
    StartRequests <- MCStartRequests
    Lines <- MCLines
    Launches <- MCLaunches
    MaxQueue = 1
INVARIANT UncertainWriteIsReported
CHECK_DEADLOCK FALSE

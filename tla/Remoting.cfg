SPECIFICATION CallerSpec
CONSTANTS
    send = send
    query = query
    unregister = unregister
    b1 = b1
    Addrs = {b1}
    Calls = {send, query, unregister}
    Kind <- MCKind
    Addr <- MCAddr
    HasBody = {send}
    MaxTransports = 2
INVARIANTS
    RefsExact
PROPERTIES
    AbstractSpec
    CallsReturn
CHECK_DEADLOCK FALSE

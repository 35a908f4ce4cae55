SPECIFICATION SpecBoth
CONSTANTS
    Topics <- ConsumerTopics
    b1 = b1
    b2 = b2
    Existing <- ConsumerRoutes
    Brokers = {b1, b2}
    Down = {b2}
    None = None
    NoRoute = NoRoute
    MaxChanges = 1
    MaxOthers = 1
    Clients <- TheClients
    Kind <- KindOf
    Group <- GroupOf
    Misconfigured = {"pull"}
    MaxFactories = 3
    MaxConsumed = 1
    MaxFaults = 1
INVARIANTS AddressesComplete RunningIsServed FactoryThreads StoredOnShutdown
PROPERTIES  HeartbeatsReached
CHECK_DEADLOCK FALSE

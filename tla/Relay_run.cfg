\* One request over two connections, with everything that may go wrong.
SPECIFICATION FairSpec
CONSTANTS
    q1 = q1
    Requests = {q1}
    Bodies <- MCBodies
    NoRequest = NoRequest
    MaxBody = 1
    MaxReply = 1
    MaxConnections = 2
    MaxReconfigs = 1
INVARIANTS
    RefusalsAreOfCutRequests
PROPERTIES
    ImplementsExchange
    RequestsEnd
    LocalWorkStops
CHECK_DEADLOCK FALSE

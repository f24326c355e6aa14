\* Publication and resolution of models, and the route of an execution.
CONSTANTS
    None = None
    MaxModels = 2
    Credentials <- MCCredentials
    HostProxies = {"blank", "none", "https"}
    EnvProxies <- MCEnvProxies
    PaidLists <- MCPaidLists
    Muse <- MCMuse
    Requests <- MCRequests
SPECIFICATION Spec
INVARIANTS
    PublishedResolves
    RouteFollowsPrecedence

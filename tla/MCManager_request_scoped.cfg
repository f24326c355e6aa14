\* A fingerprinted request that presents no identity.
CONSTANTS
    None = None
    chat = chat
    alias = alias
    zen = zen
    native = native
    other = other
    conv = conv
    ses = ses
    req = req
    xSession = xSession
    xSource = xSource
    xSessionId = xSessionId
    xUA = xUA
    xUA2 = xUA2
    Models <- MCModels
    Segments <- MCModels
    LastSegment <- MCLastSegment
    Auths = {zen, native, other}
    NativeAuths = {native}
    HeaderNames <- MCHeaderNames
    SessionIDHeader = xSessionId
    Identities = {conv, ses}
    OpenCodeShaped = {ses}
    RequestIds = {req}
    Calls = {i1}
    Stamps = {1}
    Configs <- OnlyDefault
    DefaultConfig <- MCDefault
    InterceptRequests <- Anonymous
    ExecuteRequests = {}
    Intercepts = {i1}
    Executions = {}
    Lifecycles = {}
SPECIFICATION Spec
INVARIANTS
    RequestScopedNotSticky
CHECK_DEADLOCK FALSE
